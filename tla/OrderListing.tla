---------------------------- MODULE OrderListing ----------------------------
(***************************************************************************)
(* Walking a user's orders page by page with getOrders, as the payment     *)
(* report does in one loop and the dashboards do click by click, while     *)
(* other requests create, delete, reassign and edit orders.                *)
(*                                                                         *)
(* The query asks one partition of one index, in descending key order.  An *)
(* order's key is set when it is created and never rewritten, so an order  *)
(* IS its place in that order here: 1 comes first.  DynamoDB answers a     *)
(* query with as many items as it likes and the key of the last one.       *)
(***************************************************************************)
EXTENDS Naturals, FiniteSets

CONSTANTS
    N,          \* orders are 1..N, by their place in the index
    PageSize,   \* filters.limit, or 10
    MaxChanges  \* bound: writes of others during one walk

ASSUME SizesAssumption == N \in Nat /\ PageSize \in Nat \ {0} /\ MaxChanges \in Nat

Orders == 1..N
NoKey == 0      \* an undefined cursor: before the first item, or nothing left

VARIABLES
    part,       \* the orders in the caller's partition and date range
    match,      \* the orders whose attributes pass the filters
    phase,      \* of the walk: totals, scan, between (two pages) or done
    cursor,     \* the key the next query starts after; between pages, the token
    filled,     \* orders on the current page
    pages,      \* pages returned
    times,      \* how often each order was returned
    tally,      \* how often each order was counted into the aggregates
    kept,       \* history: orders listed and matching since the walk began
    changes

walk == <<phase, cursor, filled, pages, times, tally>>
walkVars == <<part, match, walk, kept, changes>>

\* What the index answers to a query that starts after key.
Query(key) ==
    LET rest == {o \in part : o > key}
    IN  {[items |-> rest, LastEvaluatedKey |-> NoKey]}
            \cup {[items |-> {o \in rest : o <= last}, LastEvaluatedKey |-> last] : last \in rest}

\* The n first orders of S, and the last order of S.
First(S, n) == {o \in S : Cardinality({p \in S : p <= o}) <= n}
Last(S) == CHOOSE o \in S : \A p \in S : p <= o

Plus(count, S) == [o \in Orders |-> IF o \in S THEN count[o] + 1 ELSE count[o]]

WalkInit ==
    /\ part \in SUBSET Orders
    /\ match \in SUBSET Orders
    /\ phase = "totals"
    /\ cursor = NoKey
    /\ filled = 0
    /\ pages = 0
    /\ times = [o \in Orders |-> 0]
    /\ tally = [o \in Orders |-> 0]
    /\ kept = part \cap match
    /\ changes = 0

\* Mutated form: pass 1 is a single query.
Totals_OneQuery ==
    /\ phase = "totals"
    /\ \E answer \in Query(cursor) : tally' = Plus(tally, answer.items \cap match)
    /\ cursor' = NoKey
    /\ phase' = "scan"
    /\ UNCHANGED <<part, match, filled, pages, times, kept, changes>>

\* Pass 1 of the first request: one query of the loop that counts everything.
Totals ==
    /\ phase = "totals"
    /\ \E answer \in Query(cursor) :
        /\ tally' = Plus(tally, answer.items \cap match)
        /\ cursor' = answer.LastEvaluatedKey
        /\ phase' = IF answer.LastEvaluatedKey = NoKey THEN "scan" ELSE "totals"
    /\ UNCHANGED <<part, match, filled, pages, times, kept, changes>>

\* Mutated form: the walk goes on where the query stopped, full page or not.
Resume_AfterQuery(taken, full, answer) == answer.LastEvaluatedKey

\* Mutated form: the last order of a full page is read again.
Resume_AtLastTaken(taken, full, answer) ==
    IF full THEN Last(taken) - 1 ELSE answer.LastEvaluatedKey

\* Where the walk goes on after a query: after the last order taken when the
\* page is full (buildCursorFromItem), else where the query stopped.
Resume(taken, full, answer) == IF full THEN Last(taken) ELSE answer.LastEvaluatedKey

\* Mutated form: one order too many on a page, and no end of data.
Scan_Endless ==
    /\ phase = "scan"
    /\ \E answer \in Query(cursor) :
        LET taken == First(answer.items \cap match, PageSize - filled + 1)
            full == filled + Cardinality(taken) >= PageSize
        IN  /\ times' = Plus(times, taken)
            /\ filled' = filled + Cardinality(taken)
            /\ cursor' = Resume(taken, full, answer)
            /\ phase' = IF full THEN "between" ELSE "scan"
            /\ UNCHANGED pages
    /\ UNCHANGED <<part, match, tally, kept, changes>>

\* One query of the loop of pass 2.  The page ends when it is full, which is
\* what hasMore comes down to, or when the index has nothing left.
Scan ==
    /\ phase = "scan"
    /\ \E answer \in Query(cursor) :
        LET taken == First(answer.items \cap match, PageSize - filled)
            full == filled + Cardinality(taken) = PageSize
        IN  /\ times' = Plus(times, taken)
            /\ filled' = filled + Cardinality(taken)
            /\ cursor' = Resume(taken, full, answer)
            /\ phase' = IF full THEN "between"
                        ELSE IF answer.LastEvaluatedKey = NoKey THEN "done" ELSE "scan"
            /\ pages' = IF phase' = "scan" THEN pages ELSE pages + 1
    /\ UNCHANGED <<part, match, tally, kept, changes>>

\* The caller sends the token back for the next page.
NextPage ==
    /\ phase = "between"
    /\ phase' = "scan"
    /\ filled' = 0
    /\ UNCHANGED <<part, match, cursor, pages, times, tally, kept, changes>>

Changed ==
    /\ changes < MaxChanges
    /\ changes' = changes + 1
    /\ UNCHANGED walk

\* Another request creates an order, or reassigns one to the caller.
Insert(o) ==
    /\ o \notin part
    /\ Changed
    /\ part' = part \cup {o}
    /\ UNCHANGED <<match, kept>>

\* Another request deletes an order, or reassigns it away.
Remove(o) ==
    /\ o \in part
    /\ Changed
    /\ part' = part \ {o}
    /\ kept' = kept \ {o}
    /\ UNCHANGED match

\* Another request edits an attribute the filters look at.
Edit(o) ==
    /\ Changed
    /\ match' = IF o \in match THEN match \ {o} ELSE match \cup {o}
    /\ kept' = kept \ {o}
    /\ UNCHANGED part

WalkNext ==
    \/ Totals
    \/ Scan
    \/ NextPage
    \/ \E o \in Orders : Insert(o) \/ Remove(o) \/ Edit(o)

\* The report's loop and the loops of getOrders run on until they end.
Fairness == WF_walkVars(Totals) /\ WF_walkVars(Scan) /\ WF_walkVars(NextPage)

WalkSpec == WalkInit /\ [][WalkNext]_walkVars /\ Fairness

-----------------------------------------------------------------------------
\* Sets and counters stay within the orders and the sizes.
WalkTypeOK ==
    /\ part \subseteq Orders /\ match \subseteq Orders /\ kept \subseteq Orders
    /\ phase \in {"totals", "scan", "between", "done"}
    /\ cursor \in Orders \cup {NoKey}
    /\ filled \in 0..PageSize
    /\ pages \in Nat
    /\ times \in [Orders -> Nat]
    /\ tally \in [Orders -> Nat]
    /\ changes \in 0..MaxChanges

\* No order is returned or counted twice, not even one that leaves the list,
\* comes back, or is edited while the walk passes it.
NothingTwice == \A o \in Orders : times[o] <= 1 /\ tally[o] <= 1

\* Well typed at every point of the walk, and nothing is taken twice.
OnceEach == WalkTypeOK /\ NothingTwice

\* An order that is in the list and matches from the first request to the last
\* is on exactly one of the pages, wherever page and query boundaries fall and
\* whatever happens to the orders around it, and is counted once in the
\* aggregates.
NothingSkipped ==
    /\ phase = "done" => \A o \in kept : times[o] = 1
    /\ phase # "totals" => \A o \in kept : tally[o] = 1

\* The walk ends.
WalkEnds == <>(phase = "done")
=============================================================================
