----------------------------- MODULE ReportViews ----------------------------
(***************************************************************************)
(* The analytics view and the payments view, which take the place of the   *)
(* order table on a dashboard: for dispatchers, admins and carriers.  A    *)
(* view follows the date card after a debounce, is filled from a cache or  *)
(* by one request, and the answer of either fills the caches of both.      *)
(* Unlike the table, a view does not cancel its request when the dates     *)
(* change: two may be in flight, or the change is dropped.                 *)
(***************************************************************************)
EXTENDS Naturals, FiniteSets

CONSTANTS Roles, Users, Dates, MaxOps, None

ASSUME BoundAssumption == MaxOps \in Nat
ASSUME RolesAssumption == Roles \subseteq {"dispatcher", "admin", "carrier"}

\* What the six views do differently.
\*   guarded   a load is dropped while another runs
\*   key       an answer is cached under the dates of its request or under
\*             those that the view has by now
\*   cancels   the view's request ends with the view
DispatcherAnalytics == [guarded |-> FALSE, key |-> "current", cancels |-> TRUE]
AdminAnalytics == [guarded |-> TRUE, key |-> "current", cancels |-> TRUE]
CarrierAnalytics == [guarded |-> TRUE, key |-> "current", cancels |-> TRUE]
\* Mutated form: the answer is cached under the view's dates.
DispatcherPayments_KeyedLate == [guarded |-> FALSE, key |-> "current", cancels |-> FALSE]
DispatcherPayments == [guarded |-> FALSE, key |-> "request", cancels |-> FALSE]
AdminPayments == [guarded |-> FALSE, key |-> "current", cancels |-> TRUE]
CarrierPayments == [guarded |-> FALSE, key |-> "request", cancels |-> FALSE]

\* What the reports' caches do differently.
\*   drops      new filters and a logout empty them
\*   expires    a report is used for five minutes
DispatcherReports == [drops |-> TRUE, expires |-> FALSE]
AdminReports == [drops |-> TRUE, expires |-> FALSE]
CarrierReports == [drops |-> FALSE, expires |-> TRUE]

Reports == [dispatcher |-> DispatcherReports, admin |-> AdminReports,
            carrier |-> CarrierReports]
Analytics == [dispatcher |-> DispatcherAnalytics, admin |-> AdminAnalytics,
              carrier |-> CarrierAnalytics]
Payments == [dispatcher |-> DispatcherPayments, admin |-> AdminPayments,
             carrier |-> CarrierPayments]

VARIABLES
    role, user,
    view,       \* "analytics", "payments", or "none": another page or an error screen
    dates,      \* of the date card's filter service
    due,        \* the debounce runs
    last,       \* the dates the view has taken over, or None
    busy,       \* its loading flag
    failed,     \* it offers to try again
    reqs,       \* requests in flight; live: the view that sent it is there
    shown,      \* the report in the view, or None
    cache,      \* analyticsCache and paymentCache, written together, or None
    data,       \* changes of the orders
    history,    \* overlapped, rekeyed, crossed, raced: see the properties
    ops

page == <<view, due, last, busy, failed, shown>>
vars == <<role, user, page, dates, reqs, cache, data, history, ops>>

C == Reports[role]
V == IF view = "analytics" THEN Analytics[role] ELSE Payments[role]
Report == [dates: Dates, user: Users, ver: 0..MaxOps]
Cached == [key: Dates, report: Report]
ASSUME NoneAssumption == None \notin Dates \cup Report \cup Cached

Live == {r \in reqs : r.live}
Quiet == view # "none" /\ ~due /\ Live = {}

\* The views that may cache an answer under other dates than its own.
KeyedLate == view = "analytics" \/ role = "admin"

Init ==
    /\ role \in Roles /\ user \in Users /\ dates \in Dates
    /\ view = "none" /\ due = FALSE /\ last = None
    /\ busy = FALSE /\ failed = FALSE /\ shown = None
    /\ reqs = {} /\ cache = None /\ data = 0 /\ ops = 0
    /\ history = [overlapped |-> FALSE, rekeyed |-> FALSE, crossed |-> FALSE, raced |-> FALSE]

Does == ops < MaxOps /\ ops' = ops + 1

\* Mutated form: the view's request goes on as if it were there.
Close_KeepsRequests == reqs' = reqs

\* The view is destroyed, with its request or without.
Close ==
    reqs' = {[r EXCEPT !.live = FALSE] :
               r \in IF V.cancels THEN reqs \ Live ELSE reqs}

\* Mutated form: the loading flag outlives the view.
Open_StillBusy(v) ==
    /\ Does /\ view # v
    /\ view' = v /\ due' = TRUE /\ last' = None
    /\ failed' = FALSE /\ shown' = None
    /\ Close
    /\ UNCHANGED <<role, user, dates, busy, cache, data, history>>

\* A view is created and subscribes to the filters.
Open(v) ==
    /\ Does /\ view # v
    /\ view' = v /\ due' = TRUE /\ last' = None
    /\ busy' = FALSE /\ failed' = FALSE /\ shown' = None
    /\ Close
    /\ UNCHANGED <<role, user, dates, cache, data, history>>

Gone == view' = "none" /\ due' = FALSE /\ last' = None /\ busy' = FALSE
        /\ failed' = FALSE /\ shown' = None

Leave ==
    /\ Does /\ view # "none"
    /\ Gone /\ Close
    /\ UNCHANGED <<role, user, dates, cache, data, history>>

\* The date card.  New filters empty the caches, but not the carrier's.
SetDates(d) ==
    /\ Does /\ view # "none"
    /\ dates' = d /\ due' = TRUE
    /\ cache' = IF C.drops THEN None ELSE cache
    /\ UNCHANGED <<role, user, view, last, busy, failed, reqs, shown, data, history>>

\* Mutated form: any cached report will do.
Load_AnyCached(d) ==
    IF V.guarded /\ busy THEN UNCHANGED <<busy, failed, reqs, shown>>
    ELSE IF cache # None
    THEN /\ shown' = cache.report /\ busy' = FALSE /\ failed' = FALSE
         /\ UNCHANGED reqs
    ELSE /\ reqs' = reqs \cup {[dates |-> d, user |-> user, ver |-> data, live |-> TRUE]}
         /\ busy' = TRUE /\ failed' = FALSE
         /\ UNCHANGED shown

\* loadAllAnalytics, loadAnalytics, loadReport.
Load(d) ==
    IF V.guarded /\ busy THEN UNCHANGED <<busy, failed, reqs, shown>>
    ELSE IF cache # None /\ cache.key = d
    THEN /\ shown' = cache.report /\ busy' = FALSE /\ failed' = FALSE
         /\ UNCHANGED reqs
    ELSE /\ reqs' = reqs \cup {[dates |-> d, user |-> user, ver |-> data, live |-> TRUE]}
         /\ busy' = TRUE /\ failed' = FALSE
         /\ UNCHANGED shown

Debounce ==
    /\ due /\ due' = FALSE
    /\ IF dates = last THEN UNCHANGED <<last, busy, failed, reqs, shown, history>>
       ELSE /\ last' = dates
            /\ Load(dates)
            /\ history' = [history EXCEPT !.overlapped = @ \/ Live # {},
                                          !.rekeyed = @ \/ (Live # {} /\ KeyedLate)]
    /\ UNCHANGED <<role, user, view, dates, cache, data, ops>>

\* An answer.  It goes to the view that asked, and to the caches even if that
\* view is no more.
Answered(r, v) ==
    /\ v \in r.ver..data
    /\ LET report == [dates |-> r.dates, user |-> r.user, ver |-> v]
       IN  /\ cache' = [key |-> IF r.live /\ V.key = "current" THEN last ELSE r.dates,
                        report |-> report]
           /\ IF r.live THEN shown' = report /\ busy' = FALSE
              ELSE UNCHANGED <<shown, busy>>
    /\ reqs' = reqs \ {r}
    /\ UNCHANGED <<role, user, view, due, last, failed, dates, data, history, ops>>

\* The order table is back, and its answer for page 0 fills the caches too, under
\* its dates.  (It cancels its request when it goes.)
TableAnswered(d) ==
    /\ Does /\ view = "none"
    /\ cache' = [key |-> d, report |-> [dates |-> d, user |-> user, ver |-> data]]
    /\ UNCHANGED <<role, user, page, dates, reqs, data, history>>

\* A request fails.  The dispatcher gets the dashboard's error screen.
Failed(r) ==
    /\ Does
    /\ IF role = "dispatcher"
       THEN /\ Gone
            /\ reqs' = {[q EXCEPT !.live = FALSE] :
                          q \in (IF V.cancels THEN reqs \ Live ELSE reqs) \ {r}}
       ELSE /\ failed' = (failed \/ r.live)
            /\ busy' = (busy /\ ~r.live)
            /\ reqs' = reqs \ {r}
            /\ UNCHANGED <<view, due, last, shown>>
    /\ UNCHANGED <<role, user, dates, cache, data, history>>

\* Try Again, in the analytics of the admin and of the carrier.
Refresh ==
    /\ Does /\ view = "analytics" /\ failed
    /\ Load(last)
    /\ UNCHANGED <<role, user, view, due, last, dates, cache, data, history>>

\* Mutated form: the caches are kept.
Edit_KeepsCache ==
    /\ Does /\ view = "none"
    /\ data' = data + 1
    /\ history' = [history EXCEPT !.raced = reqs # {}]
    /\ UNCHANGED <<role, user, page, dates, reqs, cache>>

\* The user changes an order on another page, which empties the caches.
Edit ==
    /\ Does /\ view = "none"
    /\ data' = data + 1
    /\ cache' = None
    /\ history' = [history EXCEPT !.raced = reqs # {}]
    /\ UNCHANGED <<role, user, page, dates, reqs>>

\* The cached report is five minutes old.
FiveMinutes ==
    /\ cache # None /\ C.expires
    /\ cache' = None
    /\ UNCHANGED <<role, user, page, dates, reqs, data, history, ops>>

\* Mutated form: the caches survive the logout.
ChangeUser_KeepsCache(u) ==
    /\ Does /\ u # user
    /\ user' = u
    /\ Gone /\ Close
    /\ history' = [history EXCEPT !.crossed = @ \/ reqs' # {}]
    /\ UNCHANGED <<role, dates, cache, data>>

\* A logout, then a login in the same tab.  The filter services keep the
\* dates; CarrierFilterService keeps the caches too.
ChangeUser(u) ==
    /\ Does /\ u # user
    /\ user' = u
    /\ Gone /\ Close
    /\ cache' = IF C.drops THEN None ELSE cache
    /\ history' = [history EXCEPT !.crossed = @ \/ reqs' # {}]
    /\ UNCHANGED <<role, dates, data>>

Next ==
    \/ \E v \in {"analytics", "payments"} : Open(v)
    \/ Leave
    \/ \E d \in Dates : SetDates(d)
    \/ Debounce
    \/ \E r \in reqs, v \in 0..MaxOps : Answered(r, v)
    \/ \E r \in reqs : Failed(r)
    \/ \E d \in Dates : TableAnswered(d)
    \/ Refresh \/ Edit \/ FiveMinutes
    \/ \E u \in Users : ChangeUser(u)

\* The debounce ends, and a view's request is answered in the end.
Spec ==
    /\ Init /\ [][Next]_vars
    /\ WF_vars(Debounce)
    /\ WF_vars(\E r \in Live, v \in 0..MaxOps : Answered(r, v))

-----------------------------------------------------------------------------

TypeOK ==
    /\ role \in Roles /\ user \in Users /\ dates \in Dates
    /\ view \in {"analytics", "payments", "none"}
    /\ last \in Dates \cup {None}
    /\ shown \in Report \cup {None}
    /\ cache \in Cached \cup {None}
    /\ view = "none" => ~due /\ last = None /\ Live = {} /\ shown = None

\* A view at rest shows a report of the card's dates, unless its request
\* failed, or a load was once started or dropped while another ran: then the
\* last answer wins, or the only one.
RightReport ==
    Quiet /\ shown # None /\ ~failed /\ ~history.overlapped => shown.dates = dates

\* A report is cached under its own dates, also when answers overlap; except
\* for views that cache under the dates they have by then.
RightKey == cache # None /\ ~history.rekeyed => cache.key = cache.report.dates

\* A user never sees a report of the user before.  The carrier may, from the
\* caches; the dispatcher, if the payments view of the user before had sent a
\* request that was answered after the logout.
OwnReport == shown # None /\ shown.user # user => role = "carrier" \/ history.crossed

\* A view at rest shows the last change of the orders, unless a request was in
\* flight at the change.
ReportIsFresh ==
    Quiet /\ shown # None /\ shown.user = user /\ ~history.raced =>
        shown.ver = data

\* What a view shows, and what is cached, is a report of the right dates, of the
\* right user and up to date.
ReportIsRight == TypeOK /\ RightReport /\ RightKey /\ OwnReport /\ ReportIsFresh

\* A view comes to show a report or a failure, or is left: neither a cancelled
\* request nor a dropped load leaves it empty for ever.
ViewShows == (view # "none") ~> (shown # None \/ failed \/ view = "none")
=============================================================================
