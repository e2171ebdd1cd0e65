------------------------- MODULE ReportViewsProofs --------------------------
(***************************************************************************)
(* Proofs about ReportViews for any users and dates and any number of      *)
(* events.  A report on screen is right for one of two reasons: it came    *)
(* with the only answer the view was to get, or from a cache whose key is  *)
(* the report's own dates.  Each exception that the properties name is one *)
(* clause's condition.                                                     *)
(***************************************************************************)
EXTENDS ReportViews, TLAPS

Requests == [dates: Dates, user: Users, ver: 0 .. MaxOps, live: BOOLEAN]

Types ==
    /\ role \in Roles /\ user \in Users /\ dates \in Dates
    /\ view \in {"analytics", "payments", "none"}
    /\ due \in BOOLEAN /\ busy \in BOOLEAN /\ failed \in BOOLEAN
    /\ last \in Dates \cup {None}
    /\ reqs \in SUBSET Requests
    /\ shown \in Report \cup {None}
    /\ cache \in Cached \cup {None}
    /\ data \in 0 .. ops /\ ops \in 0 .. MaxOps
    /\ history \in [overlapped: BOOLEAN, rekeyed: BOOLEAN, crossed: BOOLEAN, raced: BOOLEAN]

\* A view that is not there has nothing, and one that has, or had, a request
\* has taken over the dates.
NoView ==
    /\ view = "none" => Live = {} /\ last = None /\ shown = None /\ ~due /\ ~busy /\ ~failed
    /\ Live # {} \/ failed \/ shown # None \/ busy => last # None

\* While no load was started or dropped during another, the view has one request
\* at most, of the dates it took over last, and it loads as long as that one is
\* in flight.
OneRequest ==
    ~history.overlapped =>
        /\ \A q, r \in Live : q = r
        /\ \A r \in Live : r.dates = last /\ busy /\ ~failed
        /\ busy => Live # {}
        /\ shown # None /\ Live = {} /\ ~failed => shown.dates = last
TookOver == view # "none" /\ ~due => last = dates

\* Reports are cached under their own dates, and will be.
KeysInv ==
    /\ history.rekeyed => history.overlapped
    /\ ~history.rekeyed =>
        /\ cache # None => cache.key = cache.report.dates
        /\ KeyedLate /\ view # "none" => \A r \in Live : r.dates = last

\* Reports are of the user's.
UserInv ==
    role # "carrier" /\ ~history.crossed =>
        /\ \A r \in reqs : r.user = user
        /\ cache # None => cache.report.user = user
        /\ shown # None => shown.user = user

\* Reports have seen the last change.
FreshInv ==
    ~history.raced =>
        /\ \A r \in reqs : r.ver = data
        /\ cache # None => cache.report.ver = data
        /\ shown # None => shown.ver = data

IInv == Types /\ NoView /\ OneRequest /\ TookOver /\ KeysInv /\ UserInv /\ FreshInv

-----------------------------------------------------------------------------
(* Lemmas *)

\* How the views and the caches of the roles differ, as far as it matters.
LEMMA HowTheyDiffer ==
    ASSUME role \in {"dispatcher", "admin", "carrier"},
           view \in {"analytics", "payments", "none"}
    PROVE  /\ view # "none" => (V.key = "current" <=> KeyedLate)
           /\ C.drops <=> role # "carrier"
BY DEF V, C, KeyedLate, Reports, Analytics, Payments, DispatcherReports, AdminReports, CarrierReports,
       DispatcherAnalytics, AdminAnalytics, CarrierAnalytics, DispatcherPayments, AdminPayments,
       CarrierPayments

\* A request whose view is no more; and requests that are such.
Orphan(r) == [r EXCEPT !.live = FALSE]
Orphans(R, S) == \A q \in R : q \in Requests /\ ~q.live /\ \E r \in S : q.user = r.user /\ q.ver = r.ver

\* It is the same but for that.
LEMMA OrphanIs ==
    ASSUME NEW r \in Requests
    PROVE  /\ Orphan(r) \in Requests /\ ~Orphan(r).live
           /\ Orphan(r).user = r.user /\ Orphan(r).ver = r.ver
BY DEF Orphan, Requests

\* When all that are left are such, no view has a request.
LEMMA OrphansOf ==
    ASSUME NEW S, S \subseteq reqs, Types, reqs' = {Orphan(r) : r \in S}
    PROVE  Orphans(reqs', reqs) /\ Live' = {}
<1>1. \A r \in reqs : r \in Requests
  BY DEF Types
<1>2. ASSUME NEW q \in reqs' PROVE q \in Requests /\ ~q.live /\ \E r \in reqs : q.user = r.user /\ q.ver = r.ver
  <2>1. PICK r \in S : q = Orphan(r)
    OBVIOUS
  <2> QED BY <1>1, <2>1, OrphanIs
<1>3. Orphans(reqs', reqs)
  BY <1>2 DEF Orphans
<1> QED BY <1>2, <1>3 DEF Live

\* What destroys a view leaves of its requests.
LEMMA AfterClose == ASSUME Types, Close PROVE Orphans(reqs', reqs) /\ Live' = {}
<1> DEFINE S == IF V.cancels THEN reqs \ Live ELSE reqs
<1>1. S \subseteq reqs
  OBVIOUS
<1>2. reqs' = {Orphan(r) : r \in S}
  BY DEF Close, Orphan
<1> HIDE DEF S
<1> QED BY <1>1, <1>2, OrphansOf

\* A load is dropped, finds a cached report, or sends a request.
Dropped == busy' = busy /\ failed' = failed /\ reqs' = reqs /\ shown' = shown /\ busy
Found(d) ==
    /\ cache # None /\ cache.key = d /\ shown' = cache.report
    /\ busy' = FALSE /\ failed' = FALSE /\ reqs' = reqs
Sent(d) ==
    /\ reqs' = reqs \cup {[dates |-> d, user |-> user, ver |-> data, live |-> TRUE]}
    /\ busy' = TRUE /\ failed' = FALSE /\ shown' = shown

\* The ways of a load.
LEMMA LoadDoes == ASSUME NEW d, Load(d) PROVE Dropped \/ Found(d) \/ Sent(d)
BY DEF Load, Dropped, Found, Sent

\* A request that is sent is one more of the view's.
LEMMA OneMore ==
    ASSUME Types, NEW d \in Dates, Sent(d)
    PROVE  \E q \in Requests :
              /\ q.dates = d /\ q.user = user /\ q.ver = data
              /\ reqs' = reqs \cup {q} /\ Live' = Live \cup {q}
<1> DEFINE q == [dates |-> d, user |-> user, ver |-> data, live |-> TRUE]
<1>1. data \in 0 .. MaxOps
  BY BoundAssumption DEF Types
<1>2. q \in Requests /\ q.dates = d /\ q.user = user /\ q.ver = data /\ q.live = TRUE
  BY <1>1 DEF Types, Requests
<1>3. reqs' = reqs \cup {q}
  BY DEF Sent
<1> HIDE DEF q
<1>4. Live' = Live \cup {q}
  BY <1>2, <1>3 DEF Live
<1> QED BY <1>2, <1>3, <1>4

-----------------------------------------------------------------------------
(* The steps *)

\* A step that neither touches the page nor the requests, and leaves the caches
\* as they are or empties them.
LEMMA CacheEmptied ==
    ASSUME IInv, UNCHANGED <<role, user, view, last, busy, failed, shown, reqs, data, history>>,
           cache' = cache \/ cache' = None, ops' = ops \/ Does,
           dates' \in Dates, due' \in BOOLEAN,
           due' \/ (due' = due /\ dates' = dates), due' => view # "none" \/ due
    PROVE  IInv'
<1>1. ops' \in 0 .. MaxOps /\ data' \in 0 .. ops'
  BY BoundAssumption DEF IInv, Types, Does
<1>2. Live' = Live
  BY DEF Live
<1>3. Types'
  BY <1>1 DEF IInv, Types
<1>4. NoView' /\ OneRequest' /\ TookOver'
  BY <1>2 DEF IInv, NoView, OneRequest, TookOver
<1>5. KeysInv' /\ UserInv' /\ FreshInv'
  BY <1>2 DEF IInv, KeysInv, UserInv, FreshInv, KeyedLate
<1> QED BY <1>3, <1>4, <1>5 DEF IInv

\* A view that is opened, or left, begins, or ends, with nothing of its own.
LEMMA PageChanges ==
    ASSUME IInv, Does, view' \in {"analytics", "payments", "none"}, due' = (view' # "none"),
           last' = None, busy' = FALSE, failed' = FALSE, shown' = None,
           Orphans(reqs', reqs), Live' = {},
           UNCHANGED <<role, user, dates, cache, data, history>>
    PROVE  IInv'
<1>1. ops' \in 0 .. MaxOps /\ data' \in 0 .. ops'
  BY BoundAssumption DEF IInv, Types, Does
<1>2. Types'
  BY <1>1 DEF IInv, Types, Orphans
<1>3. NoView' /\ OneRequest' /\ TookOver'
  BY DEF IInv, NoView, OneRequest, TookOver
<1>4. KeysInv'
  BY DEF IInv, KeysInv
<1>5. UserInv' /\ FreshInv'
  BY DEF IInv, UserInv, FreshInv, Orphans
<1> QED BY <1>2, <1>3, <1>4, <1>5 DEF IInv

\* A load, by a view that has no request in flight unless the history says so.
LEMMA LoadKeeps ==
    ASSUME IInv, NEW d \in Dates, Load(d), view # "none",
           last' = d, due' \in BOOLEAN, ~due' => d = dates,
           history' \in [overlapped: BOOLEAN, rekeyed: BOOLEAN, crossed: BOOLEAN, raced: BOOLEAN],
           history'.crossed = history.crossed, history'.raced = history.raced,
           ~history'.overlapped => ~history.overlapped /\ Live = {},
           ~history'.rekeyed => ~history.rekeyed /\ (KeyedLate => Live = {} \/ d = last),
           history'.rekeyed => history'.overlapped,
           UNCHANGED <<role, user, view, dates, cache, data>>, ops' = ops \/ Does
    PROVE  IInv'
<1>1. ops' \in 0 .. MaxOps /\ data' \in 0 .. ops'
  BY BoundAssumption DEF IInv, Types, Does
<1>2. CASE Dropped
  <2>1. Live' = Live
    BY <1>2 DEF Dropped, Live
  <2>2. Types' /\ NoView' /\ TookOver'
    BY <1>1, <1>2, <2>1, NoneAssumption DEF Dropped, IInv, Types, NoView, TookOver
  <2>3. OneRequest'
    BY <1>2, <2>1 DEF Dropped, IInv, OneRequest
  <2>4. KeysInv' /\ UserInv' /\ FreshInv'
    BY <1>2, <2>1 DEF Dropped, IInv, KeysInv, UserInv, FreshInv, KeyedLate
  <2> QED BY <2>2, <2>3, <2>4 DEF IInv
<1>3. CASE Found(d)
  <2>1. Live' = Live
    BY <1>3 DEF Found, Live
  <2>2. cache \in Cached /\ cache.report \in Report
    BY <1>3 DEF Found, IInv, Types, Cached
  <2>3. Types' /\ NoView' /\ TookOver'
    BY <1>1, <1>3, <2>1, <2>2, NoneAssumption DEF Found, IInv, Types, NoView, TookOver
  <2>4. OneRequest'
    <3>1. ~history'.overlapped => Live' = {} /\ shown'.dates = last'
      BY <1>3, <2>1 DEF Found, IInv, KeysInv
    <3> QED BY <1>3, <3>1 DEF Found, OneRequest
  <2>5. KeysInv' /\ UserInv' /\ FreshInv'
    BY <1>3, <2>1 DEF Found, IInv, KeysInv, UserInv, FreshInv, KeyedLate
  <2> QED BY <2>3, <2>4, <2>5 DEF IInv
<1>4. CASE Sent(d)
  <2>1. PICK q \in Requests : /\ q.dates = d /\ q.user = user /\ q.ver = data
                             /\ reqs' = reqs \cup {q} /\ Live' = Live \cup {q}
    BY <1>4, OneMore DEF IInv
  <2>2. busy' = TRUE /\ failed' = FALSE /\ shown' = shown
    BY <1>4 DEF Sent
  <2>3. Types' /\ NoView' /\ TookOver'
    BY <1>1, <2>1, <2>2, NoneAssumption DEF IInv, Types, NoView, TookOver
  <2>4. OneRequest'
    BY <2>1, <2>2 DEF OneRequest
  <2>5. KeysInv' /\ UserInv' /\ FreshInv'
    BY <2>1, <2>2 DEF IInv, KeysInv, UserInv, FreshInv, KeyedLate
  <2> QED BY <2>3, <2>4, <2>5 DEF IInv
<1> QED BY <1>2, <1>3, <1>4, LoadDoes

\* The debounce ends: dates that the view has already change nothing, others
\* start a load, and the history notes what it ran into.
LEMMA DebounceKeeps == ASSUME IInv, Debounce PROVE IInv'
<1>1. /\ due /\ due' = FALSE /\ view # "none" /\ dates \in Dates /\ Types
      /\ UNCHANGED <<role, user, view, dates, cache, data, ops>>
  BY DEF Debounce, IInv, Types, NoView
<1>2. CASE dates = last
  <2>1. UNCHANGED <<last, busy, failed, reqs, shown, history>>
    BY <1>2 DEF Debounce
  <2>2. Live' = Live
    BY <2>1 DEF Live
  <2>3. Types' /\ NoView' /\ OneRequest' /\ TookOver'
    BY <1>1, <1>2, <2>1, <2>2 DEF IInv, Types, NoView, OneRequest, TookOver
  <2>4. KeysInv' /\ UserInv' /\ FreshInv'
    BY <1>1, <2>1, <2>2 DEF IInv, KeysInv, UserInv, FreshInv, KeyedLate
  <2> QED BY <2>3, <2>4 DEF IInv
<1>3. CASE dates # last
  <2> DEFINE over == history.overlapped \/ Live # {}
             rekey == history.rekeyed \/ (Live # {} /\ KeyedLate)
  <2>1. /\ last' = dates /\ Load(dates)
        /\ history' = [history EXCEPT !.overlapped = over, !.rekeyed = rekey]
    BY <1>3 DEF Debounce
  <2>2. over \in BOOLEAN /\ rekey \in BOOLEAN /\ (rekey => over)
    BY <1>1 DEF IInv, KeysInv, Types, KeyedLate
  <2>3. /\ ~over => ~history.overlapped /\ Live = {}
        /\ ~rekey => ~history.rekeyed /\ (KeyedLate => Live = {})
    OBVIOUS
  <2> HIDE DEF over, rekey
  <2>4. /\ history' \in [overlapped: BOOLEAN, rekeyed: BOOLEAN, crossed: BOOLEAN, raced: BOOLEAN]
        /\ history'.overlapped = over /\ history'.rekeyed = rekey
        /\ history'.crossed = history.crossed /\ history'.raced = history.raced
    BY <1>1, <2>1, <2>2 DEF Types
  <2> QED BY <1>1, <2>1, <2>2, <2>3, <2>4, LoadKeeps
<1> QED BY <1>2, <1>3

\* Try Again: the view failed, so it has no request in flight unless two
\* overlapped, and it asks for the dates that it had.
LEMMA RefreshKeeps == ASSUME IInv, Refresh PROVE IInv'
<1>1. /\ view = "analytics" /\ failed /\ Load(last) /\ Does
      /\ UNCHANGED <<role, user, view, due, last, dates, cache, data, history>>
  BY DEF Refresh
<1>2. last \in Dates /\ Types
  BY <1>1 DEF IInv, Types, NoView
<1>3. /\ ~due => last = dates
      /\ ~history.overlapped => Live = {}
      /\ history.rekeyed => history.overlapped
  BY <1>1 DEF IInv, TookOver, OneRequest, KeysInv
<1>4. /\ due' \in BOOLEAN
      /\ history' \in [overlapped: BOOLEAN, rekeyed: BOOLEAN, crossed: BOOLEAN, raced: BOOLEAN]
  BY <1>1, <1>2 DEF Types
<1> QED BY <1>1, <1>2, <1>3, <1>4, LoadKeeps

\* An answer: it is cached under its own dates by a view that remembers them,
\* and by one that does not if its dates are still those of the request.
LEMMA AnsweredKeeps ==
    ASSUME IInv, NEW r \in reqs, NEW v \in 0 .. MaxOps, Answered(r, v)
    PROVE  IInv'
<1> DEFINE report == [dates |-> r.dates, user |-> r.user, ver |-> v]
           key == IF r.live /\ V.key = "current" THEN last ELSE r.dates
<1>1. /\ v \in r.ver .. data
      /\ cache' = [key |-> key, report |-> report]
      /\ IF r.live THEN shown' = report /\ busy' = FALSE ELSE shown' = shown /\ busy' = busy
      /\ reqs' = reqs \ {r}
      /\ UNCHANGED <<role, user, view, due, last, failed, dates, data, history, ops>>
  BY DEF Answered
<1>2. /\ Types /\ r \in Requests /\ r.dates \in Dates /\ r.user \in Users /\ r.ver \in Nat
      /\ data \in Nat
  BY BoundAssumption DEF IInv, Types, Requests
<1>3. r.live => r \in Live /\ view # "none" /\ last \in Dates
  BY <1>2 DEF Live, IInv, NoView, Types
<1>4. /\ report \in Report /\ report.dates = r.dates /\ report.user = r.user /\ report.ver = v
      /\ report # None
  BY <1>2, NoneAssumption DEF Report
<1>5. /\ key \in Dates
      /\ ~history.rekeyed => key = r.dates
  <2>1. CASE r.live /\ V.key = "current"
    <3>1. KeyedLate
      BY <1>2, <1>3, <2>1, RolesAssumption, HowTheyDiffer DEF Types
    <3> QED BY <1>3, <2>1, <3>1 DEF IInv, KeysInv
  <2>2. CASE ~(r.live /\ V.key = "current")
    BY <1>2, <2>2
  <2> QED BY <2>1, <2>2
<1> HIDE DEF report, key
<1>6. cache' \in Cached /\ cache'.key = key /\ cache'.report = report
  BY <1>1, <1>4, <1>5 DEF Cached
<1>7. Live' = Live \ {r}
  BY <1>1 DEF Live
<1>8. Types' /\ NoView' /\ TookOver'
  BY <1>1, <1>2, <1>3, <1>4, <1>6, <1>7, NoneAssumption DEF IInv, Types, NoView, TookOver
<1>9. OneRequest'
  <2>1. CASE r.live
    BY <1>1, <1>3, <1>4, <1>7, <2>1 DEF IInv, OneRequest
  <2>2. CASE ~r.live
    <3>1. Live' = Live
      BY <1>7, <2>2 DEF Live
    <3> QED BY <1>1, <2>2, <3>1 DEF IInv, OneRequest
  <2> QED BY <2>1, <2>2
<1>10. KeysInv'
  BY <1>1, <1>4, <1>5, <1>6, <1>7 DEF IInv, KeysInv, KeyedLate
<1>11. UserInv'
  BY <1>1, <1>4, <1>6 DEF IInv, UserInv
<1>12. FreshInv'
  <2>1. r.ver = data => v = data
    BY <1>1, <1>2
  <2> QED BY <1>1, <1>4, <1>6, <2>1 DEF IInv, FreshInv
<1> QED BY <1>8, <1>9, <1>10, <1>11, <1>12 DEF IInv

\* A failure takes the dispatcher's page away; the other views offer another try.
LEMMA FailedKeeps ==
    ASSUME IInv, NEW r \in reqs, Failed(r)
    PROVE  IInv'
<1>1. Does /\ UNCHANGED <<role, user, dates, cache, data, history>> /\ Types
  BY DEF Failed, IInv
<1>2. CASE role = "dispatcher"
  <2> DEFINE S == (IF V.cancels THEN reqs \ Live ELSE reqs) \ {r}
  <2>1. S \subseteq reqs
    OBVIOUS
  <2>2. Gone /\ reqs' = {Orphan(q) : q \in S}
    BY <1>2 DEF Failed, Orphan
  <2> HIDE DEF S
  <2>3. Orphans(reqs', reqs) /\ Live' = {}
    BY <1>1, <2>1, <2>2, OrphansOf
  <2> QED BY <1>1, <2>2, <2>3, PageChanges DEF Gone
<1>3. CASE role # "dispatcher"
  <2>1. /\ failed' = (failed \/ r.live) /\ busy' = (busy /\ ~r.live) /\ reqs' = reqs \ {r}
        /\ UNCHANGED <<view, due, last, shown>>
    BY <1>3 DEF Failed
  <2>2. r \in Requests /\ r.live \in BOOLEAN /\ busy \in BOOLEAN /\ failed \in BOOLEAN
    BY <1>1 DEF Types, Requests
  <2>3. /\ failed' \in BOOLEAN /\ busy' \in BOOLEAN
        /\ failed' <=> failed \/ r.live
        /\ busy' <=> busy /\ ~r.live
    BY <2>1, <2>2, Zenon
  <2>4. ops' \in 0 .. MaxOps /\ data' \in 0 .. ops'
    BY <1>1, BoundAssumption DEF Types, Does
  <2>5. Live' = Live \ {r} /\ (r.live <=> r \in Live)
    BY <2>1 DEF Live
  <2>6. Types'
    BY <1>1, <2>1, <2>3, <2>4 DEF Types
  <2>7. NoView' /\ TookOver'
    BY <1>1, <2>1, <2>3, <2>5 DEF IInv, NoView, TookOver
  <2>8. OneRequest'
    BY <1>1, <2>1, <2>3, <2>5 DEF IInv, OneRequest
  <2>9. KeysInv' /\ UserInv' /\ FreshInv'
    BY <1>1, <2>1, <2>5 DEF IInv, KeysInv, UserInv, FreshInv, KeyedLate
  <2> QED BY <2>6, <2>7, <2>8, <2>9 DEF IInv
<1> QED BY <1>2, <1>3

\* The answer that the order table got fills the caches, under its own dates.
LEMMA TableAnsweredKeeps ==
    ASSUME IInv, NEW d \in Dates, TableAnswered(d)
    PROVE  IInv'
<1> DEFINE report == [dates |-> d, user |-> user, ver |-> data]
<1>1. /\ Does /\ cache' = [key |-> d, report |-> report] /\ Types
      /\ UNCHANGED <<role, user, view, due, last, busy, failed, shown, dates, reqs, data, history>>
  BY DEF TableAnswered, page, IInv
<1>2. /\ ops' \in 0 .. MaxOps /\ data' \in 0 .. ops' /\ data \in 0 .. MaxOps
  BY <1>1, BoundAssumption DEF Types, Does
<1>3. report \in Report /\ report.dates = d /\ report.user = user /\ report.ver = data
  BY <1>1, <1>2 DEF Types, Report
<1> HIDE DEF report
<1>4. cache' \in Cached /\ cache'.key = d /\ cache'.report = report
  BY <1>1, <1>3 DEF Cached
<1>5. Live' = Live
  BY <1>1 DEF Live
<1>6. Types' /\ NoView' /\ OneRequest' /\ TookOver'
  BY <1>1, <1>2, <1>4, <1>5 DEF IInv, Types, NoView, OneRequest, TookOver
<1>7. KeysInv' /\ UserInv' /\ FreshInv'
  BY <1>1, <1>3, <1>4, <1>5 DEF IInv, KeysInv, UserInv, FreshInv, KeyedLate
<1> QED BY <1>6, <1>7 DEF IInv

\* A change of the orders empties the caches; only requests in flight are behind.
LEMMA EditKeeps == ASSUME IInv, Edit PROVE IInv'
<1>1. /\ Does /\ view = "none" /\ data' = data + 1 /\ cache' = None /\ Types
      /\ history' = [history EXCEPT !.raced = (reqs # {})]
      /\ UNCHANGED <<role, user, view, due, last, busy, failed, shown, dates, reqs>>
  BY DEF Edit, page, IInv
<1>2. ops' \in 0 .. MaxOps /\ data' \in 0 .. ops'
  BY <1>1, BoundAssumption DEF Types, Does
<1>3. (reqs # {}) \in BOOLEAN
  OBVIOUS
<1>4. /\ history' \in [overlapped: BOOLEAN, rekeyed: BOOLEAN, crossed: BOOLEAN, raced: BOOLEAN]
      /\ history'.overlapped = history.overlapped /\ history'.rekeyed = history.rekeyed
      /\ history'.crossed = history.crossed
      /\ ~history'.raced => reqs = {}
  BY <1>1, <1>3 DEF Types
<1>5. Live' = Live
  BY <1>1 DEF Live
<1>6. Types' /\ NoView' /\ OneRequest' /\ TookOver'
  BY <1>1, <1>2, <1>4, <1>5 DEF IInv, Types, NoView, OneRequest, TookOver
<1>7. KeysInv' /\ UserInv' /\ FreshInv'
  BY <1>1, <1>4, <1>5 DEF IInv, KeysInv, UserInv, FreshInv, KeyedLate, NoView
<1> QED BY <1>6, <1>7 DEF IInv

\* Another user in the same tab finds no caches but the carrier's, and no page;
\* what is still in flight is noted.
LEMMA ChangeUserKeeps ==
    ASSUME IInv, NEW u \in Users, ChangeUser(u)
    PROVE  IInv'
<1>1. /\ Does /\ user' = u /\ Gone /\ Close /\ Types
      /\ cache' = IF C.drops THEN None ELSE cache
      /\ history' = [history EXCEPT !.crossed = history.crossed \/ reqs' # {}]
      /\ role' = role /\ dates' = dates /\ data' = data
  BY DEF ChangeUser, IInv
<1>2. Orphans(reqs', reqs) /\ Live' = {}
  BY <1>1, AfterClose
<1>3. ops' \in 0 .. MaxOps /\ data' \in 0 .. ops'
  BY <1>1, BoundAssumption DEF Types, Does
<1> DEFINE cross == history.crossed \/ reqs' # {}
<1>4. cross \in BOOLEAN /\ (~cross => reqs' = {}) /\ history' = [history EXCEPT !.crossed = cross]
  BY <1>1 DEF Types
<1> HIDE DEF cross
<1>5. /\ history' \in [overlapped: BOOLEAN, rekeyed: BOOLEAN, crossed: BOOLEAN, raced: BOOLEAN]
      /\ history'.overlapped = history.overlapped /\ history'.rekeyed = history.rekeyed
      /\ history'.raced = history.raced
      /\ ~history'.crossed => reqs' = {}
  BY <1>1, <1>4 DEF Types
<1>6. role # "carrier" => cache' = None
  BY <1>1, RolesAssumption, HowTheyDiffer DEF Types
<1>7. cache' = None \/ cache' = cache
  BY <1>1
<1>8. /\ view' = "none" /\ due' = FALSE /\ last' = None /\ busy' = FALSE /\ failed' = FALSE
      /\ shown' = None
  BY <1>1 DEF Gone
<1>9. Types' /\ NoView' /\ OneRequest' /\ TookOver'
  BY <1>1, <1>2, <1>3, <1>5, <1>7, <1>8 DEF IInv, Types, NoView, OneRequest, TookOver, Orphans
<1>10. KeysInv' /\ FreshInv'
  BY <1>1, <1>2, <1>5, <1>7, <1>8 DEF IInv, KeysInv, FreshInv, Orphans
<1>11. UserInv'
  BY <1>1, <1>5, <1>6, <1>8 DEF UserInv
<1> QED BY <1>9, <1>10, <1>11 DEF IInv

-----------------------------------------------------------------------------
(* The theorems *)

\* The invariant holds on a dashboard that just opened and is kept by every
\* event of it.
THEOREM ViewsInductive == Spec => []IInv
<1>1. Init => IInv
  <2> SUFFICES ASSUME Init PROVE IInv
    OBVIOUS
  <2>1. Live = {}
    BY DEF Init, Live
  <2>2. Types
    <3>1. history \in [overlapped: BOOLEAN, rekeyed: BOOLEAN, crossed: BOOLEAN, raced: BOOLEAN]
      BY DEF Init
    <3>2. due \in BOOLEAN /\ busy \in BOOLEAN /\ failed \in BOOLEAN
      BY DEF Init
    <3>3. data \in 0 .. ops /\ ops \in 0 .. MaxOps
      BY BoundAssumption DEF Init
    <3> QED BY <3>1, <3>2, <3>3 DEF Init, Types
  <2>3. NoView /\ OneRequest /\ TookOver
    BY <2>1 DEF Init, NoView, OneRequest, TookOver
  <2>4. KeysInv /\ UserInv /\ FreshInv
    BY <2>1 DEF Init, KeysInv, UserInv, FreshInv
  <2> QED BY <2>2, <2>3, <2>4 DEF IInv
<1>2. IInv /\ [Next]_vars => IInv'
  <2> SUFFICES ASSUME IInv, [Next]_vars PROVE IInv'
    OBVIOUS
  <2>1. ASSUME NEW v \in {"analytics", "payments"}, Open(v) PROVE IInv'
    <3>1. Orphans(reqs', reqs) /\ Live' = {}
      BY <2>1, AfterClose DEF IInv, Open
    <3> QED BY <2>1, <3>1, PageChanges DEF Open
  <2>2. CASE Leave
    <3>1. Orphans(reqs', reqs) /\ Live' = {}
      BY <2>2, AfterClose DEF IInv, Leave
    <3> QED BY <2>2, <3>1, PageChanges DEF Leave, Gone
  <2>3. ASSUME NEW d \in Dates, SetDates(d) PROVE IInv'
    <3>1. /\ Does /\ dates' \in Dates /\ due' \in BOOLEAN /\ due' /\ view # "none"
          /\ UNCHANGED <<role, user, view, last, busy, failed, shown, reqs, data, history>>
          /\ cache' = cache \/ cache' = None
      BY <2>3 DEF SetDates
    <3> QED BY <3>1, CacheEmptied
  <2>4. CASE FiveMinutes
    <3>1. dates \in Dates /\ due \in BOOLEAN
      BY DEF IInv, Types
    <3> QED BY <2>4, <3>1, CacheEmptied DEF FiveMinutes, page
  <2>5. CASE UNCHANGED vars
    <3>1. dates \in Dates /\ due \in BOOLEAN
      BY DEF IInv, Types
    <3> QED BY <2>5, <3>1, CacheEmptied DEF vars, page
  <2> QED BY <2>1, <2>2, <2>3, <2>4, <2>5, DebounceKeeps, AnsweredKeeps, FailedKeeps,
             TableAnsweredKeeps, RefreshKeeps, EditKeeps, ChangeUserKeeps DEF Next
<1> QED BY <1>1, <1>2, PTL DEF Spec

\* What a view shows, and what is cached, is a report of the right dates, of the
\* right user and up to date, each but for the named cases.
THEOREM ReportsAreRight == Spec => []ReportIsRight
<1>1. IInv => ReportIsRight
  <2> SUFFICES ASSUME IInv PROVE ReportIsRight
    OBVIOUS
  <2>1. TypeOK
    BY DEF IInv, Types, NoView, TypeOK
  <2>2. RightReport
    BY DEF IInv, OneRequest, TookOver, RightReport, Quiet
  <2>3. RightKey /\ OwnReport /\ ReportIsFresh
    BY DEF IInv, KeysInv, UserInv, FreshInv, RightKey, OwnReport, ReportIsFresh, Quiet
  <2> QED BY <2>1, <2>2, <2>3 DEF ReportIsRight
<1> QED BY <1>1, ViewsInductive, PTL

=============================================================================
