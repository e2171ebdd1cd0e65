----------------------------- MODULE Dashboard ------------------------------
(***************************************************************************)
(* The order table of one browser tab, with the date card above it.  The   *)
(* frontend has it four times: for dispatchers, admins, carriers, drivers. *)
(* Each has a state service (filters, pagination and a one-entry cache)    *)
(* and a table that subscribes to a debounced stream of the first two and  *)
(* answers each emission from the cache or with one request, which the     *)
(* next emission cancels (switchMap).  Their differences are the records   *)
(* below; the actions are one text.  The user of a run is of one role.     *)
(*                                                                         *)
(* The server is asked for a page by the token of the page before it.      *)
(* Tokens are kept in the pagination, where they are written silently,     *)
(* that is, without an emission.                                           *)
(***************************************************************************)
EXTENDS Naturals, FiniteSets

CONSTANTS
    TableRoles,     \* the variants of this run
    Users,
    Dates, Month,   \* date ranges; the date cards start with the month
    Week,           \* the range that CarrierDashboardStateService resets to
    Whos, Any,      \* the table's other filters as one; Any is none of them
    Sizes, DefaultSize,
    Count,          \* [Filters -> Nat]: how many orders match
    LastPage,       \* bound: no page beyond it
    MaxOps,         \* bound: things the user does
    None

Filters == [dates: Dates, who: Whos]
Pages == 0..LastPage
Tokens == [filters: Filters, pos: Nat]   \* the rows after the first pos
Pagination == [page: Pages, size: Sizes, tokens: [Pages -> Tokens \cup {None}]]
Emissions == [filters: Filters, pag: Pagination]
Fetches == [filters: Filters, pag: Pagination, ver: 0..MaxOps, user: Users]
Asked == [filters: Filters, pag: Pagination, ver: 0..MaxOps, user: Users,
          outlives: BOOLEAN]
Rows == [user: Users, filters: Filters, pos: Nat, n: Nat, more: BOOLEAN, total: Nat,
         of: Filters, ver: 0..MaxOps, key: Tokens \cup {None}]
Cached == [at: Filters \X Pages \X Sizes, rows: Rows]

ASSUME DateAssumption == Month \in Dates /\ Week \in Dates /\ Any \in Whos
ASSUME SizeAssumption == Sizes \subseteq Nat \ {0} /\ DefaultSize \in Sizes
ASSUME CountAssumption == Count \in [Filters -> Nat]
ASSUME LastPageAssumption == \A f \in Filters, s \in Sizes : Count[f] <= s * (LastPage + 1)
ASSUME NoneAssumption ==
    None \notin Tokens \cup Emissions \cup Fetches \cup Asked \cup Rows \cup Cached
ASSUME RolesAssumption == TableRoles \subseteq {"dispatcher", "admin", "carrier", "driver"}
ASSUME BoundAssumption == LastPage \in Nat /\ MaxOps \in Nat

\* What the four state services do differently.
\*   same       an emission is dropped if it equals the last one in this
\*   size       the page size after new filters: kept or the default
\*   overlay    a loading overlay with a thirty second timer
DispatcherState == [same |-> "all", size |-> "kept", overlay |-> TRUE]
\* Mutated form: equal emissions are dropped, as in the dispatcher's service.
AdminState_Distinct == [same |-> "all", size |-> "kept", overlay |-> TRUE]
AdminState == [same |-> "nothing", size |-> "kept", overlay |-> TRUE]
CarrierState == [same |-> "all", size |-> "default", overlay |-> FALSE]
DriverState == [same |-> "page", size |-> "kept", overlay |-> FALSE]

\* What their caches do differently.
\*   drops      new filters and a logout empty it
\*   expires    its rows are used for five minutes
DispatcherCache == [drops |-> TRUE, expires |-> FALSE]
AdminCache == [drops |-> TRUE, expires |-> FALSE]
CarrierCache == [drops |-> FALSE, expires |-> TRUE]
\* Mutated form: a logout leaves the orders of the last user in the cache.
DriverCache_Kept == [drops |-> FALSE, expires |-> FALSE]
DriverCache == [drops |-> TRUE, expires |-> FALSE]

\* What the four tables do differently.
\*   cachesKey  the cached result has the token of the next page
\*   tokensOf   an answer adds its token to the pagination of its request or
\*              to the current one, at the current page
\*   catches    a failed request shows no orders; else it ends the stream
DispatcherTable == [cachesKey |-> FALSE, tokensOf |-> "request", catches |-> TRUE]
AdminTable == [cachesKey |-> FALSE, tokensOf |-> "request", catches |-> TRUE]
CarrierTable == [cachesKey |-> TRUE, tokensOf |-> "current", catches |-> FALSE]
DriverTable == [cachesKey |-> TRUE, tokensOf |-> "request", catches |-> FALSE]

\* What the four date cards show at another user's login: the dates that were
\* kept and are not sent, those kept and sent, or those of the state.
DispatcherCard == "kept"
AdminCard == "kept"
CarrierCard == "sent"
DriverCard == "state"

\* What the four filter forms of the tables do differently.
\*   copies     the filters go through the filter service, which drops what
\*              changes nothing and sends its own dates with them
\*   clears     clearAllFilters resets the dates too, to the week
DispatcherForm == [copies |-> TRUE, clears |-> FALSE]
AdminForm == [copies |-> FALSE, clears |-> FALSE]
CarrierForm == [copies |-> FALSE, clears |-> TRUE]
DriverForm == [copies |-> FALSE, clears |-> FALSE]

\* The roles whose payments view does not cancel its request when it goes, and
\* caches the answer under the dates that it asked for.
PaymentsOutlive == {"dispatcher", "carrier"}

State == [dispatcher |-> DispatcherState, admin |-> AdminState,
          carrier |-> CarrierState, driver |-> DriverState]
Cache == [dispatcher |-> DispatcherCache, admin |-> AdminCache,
          carrier |-> CarrierCache, driver |-> DriverCache]
Table == [dispatcher |-> DispatcherTable, admin |-> AdminTable,
          carrier |-> CarrierTable, driver |-> DriverTable]
Card == [dispatcher |-> DispatcherCard, admin |-> AdminCard,
         carrier |-> CarrierCard, driver |-> DriverCard]
Form == [dispatcher |-> DispatcherForm, admin |-> AdminForm,
         carrier |-> CarrierForm, driver |-> DriverForm]

VARIABLES
    role, user,
    filters,    \* filtersSubject of the state service
    pag,        \* paginationSubject: page, size, tokens
    card,       \* the dates of the card and of the filter service
    shared,     \* the filter service's own copy of the table's filters
    form,       \* the filters the table's form shows
    paginator,  \* page and size of the paginator
    pending,    \* what the debounce will emit, or None
    last,       \* the last emission to this table, or None
    request,    \* the request in flight, or None
    asked,      \* the request in flight of a view that takes the table's place, or None
    shown,      \* the rows on the page, or None
    cache,      \* tripsCache, or None
    mounted,    \* the table exists
    dead,       \* its stream has ended with an error
    loading, error,
    data,       \* changes made by the user: the version of the orders
    lost,       \* history: the tokens were emptied and no request followed
    hasty,      \* history: the page was turned while other rows were on their way
    raced,      \* history: a request was in flight at the last change
    mixed,      \* history: a view's answer was cached under later dates
    crossed,    \* history: a view's request outlived its user's session
    ops

ui == <<card, shared, form, paginator>>
stream == <<pending, last, request, dead>>
view == <<asked, mixed, crossed>>
history == <<lost, hasty, raced>>
tableVars == <<role, view, user, filters, pag, ui, stream, shown, cache, mounted, loading,
               error, data, history, ops>>

S == State[role]
C == Cache[role]
T == Table[role]
NoTokens == [p \in Pages |-> None]
FirstPage(size) == [page |-> 0, size |-> size, tokens |-> NoTokens]
DefaultFilters == [dates |-> Month, who |-> Any]
Emission(f, p) == [filters |-> f, pag |-> p]

TableInit ==
    /\ role \in TableRoles /\ user \in Users
    /\ filters = DefaultFilters /\ pag = FirstPage(DefaultSize)
    /\ card = Month /\ shared = Any /\ form = Any
    /\ paginator = [page |-> 0, size |-> DefaultSize]
    /\ pending = Emission(filters, pag) /\ last = None /\ request = None
    /\ shown = None /\ cache = None /\ mounted = TRUE /\ dead = FALSE
    /\ loading = FALSE /\ error = FALSE
    /\ data = 0 /\ lost = FALSE /\ hasty = FALSE /\ raced = FALSE /\ ops = 0
    /\ asked = None /\ mixed = FALSE /\ crossed = FALSE

SmallerOf(a, b) == IF a < b THEN a ELSE b

\* Nothing is on its way to the table.
Settled == mounted /\ ~dead /\ pending = None /\ request = None /\ shown # None

Does == ops < MaxOps /\ ops' = ops + 1

\* The table with its filters and its paginator can be clicked.  The driver's
\* always can; the others are hidden while a request runs, and the overlay
\* covers them.
Clickable == mounted /\ ~error /\ (role # "driver" => ~loading /\ request = None)

\* The subjects emit: the table's debounce starts again with these values.
Emit(f, p) ==
    /\ filters' = f /\ pag' = p
    /\ pending' = IF mounted /\ ~dead THEN Emission(f, p) ELSE None

\* setLoadingState(true): the overlay is on, and its timer starts; an earlier
\* error is cleared.
StartLoad ==
    /\ loading' = (loading \/ S.overlay)
    /\ error' = (error /\ ~S.overlay)

\* The finalize of a request that is cancelled turns the overlay off.
Finalize == loading' = (loading /\ S.overlay /\ request = None)

\* updateFilters: page 0 without tokens, the cache emptied, the overlay on.
UpdateFilters(f) ==
    /\ Emit(f, FirstPage(IF S.size = "kept" THEN pag.size ELSE DefaultSize))
    /\ cache' = IF C.drops THEN None ELSE cache
    /\ StartLoad

\* Mutated form: the table's other filters are dropped with the dates.
SetDates_DropsWho(d) ==
    /\ Does /\ ~error
    /\ card' = d
    /\ UpdateFilters([dates |-> d, who |-> Any])
    /\ UNCHANGED <<role, view, user, shared, form, paginator, last, request, shown, mounted, dead, data,
                   history>>

\* The filters that a date card sends.  Two filter services merge the dates
\* into their own copy of all filters, two send the dates alone.
DispatcherDates(d) == [dates |-> d, who |-> shared]
AdminDates(d) == [dates |-> d, who |-> shared]
CarrierDates(d) == [filters EXCEPT !.dates = d]
DriverDates(d) == [filters EXCEPT !.dates = d]

\* The date card, shown unless an error hides it.  A preset is applied even
\* when it changes nothing.
SetDates(d) ==
    /\ Does /\ ~error
    /\ card' = d
    /\ \/ role = "dispatcher" /\ UpdateFilters(DispatcherDates(d))
       \/ role = "admin" /\ UpdateFilters(AdminDates(d))
       \/ role = "carrier" /\ UpdateFilters(CarrierDates(d))
       \/ role = "driver" /\ UpdateFilters(DriverDates(d))
    /\ UNCHANGED <<role, view, user, shared, form, paginator, last, request, shown, mounted, dead, data,
                   history>>

\* The table's form.
SetWho(w) ==
    /\ Does /\ Clickable
    /\ form' = w
    /\ IF Form[role].copies
       THEN /\ shared' = w
            /\ IF w = shared
               THEN UNCHANGED <<filters, pag, pending, cache, loading, error>>
               ELSE UpdateFilters([dates |-> card, who |-> w])
       ELSE /\ shared' = shared
            /\ UpdateFilters([filters EXCEPT !.who = w])
    /\ UNCHANGED <<role, view, user, card, paginator, last, request, shown, mounted, dead, data, history>>

\* The clearAllFilters that resets the dates as well.
CarrierClear ==
    /\ Does /\ Clickable /\ Form[role].clears
    /\ form' = Any
    /\ Emit([dates |-> Week, who |-> Any], FirstPage(DefaultSize))
    /\ UNCHANGED <<role, view, user, card, shared, paginator, last, request, shown, cache, mounted, dead,
                   loading, error, data, history>>

\* Mutated form: another page size keeps the page and its tokens.
UpdatePagination_KeepsTokens(page, size) ==
    /\ Emit(filters, [pag EXCEPT !.page = page, !.size = size])
    /\ UNCHANGED <<cache, loading, error>>

\* updatePagination: another page size starts from page 0 again.
UpdatePagination(page, size) ==
    /\ Emit(filters, IF size # pag.size THEN FirstPage(size)
                      ELSE [pag EXCEPT !.page = page])
    /\ UNCHANGED <<cache, loading, error>>

\* The paginator, there when there are rows.  It knows the page and size last
\* clicked or emitted, and the total.
TurnPage(p) ==
    /\ Does /\ Clickable /\ shown # None /\ shown.n > 0
    /\ p # paginator.page /\ p * paginator.size < shown.total
    /\ paginator' = [paginator EXCEPT !.page = p]
    /\ UpdatePagination(p, paginator.size)
    /\ hasty' = (hasty \/ ~Settled)
    /\ UNCHANGED <<role, view, user, card, shared, form, last, request, shown, mounted, dead, data, lost,
                   raced>>
SetSize(s) ==
    /\ Does /\ Clickable /\ shown # None /\ shown.n > 0
    /\ s # paginator.size
    /\ LET p == SmallerOf((paginator.page * paginator.size) \div s, LastPage)
       IN  paginator' = [page |-> p, size |-> s] /\ UpdatePagination(p, s)
    /\ hasty' = (hasty \/ ~Settled)
    /\ UNCHANGED <<role, view, user, card, shared, form, last, request, shown, mounted, dead, data, lost,
                   raced>>

-----------------------------------------------------------------------------

Key(e) == <<e.filters, e.pag.page, e.pag.size>>

\* The emission would be dropped by distinctUntilChanged.
Same(e) ==
    /\ last # None
    /\ \/ S.same = "all" /\ e = last
       \/ S.same = "page" /\ Key(e) = Key(last)

\* A request of a page after the first carries the token of the one before.
TokenFor(e) == IF e.pag.page = 0 THEN None ELSE e.pag.tokens[e.pag.page - 1]

\* What the server answers to a request: rows, the token of those after them
\* if there are any, and the total that the table makes of it.
Answer(r, v) ==
    LET tok == TokenFor(r)
        pos == IF tok = None THEN 0 ELSE tok.pos
        all == Count[r.filters]
        n == SmallerOf(r.pag.size, IF pos < all THEN all - pos ELSE 0)
        more == pos + n < all
    IN [user |-> r.user, filters |-> r.filters, pos |-> pos, n |-> n, more |-> more, total |-> 0,
        of |-> IF tok = None THEN r.filters ELSE tok.filters, ver |-> v,
        key |-> IF more THEN [filters |-> r.filters, pos |-> pos + n] ELSE None]

\* The table's estimate of how many rows there are, from the page they are on.
Counted(r, p) ==
    LET full == r.more /\ (T.tokensOf = "current" => r.n >= p.size)
    IN  [r EXCEPT !.total = p.page * p.size + r.n + (IF full THEN 1 ELSE 0)]

\* Two tables add the token to the pagination of their request; the
\* carrier's adds it to what the pagination is by now.
TokensAfter(e, key) ==
    IF key = None THEN pag.tokens
    ELSE IF T.tokensOf = "request" THEN [e.pag.tokens EXCEPT ![e.pag.page] = key]
    ELSE [pag.tokens EXCEPT ![pag.page] = key]

\* A cached page 0 puts its token back, if it has one.
TokensCached(e, key) ==
    IF key # None /\ e.pag.page = 0 THEN [NoTokens EXCEPT ![0] = key]
    ELSE IF T.tokensOf = "current" THEN TokensAfter(e, key)
    ELSE pag.tokens

\* There are more rows, but not the token to ask for them.
NextIsUnknown == shown # None /\ shown.more /\ pag.tokens[pag.page] = None

Forget(r) == IF T.cachesKey THEN r ELSE [r EXCEPT !.key = None]

\* The debounce ends.  A new request cancels the one before it, whose
\* finalize turns the overlay off.
Debounce ==
    /\ pending # None
    /\ pending' = None
    /\ IF Same(pending)
       THEN /\ lost' = (lost \/ (request = None /\ NextIsUnknown))
            /\ hasty' = hasty
            /\ UNCHANGED <<last, request, shown, pag, paginator, loading>>
       ELSE /\ last' = pending
            /\ paginator' = [page |-> pending.pag.page, size |-> pending.pag.size]
            /\ LET hit == cache # None /\ cache.at = Key(pending)
               IN  IF hit
                   THEN /\ request' = None
                        /\ shown' = Counted(cache.rows, pending.pag)
                        /\ pag' = [pag EXCEPT !.tokens = TokensCached(pending, cache.rows.key)]
                        /\ Finalize
                        /\ lost' = IF pending.pag.page = 0 THEN NextIsUnknown' ELSE lost
                   ELSE /\ request' = [filters |-> pending.filters, pag |-> pending.pag,
                                   ver |-> data, user |-> user]
                        /\ loading' = IF S.overlay THEN loading /\ request = None ELSE TRUE
                        /\ lost' = (lost /\ pending.pag.page # 0)
                        /\ UNCHANGED <<shown, pag>>
            /\ hasty' = (hasty /\ pending.pag.page # 0)
    /\ UNCHANGED <<role, view, user, filters, card, shared, form, cache, mounted, dead, error, data,
                   raced, ops>>

\* The answer, computed from the orders as they were when it was sent or later.
Answered(v) ==
    /\ request # None /\ v \in request.ver..data
    /\ LET r == Answer(request, v)
       IN  /\ shown' = Counted(r, IF T.tokensOf = "request" THEN request.pag ELSE pag)
           /\ pag' = [pag EXCEPT !.tokens = TokensAfter(request, r.key)]
           /\ cache' = [at |-> Key(request), rows |-> Forget(r)]
    /\ request' = None /\ loading' = FALSE
    /\ UNCHANGED <<role, view, user, filters, ui, pending, last, dead, mounted, error, data, history, ops>>

\* The request fails.
Failed ==
    /\ Does /\ request # None
    /\ request' = None
    /\ shown' = IF T.catches THEN None ELSE shown
    /\ dead' = ~T.catches
    /\ pending' = IF dead' THEN None ELSE pending
    /\ loading' = (loading /\ ~T.catches)
    /\ UNCHANGED <<role, view, user, filters, pag, ui, last, cache, mounted, error, data, history>>

-----------------------------------------------------------------------------

\* Mutated form: the request outlives the table.
Unmount_RequestGoesOn ==
    /\ mounted' = FALSE /\ dead' = FALSE
    /\ pending' = None /\ last' = None /\ request' = request /\ shown' = None

\* The table is destroyed: its request is cancelled.
Unmount ==
    /\ mounted' = FALSE /\ dead' = FALSE
    /\ pending' = None /\ last' = None /\ request' = None /\ shown' = None

\* A new table subscribes to the subjects as they are.
Mount(f, p) ==
    /\ mounted' = TRUE /\ dead' = FALSE
    /\ pending' = Emission(f, p) /\ last' = None /\ request' = None /\ shown' = None

\* A view is destroyed: its request is cancelled, but for some payments views.
CloseView == asked' = IF asked # None /\ asked.outlives THEN asked ELSE None

\* The analytics or the payments view asks for its report, because it is not
\* cached; with it come the rows of page 0 without other filters.
ViewAsks(outlives) ==
    /\ Does /\ ~mounted /\ ~error /\ role # "driver" /\ asked = None
    /\ outlives => role \in PaymentsOutlive
    /\ asked' = [filters |-> [dates |-> card, who |-> Any], pag |-> FirstPage(pag.size),
                 ver |-> data, user |-> user, outlives |-> outlives]
    /\ UNCHANGED <<role, mixed, crossed, user, filters, pag, ui, stream, shown, cache, mounted,
                   loading, error, data, history>>

\* Its answer fills the table's cache, under the dates of the request or those
\* that the view has by now.
ViewAnswered(v) ==
    /\ asked # None /\ v \in asked.ver..data
    /\ LET r == Answer(asked, v)
           own == asked.filters.dates
       IN  \E d \in IF asked.outlives THEN {own} ELSE {own, card} :
             /\ cache' = IF r.n = 0 THEN cache
                         ELSE [at |-> Key(Emission([asked.filters EXCEPT !.dates = d], asked.pag)),
                               rows |-> r]
             /\ mixed' = (mixed \/ d # own)
    /\ asked' = None
    /\ loading' = (loading /\ ~S.overlay)
    /\ error' = (error /\ ~(S.overlay /\ asked.outlives))
    /\ UNCHANGED <<role, crossed, user, filters, pag, ui, stream, shown, mounted, data, history, ops>>

\* It fails.  The dispatcher gets the error screen, whatever view is there by now.
ViewFailed ==
    /\ Does /\ asked # None
    /\ asked' = None
    /\ loading' = (loading /\ ~S.overlay)
    /\ IF role = "dispatcher" THEN error' = TRUE /\ Unmount
       ELSE UNCHANGED <<error, stream, shown, mounted>>
    /\ UNCHANGED <<role, mixed, crossed, user, filters, pag, ui, cache, data, history>>

\* Mutated form: the error is shown but the overlay stays.
LoadingTimeout_OverlayStays ==
    /\ S.overlay /\ loading
    /\ error' = TRUE
    /\ Unmount /\ CloseView
    /\ UNCHANGED <<role, mixed, crossed, user, filters, pag, ui, cache, loading, data, history, ops>>

\* Thirty seconds of overlay: an error takes the place of the table.
LoadingTimeout ==
    /\ S.overlay /\ loading
    /\ loading' = FALSE /\ error' = TRUE
    /\ Unmount /\ CloseView
    /\ UNCHANGED <<role, mixed, crossed, user, filters, pag, ui, cache, data, history, ops>>

Retry ==
    /\ Does /\ error
    /\ error' = FALSE
    /\ Mount(filters, pag)
    /\ form' = IF Form[role].copies THEN shared ELSE filters.who
    /\ UNCHANGED <<role, view, user, filters, pag, card, shared, paginator, cache, loading, data, history>>

\* Another view takes the table's place (the driver leaves the page).
Leave ==
    /\ Does /\ mounted
    /\ Unmount
    /\ Finalize
    /\ UNCHANGED <<role, view, user, filters, pag, ui, cache, error, data, history>>
Return ==
    /\ ~mounted /\ ~error
    /\ Mount(filters, pag) /\ CloseView
    /\ form' = IF Form[role].copies THEN shared ELSE filters.who
    /\ UNCHANGED <<role, mixed, crossed, user, filters, pag, card, shared, paginator, cache, loading,
                   error, data, history, ops>>

\* Mutated form: the caches are not emptied.
Edit_KeepsCache ==
    /\ Does /\ ~mounted /\ ~error /\ role # "driver"
    /\ data' = data + 1
    /\ CloseView
    /\ raced' = (asked' # None)
    /\ UNCHANGED <<role, mixed, crossed, user, filters, pag, ui, stream, shown, cache, mounted,
                   loading, error, lost, hasty>>

\* The user changes an order on a page of its own and the caches are emptied.
Edit ==
    /\ Does /\ ~mounted /\ ~error /\ role # "driver"
    /\ data' = data + 1
    /\ cache' = None
    /\ CloseView
    /\ raced' = (asked' # None)
    /\ UNCHANGED <<role, mixed, crossed, user, filters, pag, ui, stream, shown, mounted,
                   loading, error, lost, hasty>>

\* A dispatcher deletes an order of the table, which drops its row.
Delete ==
    /\ Does /\ role = "dispatcher" /\ mounted /\ shown # None
    /\ data' = data + 1
    /\ shown' = [shown EXCEPT !.ver = data + 1]
    /\ cache' = None
    /\ raced' = (request # None \/ asked # None)
    /\ UNCHANGED <<role, view, user, filters, pag, ui, stream, mounted, loading, error, lost, hasty>>

\* The rows in the cache are five minutes old.
FiveMinutes ==
    /\ cache # None /\ C.expires
    /\ cache' = None
    /\ UNCHANGED <<role, view, user, filters, pag, ui, stream, shown, mounted, loading, error, data,
                   history, ops>>

\* A driver's status update: the caches are emptied and page 0 asked for.
UpdateStatus ==
    /\ Does /\ role = "driver" /\ mounted /\ shown # None
    /\ data' = data + 1
    /\ cache' = None
    /\ Emit(filters, FirstPage(pag.size))
    /\ raced' = (request # None)
    /\ UNCHANGED <<role, view, user, ui, last, request, dead, shown, mounted, loading, error, lost, hasty>>

\* A logout, then a login in the same tab: the state services reset, the
\* filter services do not.
ChangeUser(u) ==
    /\ Does /\ u # user
    /\ user' = u
    /\ LET f == [dates |-> IF Card[role] = "sent" THEN card ELSE Month, who |-> Any]
       IN  /\ filters' = f /\ pag' = FirstPage(DefaultSize)
           /\ form' = IF Form[role].copies THEN shared ELSE Any
           /\ IF error THEN Unmount ELSE Mount(f, FirstPage(DefaultSize))
    /\ card' = IF Card[role] = "state" THEN Month ELSE card
    /\ cache' = IF C.drops THEN None ELSE cache
    /\ Finalize
    /\ CloseView /\ crossed' = (crossed \/ asked' # None)
    /\ lost' = FALSE /\ hasty' = FALSE
    /\ UNCHANGED <<role, mixed, shared, paginator, error, data, raced>>

UserStep ==
    \/ \E d \in Dates : SetDates(d)
    \/ \E w \in Whos : SetWho(w)
    \/ CarrierClear
    \/ \E p \in Pages : TurnPage(p)
    \/ \E s \in Sizes : SetSize(s)
    \/ Retry \/ Leave \/ Edit \/ Delete \/ UpdateStatus
    \/ \E u \in Users : ChangeUser(u)
    \/ \E o \in BOOLEAN : ViewAsks(o)

TabStep ==
    \/ Debounce
    \/ \E v \in 0..MaxOps : Answered(v)
    \/ Failed
    \/ \E v \in 0..MaxOps : ViewAnswered(v)
    \/ ViewFailed
    \/ LoadingTimeout
    \/ Return
    \/ FiveMinutes

TableNext == UserStep \/ TabStep

\* Timers fire, and a request is answered or fails in the end.
Fairness ==
    /\ WF_tableVars(Debounce)
    /\ WF_tableVars(\E v \in 0..MaxOps : Answered(v))
    /\ WF_tableVars(LoadingTimeout)

TableSpec == TableInit /\ [][TableNext]_tableVars /\ Fairness

-----------------------------------------------------------------------------

\* Types, and what exists with what: a stream only with its table, a table
\* only without the error screen.
TableTypeOK ==
    /\ role \in TableRoles /\ user \in Users
    /\ filters \in Filters /\ pag \in Pagination
    /\ card \in Dates /\ shared \in Whos /\ form \in Whos
    /\ paginator \in [page: Pages, size: Sizes]
    /\ shown \in Rows \cup {None}
    /\ {mounted, dead, loading, error, lost, hasty, raced, mixed, crossed} \subseteq BOOLEAN
    /\ asked # None /\ ~asked.outlives => ~mounted /\ ~error /\ asked.user = user
    /\ pending # None => mounted /\ ~dead /\ pending = Emission(filters, pending.pag)
    /\ request # None => mounted /\ ~dead /\ last # None /\ request.pag = last.pag
    /\ shown # None => mounted /\ last # None
    /\ error => ~mounted

\* When nothing is on its way, the rows are those of the filters and of the
\* page: they were asked for with the token of the same filters and of the
\* right position.  This is so although the tokens are reset, put back and
\* sent by four different hands, and the rows cached by other views.  Three
\* things break it, and are left out: emptied tokens whose emission was dropped
\* (lost), a click on the paginator while other rows were on their way (hasty),
\* and an answer that a view cached under dates set since it asked (mixed).
RightPage ==
    Settled /\ ~lost /\ ~hasty /\ ~mixed =>
        /\ shown.filters = filters /\ shown.of = filters
        /\ shown.pos = pag.page * pag.size

\* A user never sees the rows of the user before on the same tab.  Only the
\* carrier may, as CarrierFilterService keeps its caches over a logout, and
\* whoever comes after a payments view whose request outlived the session.
OwnRows == shown # None /\ shown.user # user => role = "carrier" \/ crossed

\* Rows at rest show the last change the user made, unless a request was in
\* flight at the change: its answer is cached after the caches were emptied.
UpdateIsShown == Settled /\ shown.user = user /\ ~raced => shown.ver = data

\* The same for all but the driver, who may be shown the old status.
UpdateIsShownToOthers == role # "driver" => UpdateIsShown

\* The rows that a user sees when nothing is on its way are his own, those of the
\* filters and the page, and up to date.
RowsAreRight == TableTypeOK /\ RightPage /\ OwnRows /\ UpdateIsShownToOthers

\* The date card, the filter service and the table's form say the filters
\* that the table loads.
Agree ==
    /\ filters.dates = card
    /\ IF Form[role].copies THEN filters.who = shared ELSE mounted => filters.who = form

\* They stop to agree only at a login after another user's, when the carrier
\* clears the filters (the dates become the week), and when the admin changes
\* the dates under other filters (the filter service knows of none and clears
\* them).
FiltersAgree ==
    [][Agree /\ ~Agree' =>
        \/ user' # user
        \/ role = "carrier" /\ form' = Any
        \/ role = "admin" /\ filters.who # Any]_tableVars

\* "Loading is taking longer than expected" is said of a load.  For the
\* dispatcher it may be said of none: a date preset chosen again turns the
\* overlay on, and the stream drops the emission that would load.
TimeoutMeansWaiting ==
    [][error' /\ ~error => \/ request # None \/ pending # None \/ ~mounted
                          \/ role = "dispatcher"]_tableVars

\* The overlay, or the table's own loading sign, goes away; except that the
\* carrier's and the driver's stays when a request fails.
OverlayEnds == loading ~> ~loading \/ dead
=============================================================================
