----------------------------- MODULE AssetCache -----------------------------
(***************************************************************************)
(* The asset cache service of a role: the lists (brokers; trucks, drivers  *)
(* and so on) that its screens show as names and offer in dropdowns.  The  *)
(* lists are loaded by one request at a time behind a loading flag, live   *)
(* for four hours in memory and in localStorage, and are completed by      *)
(* resolve requests for the ids that an order names and no list has.       *)
(***************************************************************************)
EXTENDS Naturals, Sequences

CONSTANTS Kinds, Users, Ids, MaxOps, None

ASSUME KindsAssumption == Kinds \subseteq {"dispatcher", "admin", "carrier", "driver"}
ASSUME BoundAssumption == MaxOps \in Nat

\* What the four services do differently.
\*   catches    a failed request gives an empty list, published and kept; else
\*              the caller gets one and nothing is kept
\*   unpublish  what is too old goes when it is met; else when the answer comes
\*   resolve    ids are resolved also without a cache, only with one, or never
\*   unknowns   an id that is answered without a name counts as named; names are
\*              asked for again when they are half an hour old
\*   removes    what is too old goes from localStorage at a start; else when it
\*              is a day old
DispatcherAssets == [catches |-> TRUE, unpublish |-> TRUE, resolve |-> "always",
                     unknowns |-> TRUE, removes |-> TRUE]
AdminAssets == [catches |-> FALSE, unpublish |-> FALSE, resolve |-> "always",
                unknowns |-> TRUE, removes |-> TRUE]
CarrierAssets == [catches |-> FALSE, unpublish |-> TRUE, resolve |-> "cached",
                  unknowns |-> FALSE, removes |-> TRUE]
DriverAssets == [catches |-> TRUE, unpublish |-> TRUE, resolve |-> "never",
                 unknowns |-> FALSE, removes |-> FALSE]

Assets == [dispatcher |-> DispatcherAssets, admin |-> AdminAssets,
           carrier |-> CarrierAssets, driver |-> DriverAssets]

VARIABLES
    kind, user,
    server,    \* changes of the lists at the server
    objs,      \* the cache objects made so far, in order; screens and requests keep them
    pub,       \* the one that cache$ has, or 0
    stored,    \* the copy in localStorage, or None
    loading,   \* the flag
    load,      \* the load in flight and the screen that subscribed to it, or None
    resolves,  \* resolve requests in flight: the object each will publish
    table,     \* the dashboard: "off", "waits" for its load, "follows" cache$, "has"
    form,      \* the create or edit form, with the lists it was given
    history,   \* left, failed, emptied: see the properties
    ops

vars == <<kind, user, server, objs, pub, stored, loading, load, resolves, table,
          form, history, ops>>

A == Assets[kind]

Lists == [of: Users, ver: 0..MaxOps] \union {None}
Cache == [lists: Lists, names: SUBSET Ids, old: BOOLEAN]
Empty == [lists |-> None, names |-> {}, old |-> FALSE]
Requests == [who: {"table", "form"}, by: Users, sent: 0..MaxOps]
Closed == [st |-> "off", forced |-> FALSE, asked |-> 0, by |-> user, lists |-> None]

ASSUME NoneAssumption ==
    None \notin [of: Users, ver: 0..MaxOps] /\ None \notin Cache /\ None \notin Requests

Init ==
    /\ kind \in Kinds /\ user \in Users
    /\ server = 0 /\ objs = <<>> /\ pub = 0 /\ stored = None
    /\ loading = FALSE /\ load = None /\ resolves = {}
    /\ table = "off" /\ form = Closed /\ ops = 0
    /\ history = [left |-> FALSE, failed |-> FALSE, emptied |-> FALSE]

Does == ops < MaxOps /\ ops' = ops + 1

Old(o) == objs[o].old
ListsOf(o) == IF o = 0 THEN None ELSE objs[o].lists

\* What loadAssets answers at once to a screen, given what is published.
FromCache(p) == p # 0 /\ ~loading /\ ~Old(p)

\* loadAssets, after what is published became p: the cache if it is good, what
\* cache$ emits if a load is under way, else a request.
LoadAssets(who, p) ==
    /\ pub' = IF p # 0 /\ Old(p) /\ A.unpublish THEN 0 ELSE p
    /\ loading' = (loading \/ ~FromCache(p))
    /\ load' = IF FromCache(p) \/ loading THEN load
               ELSE [who |-> who, by |-> user, sent |-> server]

Waiting(p) == IF FromCache(p) THEN "has" ELSE IF loading THEN "follows" ELSE "waits"

\* Every subscriber of cache$ gets what is published; a screen that waits for
\* the load in flight gets its answer.
Given(st, lists, own, p) ==
    IF st = "follows" \/ (own /\ st = "waits")
    THEN [st |-> IF st = "waits" THEN "has" ELSE st, lists |-> p]
    ELSE [st |-> st, lists |-> lists]

FormGets(own, lists) ==
    form' = LET g == Given(form.st, form.lists, own, lists) IN
            [form EXCEPT !.st = g.st, !.lists = g.lists]

\* The dashboard's table asks for the assets when it is made.
OpenTable ==
    /\ Does /\ table = "off"
    /\ LoadAssets("table", pub) /\ table' = Waiting(pub)
    /\ FormGets(FALSE, ListsOf(pub'))
    /\ UNCHANGED <<kind, user, server, objs, stored, resolves, history>>

\* Mutated form: the subscriber is gone and the load is still its own.
Leave_KeepsLoad == UNCHANGED <<load, history>>

\* takeUntil(destroy$) gives up the table's load; nobody resets the flag.
Leave ==
    IF load # None /\ load.who = "table"
    THEN load' = None /\ history' = [history EXCEPT !.left = TRUE]
    ELSE UNCHANGED <<load, history>>

LeaveTable ==
    /\ table # "off" /\ table' = "off" /\ Leave
    /\ UNCHANGED <<kind, user, server, objs, pub, stored, loading, resolves, form, ops>>

\* The forms subscribe for good.  What cache$ has is given to a form at once
\* if it does not send a request.
OpenForm(p, forced) ==
    LET st == Waiting(p) IN
    /\ LoadAssets("form", p)
    /\ form' = [st |-> st, forced |-> forced, asked |-> server,
                by |-> user, lists |-> IF st = "waits" THEN None ELSE ListsOf(pub')]

OpenEditForm ==
    /\ Does /\ OpenForm(pub, FALSE)
    /\ UNCHANGED <<kind, user, server, objs, stored, resolves, table, history>>

\* Mutated form: the new order's form takes the cache it finds.
ForceRefresh_FromCache ==
    /\ Does /\ kind = "dispatcher"
    /\ OpenForm(pub, TRUE)
    /\ UNCHANGED <<kind, user, server, objs, stored, resolves, table, history>>

\* The form of a new order drops the cache and its copy first.
ForceRefresh ==
    /\ Does /\ kind = "dispatcher"
    /\ stored' = None /\ OpenForm(0, TRUE)
    /\ UNCHANGED <<kind, user, server, objs, resolves, table, history>>

Publish(cs, o) == objs' = cs /\ pub' = o /\ stored' = cs[o]

TableGets == table' = IF load.who = "table" /\ table = "waits" THEN "has" ELSE table

\* The lists arrive, as the server had them at some moment since they were asked for.
LoadAnswer(v) ==
    /\ load # None
    /\ v \in load.sent..server
    /\ Publish(Append(objs, [Empty EXCEPT !.lists = [of |-> load.by, ver |-> v]]), Len(objs) + 1)
    /\ load' = None /\ loading' = FALSE
    /\ FormGets(load.who = "form", [of |-> load.by, ver |-> v]) /\ TableGets
    /\ UNCHANGED <<kind, user, server, resolves, history, ops>>

\* Mutated form: the flag stays when the load failed.
LoadFailed_KeepsFlag ==
    /\ load # None
    /\ IF A.catches THEN Publish(Append(objs, Empty), Len(objs) + 1)
                      ELSE UNCHANGED <<objs, pub, stored>>
    /\ history' = [history EXCEPT !.failed = @ \/ A.catches]
    /\ load' = None /\ loading' = A.catches
    /\ FormGets(load.who = "form", None) /\ TableGets
    /\ UNCHANGED <<kind, user, server, resolves, ops>>

\* Mutated form: every role publishes the empty lists.
LoadFailed_PublishesEmpty ==
    /\ load # None
    /\ Publish(Append(objs, Empty), Len(objs) + 1)
    /\ history' = [history EXCEPT !.failed = @ \/ A.catches]
    /\ load' = None /\ loading' = FALSE
    /\ FormGets(load.who = "form", None) /\ TableGets
    /\ UNCHANGED <<kind, user, server, resolves, ops>>

LoadFailed ==
    /\ load # None
    /\ IF A.catches THEN Publish(Append(objs, Empty), Len(objs) + 1)
                      ELSE UNCHANGED <<objs, pub, stored>>
    /\ history' = [history EXCEPT !.failed = @ \/ A.catches]
    /\ load' = None /\ loading' = FALSE
    /\ IF A.catches \/ form.st = "waits" THEN FormGets(load.who = "form", None)
                                          ELSE UNCHANGED form
    /\ TableGets
    /\ UNCHANGED <<kind, user, server, resolves, ops>>

\* resolveEntityNames: a table asks for the ids in its rows that its own lists,
\* taken over when it was made, do not know.
resolveEntityNames(rows, known) == rows \ known

\* A screen asks for the names of ids it has met; aged are half an hour old.
\* Where that is done without a cache, it starts from an empty one.
ResolveEntities(ids, aged) ==
    LET fresh == pub = 0
        cs == IF fresh THEN Append(objs, Empty) ELSE objs
        o == IF fresh THEN Len(cs) ELSE pub
        missing == ids \ (cs[o].names \ aged) IN
    /\ Does /\ A.resolve # "never"
    /\ fresh => A.resolve = "always"
    /\ aged # {} => A.unknowns
    /\ missing # {}
    /\ objs' = cs
    /\ resolves' = resolves \union {[obj |-> o, ids |-> missing]}
    /\ history' = [history EXCEPT !.emptied = @ \/ fresh]
    /\ UNCHANGED <<kind, user, server, pub, stored, loading, load, table, form>>

\* The server finds a name for each id, or calls it "Unknown": when no table has
\* it, or when the table that has it could not be read.
Resolved(ids) == SUBSET ids

\* What an answer with these names adds to a cache.
Added(r, named) == IF A.unknowns THEN r.ids ELSE named

\* Mutated form: the answer's names take the place of those that are there.
ResolveAnswer_Replaces(r, named) ==
    /\ r \in resolves /\ resolves' = resolves \ {r}
    /\ Publish([objs EXCEPT ![r.obj].names = Added(r, named)], r.obj)
    /\ FormGets(FALSE, ListsOf(r.obj))
    /\ UNCHANGED <<kind, user, server, loading, load, table, history, ops>>

\* Mutated form: the names are not saved.
ResolveAnswer_NotSaved(r, named) ==
    /\ r \in resolves /\ resolves' = resolves \ {r}
    /\ objs' = [objs EXCEPT ![r.obj].names = @ \union Added(r, named)]
    /\ pub' = r.obj
    /\ FormGets(FALSE, ListsOf(r.obj))
    /\ UNCHANGED <<kind, user, server, stored, loading, load, table, history, ops>>

\* The names go into the object the request began with, and that object is
\* published and saved, whatever was published meanwhile.  (The Carrier's service
\* publishes a copy that shares the lists, and may do so without any name.)
ResolveAnswer(r, named) ==
    /\ r \in resolves /\ resolves' = resolves \ {r}
    /\ Publish([objs EXCEPT ![r.obj].names = @ \union Added(r, named)], r.obj)
    /\ FormGets(FALSE, ListsOf(r.obj))
    /\ UNCHANGED <<kind, user, server, loading, load, table, history, ops>>

\* The request fails, or the Carrier's order table hears of unknown ids only.
ResolveFailed(r) ==
    /\ r \in resolves /\ resolves' = resolves \ {r}
    /\ UNCHANGED <<kind, user, server, objs, pub, stored, loading, load, table, form,
                   history, ops>>

\* Somebody adds a broker, a truck, a driver; no screen tells the cache.
ServerChange ==
    /\ Does /\ server' = server + 1
    /\ UNCHANGED <<kind, user, objs, pub, stored, loading, load, resolves, table, form, history>>

\* isCacheValid turns false; no request lasts that long.
FourHours ==
    /\ Does /\ load = None /\ resolves = {}
    /\ objs' = [o \in DOMAIN objs |-> [objs[o] EXCEPT !.old = TRUE]]
    /\ stored' = IF stored = None THEN None ELSE [stored EXCEPT !.old = TRUE]
    /\ UNCHANGED <<kind, user, server, pub, loading, load, resolves, table, form, history>>

\* The copy that a start leaves in localStorage: a cleanup removes what is a day
\* old, the services, but the driver's, what is four hours old.
Kept(copy) ==
    IF copy = None \/ ~copy.old THEN {copy}
    ELSE IF A.removes THEN {None} ELSE {None, copy}

\* loadFromLocalStorage: what a start publishes, unless it is too old.
loadFromLocalStorage == IF stored # None /\ ~stored.old THEN <<stored>> ELSE <<>>

\* The page is reloaded: memory is lost and the constructor reads localStorage.
Restart ==
    /\ Does
    /\ stored' \in Kept(stored)
    /\ objs' = loadFromLocalStorage /\ pub' = Len(objs')
    /\ loading' = FALSE /\ load' = None /\ resolves' = {}
    /\ table' = "off" /\ form' = Closed
    /\ history' = [history EXCEPT !.left = FALSE]
    /\ UNCHANGED <<kind, user, server>>

\* Every copy of a cache goes from localStorage with the tokens.
ClearUserData == stored' = None

\* Logout and a login of this role: the screens go, the service stays.
ChangeUser(u) ==
    /\ Does /\ user' = u
    /\ table' = "off" /\ Leave
    /\ form' = [form EXCEPT !.st = "off"]
    /\ ClearUserData
    /\ UNCHANGED <<kind, server, objs, pub, loading, resolves>>

Next ==
    \/ OpenTable \/ LeaveTable \/ OpenEditForm \/ ForceRefresh
    \/ \E v \in 0..MaxOps : LoadAnswer(v)
    \/ LoadFailed
    \/ \E rows, known, aged \in SUBSET Ids : ResolveEntities(resolveEntityNames(rows, known), aged)
    \/ \E r \in resolves : ResolveFailed(r) \/ \E n \in Resolved(r.ids) : ResolveAnswer(r, n)
    \/ ServerChange \/ FourHours \/ Restart
    \/ \E u \in Users : ChangeUser(u)

\* A request is answered or fails in the end.
Fairness == WF_vars(LoadFailed \/ \E v \in 0..MaxOps : LoadAnswer(v))

Spec == Init /\ [][Next]_vars /\ Fairness

(***************************************************************************)
(* Properties.                                                             *)
(***************************************************************************)
TypeOK ==
    /\ kind \in Kinds /\ user \in Users /\ server \in 0..MaxOps /\ ops \in 0..MaxOps
    /\ \A o \in DOMAIN objs : objs[o] \in Cache
    /\ pub \in 0..Len(objs) /\ stored \in Cache \union {None}
    /\ loading \in BOOLEAN
    /\ load # None => loading
    /\ \A r \in resolves : r.obj \in DOMAIN objs /\ r.ids \subseteq Ids
    /\ table \in {"off", "waits", "follows", "has"}
    /\ form.st \in {"off", "waits", "follows", "has"} /\ form.lists \in Lists
    /\ table = "waits" <=> load # None /\ load.who = "table"

\* A cache without lists, which counts as good for four hours, is published only
\* after a failed load of a service that takes failures for empty lists, or after
\* names were asked for while no cache was there.
CacheHasLists ==
    pub # 0 /\ ListsOf(pub) = None =>
        \/ kind \in {"dispatcher", "driver"} /\ history.failed
        \/ kind \in {"dispatcher", "admin"} /\ history.emptied

\* A page that is reloaded finds in localStorage what was published last, with
\* all the names, whichever of the overlapping requests published it; or nothing,
\* or what is too old.
StoredIsPublished ==
    stored # None /\ (pub # 0 \/ ~stored.old) => pub # 0 /\ stored = objs[pub]

\* The form of a new order shows its user's lists, no older than its opening:
\* not those in the cache.  Only a form opened while a load was under way, which
\* follows cache$, has no such promise.
NewFormIsFresh ==
    form.st = "has" /\ form.forced /\ form.lists # None =>
        form.lists.ver >= form.asked /\ form.lists.of = form.by

\* What is published has lists, is what is saved, and is new where that is promised.
CacheIsRight == TypeOK /\ CacheHasLists /\ StoredIsPublished /\ NewFormIsFresh

\* Requests for names that overlap do not undo one another: a name goes only with
\* its whole cache, which a new load, an answer for another cache, or the removal
\* of what is too old replaced.
NamesStay ==
    [][pub' = pub /\ pub # 0 /\ Len(objs') >= Len(objs) => objs[pub].names \subseteq objs'[pub].names]_vars

\* A load comes to an end and sets its flag back, unless the dashboard that began
\* it was left: then every later caller follows a cache$ that nobody fills.
LoadEnds == loading ~> (~loading \/ history.left)
=============================================================================
