-------------------------- MODULE AssetCacheProofs --------------------------
(***************************************************************************)
(* Proofs about AssetCache for any number of users and ids and any number  *)
(* of events.  What is published and what is saved are the same object in  *)
(* every state, because every publication saves; the objects without lists *)
(* come from two places only; and a form that waits for its load is the    *)
(* one that sent it.                                                       *)
(***************************************************************************)
EXTENDS AssetCache, SequenceTheorems, TLAPS

Forms == [st: {"off", "waits", "follows", "has"}, forced: BOOLEAN, asked: Nat, by: Users, lists: Lists]
Histories == [left: BOOLEAN, failed: BOOLEAN, emptied: BOOLEAN]

\* A cache without lists has been made.
EmptyMade ==
    \/ kind \in {"dispatcher", "driver"} /\ history.failed
    \/ kind \in {"dispatcher", "admin"} /\ history.emptied

\* Who there is, and how often the lists have changed.
ClockInv ==
    /\ kind \in Kinds /\ user \in Users /\ ops \in 0..MaxOps /\ server \in 0..ops
    /\ history \in Histories

\* The objects, the one published and the one saved.
CacheInv ==
    /\ objs \in Seq(Cache) /\ pub \in 0..Len(objs) /\ stored \in Cache \union {None}
    /\ \A r \in resolves : r.obj \in DOMAIN objs /\ r.ids \subseteq Ids
    /\ \A o \in DOMAIN objs : objs[o].lists = None => EmptyMade
    /\ stored # None /\ stored.lists = None => EmptyMade
    /\ StoredIsPublished

\* The load in flight, and those that wait for it.
LoadInv ==
    /\ loading \in BOOLEAN /\ load \in Requests \union {None}
    /\ load # None => loading /\ load.sent <= server
    /\ table \in {"off", "waits", "follows", "has"}
    /\ table = "waits" <=> load # None /\ load.who = "table"

\* A form that waits has sent the load, for its own user.
FormInv ==
    /\ form \in Forms
    /\ form.st = "waits" =>
          load # None /\ load.who = "form" /\ load.by = form.by /\ load.sent = form.asked
    /\ NewFormIsFresh

\* The inductive invariant.
IInv == ClockInv /\ CacheInv /\ LoadInv /\ FormInv

-----------------------------------------------------------------------------
\* Which services keep empty lists, and which ask for names without a cache.
LEMMA Services ==
    ASSUME kind \in Kinds
    PROVE  /\ A.catches => kind \in {"dispatcher", "driver"}
           /\ A.resolve = "always" => kind \in {"dispatcher", "admin"}
BY KindsAssumption DEF A, Assets, DispatcherAssets, AdminAssets, CarrierAssets, DriverAssets

\* An empty cache is a cache without lists.
LEMMA EmptyIsCache ==
    /\ Empty \in Cache /\ Empty.lists = None
    /\ \A l \in Lists : [Empty EXCEPT !.lists = l] \in Cache /\ [Empty EXCEPT !.lists = l].lists = l
BY DEF Empty, Cache, Lists

\* One more object: the others keep their places.
LEMMA OneMore ==
    ASSUME NEW s \in Seq(Cache), NEW c \in Cache
    PROVE  /\ Append(s, c) \in Seq(Cache) /\ Len(Append(s, c)) = Len(s) + 1
           /\ DOMAIN Append(s, c) = 1..(Len(s) + 1)
           /\ \A o \in DOMAIN s : Append(s, c)[o] = s[o]
           /\ Append(s, c)[Len(s) + 1] = c
BY AppendProperties

\* Whatever publishes an object saves it.
LEMMA PublishKeeps ==
    ASSUME NEW cs \in Seq(Cache), NEW o \in 1..Len(cs), Publish(cs, o)
    PROVE  /\ objs' \in Seq(Cache) /\ pub' \in 0..Len(objs') /\ stored' \in Cache \union {None}
           /\ stored' = cs[o] /\ StoredIsPublished'
<1>1. cs[o] \in Cache /\ DOMAIN cs = 1..Len(cs) /\ Len(cs) \in Nat
    BY ElementOfSeq, LenProperties
<1> QED
    BY <1>1 DEF Publish, StoredIsPublished

\* What was empty once stays excused.
LEMMA EmptyMadeStays ==
    ASSUME kind' = kind, EmptyMade,
           history.failed => history'.failed, history.emptied => history'.emptied
    PROVE  EmptyMade'
BY DEF EmptyMade

\* Events are counted, and lists change at most as often.
LEMMA ClockStep == ClockInv /\ Next => ClockInv'
<1> SUFFICES ASSUME ClockInv, Next PROVE ClockInv'
    OBVIOUS
<1>1. /\ kind' = kind /\ user' \in Users
      /\ \/ ops' = ops /\ server' = server
         \/ ops < MaxOps /\ ops' = ops + 1 /\ server' \in {server, server + 1}
    BY DEF Next, ClockInv, Does, OpenTable, LeaveTable, OpenEditForm, ForceRefresh, LoadAnswer, LoadFailed,
       ResolveEntities, ResolveAnswer, ResolveFailed, ServerChange, FourHours, Restart, ChangeUser
<1>2. history' \in Histories
    BY DEF Next, ClockInv, Histories, Leave, OpenTable, LeaveTable, OpenEditForm, ForceRefresh, LoadAnswer,
       LoadFailed, ResolveEntities, ResolveAnswer, ResolveFailed, ServerChange, FourHours, Restart, ChangeUser
<1>3. ops' \in 0..MaxOps /\ server' \in 0..ops'
    BY <1>1, BoundAssumption DEF ClockInv
<1> QED
    BY <1>1, <1>2, <1>3 DEF ClockInv

\* An empty cache stays excused: what was made is not forgotten.
LEMMA HistoryGrows ==
    ASSUME ClockInv, Next
    PROVE  /\ kind' = kind
           /\ history.failed => history'.failed
           /\ history.emptied => history'.emptied
BY DEF Next, ClockInv, Histories, Leave, OpenTable, LeaveTable, OpenEditForm, ForceRefresh, LoadAnswer,
   LoadFailed, ResolveEntities, ResolveAnswer, ResolveFailed, ServerChange, FourHours, Restart, ChangeUser

\* A step that leaves the objects, and publishes or saves nothing new.
LEMMA CacheIsLeft ==
    ASSUME ClockInv, CacheInv, Next, objs' = objs, resolves' \subseteq resolves,
           \/ pub' = pub /\ stored' \in {stored, None}
           \/ pub' = 0 /\ stored' = None
           \/ pub' = 0 /\ pub # 0 /\ Old(pub) /\ stored' = stored
    PROVE  CacheInv'
<1>1. objs' \in Seq(Cache) /\ pub' \in 0..Len(objs') /\ stored' \in Cache \union {None}
    BY LenProperties DEF CacheInv
<1>2. \A r \in resolves' : r.obj \in DOMAIN objs' /\ r.ids \subseteq Ids
    BY DEF CacheInv
<1>3. EmptyMade => EmptyMade'
    BY HistoryGrows, EmptyMadeStays
<1>4. StoredIsPublished'
    BY DEF CacheInv, StoredIsPublished, Old
<1> QED
    BY <1>1, <1>2, <1>3, <1>4 DEF CacheInv

\* A step that publishes, and saves, an object: a new one, or one with more names.
LEMMA CacheIsPublished ==
    ASSUME ClockInv, CacheInv, Next, NEW cs \in Seq(Cache), NEW o \in 1..Len(cs), Publish(cs, o),
           resolves' \subseteq resolves, Len(objs) <= Len(cs),
           \A p \in DOMAIN cs : cs[p].lists = None =>
               EmptyMade' \/ (p \in DOMAIN objs /\ objs[p].lists = None)
    PROVE  CacheInv'
<1>1. /\ objs' = cs /\ objs' \in Seq(Cache) /\ pub' \in 0..Len(objs')
      /\ stored' \in Cache \union {None} /\ StoredIsPublished' /\ stored' = cs[o]
    BY PublishKeeps DEF Publish
<1>2. DOMAIN cs = 1..Len(cs) /\ DOMAIN objs = 1..Len(objs) /\ Len(cs) \in Nat /\ Len(objs) \in Nat
    BY LenProperties DEF CacheInv
<1>3. \A r \in resolves' : r.obj \in DOMAIN objs' /\ r.ids \subseteq Ids
    BY <1>1, <1>2 DEF CacheInv
<1>4. \A p \in DOMAIN objs' : objs'[p].lists = None => EmptyMade'
    BY <1>1, HistoryGrows, EmptyMadeStays DEF CacheInv
<1> QED
    BY <1>1, <1>2, <1>3, <1>4 DEF CacheInv

\* What loadAssets does to the published object.
LEMMA LoadAssetsPublishes ==
    ASSUME NEW who, NEW p, LoadAssets(who, p)
    PROVE  pub' = p \/ (pub' = 0 /\ p # 0 /\ Old(p))
BY DEF LoadAssets

\* An answer with lists.
LEMMA LoadAnswerCache ==
    ASSUME ClockInv, CacheInv, LoadInv, Next, NEW v \in 0..MaxOps, LoadAnswer(v)
    PROVE  CacheInv'
<1> DEFINE lists == [of |-> load.by, ver |-> v]
           c == [Empty EXCEPT !.lists = lists]
<1>1. load.by \in Users
    BY DEF LoadInv, LoadAnswer, Requests
<1>2. lists \in Lists /\ lists # None
    BY <1>1, NoneAssumption DEF Lists
<1>3. c \in Cache /\ c.lists # None
    BY <1>2, EmptyIsCache
<1> HIDE DEF c, lists
<1>4. Publish(Append(objs, c), Len(objs) + 1) /\ resolves' = resolves
    BY DEF LoadAnswer, c, lists
<1>5. objs \in Seq(Cache)
    BY DEF CacheInv
<1>6. DOMAIN objs = 1..Len(objs) /\ Len(objs) \in Nat
    BY <1>5, LenProperties
<1>7. /\ Append(objs, c) \in Seq(Cache) /\ Len(Append(objs, c)) = Len(objs) + 1
      /\ \A p \in DOMAIN Append(objs, c) :
             Append(objs, c)[p].lists = None => p \in DOMAIN objs /\ objs[p].lists = None
    BY <1>3, <1>5, <1>6, OneMore
<1> DEFINE cs == Append(objs, c)
           o == Len(objs) + 1
<1>8. cs \in Seq(Cache) /\ o \in 1..Len(cs) /\ Len(objs) <= Len(cs) /\ Publish(cs, o)
    BY <1>4, <1>6, <1>7
<1> HIDE DEF cs, o
<1> QED
    BY <1>4, <1>7, <1>8, CacheIsPublished DEF cs

\* A failed load: a service that catches it makes an empty cache.
LEMMA LoadFailedCache ==
    ASSUME ClockInv, CacheInv, Next, LoadFailed
    PROVE  CacheInv'
<1>1. CASE A.catches
    <2>1. EmptyMade'
        <3>1. kind \in {"dispatcher", "driver"}
            BY <1>1, Services DEF ClockInv
        <3>2. history'.failed /\ kind' = kind
            BY <1>1 DEF LoadFailed, ClockInv, Histories
        <3> QED
            BY <3>1, <3>2 DEF EmptyMade
    <2>2. Publish(Append(objs, Empty), Len(objs) + 1) /\ resolves' = resolves
        BY <1>1 DEF LoadFailed
    <2>3. objs \in Seq(Cache) /\ Empty \in Cache
        BY EmptyIsCache DEF CacheInv
    <2>4. Append(objs, Empty) \in Seq(Cache) /\ Len(Append(objs, Empty)) = Len(objs) + 1
        BY <2>3, OneMore
    <2>5. Len(objs) \in Nat
        BY <2>3, LenProperties
    <2> DEFINE cs == Append(objs, Empty)
               o == Len(objs) + 1
    <2>6. cs \in Seq(Cache) /\ o \in 1..Len(cs) /\ Len(objs) <= Len(cs) /\ Publish(cs, o)
        BY <2>2, <2>4, <2>5
    <2> HIDE DEF cs, o
    <2> QED
        BY <2>1, <2>2, <2>6, CacheIsPublished
<1>2. CASE ~A.catches
    BY <1>2, CacheIsLeft DEF LoadFailed
<1> QED
    BY <1>1, <1>2

\* Asking for names without a cache makes an empty one, not yet published.
LEMMA ResolveEntitiesCache ==
    ASSUME ClockInv, CacheInv, Next, NEW ids \in SUBSET Ids, NEW aged, ResolveEntities(ids, aged)
    PROVE  CacheInv'
<1>1. objs \in Seq(Cache) /\ DOMAIN objs = 1..Len(objs) /\ Len(objs) \in Nat /\ pub \in 0..Len(objs)
    BY LenProperties DEF CacheInv
<1>2. pub' = pub /\ stored' = stored
    BY DEF ResolveEntities
<1>3. EmptyMade => EmptyMade'
    BY HistoryGrows, EmptyMadeStays
<1>4. CASE pub # 0
    <2>1. /\ objs' = objs
          /\ \E m \in SUBSET ids : resolves' = resolves \union {[obj |-> pub, ids |-> m]}
        BY <1>4 DEF ResolveEntities
    <2>2. \A r \in resolves' : r.obj \in DOMAIN objs' /\ r.ids \subseteq Ids
        BY <1>1, <1>4, <2>1 DEF CacheInv
    <2> QED
        BY <1>1, <1>2, <1>3, <2>1, <2>2 DEF CacheInv, StoredIsPublished
<1>5. CASE pub = 0
    <2>1. EmptyMade'
        <3>1. kind \in {"dispatcher", "admin"}
            BY <1>5, Services DEF ResolveEntities, ClockInv
        <3>2. history'.emptied /\ kind' = kind
            BY <1>5 DEF ResolveEntities, ClockInv, Histories
        <3> QED
            BY <3>1, <3>2 DEF EmptyMade
    <2>2. objs' = Append(objs, Empty)
        BY <1>5 DEF ResolveEntities
    <2>3. objs' \in Seq(Cache) /\ Len(objs') = Len(objs) + 1 /\ DOMAIN objs' = 1..(Len(objs) + 1)
        BY <1>1, <2>2, EmptyIsCache, OneMore
    <2>4. \E m \in SUBSET ids : resolves' = resolves \union {[obj |-> Len(objs) + 1, ids |-> m]}
        BY <1>5, <2>2, <2>3 DEF ResolveEntities
    <2>5. \A r \in resolves' : r.obj \in DOMAIN objs' /\ r.ids \subseteq Ids
        BY <1>1, <2>3, <2>4 DEF CacheInv
    <2> QED
        BY <1>1, <1>2, <1>5, <2>1, <2>3, <2>5 DEF CacheInv, StoredIsPublished
<1> QED
    BY <1>4, <1>5

\* The object of a name request, with the names of its answer.
LEMMA NamesAreAdded ==
    ASSUME CacheInv, NEW r \in resolves, NEW n \in SUBSET r.ids, ResolveAnswer(r, n)
    PROVE  \E cs \in Seq(Cache) :
              /\ Publish(cs, r.obj) /\ r.obj \in 1..Len(cs) /\ Len(cs) = Len(objs)
              /\ \A p \in DOMAIN objs :
                    cs[p].lists = objs[p].lists /\ objs[p].names \subseteq cs[p].names
<1> DEFINE new == [objs[r.obj] EXCEPT !.names = @ \union Added(r, n)]
           cs == [objs EXCEPT ![r.obj] = new]
<1>1. objs \in Seq(Cache) /\ DOMAIN objs = 1..Len(objs) /\ r.obj \in 1..Len(objs) /\ r.ids \subseteq Ids
    BY LenProperties DEF CacheInv
<1>2. objs[r.obj] \in Cache /\ Added(r, n) \subseteq Ids
    BY <1>1, ElementOfSeq DEF Added
<1>3. new \in Cache /\ new.lists = objs[r.obj].lists /\ objs[r.obj].names \subseteq new.names
    BY <1>2 DEF Cache
<1>4. Publish(cs, r.obj)
    BY DEF ResolveAnswer
<1> HIDE DEF new
<1>5. cs \in Seq(Cache) /\ Len(cs) = Len(objs) /\ \A p \in 1..Len(objs) : cs[p] = IF p = r.obj THEN new ELSE objs[p]
    BY <1>1, <1>3, ExceptSeq
<1> HIDE DEF cs
<1> QED
    BY <1>1, <1>3, <1>4, <1>5

LEMMA ResolveAnswerCache ==
    ASSUME ClockInv, CacheInv, Next, NEW r \in resolves, NEW n \in SUBSET r.ids, ResolveAnswer(r, n)
    PROVE  CacheInv'
<1>1. PICK cs \in Seq(Cache) :
          /\ Publish(cs, r.obj) /\ r.obj \in 1..Len(cs) /\ Len(cs) = Len(objs)
          /\ \A p \in DOMAIN objs :
                cs[p].lists = objs[p].lists /\ objs[p].names \subseteq cs[p].names
    BY NamesAreAdded
<1>2. DOMAIN cs = 1..Len(cs) /\ DOMAIN objs = 1..Len(objs) /\ Len(objs) \in Nat
    BY LenProperties DEF CacheInv
<1>3. resolves' \subseteq resolves
    BY DEF ResolveAnswer
<1> QED
    BY <1>1, <1>2, <1>3, CacheIsPublished

\* Four hours later everything is too old, and as it was.
LEMMA FourHoursCache ==
    ASSUME ClockInv, CacheInv, Next, FourHours
    PROVE  CacheInv'
<1> DEFINE Aged(c) == [c EXCEPT !.old = TRUE]
<1>1. objs \in Seq(Cache) /\ DOMAIN objs = 1..Len(objs) /\ Len(objs) \in Nat
    BY LenProperties DEF CacheInv
<1>2. \A c \in Cache : Aged(c) \in Cache /\ Aged(c).lists = c.lists /\ Aged(c).old
    BY DEF Cache
<1> HIDE DEF Aged
<1>3. objs' = [o \in 1..Len(objs) |-> Aged(objs[o])] /\ pub' = pub /\ resolves' = resolves
    BY <1>1 DEF FourHours, Aged
<1>4. \A o \in 1..Len(objs) : objs[o] \in Cache
    BY <1>1, ElementOfSeq
<1>5. objs' \in Seq(Cache) /\ Len(objs') = Len(objs) /\ DOMAIN objs' = 1..Len(objs)
    BY <1>1, <1>2, <1>3, <1>4
<1>6. stored' = IF stored = None THEN None ELSE Aged(stored)
    BY DEF FourHours, Aged
<1>7. stored' \in Cache \union {None} /\ (stored' # None => stored # None /\ stored'.lists = stored.lists /\ stored'.old)
    BY <1>2, <1>6 DEF CacheInv
<1>8. EmptyMade => EmptyMade'
    BY HistoryGrows, EmptyMadeStays
<1>9. \A o \in DOMAIN objs' : objs'[o].lists = None => EmptyMade'
    BY <1>1, <1>2, <1>3, <1>4, <1>5, <1>8 DEF CacheInv
<1>10. StoredIsPublished'
    <2> SUFFICES ASSUME stored' # None, pub' # 0 PROVE stored' = objs'[pub']
        BY <1>7 DEF StoredIsPublished
    <2>1. stored # None /\ stored' = Aged(stored) /\ pub # 0
        BY <1>3, <1>6, <1>7
    <2>2. stored = objs[pub] /\ pub \in 1..Len(objs)
        BY <2>1, <1>1 DEF CacheInv, StoredIsPublished
    <2> QED
        BY <2>1, <2>2, <1>3
<1>11. pub' \in 0..Len(objs') /\ \A r \in resolves' : r.obj \in DOMAIN objs' /\ r.ids \subseteq Ids
    BY <1>1, <1>3, <1>5 DEF CacheInv
<1>12. stored' # None /\ stored'.lists = None => EmptyMade'
    BY <1>7, <1>8 DEF CacheInv
<1> QED
    BY <1>5, <1>7, <1>9, <1>10, <1>11, <1>12 DEF CacheInv

\* A reload publishes what is saved, unless it is too old.
LEMMA RestartCache ==
    ASSUME ClockInv, CacheInv, Next, Restart
    PROVE  CacheInv'
<1>1. stored \in Cache \union {None} /\ stored' \in {stored, None} /\ resolves' = {}
    BY DEF CacheInv, Restart, Kept
<1>2. EmptyMade => EmptyMade'
    BY HistoryGrows, EmptyMadeStays
<1>3. stored' # None /\ stored'.lists = None => EmptyMade'
    BY <1>1, <1>2 DEF CacheInv
<1>4. CASE stored # None /\ ~stored.old
    <2>1. stored' = stored /\ objs' = <<stored>> /\ pub' = Len(objs') /\ stored \in Cache
        BY <1>1, <1>4 DEF Restart, Kept, loadFromLocalStorage
    <2>2. objs' \in Seq(Cache) /\ Len(objs') = 1 /\ DOMAIN objs' = 1..1 /\ objs'[1] = stored
        BY <2>1
    <2> QED
        BY <1>1, <1>3, <1>4, <2>1, <2>2 DEF CacheInv, StoredIsPublished
<1>5. CASE ~(stored # None /\ ~stored.old)
    <2>1. objs' = << >> /\ pub' = Len(objs')
        BY <1>5 DEF Restart, loadFromLocalStorage
    <2>2. objs' \in Seq(Cache) /\ Len(objs') = 0 /\ DOMAIN objs' = {}
        BY <2>1
    <2>3. stored' = None \/ (stored' = stored /\ stored.old)
        BY <1>1, <1>5
    <2> QED
        BY <1>1, <1>3, <2>1, <2>2, <2>3 DEF CacheInv, StoredIsPublished
<1> QED
    BY <1>4, <1>5

\* Objects, published and saved.
LEMMA CacheStep == IInv /\ Next => CacheInv'
<1> SUFFICES ASSUME IInv, Next PROVE CacheInv'
    OBVIOUS
<1> USE DEF IInv
<1>1. CASE OpenTable \/ OpenEditForm
    <2> objs' = objs /\ stored' = stored /\ resolves' = resolves /\ (pub' = pub \/ (pub' = 0 /\ pub # 0 /\ Old(pub)))
        BY <1>1, LoadAssetsPublishes DEF OpenTable, OpenEditForm, OpenForm
    <2> QED
        BY CacheIsLeft
<1>2. CASE ForceRefresh
    <2> pub' = 0 /\ stored' = None /\ objs' = objs /\ resolves' = resolves
        BY <1>2, LoadAssetsPublishes DEF ForceRefresh, OpenForm
    <2> QED
        BY CacheIsLeft
<1>3. CASE LeaveTable \/ ServerChange \/ \E u \in Users : ChangeUser(u)
    <2> objs' = objs /\ pub' = pub /\ stored' \in {stored, None} /\ resolves' = resolves
        BY <1>3 DEF LeaveTable, ServerChange, ChangeUser, ClearUserData
    <2> QED
        BY CacheIsLeft
<1>4. CASE \E v \in 0..MaxOps : LoadAnswer(v)
    BY <1>4, LoadAnswerCache
<1>5. CASE LoadFailed
    BY <1>5, LoadFailedCache
<1>6. CASE \E rows, known, aged \in SUBSET Ids : ResolveEntities(resolveEntityNames(rows, known), aged)
    <2> PICK rows, known, aged \in SUBSET Ids : ResolveEntities(resolveEntityNames(rows, known), aged)
        BY <1>6
    <2> resolveEntityNames(rows, known) \in SUBSET Ids
        BY DEF resolveEntityNames
    <2> QED
        BY ResolveEntitiesCache
<1>7. CASE \E r \in resolves : ResolveFailed(r)
    <2> objs' = objs /\ pub' = pub /\ stored' = stored /\ resolves' \subseteq resolves
        BY <1>7 DEF ResolveFailed
    <2> QED
        BY CacheIsLeft
<1>8. CASE \E r \in resolves : \E n \in Resolved(r.ids) : ResolveAnswer(r, n)
    BY <1>8, ResolveAnswerCache DEF Resolved
<1>9. CASE FourHours
    BY <1>9, FourHoursCache
<1>10. CASE Restart
    BY <1>10, RestartCache
<1> QED
    BY <1>1, <1>2, <1>3, <1>4, <1>5, <1>6, <1>7, <1>8, <1>9, <1>10 DEF Next

-----------------------------------------------------------------------------
(* The load in flight and the screens. *)

\* A request is one, and is not the lack of one.
LEMMA RequestsAreSome ==
    ASSUME ClockInv, NEW who \in {"table", "form"}
    PROVE  /\ [who |-> who, by |-> user, sent |-> server] \in Requests
           /\ \A q \in Requests : q # None
BY NoneAssumption, BoundAssumption DEF ClockInv, Requests

\* What a screen that asks finds: nothing is under way, and its own request goes
\* out; or the flag is set, and it follows; or the cache is good.
LEMMA LoadAssetsAsks ==
    ASSUME ClockInv, LoadInv, NEW who \in {"table", "form"}, NEW p, LoadAssets(who, p)
    PROVE  /\ loading' \in BOOLEAN
           /\ \/ Waiting(p) = "waits" /\ load = None /\ loading'
                /\ load' = [who |-> who, by |-> user, sent |-> server] /\ load' \in Requests /\ load' # None
              \/ Waiting(p) \in {"has", "follows"} /\ load' = load /\ (loading => loading')
           /\ Waiting(p) = "has" <=> FromCache(p)
<1>1. [who |-> who, by |-> user, sent |-> server] \in Requests /\ [who |-> who, by |-> user, sent |-> server] # None
    BY RequestsAreSome
<1>2. loading' = (loading \/ ~FromCache(p)) /\ FromCache(p) \in BOOLEAN
    BY DEF LoadAssets, FromCache
<1>3. CASE FromCache(p)
    BY <1>2, <1>3 DEF LoadAssets, LoadInv, Waiting
<1>4. CASE ~FromCache(p) /\ loading
    BY <1>2, <1>4 DEF LoadAssets, LoadInv, Waiting
<1>5. CASE ~FromCache(p) /\ ~loading
    BY <1>1, <1>2, <1>5 DEF LoadAssets, LoadInv, Waiting
<1> QED
    BY <1>3, <1>4, <1>5

\* The load in flight, with its flag, and the table that waits for it.
LEMMA LoadStep == ClockInv /\ LoadInv /\ Next => LoadInv'
<1> SUFFICES ASSUME ClockInv, LoadInv, Next PROVE LoadInv'
    OBVIOUS
<1>1. CASE OpenTable
    <2>1. LoadAssets("table", pub) /\ table' = Waiting(pub) /\ table = "off" /\ server' = server
        BY <1>1 DEF OpenTable
    <2>2. server <= server /\ load # None => load.sent <= server'
        BY <2>1 DEF LoadInv, ClockInv
    <2>3. CASE Waiting(pub) = "waits" /\ load' = [who |-> "table", by |-> user, sent |-> server] /\ load' \in Requests /\ load' # None /\ loading'
        BY <2>1, <2>3, LoadAssetsAsks DEF LoadInv, ClockInv
    <2>4. CASE Waiting(pub) \in {"has", "follows"} /\ load' = load /\ (loading => loading')
        BY <2>1, <2>2, <2>4, LoadAssetsAsks DEF LoadInv
    <2> QED
        BY <2>1, <2>3, <2>4, LoadAssetsAsks
<1>2. ASSUME NEW p, NEW forced, OpenForm(p, forced), table' = table, server' = server
      PROVE  LoadInv'
    <2>1. LoadAssets("form", p)
        BY <1>2 DEF OpenForm
    <2>3. CASE load = None /\ load' = [who |-> "form", by |-> user, sent |-> server] /\ load' \in Requests /\ load' # None /\ loading'
        BY <1>2, <2>1, <2>3, LoadAssetsAsks DEF LoadInv, ClockInv
    <2>4. CASE load' = load /\ (loading => loading')
        BY <1>2, <2>1, <2>4, LoadAssetsAsks DEF LoadInv
    <2> QED
        BY <2>1, <2>3, <2>4, LoadAssetsAsks
<1>3. CASE OpenEditForm
    BY <1>2, <1>3 DEF OpenEditForm
<1>4. CASE ForceRefresh
    BY <1>2, <1>4 DEF ForceRefresh
<1>5. CASE LeaveTable
    BY <1>5 DEF LeaveTable, Leave, LoadInv
<1>6. CASE \E v \in 0..MaxOps : LoadAnswer(v)
    BY <1>6 DEF LoadAnswer, TableGets, LoadInv
<1>7. CASE LoadFailed
    BY <1>7 DEF LoadFailed, TableGets, LoadInv
<1>8. CASE \E rows, known, aged \in SUBSET Ids : ResolveEntities(resolveEntityNames(rows, known), aged)
    BY <1>8 DEF ResolveEntities, LoadInv
<1>9. CASE \E r \in resolves : ResolveFailed(r) \/ \E n \in Resolved(r.ids) : ResolveAnswer(r, n)
    <2> UNCHANGED <<server, loading, load, table>>
        BY <1>9 DEF ResolveFailed, ResolveAnswer
    <2> QED
        BY DEF LoadInv
<1>10. CASE ServerChange
    BY <1>10 DEF ServerChange, LoadInv, ClockInv, Requests
<1>11. CASE FourHours
    BY <1>11 DEF FourHours, LoadInv
<1>12. CASE Restart
    BY <1>12 DEF Restart, LoadInv
<1>13. CASE \E u \in Users : ChangeUser(u)
    BY <1>13 DEF ChangeUser, Leave, LoadInv
<1> QED
    BY <1>1, <1>3, <1>4, <1>5, <1>6, <1>7, <1>8, <1>9, <1>10, <1>11, <1>12, <1>13 DEF Next

\* The lists that cache$ has are lists, or none.
LEMMA ListsAreLists ==
    ASSUME CacheInv, NEW o \in 0..Len(objs)
    PROVE  ListsOf(o) \in Lists
<1>1. CASE o = 0
    BY <1>1 DEF ListsOf, Lists
<1>2. CASE o # 0
    <2>1. objs \in Seq(Cache) /\ Len(objs) \in Nat
        BY LenProperties DEF CacheInv
    <2>2. o \in 1..Len(objs)
        BY <1>2, <2>1
    <2>3. objs[o] \in Cache
        BY <2>1, <2>2, ElementOfSeq
    <2> QED
        BY <1>2, <2>3 DEF ListsOf, Cache
<1> QED
    BY <1>1, <1>2

\* What cache$ emits reaches a form that follows it, and no other.
LEMMA FollowersGet ==
    ASSUME FormInv, NEW l \in Lists, FormGets(FALSE, l), load' = load
    PROVE  FormInv'
<1>1. form' \in Forms /\ form'.st = form.st /\ form'.by = form.by /\ form'.asked = form.asked /\ form'.forced = form.forced
    BY DEF FormInv, FormGets, Given, Forms
<1>2. form.st # "follows" => form'.lists = form.lists
    BY DEF FormInv, FormGets, Given, Forms
<1> QED
    BY <1>1, <1>2 DEF FormInv, NewFormIsFresh

\* A load's answer reaches the form that waits for it, and those that follow.
LEMMA WaiterGets ==
    ASSUME FormInv, NEW l \in Lists, load # None, FormGets(load.who = "form", l), load' = None,
           l # None => l.of = load.by /\ l.ver >= load.sent
    PROVE  FormInv'
<1>1. /\ form' \in Forms /\ form'.by = form.by /\ form'.asked = form.asked /\ form'.forced = form.forced
      /\ form'.st = IF form.st = "waits" THEN "has" ELSE form.st
      /\ form.st = "waits" => form'.lists = l
      /\ form.st = "has" => form'.lists = form.lists
    BY DEF FormInv, FormGets, Given, Forms
<1> QED
    BY <1>1 DEF FormInv, NewFormIsFresh

\* A form that is opened.
LEMMA FormOpens ==
    ASSUME IInv, NEW p \in {0, pub}, NEW forced \in BOOLEAN, forced => p = 0, OpenForm(p, forced),
           objs' = objs
    PROVE  FormInv'
<1>1. /\ LoadAssets("form", p)
      /\ form' = [st |-> Waiting(p), forced |-> forced, asked |-> server, by |-> user,
                  lists |-> IF Waiting(p) = "waits" THEN None ELSE ListsOf(pub')]
    BY DEF OpenForm
<1>2. pub \in 0..Len(objs) /\ Len(objs) \in Nat
    BY LenProperties DEF IInv, CacheInv
<1>3. pub' \in 0..Len(objs)
    BY <1>1, <1>2, LoadAssetsPublishes
<1>4. ListsOf(pub') \in Lists
    BY <1>3, ListsAreLists DEF IInv
<1>5. user \in Users /\ server \in Nat /\ None \in Lists
    BY DEF IInv, ClockInv, Lists
<1>6. Waiting(p) \in {"waits", "has", "follows"}
    BY DEF Waiting
<1>7. form' \in Forms
    BY <1>1, <1>4, <1>5, <1>6 DEF Forms
<1>8. Waiting(p) = "waits" => load' = [who |-> "form", by |-> user, sent |-> server] /\ load' # None
    BY <1>1, LoadAssetsAsks DEF IInv
<1>9. forced => Waiting(p) # "has"
    BY DEF Waiting, FromCache
<1> QED
    BY <1>1, <1>7, <1>8, <1>9 DEF FormInv, NewFormIsFresh

\* The form and its lists.
LEMMA FormStep == IInv /\ Next => FormInv'
<1> SUFFICES ASSUME IInv, Next PROVE FormInv'
    OBVIOUS
<1>0. /\ pub \in 0..Len(objs) /\ Len(objs) \in Nat /\ DOMAIN objs = 1..Len(objs)
      /\ \A o \in 0..Len(objs) : ListsOf(o) \in Lists
    BY LenProperties, ListsAreLists DEF IInv, CacheInv
<1>1. CASE OpenTable
    <2>1. LoadAssets("table", pub) /\ FormGets(FALSE, ListsOf(pub')) /\ objs' = objs
        BY <1>1 DEF OpenTable, ListsOf
    <2>2. pub' \in 0..Len(objs)
        BY <1>0, <2>1, LoadAssetsPublishes
    <2>3. CASE load' = load
        BY <1>0, <2>1, <2>2, <2>3, FollowersGet DEF IInv
    <2>4. CASE load = None
        <3>1. form.st # "waits"
            BY <2>4 DEF IInv, FormInv
        <3>2. form' \in Forms /\ form'.st = form.st /\ form'.by = form.by /\ form'.asked = form.asked
              /\ form'.forced = form.forced /\ (form.st # "follows" => form'.lists = form.lists)
            BY <1>0, <2>1, <2>2 DEF IInv, FormInv, FormGets, Given, Forms
        <3> QED
            BY <3>1, <3>2 DEF IInv, FormInv, NewFormIsFresh
    <2> QED
        BY <2>1, <2>3, <2>4, LoadAssetsAsks DEF IInv
<1>2. CASE LeaveTable
    <2>1. form' = form /\ (load' = load \/ (load # None /\ load.who = "table"))
        BY <1>2 DEF LeaveTable, Leave
    <2> QED
        BY <2>1 DEF IInv, FormInv, NewFormIsFresh
<1>3. CASE OpenEditForm
    BY <1>3, FormOpens DEF OpenEditForm
<1>4. CASE ForceRefresh
    BY <1>4, FormOpens DEF ForceRefresh
<1>5. ASSUME NEW v \in 0..MaxOps, LoadAnswer(v)
      PROVE  FormInv'
    <2> DEFINE l == [of |-> load.by, ver |-> v]
    <2>1. load # None /\ v \in load.sent..server /\ FormGets(load.who = "form", l) /\ load' = None
        BY <1>5 DEF LoadAnswer
    <2>2. load \in Requests
        BY <2>1 DEF IInv, LoadInv
    <2>3. l \in Lists /\ l.of = load.by /\ l.ver >= load.sent
        BY <2>1, <2>2 DEF Lists, Requests
    <2> HIDE DEF l
    <2> QED
        BY <2>1, <2>3, WaiterGets DEF IInv
<1>6. CASE LoadFailed
    <2>1. load # None /\ load' = None /\ None \in Lists
        BY <1>6 DEF LoadFailed, Lists
    <2>2. CASE A.catches \/ form.st = "waits"
        <3>1. FormGets(load.who = "form", None)
            BY <1>6, <2>2 DEF LoadFailed
        <3> QED
            BY <2>1, <3>1, WaiterGets DEF IInv
    <2>3. CASE ~(A.catches \/ form.st = "waits")
        <3>1. form' = form
            BY <1>6, <2>3 DEF LoadFailed
        <3> QED
            BY <2>3, <3>1 DEF IInv, FormInv, NewFormIsFresh
    <2> QED
        BY <2>2, <2>3
<1>7. ASSUME NEW r \in resolves, NEW n \in SUBSET r.ids, ResolveAnswer(r, n)
      PROVE  FormInv'
    <2>1. r.obj \in 1..Len(objs)
        BY <1>0 DEF IInv, CacheInv
    <2> DEFINE l == ListsOf(r.obj)
    <2>2. l \in Lists
        BY <1>0, <2>1
    <2>3. FormGets(FALSE, l) /\ load' = load
        BY <1>7 DEF ResolveAnswer
    <2> HIDE DEF l
    <2> QED
        BY <2>2, <2>3, FollowersGet DEF IInv
<1>8. CASE Restart
    BY <1>8 DEF Restart, Closed, Forms, Lists, IInv, ClockInv, FormInv, NewFormIsFresh
<1>9. ASSUME NEW u \in Users, ChangeUser(u)
      PROVE  FormInv'
    <2>1. form' = [form EXCEPT !.st = "off"]
        BY <1>9 DEF ChangeUser
    <2>2. form' \in Forms /\ form'.st = "off"
        BY <2>1 DEF IInv, FormInv, Forms
    <2> QED
        BY <2>2 DEF FormInv, NewFormIsFresh
<1>10. CASE UNCHANGED <<form, load>>
    BY <1>10 DEF IInv, FormInv, NewFormIsFresh
<1>11. ASSUME NEW rows \in SUBSET Ids, NEW known \in SUBSET Ids, NEW aged \in SUBSET Ids,
              ResolveEntities(resolveEntityNames(rows, known), aged)
       PROVE  UNCHANGED <<form, load>>
    BY <1>11 DEF ResolveEntities
<1>12. (\E r \in resolves : ResolveFailed(r)) \/ ServerChange \/ FourHours => UNCHANGED <<form, load>>
    BY DEF ResolveFailed, ServerChange, FourHours
<1> QED
    BY <1>1, <1>2, <1>3, <1>4, <1>5, <1>6, <1>7, <1>8, <1>9, <1>10, <1>11, <1>12 DEF Next, Resolved

-----------------------------------------------------------------------------
\* At the start there is nothing.
LEMMA InitHolds == Init => IInv
<1> SUFFICES ASSUME Init PROVE IInv
    OBVIOUS
<1>1. ClockInv
    BY BoundAssumption DEF Init, ClockInv, Histories
<1>2. CacheInv
    BY EmptySeq DEF Init, CacheInv, StoredIsPublished
<1>3. LoadInv
    BY DEF Init, LoadInv
<1>4. FormInv
    BY DEF Init, FormInv, Closed, Forms, Lists, NewFormIsFresh
<1> QED
    BY <1>1, <1>2, <1>3, <1>4 DEF IInv

\* Every step keeps the invariant.
LEMMA StepHolds == IInv /\ [Next]_vars => IInv'
<1> SUFFICES ASSUME IInv, [Next]_vars PROVE IInv'
    OBVIOUS
<1>1. CASE Next
    BY <1>1, ClockStep, CacheStep, LoadStep, FormStep DEF IInv
<1>2. CASE UNCHANGED vars
    BY <1>2 DEF vars, IInv, ClockInv, CacheInv, LoadInv, FormInv, EmptyMade, StoredIsPublished, NewFormIsFresh, ListsOf, Old
<1> QED
    BY <1>1, <1>2

\* What is published is saved, what is empty was made so, who waits has asked.
THEOREM CacheInductive == Spec => []IInv
BY InitHolds, StepHolds, PTL DEF Spec

\* An empty cache comes from a failed load or an early name request only; a reload
\* finds what was published last; a new order's form has fresh lists of its user.
THEOREM PublishedIsRight == Spec => []CacheIsRight
<1>1. IInv => CacheIsRight
    <2> SUFFICES ASSUME IInv PROVE CacheIsRight
        OBVIOUS
    <2>1. DOMAIN objs = 1..Len(objs) /\ Len(objs) \in Nat /\ \A o \in DOMAIN objs : objs[o] \in Cache
        BY LenProperties, ElementOfSeq DEF IInv, CacheInv
    <2>2. TypeOK
        BY <2>1, BoundAssumption DEF IInv, ClockInv, CacheInv, LoadInv, FormInv, Forms, TypeOK
    <2>3. CacheHasLists
        BY <2>1 DEF IInv, CacheInv, CacheHasLists, EmptyMade, ListsOf
    <2> QED
        BY <2>2, <2>3 DEF IInv, CacheInv, FormInv, CacheIsRight
<1> QED
    BY <1>1, CacheInductive, PTL

\* Overlapping name requests do not undo one another: a name goes only with its
\* whole cache.
THEOREM NamesAreKept == Spec => NamesStay
<1> DEFINE Stays == pub' = pub /\ pub # 0 /\ Len(objs') >= Len(objs) => objs[pub].names \subseteq objs'[pub].names
<1>1. IInv /\ [Next]_vars => Stays
    <2> SUFFICES ASSUME IInv, [Next]_vars, pub' = pub, pub # 0, Len(objs') >= Len(objs)
                 PROVE  objs[pub].names \subseteq objs'[pub].names
        OBVIOUS
    <2>1. objs \in Seq(Cache) /\ DOMAIN objs = 1..Len(objs) /\ Len(objs) \in Nat /\ pub \in 1..Len(objs) /\ objs[pub] \in Cache
        BY LenProperties, ElementOfSeq DEF IInv, CacheInv
    <2>2. CASE objs' = objs
        BY <2>2
    <2>3. ASSUME NEW v \in 0..MaxOps, LoadAnswer(v)
          PROVE  FALSE
        BY <2>1, <2>3 DEF LoadAnswer, Publish
    <2>4. CASE LoadFailed
        <3>1. objs' = objs \/ pub' = Len(objs) + 1
            BY <2>4 DEF LoadFailed, Publish
        <3> QED
            BY <3>1, <2>1
    <2>5. CASE \E rows, known, aged \in SUBSET Ids : ResolveEntities(resolveEntityNames(rows, known), aged)
        BY <2>5 DEF ResolveEntities
    <2>6. ASSUME NEW r \in resolves, NEW n \in SUBSET r.ids, ResolveAnswer(r, n)
          PROVE  objs[pub].names \subseteq objs'[pub].names
        BY <2>1, <2>6, NamesAreAdded DEF IInv, Publish
    <2>7. CASE FourHours
        <3> objs'[pub] = [objs[pub] EXCEPT !.old = TRUE]
            BY <2>1, <2>7 DEF FourHours
        <3> QED
            BY <2>1 DEF Cache
    <2>8. CASE Restart
        <3>1. objs' = <<stored>> /\ stored # None
            BY <2>1, <2>8 DEF Restart, loadFromLocalStorage
        <3>2. pub = 1 /\ objs'[1] = stored
            BY <2>1, <2>8, <3>1 DEF Restart
        <3>3. stored = objs[pub]
            BY <3>1 DEF IInv, CacheInv, StoredIsPublished
        <3> QED
            BY <3>2, <3>3
    <2>9. \/ OpenTable \/ LeaveTable \/ OpenEditForm \/ ForceRefresh \/ ServerChange
          \/ (\E r \in resolves : ResolveFailed(r)) \/ (\E u \in Users : ChangeUser(u)) \/ UNCHANGED vars
          => objs' = objs
        BY DEF OpenTable, LeaveTable, OpenEditForm, ForceRefresh, ServerChange, ResolveFailed, ChangeUser, vars
    <2> QED
        BY <2>2, <2>3, <2>4, <2>5, <2>6, <2>7, <2>8, <2>9 DEF Next, Resolved
<1> QED
    BY <1>1, CacheInductive, PTL DEF Spec, NamesStay
=============================================================================
