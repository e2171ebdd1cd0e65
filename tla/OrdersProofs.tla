---------------------------- MODULE OrdersProofs ----------------------------
(***************************************************************************)
(* Proofs about the orders service: about Orders, for any number of users, *)
(* orders and requests, and, at the end, about OrderListing.  The          *)
(* inductive invariant of Orders is IInv: an earned status needs to know   *)
(* that the status a request read is still one its order has had when it   *)
(* writes.                                                                 *)
(***************************************************************************)
EXTENDS Orders, OrderListing, FiniteSetTheorems, WellFoundedInduction, TLAPS

\* A new order is an item: the client's fields, the caller and "Scheduled".
LEMMA NewItemType ==
    ASSUME NEW d \in Dispatchers, NEW dto \in Dtos
    PROVE  NewItem(d, dto) \in Items
BY DEF NewItem, Items, Dtos, Statuses, Users

\* Whatever fields a PATCH carries, the item stays an item.
LEMMA PatchedItemType ==
    ASSUME NEW item \in Items, NEW caller \in Users, NEW F, NEW dto \in Dtos
    PROVE  PatchedItem(item, caller, F, dto) \in Items
<1>1. dto.orderStatus \in Statuses
    BY PatchAssumption DEF Dtos
<1>2. \A S, f, new, old : new \in S /\ old \in S => Updated(f, F, new, old) \in S
    BY DEF Updated
<1>3. dto \in [adminId: Admins, carrierId: Carriers, driverId: Drivers,
               brokerId: Brokers, scheduledTimestamp: Dates, orderStatus: Statuses]
    BY <1>1 DEF Dtos
<1> DEFINE new == PatchedItem(item, caller, F, dto)
<1>4. /\ new.adminId \in Admins /\ new.carrierId \in Carriers /\ new.driverId \in Drivers
      /\ new.brokerId \in Brokers /\ new.orderStatus \in Statuses
      /\ new.scheduledTimestamp \in Dates
      /\ new.GSI1PK \in Carriers /\ new.GSI3PK \in Drivers /\ new.GSI5PK \in Brokers
      /\ new.dispatcherId \in Dispatchers /\ new.GSI2PK \in Dispatchers
      /\ new.GSI4PK \in Admins /\ new.IndexDate \in Dates /\ new.lastModifiedBy \in Users
    BY <1>2, <1>3 DEF PatchedItem, Items
<1>5. new = [f \in DOMAIN item |-> new[f]] /\ DOMAIN new = DOMAIN item
    BY DEF PatchedItem, Items
<1> QED
    BY <1>4, <1>5 DEF Items

\* A PATCH re-keys the carrier's and the driver's index together with the
\* attribute, and leaves the dispatcher and his key alone.
LEMMA PatchedItemKeys ==
    ASSUME NEW item \in Items, NEW caller, NEW F, NEW dto,
           item.GSI1PK = item.carrierId,
           item.GSI2PK = item.dispatcherId,
           item.GSI3PK = item.driverId
    PROVE  LET new == PatchedItem(item, caller, F, dto)
           IN  /\ new.GSI1PK = new.carrierId
               /\ new.GSI2PK = new.dispatcherId
               /\ new.GSI3PK = new.driverId
               /\ new.dispatcherId = item.dispatcherId
               /\ new.orderStatus = Updated("orderStatus", F, dto.orderStatus, item.orderStatus)
BY DEF PatchedItem, Updated, Items

\* A live entry of a well-typed table is an item.
LEMMA LiveIsItem ==
    ASSUME TypeOK, NEW o \in OrderIds, Live(o)
    PROVE  table[o] \in Items
BY DEF TypeOK, Live

\* A request in flight is a record of InFlight.
LEMMA BusyIsInFlight ==
    ASSUME TypeOK, NEW r \in Requests, req[r] # Idle
    PROVE  req[r] \in InFlight
BY DEF TypeOK

\* An item is not the absence of one.
LEMMA ItemIsNotAbsent == \A item \in Items : item # Absent
BY AbsentAssumption

LEMMA UsersOfType ==
    \A role \in Roles : UsersOf(role) \subseteq Users
BY DEF Roles, UsersOf, Users

\* The type invariant, step by step.
LEMMA TypeStep == TypeOK /\ [Next]_vars => TypeOK'
<1> SUFFICES ASSUME TypeOK, [Next]_vars PROVE TypeOK'
    OBVIOUS
<1>1. CASE Create
    <2>1. PICK o \in OrderIds, d \in Dispatchers, dto \in Dtos : createOrder(o, d, dto)
        BY <1>1 DEF Create
    <2>2. NewItem(d, dto) \in Items
        BY NewItemType
    <2> QED
        BY <2>1, <2>2 DEF createOrder, TypeOK, Statuses
<1>2. CASE Patch
    <2>0. PICK o \in OrderIds, role \in Roles : \E caller \in UsersOf(role) :
               \E F \in SUBSET PatchFields, dto \in Dtos : updateOrder(o, role, caller, F, dto)
        BY <1>2 DEF Patch
    <2>1. PICK caller \in UsersOf(role), F \in SUBSET PatchFields, dto \in Dtos :
               updateOrder(o, role, caller, F, dto)
        BY <2>0
    <2>2. table[o] \in Items
        BY <2>1, LiveIsItem DEF updateOrder
    <2>3. PatchedItem(table[o], caller, F, dto) \in Items
        BY <2>2, PatchedItemType, UsersOfType
    <2>4. dto.orderStatus \in Statuses
        BY PatchAssumption DEF Dtos
    <2> QED
        BY <2>1, <2>3, <2>4 DEF updateOrder, TypeOK
<1>3. CASE AskStatus
    <2>0. PICK r \in Requests, o \in OrderIds, role \in Roles :
               \E caller \in UsersOf(role), to \in Statuses : ReadForStatus(r, o, role, caller, to)
        BY <1>3 DEF AskStatus
    <2>1. PICK caller \in UsersOf(role), to \in Statuses : ReadForStatus(r, o, role, caller, to)
        BY <2>0
    <2>2. table[o].orderStatus \in Statuses
        BY <2>1, LiveIsItem DEF ReadForStatus, Items
    <2>3. [orderId |-> o, userId |-> caller, from |-> table[o].orderStatus, to |-> to] \in InFlight
        BY <2>2, UsersOfType DEF InFlight
    <2> QED
        BY <2>1, <2>3 DEF ReadForStatus, TypeOK
<1>4. ASSUME NEW r \in Requests, WriteStatus(r) PROVE TypeOK'
    <2>1. req[r] \in InFlight
        BY <1>4, BusyIsInFlight DEF WriteStatus
    <2>2. table[req[r].orderId] \in Items
        BY <1>4, <2>1, LiveIsItem DEF WriteStatus, InFlight
    <2>3. [table[req[r].orderId] EXCEPT !.orderStatus = req[r].to,
                                        !.lastModifiedBy = req[r].userId] \in Items
        BY <2>1, <2>2 DEF InFlight, Items
    <2> QED
        BY <1>4, <2>1, <2>3 DEF WriteStatus, TypeOK, InFlight
<1>5. ASSUME NEW r \in Requests, EndStatus(r) PROVE TypeOK'
    BY <1>5 DEF EndStatus, TypeOK
<1>6. CASE Delete
    BY <1>6 DEF Delete, deleteOrder, TypeOK
<1>7. CASE UNCHANGED vars
    BY <1>7 DEF vars, TypeOK
<1> QED
    BY <1>1, <1>2, <1>3, <1>4, <1>5, <1>6, <1>7 DEF Next

\* Table, request slots and histories keep their kinds under every
\* interleaving of the handlers.
THEOREM TypeCorrect == Spec => []TypeOK
<1>1. Init => TypeOK
    BY DEF Init, TypeOK
<1> QED
    BY <1>1, TypeStep, PTL DEF Spec

-----------------------------------------------------------------------------
\* The parts of IInv that say how the table, the requests and the history
\* belong together.
StatusHeld == \A o \in OrderIds : Live(o) => o \in issued /\ table[o].orderStatus \in held[o]

\* Histories only grow for issued orders, so what was earned stays earned, and
\* what a request read stays true.
LEMMA HistoryGrows ==
    ASSUME IInv, TypeOK', req' = req, issued \subseteq issued',
           \A o \in OrderIds : o \in issued => held[o] \subseteq held'[o],
           \A o \in OrderIds : o \in issued => patched[o] \subseteq patched'[o]
    PROVE  RequestsEarned'
<1> SUFFICES ASSUME NEW r \in Requests, req[r] # Idle
             PROVE  /\ req[r].orderId \in issued'
                    /\ req[r].from \in held'[req[r].orderId]
                    /\ \E role \in Everyone : isTransitionAllowed(req[r].from, req[r].to, role)
    BY DEF RequestsEarned
<1>1. req[r].orderId \in OrderIds
    BY BusyIsInFlight DEF IInv, InFlight
<1> QED
    BY <1>1 DEF IInv, RequestsEarned

\* Every step of the orders service preserves the inductive invariant.
LEMMA IInvStep == IInv /\ [Next]_vars => IInv'
<1> SUFFICES ASSUME IInv, [Next]_vars PROVE IInv'
    OBVIOUS
<1>0. TypeOK /\ TypeOK'
    BY TypeStep DEF IInv
<1> USE <1>0
<1>1. CASE Create
    <2>1. PICK o \in OrderIds, d \in Dispatchers, dto \in Dtos : createOrder(o, d, dto)
        BY <1>1 DEF Create
    <2>2. /\ table' = [table EXCEPT ![o] = NewItem(d, dto)]
          /\ issued' = issued \cup {o}
          /\ held' = [held EXCEPT ![o] = {"Scheduled"}]
          /\ req' = req /\ patched' = patched /\ o \notin issued
        BY <2>1 DEF createOrder
    <2>3. KeysInStep'
        BY <2>2 DEF KeysInStep, Live, IInv, TypeOK, NewItem
    <2>4. StatusHeld'
        BY <2>2 DEF StatusHeld, Live, IInv, TypeOK, NewItem
    <2>5. RequestsEarned'
        BY <2>2, HistoryGrows DEF TypeOK
    <2>6. EarnedStatus'
        BY <2>2 DEF EarnedStatus, IInv, TypeOK
    <2> QED
        BY <2>3, <2>4, <2>5, <2>6 DEF IInv, StatusHeld
<1>2. CASE Patch
    <2>0. PICK o \in OrderIds, role \in Roles : \E caller \in UsersOf(role) :
               \E F \in SUBSET PatchFields, dto \in Dtos : updateOrder(o, role, caller, F, dto)
        BY <1>2 DEF Patch
    <2>1. PICK caller \in UsersOf(role), F \in SUBSET PatchFields, dto \in Dtos :
               updateOrder(o, role, caller, F, dto)
        BY <2>0
    <2>2. /\ table' = [table EXCEPT ![o] = PatchedItem(table[o], caller, F, dto)]
          /\ req' = req /\ issued' = issued /\ Live(o)
          /\ held' = [held EXCEPT ![o] = IF "orderStatus" \in F THEN @ \cup {dto.orderStatus} ELSE @]
          /\ patched' = [patched EXCEPT ![o] = IF "orderStatus" \in F THEN @ \cup {dto.orderStatus} ELSE @]
        BY <2>1 DEF updateOrder, TypeOK
    <2>3. \A p \in OrderIds : Live(p)' <=> Live(p)
        <3>1. PatchedItem(table[o], caller, F, dto) \in Items
            BY <2>2, LiveIsItem, PatchedItemType, UsersOfType
        <3> QED
            BY <2>2, <3>1, ItemIsNotAbsent DEF Live, TypeOK
    <2>4. KeysInStep'
        <3>1. table[o] \in Items
            BY <2>2, LiveIsItem
        <3>2. LET new == PatchedItem(table[o], caller, F, dto)
              IN  new.GSI1PK = new.carrierId /\ new.GSI2PK = new.dispatcherId /\ new.GSI3PK = new.driverId
            BY <2>2, <3>1, PatchedItemKeys DEF IInv, KeysInStep
        <3> QED
            BY <2>2, <2>3, <3>2 DEF KeysInStep, IInv, TypeOK
    <2>5. StatusHeld'
        <3>1. table[o] \in Items
            BY <2>2, LiveIsItem
        <3>2. PatchedItem(table[o], caller, F, dto).orderStatus =
                  IF "orderStatus" \in F THEN dto.orderStatus ELSE table[o].orderStatus
            BY <2>2, <3>1, PatchedItemKeys DEF IInv, KeysInStep, Updated
        <3> QED
            BY <2>2, <2>3, <3>2 DEF StatusHeld, IInv, TypeOK
    <2>6. RequestsEarned'
        BY <2>2, HistoryGrows DEF TypeOK
    <2>7. EarnedStatus'
        BY <2>2 DEF EarnedStatus, IInv, TypeOK
    <2> QED
        BY <2>4, <2>5, <2>6, <2>7 DEF IInv, StatusHeld
<1>3. CASE AskStatus
    <2>0. PICK r \in Requests, o \in OrderIds, role \in Roles :
               \E caller \in UsersOf(role), to \in Statuses : ReadForStatus(r, o, role, caller, to)
        BY <1>3 DEF AskStatus
    <2>1. PICK caller \in UsersOf(role), to \in Statuses : ReadForStatus(r, o, role, caller, to)
        BY <2>0
    <2>2. /\ req' = [req EXCEPT ![r] = [orderId |-> o, userId |-> caller,
                                        from |-> table[o].orderStatus, to |-> to]]
          /\ UNCHANGED <<table, issued, held, patched>>
          /\ Live(o) /\ role # "Admin" /\ isTransitionAllowed(table[o].orderStatus, to, role)
        BY <2>1 DEF ReadForStatus
    <2>3. role \in Everyone
        BY <2>2 DEF Roles, Everyone
    <2>4. RequestsEarned'
        BY <2>2, <2>3 DEF RequestsEarned, IInv, TypeOK, isTransitionAllowed
    <2> QED
        BY <2>2, <2>4 DEF IInv, KeysInStep, EarnedStatus, Live, isTransitionAllowed
<1>4. ASSUME NEW r \in Requests, WriteStatus(r) PROVE IInv'
    <2> DEFINE q == req[r]
    <2>1. q \in InFlight
        BY <1>4, BusyIsInFlight DEF WriteStatus
    <2>2. /\ table' = [table EXCEPT ![q.orderId] =
                           [@ EXCEPT !.orderStatus = q.to, !.lastModifiedBy = q.userId]]
          /\ held' = [held EXCEPT ![q.orderId] = @ \cup {q.to}]
          /\ req' = [req EXCEPT ![r] = Idle]
          /\ issued' = issued /\ patched' = patched /\ Live(q.orderId) /\ q.orderId \in OrderIds
        BY <1>4, <2>1 DEF WriteStatus, InFlight
    <2>3. /\ q.from \in held[q.orderId]
          /\ \E role \in Everyone : isTransitionAllowed(q.from, q.to, role)
        BY <1>4 DEF IInv, RequestsEarned, WriteStatus
    <2>4. table[q.orderId] \in Items
        BY <2>2, LiveIsItem
    <2>5. \A o \in OrderIds : Live(o)' <=> Live(o)
        <3>1. [table[q.orderId] EXCEPT !.orderStatus = q.to, !.lastModifiedBy = q.userId] \in Items
            BY <2>1, <2>4 DEF InFlight, Items
        <3> QED
            BY <2>2, <3>1, ItemIsNotAbsent DEF Live, TypeOK
    <2>6. KeysInStep'
        BY <2>2, <2>4, <2>5 DEF KeysInStep, IInv, TypeOK, Items
    <2>7. StatusHeld'
        BY <2>2, <2>4, <2>5 DEF StatusHeld, IInv, TypeOK, Items
    <2>8. RequestsEarned'
        <3> SUFFICES ASSUME NEW s \in Requests, req'[s] # Idle
                     PROVE  /\ req'[s].orderId \in issued'
                            /\ req'[s].from \in held'[req'[s].orderId]
                            /\ \E role \in Everyone : isTransitionAllowed(req'[s].from, req'[s].to, role)
            BY DEF RequestsEarned
        <3>1. s # r /\ req'[s] = req[s]
            BY <2>2 DEF TypeOK
        <3>2. req[s].orderId \in OrderIds
            BY <3>1, BusyIsInFlight DEF InFlight
        <3> QED
            BY <2>2, <3>1, <3>2 DEF RequestsEarned, IInv, TypeOK
    <2>9. EarnedStatus'
        BY <2>2, <2>3 DEF EarnedStatus, IInv, TypeOK
    <2> QED
        BY <2>6, <2>7, <2>8, <2>9 DEF IInv, StatusHeld
<1>5. ASSUME NEW r \in Requests, EndStatus(r) PROVE IInv'
    BY <1>5 DEF EndStatus, IInv, TypeOK, KeysInStep, RequestsEarned, EarnedStatus, Live
<1>6. CASE Delete
    <2>1. PICK o \in OrderIds, d \in Dispatchers : deleteOrder(o, d)
        BY <1>6 DEF Delete
    <2> QED
        BY <2>1 DEF deleteOrder, IInv, TypeOK, KeysInStep, RequestsEarned, EarnedStatus, Live
<1>7. CASE UNCHANGED vars
    BY <1>7 DEF vars, IInv, TypeOK, KeysInStep, RequestsEarned, EarnedStatus, Live
<1> QED
    BY <1>1, <1>2, <1>3, <1>4, <1>5, <1>6, <1>7 DEF Next

\* The inductive invariant holds in every reachable state.
THEOREM Inductive == Spec => []IInv
<1>1. Init => IInv
    BY DEF Init, IInv, TypeOK, KeysInStep, RequestsEarned, EarnedStatus, Live
<1> QED
    BY <1>1, IInvStep, PTL DEF Spec

-----------------------------------------------------------------------------
\* No race between status requests, direct writes and deletes invents a
\* status shortcut.
THEOREM StatusesAreEarned == Spec => []EarnedStatus
BY Inductive, PTL DEF IInv

\* For every role but Admin, the index that lists a user's orders is exact.
THEOREM ListsAreExact == Spec => []ListedIffReadable
<1>1. IInv => ListedIffReadable
    BY DEF IInv, KeysInStep, ListedIffReadable, Listed, Readable, Roles, Owner, IndexKey
<1> QED
    BY <1>1, Inductive, PTL

\* A deleted order stays deleted, whatever requests still hold its id.
THEOREM DeletesAreFinal == Spec => GoneForGood
<1>1. TypeOK /\ [Next]_vars => [\A o \in OrderIds : (o \in issued /\ ~Live(o)) => ~Live(o)']_vars
    <2> SUFFICES ASSUME TypeOK, Next, NEW o \in OrderIds, o \in issued, ~Live(o)
                 PROVE  ~Live(o)'
        BY DEF vars
    <2>1. CASE Create
        BY <2>1 DEF Create, createOrder, TypeOK, Live
    <2>2. CASE Patch
        BY <2>2 DEF Patch, updateOrder, TypeOK, Live
    <2>3. CASE AskStatus
        BY <2>3 DEF AskStatus, ReadForStatus, Live
    <2>4. ASSUME NEW r \in Requests, WriteStatus(r) PROVE ~Live(o)'
        <3>1. req[r].orderId \in OrderIds
            BY <2>4, BusyIsInFlight DEF WriteStatus, InFlight
        <3> QED
            BY <2>4, <3>1 DEF WriteStatus, TypeOK, Live
    <2>5. CASE \E r \in Requests : EndStatus(r)
        BY <2>5 DEF EndStatus, Live
    <2>6. CASE Delete
        BY <2>6 DEF Delete, deleteOrder, TypeOK, Live
    <2> QED
        BY <2>1, <2>2, <2>3, <2>4, <2>5, <2>6 DEF Next
<1> QED
    BY <1>1, TypeCorrect, PTL DEF Spec, GoneForGood

-----------------------------------------------------------------------------
\* Deciding what Life shows from whether the order is in the table and issued.
LEMMA LifeUnchanged ==
    ASSUME issued' = issued, \A o \in OrderIds : Live(o)' <=> Live(o)
    PROVE  [o \in OrderIds |-> Life(o)]' = [o \in OrderIds |-> Life(o)]
BY DEF Life

\* Racing handlers implement the abstract life of an order: the read and the
\* write of a status request are one Moved step, taken at the write.
THEOREM Refinement == Spec => ImplementsLifecycle
<1>1. Init => Lifecycle!LifeInit
    BY DEF Init, Lifecycle!LifeInit, Life, Live
<1>2. IInv /\ IInv' /\ [Next]_vars => [Lifecycle!LifeNext]_(Lifecycle!lifeVars)
    <2> SUFFICES ASSUME IInv, IInv', [Next]_vars
                 PROVE  Lifecycle!LifeNext \/ UNCHANGED Lifecycle!lifeVars
        OBVIOUS
    <2> DEFINE life == [o \in OrderIds |-> Life(o)]
    <2>0. TypeOK /\ TypeOK'
        BY DEF IInv
    <2>1. CASE Create
        <3>1. PICK o \in OrderIds, d \in Dispatchers, dto \in Dtos : createOrder(o, d, dto)
            BY <2>1 DEF Create
        <3>2. /\ table' = [table EXCEPT ![o] = NewItem(d, dto)]
              /\ issued' = issued \cup {o} /\ o \notin issued
              /\ held' = [held EXCEPT ![o] = {"Scheduled"}]
              /\ patched' = patched
            BY <3>1 DEF createOrder
        <3>3. NewItem(d, dto) # Absent
            BY NewItemType, ItemIsNotAbsent
        <3>4. life[o] = "unborn" /\ ~Live(o)
            BY <3>2 DEF Life, IInv
        <3>5. life' = [life EXCEPT ![o] = "live"]
            <4>1. life'[o] = "live"
                BY <2>0, <3>2, <3>3 DEF Life, Live, TypeOK
            <4>2. \A p \in OrderIds \ {o} : life'[p] = life[p]
                BY <2>0, <3>2 DEF Life, Live, TypeOK
            <4> QED
                BY <4>1, <4>2
        <3>6. Lifecycle!Born(o)
            BY <3>2, <3>4, <3>5 DEF Lifecycle!Born
        <3> QED
            BY <3>6 DEF Lifecycle!LifeNext
    <2>2. CASE Patch
        <3>0. PICK o \in OrderIds, role \in Roles : \E caller \in UsersOf(role) :
                   \E F \in SUBSET PatchFields, dto \in Dtos : updateOrder(o, role, caller, F, dto)
            BY <2>2 DEF Patch
        <3>1. PICK caller \in UsersOf(role), F \in SUBSET PatchFields, dto \in Dtos :
                   updateOrder(o, role, caller, F, dto)
            BY <3>0
        <3>2. PatchedItem(table[o], caller, F, dto) # Absent
            BY <2>0, <3>1, LiveIsItem, PatchedItemType, UsersOfType, ItemIsNotAbsent DEF updateOrder
        <3>3. \A p \in OrderIds : Live(p)' <=> Live(p)
            BY <2>0, <3>1, <3>2 DEF updateOrder, Live, TypeOK
        <3>4. life' = life
            BY <3>1, <3>3, LifeUnchanged DEF updateOrder
        <3>5. life[o] = "live"
            BY <3>1 DEF updateOrder, Life
        <3>6. dto.orderStatus \in Statuses
            BY PatchAssumption DEF Dtos
        <3>7. CASE "orderStatus" \in F
            <4>1. Lifecycle!SetDirectly(o, dto.orderStatus)
                BY <3>1, <3>4, <3>5, <3>7 DEF updateOrder, Lifecycle!SetDirectly
            <4> QED
                BY <3>6, <4>1 DEF Lifecycle!LifeNext
        <3>8. CASE "orderStatus" \notin F
            BY <3>1, <3>4, <3>8 DEF updateOrder, Lifecycle!lifeVars
        <3> QED
            BY <3>7, <3>8
    <2>3. CASE AskStatus
        BY <2>3, LifeUnchanged DEF AskStatus, ReadForStatus, Lifecycle!lifeVars, Live
    <2>4. ASSUME NEW r \in Requests, WriteStatus(r) PROVE Lifecycle!LifeNext
        <3> DEFINE q == req[r]
        <3>1. q \in InFlight
            BY <2>0, <2>4, BusyIsInFlight DEF WriteStatus
        <3>2. q.orderId \in OrderIds /\ q.to \in Statuses /\ q.userId \in Users /\ q.from \in Statuses
            BY <3>1 DEF InFlight
        <3>3. [table[q.orderId] EXCEPT !.orderStatus = q.to, !.lastModifiedBy = q.userId] # Absent
            <4>1. table[q.orderId] \in Items
                BY <2>0, <2>4, <3>2, LiveIsItem DEF WriteStatus
            <4>2. [table[q.orderId] EXCEPT !.orderStatus = q.to, !.lastModifiedBy = q.userId] \in Items
                BY <3>2, <4>1 DEF Items
            <4> QED
                BY <4>2, ItemIsNotAbsent
        <3>4. \A p \in OrderIds : Live(p)' <=> Live(p)
            BY <2>0, <2>4, <3>2, <3>3 DEF WriteStatus, Live, TypeOK
        <3>5. life' = life /\ life[q.orderId] = "live"
            BY <2>4, <3>2, <3>4, LifeUnchanged DEF WriteStatus, Life
        <3>6. \E from \in held[q.orderId], role \in Everyone : isTransitionAllowed(from, q.to, role)
            BY <2>4 DEF WriteStatus, IInv, RequestsEarned
        <3>7. \E from \in held[q.orderId] :
                  <<from, q.to>> \in {<<rule.fromStatus, rule.toStatus>> : rule \in ORDER_WORKFLOW_RULES}
            BY <3>6 DEF isTransitionAllowed
        <3>8. Lifecycle!Moved(q.orderId, q.to)
            BY <2>4, <3>5, <3>7 DEF WriteStatus, Lifecycle!Moved
        <3> QED
            BY <3>2, <3>8 DEF Lifecycle!LifeNext
    <2>5. CASE \E r \in Requests : EndStatus(r)
        BY <2>5, LifeUnchanged DEF EndStatus, Lifecycle!lifeVars, Live
    <2>6. CASE Delete
        <3>1. PICK o \in OrderIds, d \in Dispatchers : deleteOrder(o, d)
            BY <2>6 DEF Delete
        <3>2. life[o] = "live" /\ o \in issued
            BY <3>1 DEF deleteOrder, Life, IInv
        <3>3. life' = [life EXCEPT ![o] = "gone"]
            <4>1. life'[o] = "gone"
                BY <2>0, <3>1, <3>2 DEF deleteOrder, Life, Live, TypeOK
            <4>2. \A p \in OrderIds \ {o} : life'[p] = life[p]
                BY <2>0, <3>1 DEF deleteOrder, Life, Live, TypeOK
            <4> QED
                BY <4>1, <4>2
        <3>4. Lifecycle!Ended(o)
            BY <3>1, <3>2, <3>3 DEF deleteOrder, Lifecycle!Ended
        <3> QED
            BY <3>4 DEF Lifecycle!LifeNext
    <2>7. CASE UNCHANGED vars
        BY <2>7, LifeUnchanged DEF vars, Lifecycle!lifeVars, Live
    <2> QED
        BY <2>1, <2>2, <2>3, <2>4, <2>5, <2>6, <2>7 DEF Next
<1> QED
    BY <1>1, <1>2, Inductive, PTL DEF Spec, ImplementsLifecycle, Lifecycle!LifeSpec

-----------------------------------------------------------------------------
\* One write of PATCH :id: the dispatcher stays, and only fields the caller's
\* role may send are new.
LEMMA PatchKeepsCustody ==
    ASSUME NEW item \in Items, NEW role \in Roles, NEW caller, NEW dto,
           NEW F, F \subseteq AllowedUpdateFields(role), Owner(item, role) = caller
    PROVE  LET new == PatchedItem(item, caller, F, dto)
           IN  /\ new.dispatcherId = item.dispatcherId
               /\ \/ new.adminId = item.adminId /\ new.carrierId = item.carrierId
                                                 /\ new.brokerId = item.brokerId
                  \/ new.lastModifiedBy = item.dispatcherId
               /\ \/ new.driverId = item.driverId
                  \/ new.lastModifiedBy \in {item.dispatcherId, item.carrierId}
<1> DEFINE new == PatchedItem(item, caller, F, dto)
<1>1. /\ new.dispatcherId = item.dispatcherId /\ new.lastModifiedBy = caller
      /\ new.adminId = Updated("adminId", F, dto.adminId, item.adminId)
      /\ new.carrierId = Updated("carrierId", F, dto.carrierId, item.carrierId)
      /\ new.brokerId = Updated("brokerId", F, dto.brokerId, item.brokerId)
      /\ new.driverId = Updated("driverId", F, dto.driverId, item.driverId)
    BY DEF PatchedItem, Items
<1>2. CASE role = "Dispatcher"
    BY <1>1, <1>2 DEF Owner
<1>3. CASE role = "Carrier"
    BY <1>1, <1>3 DEF Owner, AllowedUpdateFields, Updated
<1>4. CASE role \in {"Admin", "Driver"}
    BY <1>1, <1>4 DEF AllowedUpdateFields, Updated
<1> QED
    BY <1>2, <1>3, <1>4 DEF Roles

\* Admin, carrier and broker of an order change hands only by a write of its
\* dispatcher, the driver only by its dispatcher or the carrier that held it.
THEOREM CustodyHolds == Spec => HandedOverByCustodian
<1> DEFINE Custody(old, new) ==
        /\ new.dispatcherId = old.dispatcherId
        /\ \/ new.adminId = old.adminId /\ new.carrierId = old.carrierId
                                         /\ new.brokerId = old.brokerId
           \/ new.lastModifiedBy = old.dispatcherId
        /\ \/ new.driverId = old.driverId
           \/ new.lastModifiedBy \in {old.dispatcherId, old.carrierId}
<1>1. IInv /\ [Next]_vars => [\A o \in OrderIds : Kept(o) => Custody(table[o], table'[o])]_vars
    <2> SUFFICES ASSUME IInv, Next, NEW o \in OrderIds, Kept(o)
                 PROVE  Custody(table[o], table'[o])
        BY DEF vars
    <2>0. table[o] \in Items /\ o \in issued /\ TypeOK
        BY LiveIsItem DEF Kept, IInv
    <2>1. CASE Create
        <3>1. PICK p \in OrderIds, d \in Dispatchers, dto \in Dtos : createOrder(p, d, dto)
            BY <2>1 DEF Create
        <3>2. p # o
            BY <2>0, <3>1 DEF createOrder
        <3> QED
            BY <2>0, <3>1, <3>2 DEF createOrder, TypeOK
    <2>2. CASE Patch
        <3>0. PICK p \in OrderIds, role \in Roles : \E caller \in UsersOf(role) :
                   \E F \in SUBSET PatchFields, dto \in Dtos : updateOrder(p, role, caller, F, dto)
            BY <2>2 DEF Patch
        <3>1. PICK caller \in UsersOf(role), F \in SUBSET PatchFields, dto \in Dtos :
                   updateOrder(p, role, caller, F, dto)
            BY <3>0
        <3>2. CASE p = o
            <4>1. table'[o] = PatchedItem(table[o], caller, F, dto)
                BY <2>0, <3>1, <3>2 DEF updateOrder, TypeOK
            <4> QED
                BY <2>0, <3>1, <3>2, <4>1, PatchKeepsCustody DEF updateOrder
        <3>3. CASE p # o
            BY <2>0, <3>1, <3>3 DEF updateOrder, TypeOK
        <3> QED
            BY <3>2, <3>3
    <2>3. CASE AskStatus
        BY <2>3 DEF AskStatus, ReadForStatus
    <2>4. ASSUME NEW r \in Requests, WriteStatus(r) PROVE Custody(table[o], table'[o])
        BY <2>0, <2>4 DEF WriteStatus, TypeOK, Items
    <2>5. CASE \E r \in Requests : EndStatus(r)
        BY <2>5 DEF EndStatus
    <2>6. CASE Delete
        BY <2>0, <2>6 DEF Delete, deleteOrder, TypeOK, Kept, Live
    <2> QED
        BY <2>1, <2>2, <2>3, <2>4, <2>5, <2>6 DEF Next
<1> QED
    BY <1>1, Inductive, PTL DEF Spec, HandedOverByCustodian

-----------------------------------------------------------------------------
DriverTargets == {"PickingUp", "Transit", "Delivered"}

\* What a driver's status request will write, while others write in between.
DriverSteps == \A r \in Requests :
    (req[r] # Idle /\ req[r].userId \in Drivers) => req[r].to \in DriverTargets

\* A user id belongs to one group, and the rules take a driver to Delivered.
LEMMA DriverActsAsDriver ==
    ASSUME NEW role \in Roles, NEW caller \in UsersOf(role), caller \in Drivers
    PROVE  role = "Driver"
BY UsersAssumption DEF UsersOf, Roles

LEMMA DriverRules ==
    \A from, to : isTransitionAllowed(from, to, "Driver") => to \in DriverTargets
BY DEF isTransitionAllowed, ORDER_WORKFLOW_RULES, Rule, Everyone, DriverTargets

LEMMA DriverStepsStep == TypeOK /\ DriverSteps /\ [Next]_vars => DriverSteps'
<1> SUFFICES ASSUME TypeOK, DriverSteps, [Next]_vars PROVE DriverSteps'
    OBVIOUS
<1>1. CASE UNCHANGED req
    BY <1>1 DEF DriverSteps
<1>2. CASE AskStatus
    <2>0. PICK r \in Requests, o \in OrderIds, role \in Roles :
               \E caller \in UsersOf(role), to \in Statuses : ReadForStatus(r, o, role, caller, to)
        BY <1>2 DEF AskStatus
    <2>1. PICK caller \in UsersOf(role), to \in Statuses : ReadForStatus(r, o, role, caller, to)
        BY <2>0
    <2>2. caller \in Drivers => to \in DriverTargets
        BY <2>1, DriverActsAsDriver, DriverRules DEF ReadForStatus
    <2> QED
        BY <2>1, <2>2 DEF ReadForStatus, DriverSteps, TypeOK
<1>3. CASE \E r \in Requests : WriteStatus(r) \/ EndStatus(r)
    BY <1>3 DEF WriteStatus, EndStatus, DriverSteps, TypeOK
<1> QED
    BY <1>1, <1>2, <1>3 DEF Next, vars, Create, createOrder, Patch, updateOrder, Delete, deleteOrder

\* No order goes beyond Delivered by a driver's write, in any interleaving.
THEOREM DriversStop == Spec => DriverStopsAtDelivery
<1>1. Init => DriverSteps
    BY DEF Init, DriverSteps
<1>2. Spec => []DriverSteps
    BY <1>1, DriverStepsStep, TypeCorrect, PTL DEF Spec
<1>3. IInv /\ DriverSteps /\ [Next]_vars =>
        [\A o \in OrderIds :
            (Kept(o) /\ table'[o].orderStatus # table[o].orderStatus
                     /\ table'[o].lastModifiedBy \in Drivers)
                => table'[o].orderStatus \in {"PickingUp", "Transit", "Delivered"}]_vars
    <2> SUFFICES ASSUME IInv, DriverSteps, Next, NEW o \in OrderIds, Kept(o),
                        table'[o].orderStatus # table[o].orderStatus,
                        table'[o].lastModifiedBy \in Drivers
                 PROVE  table'[o].orderStatus \in DriverTargets
        BY DEF vars, DriverTargets
    <2>0. table[o] \in Items /\ o \in issued /\ TypeOK
        BY LiveIsItem DEF Kept, IInv
    <2>1. CASE Create
        BY <2>0, <2>1 DEF Create, createOrder, TypeOK
    <2>2. CASE Patch
        <3>0. PICK p \in OrderIds, role \in Roles : \E caller \in UsersOf(role) :
                   \E F \in SUBSET PatchFields, dto \in Dtos : updateOrder(p, role, caller, F, dto)
            BY <2>2 DEF Patch
        <3>1. PICK caller \in UsersOf(role), F \in SUBSET PatchFields, dto \in Dtos :
                   updateOrder(p, role, caller, F, dto)
            BY <3>0
        <3>2. p = o /\ table'[o] = PatchedItem(table[o], caller, F, dto)
            BY <2>0, <3>1 DEF updateOrder, TypeOK
        <3>3. caller \in Drivers /\ "orderStatus" \in F
            BY <2>0, <3>2 DEF PatchedItem, Items, Updated
        <3>4. role = "Driver"
            BY <3>3, DriverActsAsDriver
        <3> QED
            BY <3>1, <3>3, <3>4 DEF updateOrder, AllowedUpdateFields
    <2>3. CASE AskStatus
        BY <2>3 DEF AskStatus, ReadForStatus
    <2>4. ASSUME NEW r \in Requests, WriteStatus(r) PROVE table'[o].orderStatus \in DriverTargets
        <3>1. req[r].orderId = o
            BY <2>0, <2>4 DEF WriteStatus, TypeOK
        <3>2. table'[o].orderStatus = req[r].to /\ table'[o].lastModifiedBy = req[r].userId
            BY <2>0, <2>4, <3>1 DEF WriteStatus, TypeOK, Items
        <3> QED
            BY <2>4, <3>2 DEF WriteStatus, DriverSteps
    <2>5. CASE \E r \in Requests : EndStatus(r)
        BY <2>5 DEF EndStatus
    <2>6. CASE Delete
        BY <2>0, <2>6 DEF Delete, deleteOrder, TypeOK, Kept, Live
    <2> QED
        BY <2>1, <2>2, <2>3, <2>4, <2>5, <2>6 DEF Next
<1> QED
    BY <1>2, <1>3, Inductive, PTL DEF Spec, DriverStopsAtDelivery

-----------------------------------------------------------------------------
(***************************************************************************)
(* The walk through a list of orders: OrderListing for any number of       *)
(* orders, any page size and any number of changes.  A walk has, at each   *)
(* moment, taken exactly what lies at or before its cursor: a page that    *)
(* fills up moves the cursor to the last order taken, one that does not    *)
(* has taken all that the query found.                                     *)
(***************************************************************************)

\* What was counted, once each, lies at or before key; and of K all that does.
Upto(count, key, K) ==
    \A o \in Orders :
        /\ count[o] <= 1
        /\ count[o] = 1 => o <= key
        /\ o \in K /\ o <= key => count[o] = 1

\* How far the aggregates and the pages have come.
Tallied == IF phase = "totals" THEN cursor ELSE N
Returned == IF phase = "totals" THEN NoKey ELSE IF phase = "done" THEN N ELSE cursor

\* The inductive invariant.
WalkInv ==
    /\ WalkTypeOK
    /\ kept \subseteq part \cap match
    /\ Upto(tally, Tallied, kept)
    /\ Upto(times, Returned, kept)
    /\ phase = "totals" => filled = 0
    /\ phase = "scan" => filled < PageSize

-----------------------------------------------------------------------------
(* Sets of orders. *)

\* Sets of orders are finite.
LEMMA OrdersAreFinite ==
    ASSUME NEW S \in SUBSET Orders
    PROVE  IsFiniteSet(S) /\ Cardinality(S) \in Nat
<1>1. IsFiniteSet(Orders)
    BY FS_Interval, SizesAssumption DEF Orders
<1> QED
    BY <1>1, FS_Subset, FS_CardinalityType

\* A set of orders has a first one.
LEMMA Least ==
    ASSUME NEW S \in SUBSET Orders, S # {}
    PROVE  \E m \in S : \A p \in S : m <= p
<1> DEFINE Before(o) == {p \in S : p <= o}
           R == StrictSubsetOrdering(S)
           T == {Before(o) : o \in S}
<1>1. S \in SUBSET Nat
    BY DEF Orders
<1>2. IsFiniteSet(S)
    BY OrdersAreFinite
<1>3. IsWellFoundedOn(R, FiniteSubsetsOf(S)) /\ FiniteSubsetsOf(S) = SUBSET S
    BY <1>2, FS_StrictSubsetOrderingWellFounded, FS_FiniteSubsetsOfFinite
<1>4. PICK x \in T : \A y \in T : ~ (<<y, x>> \in R)
    <2> T \subseteq SUBSET S /\ T # {}
        OBVIOUS
    <2> HIDE DEF T, R
    <2> QED
        BY <1>3, WFMin
<1>5. PICK m \in S : x = Before(m)
    BY <1>4
<1>6. ASSUME NEW p \in S, ~ (m <= p)
      PROVE  FALSE
    <2> p \in Nat /\ m \in Nat /\ \A q \in S : q \in Nat
        BY <1>1
    <2>1. m <= m /\ \A q \in S : q <= p => q <= m
        BY <1>6
    <2>3. Before(p) \in SUBSET Before(m) /\ m \in Before(m) /\ m \notin Before(p)
        <3> Before(p) \in SUBSET Before(m)
            BY <2>1
        <3> QED
            BY <2>1, <1>6
    <2>2. <<Before(p), Before(m)>> \in R
        BY <2>3 DEF StrictSubsetOrdering
    <2> QED
        BY <2>2, <1>4, <1>5
<1> QED
    BY <1>6

\* Last is the last order of a set.
LEMMA LastIsLast ==
    ASSUME NEW S \in SUBSET Orders, S # {}
    PROVE  Last(S) \in S /\ \A p \in S : p <= Last(S)
<1> DEFINE T == {o \in Orders : N + 1 - o \in S}
<1>1. \A o \in Orders : N + 1 - o \in Orders /\ N + 1 - (N + 1 - o) = o
    BY SizesAssumption DEF Orders
<1>2. T # {} /\ T \in SUBSET Orders
    BY <1>1
<1>3. PICK m \in T : \A p \in T : m <= p
    BY <1>2, Least
<1>4. ASSUME NEW p \in S
      PROVE  p <= N + 1 - m
    <2>1. N + 1 - p \in T /\ p \in Orders /\ m \in Orders
        BY <1>1
    <2>2. m <= N + 1 - p
        BY <2>1, <1>3
    <2> QED
        BY <2>1, <2>2, SizesAssumption DEF Orders
<1>5. N + 1 - m \in S
    OBVIOUS
<1> QED
    BY <1>4, <1>5 DEF Last

\* First(S, n) are the first n orders of S, or all of them if they are fewer.
LEMMA FirstAreFirst ==
    ASSUME NEW S \in SUBSET Orders, NEW n \in Nat
    PROVE  /\ First(S, n) \in SUBSET S
           /\ Cardinality(First(S, n)) \in 0..n
           /\ Cardinality(First(S, n)) < n => First(S, n) = S
           /\ \A o \in First(S, n) : \A p \in S : p <= o => p \in First(S, n)
<1> DEFINE T == First(S, n)
           Before(o) == {p \in S : p <= o}
<1>1. T \in SUBSET S /\ \A o \in S : o \in T <=> Cardinality(Before(o)) <= n
    BY DEF First
<1>2. S \in SUBSET Nat
    BY DEF Orders
<1>3. IsFiniteSet(T) /\ Cardinality(T) \in Nat /\ T \in SUBSET Orders
    BY <1>1, OrdersAreFinite
<1>4. \A o \in S : IsFiniteSet(Before(o)) /\ Cardinality(Before(o)) \in Nat
    BY OrdersAreFinite
<1> HIDE DEF T
<1>5. Cardinality(T) <= n
    <2>1. CASE T = {}
        BY <2>1, FS_EmptySet
    <2>2. CASE T # {}
        <3> DEFINE m == Last(T)
        <3>1. m \in T /\ \A p \in T : p <= m
            BY <2>2, <1>3, LastIsLast
        <3>2. T \in SUBSET Before(m)
            BY <3>1, <1>1
        <3>3. Cardinality(T) <= Cardinality(Before(m))
            BY <3>1, <3>2, <1>1, <1>4, FS_Subset
        <3> QED
            BY <3>1, <3>3, <1>1, <1>3, <1>4
    <2> QED
        BY <2>1, <2>2
<1>6. ASSUME T # S
      PROVE  Cardinality(T) >= n
    <2>1. PICK o \in S \ T : \A p \in S \ T : o <= p
        <3> S \ T # {} /\ S \ T \in SUBSET Nat
            BY <1>1, <1>2, <1>6
        <3> QED
            BY Least
    <2>2. Before(o) \ {o} \in SUBSET T
        <3> SUFFICES ASSUME NEW p \in S, p <= o, p # o PROVE p \in T
            OBVIOUS
        <3>1. p \in Nat /\ o \in Nat /\ ~ (o <= p)
            BY <1>2
        <3> QED
            BY <3>1, <2>1
    <2>3. Cardinality(Before(o) \ {o}) = Cardinality(Before(o)) - 1
        <3> o \in Before(o)
            BY <2>1, <1>2
        <3> QED
            BY <2>1, <1>4, FS_RemoveElement
    <2>4. Cardinality(Before(o) \ {o}) <= Cardinality(T)
        BY <2>2, <1>3, FS_Subset
    <2>6. Cardinality(Before(o)) \in Nat /\ ~ (Cardinality(Before(o)) <= n)
        BY <1>1, <1>4
    <2>5. Cardinality(Before(o)) > n /\ Cardinality(Before(o)) \in Nat
        BY <2>6
    <2> QED
        BY <2>3, <2>4, <2>5, <1>3
<1>7. ASSUME NEW o \in T, NEW p \in S, p <= o
      PROVE  p \in T
    <2> o \in S /\ o \in Nat /\ p \in Nat /\ \A q \in S : q \in Nat
        BY <1>1, <1>2
    <2>5. \A q \in S : q <= p => q <= o
        BY <1>7
    <2>1. Before(p) \in SUBSET Before(o)
        BY <2>5
    <2>2. Cardinality(Before(p)) <= Cardinality(Before(o))
        BY <2>1, <1>4, FS_Subset
    <2>3. Cardinality(Before(o)) <= n /\ Cardinality(Before(o)) \in Nat /\ Cardinality(Before(p)) \in Nat
        BY <1>1, <1>4
    <2>4. Cardinality(Before(p)) <= n
        BY <2>2, <2>3
    <2> QED
        BY <2>4, <1>1
<1> QED
    BY <1>1, <1>3, <1>5, <1>6, <1>7 DEF T

-----------------------------------------------------------------------------
(* The steps of a walk. *)

\* What a query finds lies after its key; and it is all that lies there, or all
\* up to the key of the answer.
LEMMA QueryAnswers ==
    ASSUME WalkTypeOK, NEW answer \in Query(cursor)
    PROVE  /\ answer.items \in SUBSET Orders
           /\ answer.LastEvaluatedKey \in Orders \cup {NoKey}
           /\ \A o \in answer.items : o > cursor
           /\ answer.LastEvaluatedKey = NoKey => \A o \in part : o > cursor => o \in answer.items
           /\ answer.LastEvaluatedKey # NoKey =>
                 /\ answer.LastEvaluatedKey > cursor
                 /\ \A o \in answer.items : o <= answer.LastEvaluatedKey
                 /\ \A o \in part : o > cursor /\ o <= answer.LastEvaluatedKey => o \in answer.items
<1>1. part \subseteq Orders /\ NoKey \notin Orders
    BY DEF WalkTypeOK, Orders, NoKey
<1>2. CASE answer = [items |-> {o \in part : o > cursor}, LastEvaluatedKey |-> NoKey]
    BY <1>1, <1>2
<1>3. CASE \E last \in {o \in part : o > cursor} :
              answer = [items |-> {o \in {p \in part : p > cursor} : o <= last}, LastEvaluatedKey |-> last]
    BY <1>1, <1>3
<1> QED
    BY <1>2, <1>3 DEF Query

\* Counting new orders up to a later key.
LEMMA Advance ==
    ASSUME NEW count \in [Orders -> Nat], NEW key \in Nat, NEW to \in Nat, key <= to, NEW K,
           Upto(count, key, K), NEW S \in SUBSET Orders, \A o \in S : o > key /\ o <= to,
           \A o \in K \cap Orders : o > key /\ o <= to => o \in S
    PROVE  /\ Plus(count, S) \in [Orders -> Nat]
           /\ Upto(Plus(count, S), to, K)
<1>1. Plus(count, S) \in [Orders -> Nat]
    BY DEF Plus
<1>2. ASSUME NEW o \in Orders
      PROVE  /\ Plus(count, S)[o] <= 1
             /\ Plus(count, S)[o] = 1 => o <= to
             /\ o \in K /\ o <= to => Plus(count, S)[o] = 1
    <2> o \in Nat /\ count[o] \in Nat
        BY DEF Orders
    <2>1. CASE o \in S
        <3> count[o] = 0
            BY <2>1 DEF Upto
        <3> QED
            BY <2>1 DEF Plus
    <2>2. CASE o \notin S
        BY <2>2 DEF Plus, Upto
    <2> QED
        BY <2>1, <2>2
<1> QED
    BY <1>1, <1>2 DEF Upto

\* A walk asks for less as orders go or change.
LEMMA UptoFewer ==
    ASSUME NEW count, NEW key, NEW K, NEW L \in SUBSET K, Upto(count, key, K)
    PROVE  Upto(count, key, L)
BY DEF Upto

\* Nothing is counted at the start.
LEMMA InitHolds == WalkInit => WalkInv
<1> SUFFICES ASSUME WalkInit PROVE WalkInv
    OBVIOUS
<1>1. \A o \in Orders : ~ (o <= 0)
    BY DEF Orders
<1>2. WalkTypeOK
    BY SizesAssumption DEF WalkInit, WalkTypeOK, NoKey
<1>3. Upto(tally, 0, kept) /\ Upto(times, 0, kept)
    BY <1>1 DEF WalkInit, Upto
<1> QED
    BY <1>2, <1>3 DEF WalkInit, WalkInv, Tallied, Returned, NoKey

\* Pass 1 counts what the query found.
LEMMA TotalsHolds == WalkInv /\ Totals => WalkInv'
<1> SUFFICES ASSUME WalkInv, Totals PROVE WalkInv'
    OBVIOUS
<1>1. PICK answer \in Query(cursor) :
          /\ tally' = Plus(tally, answer.items \cap match)
          /\ cursor' = answer.LastEvaluatedKey
          /\ phase' = IF answer.LastEvaluatedKey = NoKey THEN "scan" ELSE "totals"
    BY DEF Totals
<1> DEFINE S == answer.items \cap match
           to == Tallied'
<1>2. WalkTypeOK /\ phase = "totals" /\ kept \subseteq part \cap match /\ Upto(tally, cursor, kept)
    BY DEF WalkInv, Totals, Tallied
<1>3. to = IF answer.LastEvaluatedKey = NoKey THEN N ELSE answer.LastEvaluatedKey
    BY <1>1 DEF Tallied
<1>4. cursor \in Nat /\ to \in Nat /\ cursor <= to /\ N \in Nat /\ \A o \in Orders : o <= N /\ o \in Nat
    <2>1. N \in Nat /\ cursor \in 0..N /\ \A o \in Orders : o <= N /\ o \in Nat
        BY <1>2, SizesAssumption DEF WalkTypeOK, Orders, NoKey
    <2>2. answer.LastEvaluatedKey # NoKey =>
              answer.LastEvaluatedKey \in Nat /\ cursor < answer.LastEvaluatedKey
        BY <2>1, <1>2, QueryAnswers
    <2> QED
        BY <2>1, <2>2, <1>3
<1>5. S \in SUBSET Orders /\ \A o \in S : o > cursor /\ o <= to
    BY <1>2, <1>3, <1>4, QueryAnswers
<1>6. \A o \in kept \cap Orders : o > cursor /\ o <= to => o \in S
    BY <1>2, <1>3, <1>4, QueryAnswers
<1>7. Plus(tally, S) \in [Orders -> Nat] /\ Upto(Plus(tally, S), to, kept)
    <2> tally \in [Orders -> Nat]
        BY <1>2 DEF WalkTypeOK
    <2> HIDE DEF S, to
    <2> QED
        BY <1>2, <1>4, <1>5, <1>6, Advance
<1>8. WalkTypeOK'
    BY <1>1, <1>2, <1>7, QueryAnswers DEF Totals, WalkTypeOK
<1>9. Upto(times, 0, kept)
    BY <1>2 DEF WalkInv, Returned, NoKey
<1>10. Returned' = 0
    BY <1>1 DEF Returned, NoKey
<1> QED
    BY <1>1, <1>2, <1>7, <1>8, <1>9, <1>10, SizesAssumption DEF WalkInv, Totals

\* A page takes what the query found, up to its size.
LEMMA ScanHolds == WalkInv /\ Scan => WalkInv'
<1> SUFFICES ASSUME WalkInv, Scan PROVE WalkInv'
    OBVIOUS
<1>1. PICK answer \in Query(cursor) :
        LET taken == First(answer.items \cap match, PageSize - filled)
            full == filled + Cardinality(taken) = PageSize
        IN  /\ times' = Plus(times, taken)
            /\ filled' = filled + Cardinality(taken)
            /\ cursor' = Resume(taken, full, answer)
            /\ phase' = IF full THEN "between"
                        ELSE IF answer.LastEvaluatedKey = NoKey THEN "done" ELSE "scan"
            /\ pages' = IF phase' = "scan" THEN pages ELSE pages + 1
    BY DEF Scan
<1> DEFINE S == answer.items \cap match
           taken == First(S, PageSize - filled)
           full == filled + Cardinality(taken) = PageSize
           to == Returned'
<1>2. /\ WalkTypeOK /\ phase = "scan" /\ kept \subseteq part \cap match
      /\ Upto(times, cursor, kept) /\ Upto(tally, N, kept) /\ filled < PageSize
    BY DEF WalkInv, Scan, Tallied, Returned
<1>3. PageSize - filled \in Nat \ {0} /\ filled \in Nat /\ PageSize \in Nat
    BY <1>2, SizesAssumption DEF WalkTypeOK
<1>4. S \in SUBSET Orders
    BY <1>2, QueryAnswers
<1>5. /\ taken \in SUBSET S
      /\ Cardinality(taken) \in 0..(PageSize - filled)
      /\ Cardinality(taken) < PageSize - filled => taken = S
      /\ \A o \in taken : \A p \in S : p <= o => p \in taken
    BY <1>3, <1>4, FirstAreFirst
<1>6. full => taken # {} /\ Last(taken) \in taken /\ \A p \in taken : p <= Last(taken)
    <2> SUFFICES ASSUME full PROVE taken # {}
        BY <1>4, <1>5, LastIsLast
    <2> HIDE DEF taken
    <2> QED
        BY <1>2, <1>3, FS_EmptySet
<1>7. to = IF full THEN Last(taken)
           ELSE IF answer.LastEvaluatedKey = NoKey THEN N ELSE answer.LastEvaluatedKey
    BY <1>1 DEF Returned, Resume
<1> HIDE DEF taken
<1>8. ~full => taken = S
    BY <1>3, <1>5
<1>9. N \in Nat /\ cursor \in Nat /\ \A o \in Orders : o <= N /\ o \in Nat
    BY <1>2, SizesAssumption DEF WalkTypeOK, Orders, NoKey
<1>10. \A o \in S : o > cursor /\ (answer.LastEvaluatedKey # NoKey => o <= answer.LastEvaluatedKey)
    BY <1>2, QueryAnswers
<1>11. to \in Nat /\ cursor <= to
    <2>1. CASE full
        BY <2>1, <1>4, <1>5, <1>6, <1>7, <1>9, <1>10
    <2>2. CASE ~full
        <3>1. answer.LastEvaluatedKey # NoKey =>
                  answer.LastEvaluatedKey \in Nat /\ cursor < answer.LastEvaluatedKey
            BY <1>2, <1>9, QueryAnswers
        <3>2. cursor <= N
            BY <1>2, <1>9 DEF WalkTypeOK, NoKey
        <3> QED
            BY <2>2, <3>1, <3>2, <1>7, <1>9
    <2> QED
        BY <2>1, <2>2
<1>12. taken \in SUBSET Orders /\ \A o \in taken : o > cursor /\ o <= to
    BY <1>4, <1>5, <1>6, <1>7, <1>9, <1>10
<1>13. ASSUME NEW o \in kept \cap Orders, o > cursor, o <= to
       PROVE  o \in taken
    <2>1. o \in part /\ o \in match
        BY <1>2
    <2>2. CASE full
        <3>1. answer.LastEvaluatedKey # NoKey => o <= answer.LastEvaluatedKey
            <4> SUFFICES ASSUME answer.LastEvaluatedKey # NoKey
                         PROVE  o <= answer.LastEvaluatedKey
                OBVIOUS
            <4> to \in S /\ to \in Nat /\ o \in Nat
                BY <2>2, <1>4, <1>5, <1>6, <1>7, <1>9
            <4> to <= answer.LastEvaluatedKey /\ answer.LastEvaluatedKey \in Nat
                BY <1>2, <1>9, <1>10, QueryAnswers
            <4> QED
                BY <1>13
        <3>2. o \in S
            BY <3>1, <2>1, <1>2, <1>13, QueryAnswers
        <3> QED
            BY <3>2, <2>2, <1>5, <1>6, <1>7, <1>13
    <2>3. CASE ~full
        BY <2>1, <2>3, <1>2, <1>7, <1>8, <1>13, QueryAnswers
    <2> QED
        BY <2>2, <2>3
<1>14. Plus(times, taken) \in [Orders -> Nat] /\ Upto(Plus(times, taken), to, kept)
    <2> times \in [Orders -> Nat]
        BY <1>2 DEF WalkTypeOK
    <2> HIDE DEF to
    <2> QED
        BY <1>2, <1>9, <1>11, <1>12, <1>13, Advance
<1>15. /\ filled' \in 0..PageSize
       /\ phase' \in {"scan", "between", "done"}
       /\ phase' = "scan" => filled' < PageSize
       /\ cursor' \in Orders \cup {NoKey}
       /\ pages' \in Nat
    <2>1. filled' = filled + Cardinality(taken) /\ filled' \in 0..PageSize
        BY <1>1, <1>3, <1>5 DEF taken
    <2>2. phase' = IF full THEN "between"
                   ELSE IF answer.LastEvaluatedKey = NoKey THEN "done" ELSE "scan"
        BY <1>1 DEF taken
    <2>3. cursor' = IF full THEN Last(taken) ELSE answer.LastEvaluatedKey
        BY <1>1 DEF taken, Resume
    <2>4. cursor' \in Orders \cup {NoKey}
        BY <2>3, <1>2, <1>6, <1>12, QueryAnswers
    <2>5. pages' \in Nat
        BY <1>1, <1>2 DEF WalkTypeOK
    <2> QED
        BY <2>1, <2>2, <2>4, <2>5, <1>3
<1>16. times' = Plus(times, taken)
    BY <1>1 DEF taken
<1>17. WalkTypeOK'
    BY <1>2, <1>14, <1>15, <1>16 DEF Scan, WalkTypeOK
<1>18. Tallied' = N
    BY <1>15 DEF Tallied
<1> QED
    BY <1>2, <1>14, <1>15, <1>16, <1>17, <1>18 DEF WalkInv, Scan

\* Sending the token back changes nothing that was counted.
LEMMA NextPageHolds == WalkInv /\ NextPage => WalkInv'
<1> SUFFICES ASSUME WalkInv, NextPage PROVE WalkInv'
    OBVIOUS
<1>1. WalkTypeOK'
    BY SizesAssumption DEF WalkInv, NextPage, WalkTypeOK
<1>2. Tallied' = Tallied /\ Returned' = Returned
    BY DEF NextPage, Tallied, Returned
<1> QED
    BY <1>1, <1>2, SizesAssumption DEF WalkInv, NextPage, Upto

\* What others do can only make the walk owe less.
LEMMA ChangeHolds ==
    WalkInv /\ (\E o \in Orders : Insert(o) \/ Remove(o) \/ Edit(o)) => WalkInv'
<1> SUFFICES ASSUME WalkInv, NEW o \in Orders, Insert(o) \/ Remove(o) \/ Edit(o) PROVE WalkInv'
    OBVIOUS
<1>1. /\ UNCHANGED walk /\ changes' \in 0..MaxChanges
      /\ part' \in SUBSET Orders /\ match' \in SUBSET Orders
      /\ kept' \in SUBSET kept /\ kept' \subseteq part' \cap match'
    <2>1. changes \in 0..MaxChanges /\ changes < MaxChanges /\ changes' = changes + 1 /\ UNCHANGED walk
        BY DEF WalkInv, WalkTypeOK, Insert, Remove, Edit, Changed
    <2>2. changes' \in 0..MaxChanges
        BY <2>1, SizesAssumption
    <2>3. part \subseteq Orders /\ match \subseteq Orders /\ kept \subseteq part \cap match
        BY DEF WalkInv, WalkTypeOK
    <2>4. CASE Insert(o)
        BY <2>1, <2>2, <2>3, <2>4 DEF Insert
    <2>5. CASE Remove(o)
        BY <2>1, <2>2, <2>3, <2>5 DEF Remove
    <2>6. CASE Edit(o)
        BY <2>1, <2>2, <2>3, <2>6 DEF Edit
    <2> QED
        BY <2>4, <2>5, <2>6
<1>2. Tallied' = Tallied /\ Returned' = Returned
    BY <1>1 DEF Tallied, Returned, walk
<1>3. Upto(tally, Tallied, kept') /\ Upto(times, Returned, kept')
    BY <1>1, UptoFewer DEF WalkInv
<1>4. WalkTypeOK'
    BY <1>1 DEF WalkInv, WalkTypeOK, walk
<1> QED
    BY <1>1, <1>2, <1>3, <1>4 DEF WalkInv, walk

\* Every step keeps the invariant.
LEMMA StepHolds == WalkInv /\ [WalkNext]_walkVars => WalkInv'
<1> SUFFICES ASSUME WalkInv, [WalkNext]_walkVars PROVE WalkInv'
    OBVIOUS
<1>1. CASE UNCHANGED walkVars
    BY <1>1 DEF walkVars, walk, WalkInv, WalkTypeOK, Upto, Tallied, Returned
<1>2. CASE WalkNext
    BY <1>2, TotalsHolds, ScanHolds, NextPageHolds, ChangeHolds DEF WalkNext
<1> QED
    BY <1>1, <1>2

-----------------------------------------------------------------------------
\* A walk has taken what lies at or before its cursor, and all of it that stayed
\* in the list, whatever DynamoDB answers and others change.
THEOREM WalkInductive == WalkSpec => []WalkInv
BY InitHolds, StepHolds, PTL DEF WalkSpec

\* getOrders and the report's loop return no order twice and count none twice.
THEOREM NothingIsTakenTwice == WalkSpec => []OnceEach
<1>1. WalkInv => OnceEach
    BY DEF WalkInv, OnceEach, NothingTwice, Upto
<1> QED
    BY <1>1, WalkInductive, PTL

\* An order that is in the list and matches throughout is returned, and counted.
THEOREM NothingIsMissed == WalkSpec => []NothingSkipped
<1>1. WalkInv => NothingSkipped
    <2> SUFFICES ASSUME WalkInv PROVE NothingSkipped
        OBVIOUS
    <2>1. \A o \in kept : o \in Orders /\ o <= N
        BY DEF WalkInv, WalkTypeOK, Orders
    <2> QED
        BY <2>1 DEF WalkInv, NothingSkipped, Upto, Tallied, Returned
<1> QED
    BY <1>1, WalkInductive, PTL
=============================================================================
