------------------------------- MODULE Orders -------------------------------
(***************************************************************************)
(* The orders table of eTrucky and the handlers of OrdersService that      *)
(* write it: create, PATCH :id, PATCH :id/status and DELETE :id.  Lambda    *)
(* runs any number of handlers at once; between two awaits of a handler    *)
(* every other handler may run.  A DynamoDB command is one atomic step.    *)
(*                                                                         *)
(* Money is in OrderPayments.  The fields no property here tells apart     *)
(* (addresses, notes, truck, trailer, timestamps, amounts) are one field   *)
(* name, "details", which has no value.                                    *)
(***************************************************************************)
EXTENDS Naturals, FiniteSets

CONSTANTS
    OrderIds,       \* uuids the service may hand out
    Requests,       \* status requests that may be in flight at once
    Admins, Dispatchers, Carriers, Drivers,   \* user ids, by Cognito group
    Brokers, Dates,
    PatchFields,    \* the fields a PATCH request may carry
    PatchStatuses,  \* the statuses a PATCH request may carry
    Absent,         \* no item under this key
    Idle            \* no request in this slot

Roles == {"Admin", "Dispatcher", "Carrier", "Driver"}
Statuses == {"Scheduled", "PickingUp", "Transit", "Delivered", "WaitingRC",
             "ReadyToPay", "Canceled"}
Fields == {"orderStatus", "adminId", "carrierId", "driverId", "brokerId",
           "scheduledTimestamp", "details"}
Users == Admins \cup Dispatchers \cup Carriers \cup Drivers

ASSUME UsersAssumption ==
    /\ Admins \cap (Dispatchers \cup Carriers \cup Drivers) = {}
    /\ Dispatchers \cap (Carriers \cup Drivers) = {}
    /\ Carriers \cap Drivers = {}
ASSUME PatchAssumption == PatchFields \subseteq Fields /\ PatchStatuses \subseteq Statuses

UsersOf(role) ==
    CASE role = "Admin"      -> Admins
      [] role = "Dispatcher" -> Dispatchers
      [] role = "Carrier"    -> Carriers
      [] role = "Driver"     -> Drivers

\* What a client sends to create or to edit an order.
Dtos == [adminId: Admins, carrierId: Carriers, driverId: Drivers,
         brokerId: Brokers, scheduledTimestamp: Dates, orderStatus: PatchStatuses]

\* One item: the attributes, and the key attributes of the five indexes.  The
\* five sort keys always hold the same value, IndexDate.
Items == [adminId: Admins, dispatcherId: Dispatchers, carrierId: Carriers,
          driverId: Drivers, brokerId: Brokers, orderStatus: Statuses,
          scheduledTimestamp: Dates, lastModifiedBy: Users,
          GSI1PK: Carriers, GSI2PK: Dispatchers, GSI3PK: Drivers,
          GSI4PK: Admins, GSI5PK: Brokers, IndexDate: Dates]

ASSUME AbsentAssumption == Absent \notin Items

\* A status request between its read and its write.
InFlight == [orderId: OrderIds, userId: Users, from: Statuses, to: Statuses]
ASSUME IdleAssumption == Idle \notin InFlight

Everyone == {"Dispatcher", "Carrier", "Driver"}
Rule(from, to, roles) == [fromStatus |-> from, toStatus |-> to, allowedRoles |-> roles]
ORDER_WORKFLOW_RULES ==
    { Rule("Scheduled", "PickingUp", Everyone),
      Rule("PickingUp", "Transit", Everyone),
      Rule("Transit", "Delivered", Everyone),
      Rule("Delivered", "WaitingRC", {"Dispatcher", "Carrier"}),
      Rule("WaitingRC", "ReadyToPay", {"Dispatcher"}),
      Rule("Scheduled", "Canceled", {"Dispatcher"}) }

isTransitionAllowed(from, to, role) ==
    \E rule \in ORDER_WORKFLOW_RULES :
        /\ rule.fromStatus = from
        /\ rule.toStatus = to
        /\ role \in rule.allowedRoles

\* ALLOWED_UPDATE_FIELDS: what PATCH :id accepts from each role.
AllowedUpdateFields(role) ==
    CASE role = "Admin"      -> {"details"}
      [] role = "Dispatcher" -> Fields
      [] role = "Carrier"    -> {"orderStatus", "driverId", "details"}
      [] role = "Driver"     -> {"details"}

\* OWNERSHIP_FIELD: the attribute that must name the caller.
Owner(item, role) ==
    CASE role = "Admin"      -> item.adminId
      [] role = "Dispatcher" -> item.dispatcherId
      [] role = "Carrier"    -> item.carrierId
      [] role = "Driver"     -> item.driverId

\* The partition of the index that lists a role's orders.
IndexKey(item, role) ==
    CASE role = "Admin"      -> item.GSI4PK
      [] role = "Dispatcher" -> item.GSI2PK
      [] role = "Carrier"    -> item.GSI1PK
      [] role = "Driver"     -> item.GSI3PK

VARIABLES
    table,      \* the eTruckyOrders table: order id -> item or Absent
    req,        \* request slot -> status request in flight or Idle
    issued,     \* order ids handed out so far (uuids are never reused)
    held,       \* history: the statuses each order has had
    patched     \* history: the statuses PATCH :id wrote into each order

vars == <<table, req, issued, held, patched>>

Live(o) == table[o] # Absent

Init ==
    /\ table = [o \in OrderIds |-> Absent]
    /\ req = [r \in Requests |-> Idle]
    /\ issued = {}
    /\ held = [o \in OrderIds |-> {}]
    /\ patched = [o \in OrderIds |-> {}]

NewItem(dispatcher, dto) ==
    [adminId |-> dto.adminId, dispatcherId |-> dispatcher,
     carrierId |-> dto.carrierId, driverId |-> dto.driverId,
     brokerId |-> dto.brokerId, orderStatus |-> "Scheduled",
     scheduledTimestamp |-> dto.scheduledTimestamp,
     lastModifiedBy |-> dispatcher,
     GSI1PK |-> dto.carrierId, GSI2PK |-> dispatcher, GSI3PK |-> dto.driverId,
     GSI4PK |-> dto.adminId, GSI5PK |-> dto.brokerId,
     IndexDate |-> dto.scheduledTimestamp]

\* Mutated form: an order id may be used again.
createOrder_ReusesId(o, dispatcher, dto) ==
    /\ ~Live(o)
    /\ issued' = issued \cup {o}
    /\ table' = [table EXCEPT ![o] = NewItem(dispatcher, dto)]
    /\ held' = [held EXCEPT ![o] = {"Scheduled"}]
    /\ UNCHANGED <<req, patched>>

\* POST /orders: one PutCommand under a fresh uuid.
createOrder(o, dispatcher, dto) ==
    /\ o \notin issued
    /\ issued' = issued \cup {o}
    /\ table' = [table EXCEPT ![o] = NewItem(dispatcher, dto)]
    /\ held' = [held EXCEPT ![o] = {"Scheduled"}]
    /\ UNCHANGED <<req, patched>>

Updated(f, F, new, old) == IF f \in F THEN new ELSE old

\* Mutated form: the driver's index is not re-keyed.
PatchedItem_DriverNotRekeyed(item, caller, F, dto) ==
    [item EXCEPT
        !.carrierId = Updated("carrierId", F, dto.carrierId, @),
        !.driverId = Updated("driverId", F, dto.driverId, @),
        !.GSI1PK = Updated("carrierId", F, dto.carrierId, @),
        !.lastModifiedBy = caller]

\* The SET expression of PATCH :id.  GSI_KEY_MAP re-keys three of the indexes.
PatchedItem(item, caller, F, dto) ==
    [item EXCEPT
        !.adminId = Updated("adminId", F, dto.adminId, @),
        !.carrierId = Updated("carrierId", F, dto.carrierId, @),
        !.driverId = Updated("driverId", F, dto.driverId, @),
        !.brokerId = Updated("brokerId", F, dto.brokerId, @),
        !.orderStatus = Updated("orderStatus", F, dto.orderStatus, @),
        !.scheduledTimestamp = Updated("scheduledTimestamp", F, dto.scheduledTimestamp, @),
        !.GSI1PK = Updated("carrierId", F, dto.carrierId, @),
        !.GSI3PK = Updated("driverId", F, dto.driverId, @),
        !.GSI5PK = Updated("brokerId", F, dto.brokerId, @),
        !.lastModifiedBy = caller]

\* Mutated form: the owner is not part of the write's condition.
updateOrder_AnyCaller(o, role, caller, F, dto) ==
    /\ F # {}
    /\ F \subseteq AllowedUpdateFields(role)
    /\ Live(o)
    /\ table' = [table EXCEPT ![o] = PatchedItem(@, caller, F, dto)]
    /\ UNCHANGED <<req, issued, held, patched>>

\* PATCH /orders/:id: the allowlist (400), then one UpdateCommand on the
\* condition attribute_exists(PK) AND #ownerField = :callerId (404, 403).
updateOrder(o, role, caller, F, dto) ==
    /\ F # {}
    /\ F \subseteq AllowedUpdateFields(role)
    /\ Live(o)
    /\ Owner(table[o], role) = caller
    /\ table' = [table EXCEPT ![o] = PatchedItem(@, caller, F, dto)]
    /\ IF "orderStatus" \in F
       THEN /\ held' = [held EXCEPT ![o] = @ \cup {dto.orderStatus}]
            /\ patched' = [patched EXCEPT ![o] = @ \cup {dto.orderStatus}]
       ELSE UNCHANGED <<held, patched>>
    /\ UNCHANGED <<req, issued>>

\* Mutated form: the workflow is not consulted.
ReadForStatus_AnyTarget(r, o, role, caller, to) ==
    /\ req[r] = Idle
    /\ role # "Admin"
    /\ Live(o)
    /\ Owner(table[o], role) = caller
    /\ req' = [req EXCEPT ![r] = [orderId |-> o, userId |-> caller,
                                  from |-> table[o].orderStatus, to |-> to]]
    /\ UNCHANGED <<table, issued, held, patched>>

\* PATCH /orders/:id/status, up to its UpdateCommand: read the item, check the
\* owner (403) and the workflow (400).  The route has no Admin.
ReadForStatus(r, o, role, caller, to) ==
    /\ req[r] = Idle
    /\ role # "Admin"
    /\ Live(o)
    /\ Owner(table[o], role) = caller
    /\ isTransitionAllowed(table[o].orderStatus, to, role)
    /\ req' = [req EXCEPT ![r] = [orderId |-> o, userId |-> caller,
                                  from |-> table[o].orderStatus, to |-> to]]
    /\ UNCHANGED <<table, issued, held, patched>>

\* Mutated form: without attribute_exists the write makes a new, partial item.
WriteStatus_Upsert(r) ==
    /\ req[r] # Idle
    /\ table' = [table EXCEPT ![req[r].orderId] =
                    [orderStatus |-> req[r].to, lastModifiedBy |-> req[r].userId]]
    /\ held' = [held EXCEPT ![req[r].orderId] = @ \cup {req[r].to}]
    /\ req' = [req EXCEPT ![r] = Idle]
    /\ UNCHANGED <<issued, patched>>

\* The UpdateCommand.  Its only condition is attribute_exists(PK).
WriteStatus(r) ==
    /\ req[r] # Idle
    /\ Live(req[r].orderId)
    /\ table' = [table EXCEPT ![req[r].orderId] =
                    [@ EXCEPT !.orderStatus = req[r].to, !.lastModifiedBy = req[r].userId]]
    /\ held' = [held EXCEPT ![req[r].orderId] = @ \cup {req[r].to}]
    /\ req' = [req EXCEPT ![r] = Idle]
    /\ UNCHANGED <<issued, patched>>

\* The write is refused because the item is gone, or the invocation dies
\* before it writes.
EndStatus(r) ==
    /\ req[r] # Idle
    /\ req' = [req EXCEPT ![r] = Idle]
    /\ UNCHANGED <<table, issued, held, patched>>

\* DELETE /orders/:id: one conditional DeleteCommand.
deleteOrder(o, dispatcher) ==
    /\ Live(o)
    /\ table[o].dispatcherId = dispatcher
    /\ table' = [table EXCEPT ![o] = Absent]
    /\ UNCHANGED <<req, issued, held, patched>>

Create == \E o \in OrderIds, d \in Dispatchers, dto \in Dtos : createOrder(o, d, dto)
Patch == \E o \in OrderIds, role \in Roles : \E caller \in UsersOf(role) :
            \E F \in SUBSET PatchFields, dto \in Dtos : updateOrder(o, role, caller, F, dto)
AskStatus == \E r \in Requests, o \in OrderIds, role \in Roles :
                \E caller \in UsersOf(role), to \in Statuses :
                    ReadForStatus(r, o, role, caller, to)
Delete == \E o \in OrderIds, d \in Dispatchers : deleteOrder(o, d)

Next ==
    \/ Create
    \/ Patch
    \/ AskStatus
    \/ \E r \in Requests : WriteStatus(r)
    \/ \E r \in Requests : EndStatus(r)
    \/ Delete

Spec == Init /\ [][Next]_vars

\* The life OrderLifecycle speaks of, as it shows in the table.
Life(o) == IF Live(o) THEN "live" ELSE IF o \in issued THEN "gone" ELSE "unborn"

Lifecycle == INSTANCE OrderLifecycle WITH
    First <- "Scheduled",
    Rules <- {<<rule.fromStatus, rule.toStatus>> : rule \in ORDER_WORKFLOW_RULES},
    life <- [o \in OrderIds |-> Life(o)],
    had <- held,
    set <- patched

-----------------------------------------------------------------------------
\* The tables, slots and histories hold values of their kinds.
TypeOK ==
    /\ table \in [OrderIds -> Items \cup {Absent}]
    /\ req \in [Requests -> InFlight \cup {Idle}]
    /\ issued \in SUBSET OrderIds
    /\ held \in [OrderIds -> SUBSET Statuses]
    /\ patched \in [OrderIds -> SUBSET Statuses]

Readable(role, user) == {o \in OrderIds : Live(o) /\ Owner(table[o], role) = user}
Listed(role, user) == {o \in OrderIds : Live(o) /\ IndexKey(table[o], role) = user}

\* For a Dispatcher, a Carrier or a Driver the list page shows exactly the
\* orders the detail page opens: re-keying on reassignment (GSI_KEY_MAP of
\* updateOrder) keeps the index a query reads in step with the ownership
\* attribute getOrderById checks, whoever reassigns and in whatever order.
ListedIffReadable ==
    \A role \in Roles \ {"Admin"} : \A user \in UsersOf(role) :
        Listed(role, user) = Readable(role, user)

\* However status requests interleave, a status is only ever reached from an
\* earlier status of the same order by a rule of the workflow, or because
\* somebody wrote it with PATCH :id: no race invents a shortcut.
EarnedStatus ==
    \A o \in OrderIds : \A s \in held[o] :
        \/ s = "Scheduled"
        \/ s \in patched[o]
        \/ \E from \in held[o], role \in Everyone : isTransitionAllowed(from, s, role)

\* What a status request read stays true while it is in flight: the status it
\* starts from is one its order has had, and the step it will write is in the
\* workflow.  Its order may be in another status by then, or gone.
RequestsEarned ==
    \A r \in Requests : req[r] # Idle =>
        LET q == req[r]
        IN  /\ q.orderId \in issued
            /\ q.from \in held[q.orderId]
            /\ \E role \in Everyone : isTransitionAllowed(q.from, q.to, role)

KeysInStep ==
    \A o \in OrderIds : Live(o) =>
        /\ table[o].GSI1PK = table[o].carrierId
        /\ table[o].GSI2PK = table[o].dispatcherId
        /\ table[o].GSI3PK = table[o].driverId

\* The inductive invariant behind EarnedStatus, ListedIffReadable and
\* ImplementsLifecycle: an order in the table was issued, its status is one it
\* has had, its index keys name its owners, and RequestsEarned.
IInv ==
    /\ TypeOK
    /\ KeysInStep
    /\ \A o \in OrderIds : Live(o) => o \in issued /\ table[o].orderStatus \in held[o]
    /\ RequestsEarned
    /\ EarnedStatus

\* A deleted order never comes back, not even when a status request that read
\* it before the delete writes after it.
GoneForGood ==
    [][\A o \in OrderIds : (o \in issued /\ ~Live(o)) => ~Live(o)']_vars

\* Handlers that race on one order implement the abstract life of an order:
\* created once, moved by a rule from a status it has had or set directly
\* while it lives, ended once.
ImplementsLifecycle == Lifecycle!LifeSpec

Kept(o) == Live(o) /\ Live(o)'

\* Who may hand an order over: admin, carrier and broker change only by a
\* write of the order's dispatcher, the driver only by a write of its
\* dispatcher or of the carrier that held it, the dispatcher never.
HandedOverByCustodian ==
    [][\A o \in OrderIds : Kept(o) =>
        LET old == table[o]
            new == table'[o]
        IN  /\ new.dispatcherId = old.dispatcherId
            /\ \/ new.adminId = old.adminId /\ new.carrierId = old.carrierId
                                            /\ new.brokerId = old.brokerId
               \/ new.lastModifiedBy = old.dispatcherId
            /\ \/ new.driverId = old.driverId
               \/ new.lastModifiedBy \in {old.dispatcherId, old.carrierId}]_vars

\* A driver moves an order no further than Delivered.
DriverStopsAtDelivery ==
    [][\A o \in OrderIds :
        (Kept(o) /\ table'[o].orderStatus # table[o].orderStatus
                 /\ table'[o].lastModifiedBy \in Drivers)
            => table'[o].orderStatus \in {"PickingUp", "Transit", "Delivered"}]_vars
=============================================================================
