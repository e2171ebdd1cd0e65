---------------------------- MODULE OrderPayments ----------------------------
(***************************************************************************)
(* The money of one order.  PATCH :id recalculates payments from a copy of *)
(* the order it read first (getRawOrder) and writes them with a command    *)
(* whose only condition is ownership, so another PATCH may come between.   *)
(*                                                                         *)
(* Amounts are integers: orderRate and payments in cents, adminRate and    *)
(* dispatcherRate in percent, driverRate and the fuel inputs in units      *)
(* that make their products whole.  Who owns the order is in Orders; here  *)
(* a write its owner condition refuses is one more way to end a request.   *)
(***************************************************************************)
EXTENDS Integers

CONSTANTS
    Requests,   \* PATCH requests that may be in flight at once
    NewDtos,    \* what clients send to create an order
    Sends,      \* role -> the bodies its clients may PATCH with
    DriverRecords, TruckRecords, AdminRecords,  \* what lookupEntity may answer
    Idle,       \* no request in this slot
    Unread      \* the request needed no copy of the order

Roles == {"Admin", "Dispatcher", "Carrier"}
Payments == {"adminPayment", "dispatcherPayment", "carrierPayment"}
FuelInputs == {"fuelGasAvgCost", "fuelGasAvgGallxMil"}
Fields == {"orderRate", "adminRate", "dispatcherRate", "mileageOrder", "mileageEmpty",
           "mileageTotal", "driverRate", "driverPayment", "fuelCost"}
              \cup Payments \cup FuelInputs

\* A body names some fields, each a number (the validators set no bound); what
\* it leaves out is undefined in the DTO.
Has(dto, f) == f \in DOMAIN dto
HasAny(dto, F) == F \cap DOMAIN dto # {}
Or(dto, f, other) == IF Has(dto, f) THEN dto[f] ELSE other

IsBody(dto) == DOMAIN dto \subseteq Fields /\ \A f \in DOMAIN dto : dto[f] \in Int
ASSUME SendsAssumption == \A role \in Roles : \A dto \in Sends[role] : IsBody(dto)
ASSUME NewDtosAssumption == \A dto \in NewDtos : IsBody(dto) /\ Has(dto, "orderRate")

\* A record with no field stands for null: nobody there, or the read failed.
IsRecord(rec) == \A f \in DOMAIN rec : rec[f] \in Int
ASSUME RecordsAssumption ==
    \A rec \in DriverRecords \cup TruckRecords \cup AdminRecords : IsRecord(rec)

Items == [Fields -> Int]
ASSUME UnreadAssumption == Unread \notin Items

\* The properties of UpdateOrderDto: the validation pipe refuses any other.
UpdateOrderDto == Fields \ {"mileageTotal", "driverPayment", "fuelCost"}

AllowedUpdateFields(role) ==
    CASE role = "Admin"      -> {"adminRate", "dispatcherRate"}
      [] role = "Dispatcher" -> {"orderRate", "adminRate", "dispatcherRate",
                                 "mileageOrder", "mileageEmpty"} \cup Payments
      [] role = "Carrier"    -> {"driverRate", "driverPayment", "fuelCost"} \cup FuelInputs

\* round2 of a percentage of an amount in cents: halves go up, below zero too.
Pct(amount, percent) == (amount * percent + 50) \div 100

\* The three payments of a recalculation, from an orderRate and two rates.
Split(orderRate, adminRate, dispatcherRate) ==
    LET a == Pct(orderRate, adminRate)
        d == Pct(orderRate, dispatcherRate)
    IN  [adminPayment |-> a, dispatcherPayment |-> d, carrierPayment |-> orderRate - a - d]

SplitOf(it) == [f \in Payments |-> it[f]]

Overlay(w, it) == [f \in Fields |-> Or(w, f, it[f])]

\* Mutated form: a payment the client leaves out is stored undefined.
NewItem_NoDefaults(dto, driver, truck, admin) ==
    [f \in Fields |-> Or(dto, f, IF f \in Payments THEN Unread ELSE 5)]

\* POST /orders: rates default from the driver's, the truck's and the admin's
\* record; the three payments are what the client sent, or 0.
NewItem(dto, driver, truck, admin) ==
    LET adminRate == Or(dto, "adminRate", Or(admin, "rate", 5))
        driverRate == Or(dto, "driverRate", Or(driver, "rate", 0))
        cost == Or(dto, "fuelGasAvgCost", Or(truck, "fuelGasAvgCost", 0))
        gal == Or(dto, "fuelGasAvgGallxMil", Or(truck, "fuelGasAvgGallxMil", 0))
        miles == Or(dto, "mileageOrder", 0)
        total == miles + Or(dto, "mileageEmpty", 0)
    IN  [[f \in Fields |-> Or(dto, f, 0)] EXCEPT
            !["adminRate"] = adminRate,
            !["dispatcherRate"] = Or(dto, "dispatcherRate", 10 - adminRate),
            !["driverRate"] = driverRate,
            !["fuelGasAvgCost"] = cost,
            !["fuelGasAvgGallxMil"] = gal,
            !["mileageTotal"] = total,
            !["driverPayment"] = driverRate * miles,
            !["fuelCost"] = cost * gal * total]

VARIABLES
    item,       \* the order's attributes
    req,        \* request slot -> PATCH in flight or Idle
    charged,    \* history: every orderRate the order has had
    byHand      \* history: the payments were last written as a client sent them

vars == <<item, req, charged, byHand>>

Init ==
    /\ \E dto \in NewDtos, driver \in DriverRecords, truck \in TruckRecords, admin \in AdminRecords :
           item = NewItem(dto, driver, truck, admin)
    /\ req = [r \in Requests |-> Idle]
    /\ charged = {item["orderRate"]}
    /\ byHand = (SplitOf(item) # Split(item["orderRate"], item["adminRate"], item["dispatcherRate"]))

RecalcSplit(role, dto) ==
    \/ role = "Admin" /\ HasAny(dto, {"adminRate", "dispatcherRate"})
    \/ role = "Dispatcher" /\ HasAny(dto, {"orderRate", "adminRate", "dispatcherRate"})
needsRecalc(role, dto) ==
    \/ RecalcSplit(role, dto)
    \/ role = "Carrier" /\ HasAny(dto, {"driverRate"} \cup FuelInputs)

\* Mutated form: a rate the client did not send is used but not written back.
SplitWrites_SentRatesOnly(dto, current) ==
    Split(Or(dto, "orderRate", current["orderRate"]),
          Or(dto, "adminRate", current["adminRate"]),
          Or(dto, "dispatcherRate", current["dispatcherRate"]))

\* What a rate change writes: both rates, in the request or not, and the split.
\* Only a Dispatcher can have sent an orderRate.
SplitWrites(dto, current) ==
    LET a == Or(dto, "adminRate", current["adminRate"])
        d == Or(dto, "dispatcherRate", current["dispatcherRate"])
        split == Split(Or(dto, "orderRate", current["orderRate"]), a, d)
    IN  [adminRate         |-> a,
         dispatcherRate    |-> d,
         adminPayment      |-> split.adminPayment,
         dispatcherPayment |-> split.dispatcherPayment,
         carrierPayment    |-> split.carrierPayment]

\* Mutated form: the mileage in the request is not used.
MileageWrites_ReadMileage(dto, current) ==
    LET total == current["mileageOrder"] + current["mileageEmpty"]
    IN  [driverPayment |-> current["driverRate"] * current["mileageOrder"],
         mileageTotal  |-> total,
         fuelCost      |-> total * current["fuelGasAvgGallxMil"] * current["fuelGasAvgCost"]]

\* Mutated form: the inputs are written back with the results.
MileageWrites_InputsToo(dto, current) ==
    [driverPayment |-> current["driverRate"] * Or(dto, "mileageOrder", current["mileageOrder"]),
     driverRate    |-> current["driverRate"]]

\* What a Dispatcher's recalculation adds for the driver and the fuel.
MileageWrites(dto, current) ==
    LET miles == Or(dto, "mileageOrder", current["mileageOrder"])
        total == miles + Or(dto, "mileageEmpty", current["mileageEmpty"])
    IN  [driverPayment |-> current["driverRate"] * miles,
         mileageTotal  |-> total,
         fuelCost      |-> total * current["fuelGasAvgGallxMil"] * current["fuelGasAvgCost"]]

\* What a Carrier's recalculation writes: each payment only when one of its
\* inputs is in the request.
CarrierWrites(dto, current) ==
    LET cost == Or(dto, "fuelGasAvgCost", current["fuelGasAvgCost"])
        gal == Or(dto, "fuelGasAvgGallxMil", current["fuelGasAvgGallxMil"])
        F == {f \in {"driverPayment", "fuelCost"} :
                 \/ f = "driverPayment" /\ Has(dto, "driverRate")
                 \/ f = "fuelCost" /\ HasAny(dto, FuelInputs)}
    IN  [f \in F |-> IF f = "driverPayment"
                     THEN dto["driverRate"] * current["mileageOrder"]
                     ELSE current["mileageTotal"] * gal * cost]

\* The attributes the UpdateCommand leaves behind on the item it finds.
Updated(it, role, dto, current) ==
    IF ~needsRecalc(role, dto) THEN Overlay(dto, it) ELSE
    CASE role = "Admin"      -> Overlay(SplitWrites(dto, current), it)
      [] role = "Dispatcher" -> Overlay(MileageWrites(dto, current),
                                        Overlay(SplitWrites(dto, current), Overlay(dto, it)))
      [] role = "Carrier"    -> Overlay(CarrierWrites(dto, current), Overlay(dto, it))

\* PATCH /orders/:id, up to its UpdateCommand.
Ask(r, role, dto) ==
    /\ req[r] = Idle
    /\ DOMAIN dto # {}
    /\ DOMAIN dto \subseteq UpdateOrderDto \cap AllowedUpdateFields(role)
    /\ req' = [req EXCEPT ![r] = [role |-> role, dto |-> dto,
                   current |-> IF needsRecalc(role, dto) THEN item ELSE Unread]]
    /\ UNCHANGED <<item, charged, byHand>>

\* The UpdateCommand.
Write(r) ==
    /\ req[r] # Idle
    /\ item' = Updated(item, req[r].role, req[r].dto, req[r].current)
    /\ req' = [req EXCEPT ![r] = Idle]
    /\ charged' = charged \cup {item'["orderRate"]}
    /\ byHand' = IF RecalcSplit(req[r].role, req[r].dto) THEN FALSE
                 ELSE byHand \/ HasAny(req[r].dto, Payments)

\* The owner condition fails, or the invocation dies before it writes.
End(r) ==
    /\ req[r] # Idle
    /\ req' = [req EXCEPT ![r] = Idle]
    /\ UNCHANGED <<item, charged, byHand>>

Next ==
    \E r \in Requests :
        \/ \E role \in Roles : \E dto \in Sends[role] : Ask(r, role, dto)
        \/ Write(r)
        \/ End(r)

Spec == Init /\ [][Next]_vars

-----------------------------------------------------------------------------
InFlight(q) ==
    /\ DOMAIN q = {"role", "dto", "current"}
    /\ q.role \in Roles
    /\ q.dto \in Sends[q.role]
    /\ q.current \in Items \cup {Unread}

\* Amounts are integers, requests carry a body and perhaps a copy of the order.
TypeOK ==
    /\ item \in Items
    /\ DOMAIN req = Requests
    /\ \A r \in Requests : req[r] = Idle \/ InFlight(req[r])
    /\ charged \subseteq Int
    /\ byHand \in BOOLEAN

\* However PATCH requests of Admin and Dispatcher interleave, the three payments
\* are the split of ONE orderRate the order has had, at the two rates stored
\* beside them: never one payment of one request and one of another.  (Unless
\* a client wrote payments directly.)
PaymentsAreOneSplit ==
    byHand \/ \E rate \in charged : SplitOf(item) = Split(rate, item["adminRate"], item["dispatcherRate"])

\* What a request carries while others write: fields of its role only, a copy
\* exactly when it will recalculate, and in the copy an orderRate the order has
\* had, however old the copy is.
RequestsInOrder ==
    \A r \in Requests : req[r] # Idle =>
        LET q == req[r]
        IN  /\ DOMAIN q.dto \subseteq AllowedUpdateFields(q.role)
            /\ (q.current # Unread) <=> needsRecalc(q.role, q.dto)
            /\ q.current # Unread => q.current["orderRate"] \in charged

\* The inductive invariant behind PaymentsAreOneSplit: the split a request will
\* write is of a rate the order has had, which its stale copy must witness.
IInv ==
    /\ TypeOK
    /\ item["orderRate"] \in charged
    /\ RequestsInOrder
    /\ PaymentsAreOneSplit

SplitFits(it) == SplitOf(it) = Split(it["orderRate"], it["adminRate"], it["dispatcherRate"])
DriverFits(it) == it["driverPayment"] = it["driverRate"] * it["mileageOrder"]
MilesFit(it) == it["mileageTotal"] = it["mileageOrder"] + it["mileageEmpty"]
FuelFits(it) == it["fuelCost"] = it["mileageTotal"] * it["fuelGasAvgGallxMil"] * it["fuelGasAvgCost"]

\* A request that no other write came between repairs what its role
\* recalculates, whatever earlier races or direct writes left there.
UndisturbedRecalcRepairs ==
    [][\A r \in Requests :
        (req[r] # Idle /\ req'[r] = Idle /\ item' # item /\ req[r].current = item) =>
            LET role == req[r].role
                dto == req[r].dto
            IN  /\ role \in {"Admin", "Dispatcher"} => SplitFits(item')
                /\ role = "Dispatcher" => DriverFits(item') /\ MilesFit(item') /\ FuelFits(item')
                /\ (role = "Carrier" /\ Has(dto, "driverRate")) => DriverFits(item')
                /\ (role = "Carrier" /\ HasAny(dto, FuelInputs)) => FuelFits(item')]_vars

\* Nobody but the Dispatcher changes what the order costs or how far it goes,
\* nobody but the Carrier what its driver and fuel cost: the recalculation of one
\* role writes results of the other's inputs, never the inputs.
InputsKeepTheirWriter ==
    [][\A r \in Requests :
        (req[r] # Idle /\ req'[r] = Idle) =>
            /\ (\E f \in {"orderRate", "mileageOrder", "mileageEmpty"} : item'[f] # item[f])
                   => req[r].role = "Dispatcher"
            /\ (\E f \in {"driverRate"} \cup FuelInputs : item'[f] # item[f])
                   => req[r].role = "Carrier"]_vars
=============================================================================
