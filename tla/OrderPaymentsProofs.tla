------------------------- MODULE OrderPaymentsProofs -------------------------
(***************************************************************************)
(* Proofs about OrderPayments for any bodies, records and number of        *)
(* requests.  The arithmetic of a split never matters to the interleaving: *)
(* the proofs need that it is a function of one rate and the two rates     *)
(* written beside it, and that it yields integers.                         *)
(* After them, about Dashboard, for any filters, sizes, pages, counts,     *)
(* users and number of operations.  Its inductive invariant is TableInv:   *)
(* where every token, page and row comes from, and whose it is.            *)
(***************************************************************************)
EXTENDS OrderPayments, Dashboard, TLAPS

\* A body's fields hold integers.
LEMMA BodyType ==
    ASSUME NEW caller \in Roles, NEW dto \in Sends[caller]
    PROVE  \A f \in DOMAIN dto : f \in Fields /\ dto[f] \in Int
BY SendsAssumption DEF IsBody

\* What a body or else a stored value gives is an integer.
LEMMA OrType ==
    ASSUME NEW dto, NEW f, NEW other \in Int, \A g \in DOMAIN dto : dto[g] \in Int
    PROVE  Or(dto, f, other) \in Int
BY DEF Or, Has

\* Integers laid over an item leave an item.
LEMMA OverlayType ==
    ASSUME NEW w, NEW it \in Items, \A f \in DOMAIN w : w[f] \in Int
    PROVE  Overlay(w, it) \in Items
BY DEF Overlay, Or, Has, Items

\* A rounded percentage of an integer is an integer.
LEMMA PctType == \A amount, percent \in Int : Pct(amount, percent) \in Int
BY DEF Pct

\* A split has the three payments and nothing else.
LEMMA SplitShape ==
    ASSUME NEW rate, NEW a, NEW d
    PROVE  /\ DOMAIN Split(rate, a, d) = Payments
           /\ Split(rate, a, d) = [f \in Payments |-> Split(rate, a, d)[f]]
BY DEF Split, Payments

LEMMA SplitType ==
    ASSUME NEW rate \in Int, NEW a \in Int, NEW d \in Int
    PROVE  \A f \in Payments : Split(rate, a, d)[f] \in Int
<1>1. Pct(rate, a) \in Int /\ Pct(rate, d) \in Int
    BY PctType
<1>2. rate - Pct(rate, a) - Pct(rate, d) \in Int
    BY <1>1
<1> QED
    BY <1>1, <1>2 DEF Split, Payments

\* The three recalculations write integers, and only the fields named here.
LEMMA SplitWritesType ==
    ASSUME NEW dto, NEW current \in Items, \A g \in DOMAIN dto : dto[g] \in Int
    PROVE  /\ DOMAIN SplitWrites(dto, current) = {"adminRate", "dispatcherRate"} \cup Payments
           /\ \A f \in DOMAIN SplitWrites(dto, current) : SplitWrites(dto, current)[f] \in Int
<1> DEFINE a == Or(dto, "adminRate", current["adminRate"])
           d == Or(dto, "dispatcherRate", current["dispatcherRate"])
           rate == Or(dto, "orderRate", current["orderRate"])
           split == Split(rate, a, d)
<1>1. a \in Int /\ d \in Int /\ rate \in Int
    BY OrType DEF Items, Fields
<1>2. \A f \in Payments : split[f] \in Int
    BY <1>1, SplitType
<1>3. SplitWrites(dto, current) =
        [adminRate |-> a, dispatcherRate |-> d, adminPayment |-> split.adminPayment,
         dispatcherPayment |-> split.dispatcherPayment, carrierPayment |-> split.carrierPayment]
    BY DEF SplitWrites
<1> HIDE DEF a, d, rate, split
<1> QED
    BY <1>1, <1>2, <1>3 DEF Payments

LEMMA MileageWritesType ==
    ASSUME NEW dto, NEW current \in Items, \A g \in DOMAIN dto : dto[g] \in Int
    PROVE  /\ DOMAIN MileageWrites(dto, current) = {"driverPayment", "mileageTotal", "fuelCost"}
           /\ \A f \in DOMAIN MileageWrites(dto, current) : MileageWrites(dto, current)[f] \in Int
<1> DEFINE miles == Or(dto, "mileageOrder", current["mileageOrder"])
           empty == Or(dto, "mileageEmpty", current["mileageEmpty"])
<1>1. miles \in Int /\ empty \in Int /\ current["driverRate"] \in Int
        /\ current["fuelGasAvgGallxMil"] \in Int /\ current["fuelGasAvgCost"] \in Int
    BY OrType DEF Items, Fields, FuelInputs
<1> HIDE DEF miles, empty
<1>2. /\ miles + empty \in Int
      /\ current["driverRate"] * miles \in Int
      /\ (miles + empty) * current["fuelGasAvgGallxMil"] * current["fuelGasAvgCost"] \in Int
    BY <1>1
<1>3. MileageWrites(dto, current) =
        [driverPayment |-> current["driverRate"] * miles,
         mileageTotal  |-> miles + empty,
         fuelCost |-> (miles + empty) * current["fuelGasAvgGallxMil"] * current["fuelGasAvgCost"]]
    BY DEF MileageWrites, miles, empty
<1> QED
    BY <1>2, <1>3

LEMMA CarrierWritesType ==
    ASSUME NEW dto, NEW current \in Items, \A g \in DOMAIN dto : dto[g] \in Int
    PROVE  /\ DOMAIN CarrierWrites(dto, current) \subseteq {"driverPayment", "fuelCost"}
           /\ \A f \in DOMAIN CarrierWrites(dto, current) : CarrierWrites(dto, current)[f] \in Int
<1> DEFINE cost == Or(dto, "fuelGasAvgCost", current["fuelGasAvgCost"])
           gal == Or(dto, "fuelGasAvgGallxMil", current["fuelGasAvgGallxMil"])
           F == {f \in {"driverPayment", "fuelCost"} :
                    \/ f = "driverPayment" /\ Has(dto, "driverRate")
                    \/ f = "fuelCost" /\ HasAny(dto, FuelInputs)}
<1>1. cost \in Int /\ gal \in Int /\ current["mileageOrder"] \in Int /\ current["mileageTotal"] \in Int
    BY OrType DEF Items, Fields, FuelInputs
<1>2. Has(dto, "driverRate") => dto["driverRate"] \in Int
    BY DEF Has
<1> HIDE DEF cost, gal
<1>3. CarrierWrites(dto, current) =
        [f \in F |-> IF f = "driverPayment" THEN dto["driverRate"] * current["mileageOrder"]
                     ELSE current["mileageTotal"] * gal * cost]
    BY DEF CarrierWrites, cost, gal
<1>4. current["mileageTotal"] * gal * cost \in Int
    BY <1>1
<1>5. Has(dto, "driverRate") => dto["driverRate"] * current["mileageOrder"] \in Int
    BY <1>1, <1>2
<1> QED
    BY <1>3, <1>4, <1>5

\* What a PATCH leaves behind is an item.
LEMMA UpdatedType ==
    ASSUME NEW it \in Items, NEW caller \in Roles, NEW dto \in Sends[caller],
           NEW current, needsRecalc(caller, dto) => current \in Items
    PROVE  Updated(it, caller, dto, current) \in Items
<1>1. \A g \in DOMAIN dto : dto[g] \in Int
    BY BodyType
<1>2. Overlay(dto, it) \in Items
    BY <1>1, OverlayType
<1>3. CASE ~needsRecalc(caller, dto)
    BY <1>2, <1>3 DEF Updated
<1>4. CASE needsRecalc(caller, dto)
    <2>1. current \in Items
        BY <1>4
    <2>2. \A any \in Items : Overlay(SplitWrites(dto, current), any) \in Items
        BY <1>1, <2>1, SplitWritesType, OverlayType
    <2>3. \A any \in Items : Overlay(MileageWrites(dto, current), any) \in Items
        BY <1>1, <2>1, MileageWritesType, OverlayType
    <2>4. \A any \in Items : Overlay(CarrierWrites(dto, current), any) \in Items
        BY <1>1, <2>1, CarrierWritesType, OverlayType
    <2>5. CASE caller = "Admin"
        BY <1>4, <2>2, <2>5 DEF Updated
    <2>6. CASE caller = "Dispatcher"
        BY <1>2, <1>4, <2>2, <2>3, <2>6 DEF Updated
    <2>7. CASE caller = "Carrier"
        BY <1>2, <1>4, <2>4, <2>7 DEF Updated
    <2> QED
        BY <2>5, <2>6, <2>7 DEF Roles
<1> QED
    BY <1>3, <1>4

\* A new order is an item, whatever the lookups answered.
LEMMA NewItemType ==
    ASSUME NEW dto \in NewDtos, NEW driver \in DriverRecords,
           NEW truck \in TruckRecords, NEW admin \in AdminRecords
    PROVE  NewItem(dto, driver, truck, admin) \in Items
<1>1. \A g \in DOMAIN dto : dto[g] \in Int
    BY NewDtosAssumption DEF IsBody
<1>2. /\ \A g \in DOMAIN driver : driver[g] \in Int
      /\ \A g \in DOMAIN truck : truck[g] \in Int
      /\ \A g \in DOMAIN admin : admin[g] \in Int
    BY RecordsAssumption DEF IsRecord
<1> DEFINE adminRate == Or(dto, "adminRate", Or(admin, "rate", 5))
           driverRate == Or(dto, "driverRate", Or(driver, "rate", 0))
           cost == Or(dto, "fuelGasAvgCost", Or(truck, "fuelGasAvgCost", 0))
           gal == Or(dto, "fuelGasAvgGallxMil", Or(truck, "fuelGasAvgGallxMil", 0))
           miles == Or(dto, "mileageOrder", 0)
           total == miles + Or(dto, "mileageEmpty", 0)
           dispatcherRate == Or(dto, "dispatcherRate", 10 - adminRate)
           driverPayment == driverRate * miles
           fuelCost == cost * gal * total
<1>3. adminRate \in Int /\ driverRate \in Int /\ cost \in Int /\ gal \in Int
    BY <1>1, <1>2 DEF Or, Has
<1>4. miles \in Int /\ Or(dto, "mileageEmpty", 0) \in Int
    BY <1>1 DEF Or, Has
<1>5. total \in Int
    BY <1>4
<1>6. dispatcherRate \in Int
    <2>1. 10 - adminRate \in Int
        BY <1>3
    <2> QED
        BY <1>1, <2>1, OrType
<1>7. driverPayment \in Int /\ fuelCost \in Int
    <2> HIDE DEF driverRate, miles, cost, gal, total
    <2> QED
        BY <1>3, <1>4, <1>5
<1>8. [f \in Fields |-> Or(dto, f, 0)] \in Items
    BY <1>1 DEF Items, Or, Has
<1>9. NewItem(dto, driver, truck, admin) =
        [[f \in Fields |-> Or(dto, f, 0)] EXCEPT
            !["adminRate"] = adminRate,
            !["dispatcherRate"] = dispatcherRate,
            !["driverRate"] = driverRate,
            !["fuelGasAvgCost"] = cost,
            !["fuelGasAvgGallxMil"] = gal,
            !["mileageTotal"] = total,
            !["driverPayment"] = driverPayment,
            !["fuelCost"] = fuelCost]
    BY DEF NewItem
<1> HIDE DEF adminRate, driverRate, cost, gal, miles, total, dispatcherRate, driverPayment, fuelCost
<1> QED
    BY <1>3, <1>5, <1>6, <1>7, <1>8, <1>9 DEF Items

\* The type invariant, step by step.
LEMMA TypeStep == TypeOK /\ RequestsInOrder /\ [Next]_vars => TypeOK'
<1> SUFFICES ASSUME TypeOK, RequestsInOrder, [Next]_vars PROVE TypeOK'
    OBVIOUS
<1>1. ASSUME NEW r \in Requests, NEW caller \in Roles, NEW dto \in Sends[caller], Ask(r, caller, dto)
      PROVE  TypeOK'
    <2>1. InFlight(req'[r])
        BY <1>1 DEF Ask, InFlight, TypeOK
    <2>2. \A s \in Requests : s # r => req'[s] = req[s]
        BY <1>1 DEF Ask, TypeOK
    <2> QED
        BY <1>1, <2>1, <2>2 DEF Ask, TypeOK, InFlight
<1>2. ASSUME NEW r \in Requests, Write(r) PROVE TypeOK'
    <2>1. /\ req[r].role \in Roles
          /\ req[r].dto \in Sends[req[r].role]
          /\ req[r].current \in Items \cup {Unread}
        BY <1>2 DEF Write, TypeOK, InFlight
    <2>2. needsRecalc(req[r].role, req[r].dto) => req[r].current \in Items
        BY <1>2, <2>1 DEF Write, RequestsInOrder
    <2>3. item' \in Items
        BY <1>2, <2>1, <2>2, UpdatedType DEF Write, TypeOK
    <2>4. item'["orderRate"] \in Int
        BY <2>3 DEF Items, Fields
    <2>5. byHand' \in BOOLEAN
        BY <1>2 DEF Write, TypeOK, HasAny
    <2> QED
        BY <1>2, <2>3, <2>4, <2>5 DEF Write, TypeOK, InFlight
<1>3. ASSUME NEW r \in Requests, End(r) PROVE TypeOK'
    BY <1>3 DEF End, TypeOK, InFlight
<1>4. CASE UNCHANGED vars
    BY <1>4 DEF vars, TypeOK, InFlight
<1> QED
    BY <1>1, <1>2, <1>3, <1>4 DEF Next

\* A recalculated split is written whole: the three payments are the split of
\* the orderRate sent or else read, at the two rates written beside them.
LEMMA SplitIsWrittenWhole ==
    ASSUME NEW it \in Items, NEW caller \in Roles, NEW dto, NEW current \in Items,
           DOMAIN dto \subseteq AllowedUpdateFields(caller), RecalcSplit(caller, dto)
    PROVE  LET new == Updated(it, caller, dto, current)
           IN  /\ SplitOf(new) = Split(Or(dto, "orderRate", current["orderRate"]),
                                       new["adminRate"], new["dispatcherRate"])
               /\ Has(dto, "orderRate") => new["orderRate"] = dto["orderRate"]
<1> DEFINE new == Updated(it, caller, dto, current)
           a == Or(dto, "adminRate", current["adminRate"])
           d == Or(dto, "dispatcherRate", current["dispatcherRate"])
           rate == Or(dto, "orderRate", current["orderRate"])
           split == Split(rate, a, d)
           sw == SplitWrites(dto, current)
<1>1. sw = [adminRate |-> a, dispatcherRate |-> d, adminPayment |-> split.adminPayment,
            dispatcherPayment |-> split.dispatcherPayment, carrierPayment |-> split.carrierPayment]
    BY DEF SplitWrites
<1>2. DOMAIN MileageWrites(dto, current) = {"driverPayment", "mileageTotal", "fuelCost"}
    BY DEF MileageWrites
<1>3. needsRecalc(caller, dto) /\ caller \in {"Admin", "Dispatcher"}
    BY DEF needsRecalc, RecalcSplit
<1>4. caller = "Admin" => new = Overlay(sw, it)
    BY <1>3 DEF Updated
<1>5. caller = "Dispatcher" =>
        new = Overlay(MileageWrites(dto, current), Overlay(sw, Overlay(dto, it)))
    BY <1>3 DEF Updated
<1>6. \A f \in {"adminRate", "dispatcherRate"} \cup Payments : new[f] = sw[f]
    <2> HIDE DEF new, sw, a, d, rate, split
    <2>1. DOMAIN sw = {"adminRate", "dispatcherRate"} \cup Payments
        BY <1>1 DEF Payments
    <2>2. CASE caller = "Admin"
        BY <2>1, <2>2, <1>4 DEF Overlay, Or, Has, Fields
    <2>3. CASE caller = "Dispatcher"
        BY <2>1, <2>3, <1>2, <1>5 DEF Overlay, Or, Has, Fields, Payments
    <2> QED
        BY <2>2, <2>3, <1>3
<1>7. new["adminRate"] = a /\ new["dispatcherRate"] = d /\ \A f \in Payments : new[f] = split[f]
    <2> HIDE DEF new, sw, a, d, rate, split
    <2> QED
        BY <1>1, <1>6 DEF Payments
<1>8. split = [f \in Payments |-> split[f]]
    BY SplitShape
<1>9. SplitOf(new) = split
    <2> HIDE DEF new, sw, a, d, rate, split
    <2> QED
        BY <1>7, <1>8 DEF SplitOf
<1>10. Has(dto, "orderRate") => new["orderRate"] = dto["orderRate"]
    <2> HIDE DEF new, sw, a, d, rate, split
    <2>1. caller = "Admin" => ~Has(dto, "orderRate")
        BY DEF Has, AllowedUpdateFields
    <2>2. "orderRate" \notin DOMAIN sw /\ "orderRate" \in Fields
        BY <1>1 DEF Fields
    <2>3. CASE caller = "Dispatcher"
        BY <2>2, <2>3, <1>2, <1>5 DEF Overlay, Or, Has
    <2> QED
        BY <2>1, <2>3, <1>3
<1> QED
    BY <1>7, <1>9, <1>10

\* A PATCH that neither recalculates the split nor sends a payment leaves the
\* payments and both rates alone.
LEMMA SplitIsLeftAlone ==
    ASSUME NEW it \in Items, NEW caller \in Roles, NEW dto, NEW current,
           DOMAIN dto \subseteq AllowedUpdateFields(caller),
           ~RecalcSplit(caller, dto), ~HasAny(dto, Payments)
    PROVE  LET new == Updated(it, caller, dto, current)
           IN  \A f \in {"adminRate", "dispatcherRate"} \cup Payments : new[f] = it[f]
<1> DEFINE new == Updated(it, caller, dto, current)
           kept == {"adminRate", "dispatcherRate"} \cup Payments
<1>1. kept \cap DOMAIN dto = {}
    <2>1. CASE caller \in {"Admin", "Dispatcher"}
        BY <2>1 DEF RecalcSplit, HasAny
    <2>2. CASE caller = "Carrier"
        BY <2>2 DEF AllowedUpdateFields, Payments, FuelInputs
    <2> QED
        BY <2>1, <2>2 DEF Roles
<1>2. kept \cap DOMAIN CarrierWrites(dto, current) = {}
    BY DEF CarrierWrites, Payments
<1>3. needsRecalc(caller, dto) => caller = "Carrier"
    BY DEF needsRecalc
<1>4. new = IF needsRecalc(caller, dto) THEN Overlay(CarrierWrites(dto, current), Overlay(dto, it))
            ELSE Overlay(dto, it)
    BY <1>3 DEF Updated
<1>5. kept \subseteq Fields
    BY DEF Fields
<1> HIDE DEF new, kept
<1>6. \A f \in kept : new[f] = it[f]
    BY <1>1, <1>2, <1>4, <1>5 DEF Overlay, Or, Has
<1> QED
    BY <1>6 DEF new, kept

LEMMA InitInv == Init => IInv
<1> SUFFICES ASSUME Init PROVE IInv
    OBVIOUS
<1>1. PICK dto \in NewDtos, driver \in DriverRecords, truck \in TruckRecords, admin \in AdminRecords :
          item = NewItem(dto, driver, truck, admin)
    BY DEF Init
<1>2. item \in Items
    BY <1>1, NewItemType
<1>3. item["orderRate"] \in Int
    BY <1>2 DEF Items, Fields
<1>4. TypeOK
    BY <1>2, <1>3 DEF Init, TypeOK
<1>5. PaymentsAreOneSplit
    BY DEF Init, PaymentsAreOneSplit
<1> QED
    BY <1>4, <1>5 DEF Init, IInv, RequestsInOrder

\* A request that starts copies the order as it is, whose rate it has had.
LEMMA AskInv ==
    ASSUME IInv, TypeOK', NEW r \in Requests, NEW caller \in Roles,
           NEW dto \in Sends[caller], Ask(r, caller, dto)
    PROVE  IInv'
<1>1. RequestsInOrder'
    <2> SUFFICES ASSUME NEW s \in Requests, req'[s] # Idle
                 PROVE  /\ DOMAIN req'[s].dto \subseteq AllowedUpdateFields(req'[s].role)
                        /\ (req'[s].current # Unread) <=> needsRecalc(req'[s].role, req'[s].dto)
                        /\ req'[s].current # Unread => req'[s].current["orderRate"] \in charged'
        BY DEF RequestsInOrder
    <2>1. CASE s = r
        <3>1. /\ req'[r].role = caller /\ req'[r].dto = dto
              /\ req'[r].current = IF needsRecalc(caller, dto) THEN item ELSE Unread
            BY DEF Ask, IInv, TypeOK
        <3>2. item # Unread
            BY UnreadAssumption DEF IInv, TypeOK
        <3> QED
            BY <2>1, <3>1, <3>2 DEF Ask, IInv
    <2>2. CASE s # r
        BY <2>2 DEF Ask, IInv, TypeOK, RequestsInOrder
    <2> QED
        BY <2>1, <2>2
<1>2. PaymentsAreOneSplit'
    BY DEF Ask, IInv, PaymentsAreOneSplit, SplitOf
<1> QED
    BY <1>1, <1>2 DEF Ask, IInv

\* A request that ends without writing changes nothing the others rely on.
LEMMA EndInv ==
    ASSUME IInv, TypeOK', NEW r \in Requests, End(r)
    PROVE  IInv'
<1>1. RequestsInOrder'
    BY DEF End, IInv, TypeOK, RequestsInOrder
<1>2. PaymentsAreOneSplit'
    BY DEF End, IInv, PaymentsAreOneSplit, SplitOf
<1> QED
    BY <1>1, <1>2 DEF End, IInv

\* The write: a recalculated split is of the rate it sends or of the one its
\* copy holds, and the order has had both; another write keeps the split or
\* was asked to break it.
LEMMA WriteInv ==
    ASSUME IInv, TypeOK', NEW r \in Requests, Write(r)
    PROVE  IInv'
<1> DEFINE q == req[r]
<1>1. /\ q.role \in Roles /\ q.dto \in Sends[q.role] /\ q.current \in Items \cup {Unread}
      /\ DOMAIN q.dto \subseteq AllowedUpdateFields(q.role)
      /\ (q.current # Unread) <=> needsRecalc(q.role, q.dto)
      /\ q.current # Unread => q.current["orderRate"] \in charged
    BY DEF Write, IInv, TypeOK, InFlight, RequestsInOrder
<1>2. item \in Items /\ item' = Updated(item, q.role, q.dto, q.current)
    BY DEF Write, IInv, TypeOK
<1>3. charged' = charged \cup {item'["orderRate"]}
    BY DEF Write
<1>4. RequestsInOrder'
    <2> SUFFICES ASSUME NEW s \in Requests, req'[s] # Idle
                 PROVE  /\ DOMAIN req'[s].dto \subseteq AllowedUpdateFields(req'[s].role)
                        /\ (req'[s].current # Unread) <=> needsRecalc(req'[s].role, req'[s].dto)
                        /\ req'[s].current # Unread => req'[s].current["orderRate"] \in charged'
        BY DEF RequestsInOrder
    <2>1. req'[s] = req[s] /\ req[s] # Idle
        BY DEF Write, IInv, TypeOK
    <2> QED
        BY <2>1, <1>3 DEF IInv, RequestsInOrder
<1>5. PaymentsAreOneSplit'
    <2>1. CASE RecalcSplit(q.role, q.dto)
        <3> DEFINE rate == Or(q.dto, "orderRate", q.current["orderRate"])
        <3>1. q.current \in Items /\ q.current["orderRate"] \in charged
            BY <1>1, <2>1 DEF needsRecalc
        <3>2. /\ SplitOf(item') = Split(rate, item'["adminRate"], item'["dispatcherRate"])
              /\ Has(q.dto, "orderRate") => item'["orderRate"] = q.dto["orderRate"]
            BY <1>1, <1>2, <2>1, <3>1, SplitIsWrittenWhole
        <3>3. rate \in charged'
            BY <1>3, <3>1, <3>2 DEF Or
        <3> QED
            BY <3>2, <3>3 DEF PaymentsAreOneSplit, SplitOf
    <2>2. CASE ~RecalcSplit(q.role, q.dto) /\ (byHand \/ HasAny(q.dto, Payments))
        BY <2>2 DEF Write, PaymentsAreOneSplit
    <2>3. CASE ~RecalcSplit(q.role, q.dto) /\ ~byHand /\ ~HasAny(q.dto, Payments)
        <3>1. \A f \in {"adminRate", "dispatcherRate"} \cup Payments : item'[f] = item[f]
            BY <1>1, <1>2, <2>3, SplitIsLeftAlone
        <3>2. SplitOf(item') = SplitOf(item)
            BY <3>1 DEF SplitOf
        <3>3. PICK rate \in charged :
                  SplitOf(item) = Split(rate, item["adminRate"], item["dispatcherRate"])
            BY <2>3 DEF IInv, PaymentsAreOneSplit
        <3>4. SplitOf(item') = Split(rate, item'["adminRate"], item'["dispatcherRate"])
            BY <3>1, <3>2, <3>3
        <3> QED
            BY <3>4, <1>3 DEF PaymentsAreOneSplit, SplitOf
    <2> QED
        BY <2>1, <2>2, <2>3
<1> QED
    BY <1>3, <1>4, <1>5 DEF IInv

LEMMA StepInv == IInv /\ [Next]_vars => IInv'
<1> SUFFICES ASSUME IInv, [Next]_vars PROVE IInv'
    OBVIOUS
<1>0. TypeOK'
    BY TypeStep DEF IInv
<1>1. CASE UNCHANGED vars
    BY <1>0, <1>1 DEF vars, IInv, RequestsInOrder, PaymentsAreOneSplit, SplitOf
<1>2. CASE Next
    BY <1>0, <1>2, AskInv, WriteInv, EndInv DEF Next
<1> QED
    BY <1>1, <1>2

\* The invariant of PATCH :id holds in every run of any number of requests.
THEOREM MoneyInductive == Spec => []IInv
BY InitInv, StepInv, PTL DEF Spec

\* Amounts stay integers and requests well formed.
THEOREM MoneyTypeCorrect == Spec => []TypeOK
<1>1. IInv => TypeOK
    BY DEF IInv
<1> QED
    BY <1>1, MoneyInductive, PTL

\* However PATCH requests interleave, the stored payments are one split.
THEOREM SplitsAreWhole == Spec => []PaymentsAreOneSplit
<1>1. IInv => PaymentsAreOneSplit
    BY DEF IInv
<1> QED
    BY <1>1, MoneyInductive, PTL

-----------------------------------------------------------------------------
\* What each recalculation may write.
LEMMA WrittenFields ==
    ASSUME NEW dto, NEW current
    PROVE  /\ DOMAIN SplitWrites(dto, current) = {"adminRate", "dispatcherRate"} \cup Payments
           /\ DOMAIN MileageWrites(dto, current) = {"driverPayment", "mileageTotal", "fuelCost"}
           /\ DOMAIN CarrierWrites(dto, current) \subseteq {"driverPayment", "fuelCost"}
BY DEF SplitWrites, MileageWrites, CarrierWrites, Payments

\* The inputs of every recalculation.
Inputs == {"orderRate", "mileageOrder", "mileageEmpty", "driverRate"} \cup FuelInputs

\* A PATCH leaves an input as the body has it, and alone without it.
LEMMA InputsFromBody ==
    ASSUME NEW it \in Items, NEW caller \in Roles, NEW dto, NEW current, NEW f \in Inputs,
           DOMAIN dto \subseteq AllowedUpdateFields(caller)
    PROVE  Updated(it, caller, dto, current)[f] = Or(dto, f, it[f])
<1> DEFINE sw == SplitWrites(dto, current)
           mw == MileageWrites(dto, current)
           cw == CarrierWrites(dto, current)
           new == Updated(it, caller, dto, current)
<1>1. f \in Fields /\ f \notin DOMAIN sw /\ f \notin DOMAIN mw /\ f \notin DOMAIN cw
    BY WrittenFields DEF Inputs, Fields, Payments, FuelInputs
<1>2. \/ new = Overlay(dto, it)
      \/ caller = "Admin" /\ new = Overlay(sw, it)
      \/ new = Overlay(mw, Overlay(sw, Overlay(dto, it)))
      \/ new = Overlay(cw, Overlay(dto, it))
    BY DEF Updated, Roles
<1>3. caller = "Admin" => ~Has(dto, f)
    BY DEF Has, Inputs, AllowedUpdateFields, FuelInputs
<1> HIDE DEF sw, mw, cw, new
<1>4. new[f] = Or(dto, f, it[f])
    BY <1>1, <1>2, <1>3 DEF Overlay, Or, Has
<1> QED
    BY <1>4 DEF new

\* A slot that a step empties was written or ended by that step.
LEMMA EmptiedByItsStep ==
    ASSUME IInv, Next, NEW r \in Requests, req[r] # Idle, req'[r] = Idle
    PROVE  Write(r) \/ End(r)
<1>1. ASSUME NEW s \in Requests, NEW caller \in Roles, NEW dto \in Sends[caller], Ask(s, caller, dto)
      PROVE  FALSE
    <2>1. s # r
        BY <1>1 DEF Ask
    <2> QED
        BY <1>1, <2>1 DEF Ask, IInv, TypeOK
<1>2. ASSUME NEW s \in Requests, s # r, Write(s) \/ End(s) PROVE FALSE
    BY <1>2 DEF Write, End, IInv, TypeOK
<1> QED
    BY <1>1, <1>2 DEF Next

\* Only the Dispatcher changes the order's rate and distance, and only the
\* Carrier what driver and fuel cost, through any interleaving of PATCHes.
THEOREM InputsKeepTheirRole == Spec => InputsKeepTheirWriter
<1>1. IInv /\ [Next]_vars =>
        [\A r \in Requests :
            (req[r] # Idle /\ req'[r] = Idle) =>
                /\ (\E f \in {"orderRate", "mileageOrder", "mileageEmpty"} : item'[f] # item[f])
                       => req[r].role = "Dispatcher"
                /\ (\E f \in {"driverRate"} \cup FuelInputs : item'[f] # item[f])
                       => req[r].role = "Carrier"]_vars
    <2> SUFFICES ASSUME IInv, Next, NEW r \in Requests, req[r] # Idle, req'[r] = Idle,
                        NEW f \in Inputs, item'[f] # item[f]
                 PROVE  /\ f \in {"orderRate", "mileageOrder", "mileageEmpty"}
                               => req[r].role = "Dispatcher"
                        /\ f \in {"driverRate"} \cup FuelInputs => req[r].role = "Carrier"
        BY DEF Inputs, vars
    <2>1. Write(r)
        BY EmptiedByItsStep DEF End
    <2>2. /\ item \in Items /\ req[r].role \in Roles
          /\ DOMAIN req[r].dto \subseteq AllowedUpdateFields(req[r].role)
        BY DEF IInv, TypeOK, InFlight, RequestsInOrder
    <2>3. item'[f] = Or(req[r].dto, f, item[f])
        BY <2>1, <2>2, InputsFromBody DEF Write
    <2>4. f \in AllowedUpdateFields(req[r].role)
        BY <2>2, <2>3 DEF Or, Has
    <2> QED
        BY <2>2, <2>4 DEF AllowedUpdateFields, Roles, Payments, FuelInputs
<1> QED
    BY <1>1, MoneyInductive, PTL DEF Spec, InputsKeepTheirWriter

-----------------------------------------------------------------------------
\* A recalculation from a copy that is still the order leaves its products
\* fitting the inputs beside them: the Dispatcher's the driver's pay, the
\* distance and the fuel, the Carrier's what it was asked to recalculate.
LEMMA MileageFits ==
    ASSUME NEW it \in Items, NEW dto, DOMAIN dto \subseteq AllowedUpdateFields("Dispatcher"),
           RecalcSplit("Dispatcher", dto)
    PROVE  LET new == Updated(it, "Dispatcher", dto, it)
           IN  DriverFits(new) /\ MilesFit(new) /\ FuelFits(new)
<1> DEFINE new == Updated(it, "Dispatcher", dto, it)
           mw == MileageWrites(dto, it)
           miles == Or(dto, "mileageOrder", it["mileageOrder"])
           total == miles + Or(dto, "mileageEmpty", it["mileageEmpty"])
<1>1. new = Overlay(mw, Overlay(SplitWrites(dto, it), Overlay(dto, it)))
    BY DEF Updated, needsRecalc
<1>2. mw = [driverPayment |-> it["driverRate"] * miles,
            mileageTotal  |-> total,
            fuelCost      |-> total * it["fuelGasAvgGallxMil"] * it["fuelGasAvgCost"]]
    BY DEF MileageWrites
<1>3. \A f \in Inputs : new[f] = Or(dto, f, it[f])
    BY InputsFromBody DEF Roles
<1>4. /\ new["driverRate"] = it["driverRate"]
      /\ new["fuelGasAvgGallxMil"] = it["fuelGasAvgGallxMil"]
      /\ new["fuelGasAvgCost"] = it["fuelGasAvgCost"]
      /\ new["mileageOrder"] = miles
      /\ new["mileageEmpty"] = Or(dto, "mileageEmpty", it["mileageEmpty"])
    <2>1. ~Has(dto, "driverRate") /\ ~Has(dto, "fuelGasAvgGallxMil") /\ ~Has(dto, "fuelGasAvgCost")
        BY DEF Has, AllowedUpdateFields, Payments
    <2> HIDE DEF new
    <2> QED
        BY <1>3, <2>1 DEF Inputs, FuelInputs, Or
<1>5. \A f \in {"driverPayment", "mileageTotal", "fuelCost"} : new[f] = mw[f]
    <2> HIDE DEF new, mw, miles, total
    <2> QED
        BY <1>1, <1>2 DEF Overlay, Or, Has, Fields
<1>6. /\ new["driverPayment"] = it["driverRate"] * miles
      /\ new["mileageTotal"] = total
      /\ new["fuelCost"] = total * it["fuelGasAvgGallxMil"] * it["fuelGasAvgCost"]
    <2> HIDE DEF new, mw, miles, total
    <2> QED
        BY <1>2, <1>5
<1> QED
    <2> HIDE DEF new, mw
    <2>1. DriverFits(new) /\ MilesFit(new) /\ FuelFits(new)
        BY <1>4, <1>6 DEF DriverFits, MilesFit, FuelFits
    <2> QED
        BY <2>1 DEF new

LEMMA CarrierFits ==
    ASSUME NEW it \in Items, NEW dto, DOMAIN dto \subseteq AllowedUpdateFields("Carrier"),
           needsRecalc("Carrier", dto)
    PROVE  LET new == Updated(it, "Carrier", dto, it)
           IN  /\ Has(dto, "driverRate") => DriverFits(new)
               /\ HasAny(dto, FuelInputs) => FuelFits(new)
<1> DEFINE new == Updated(it, "Carrier", dto, it)
           cw == CarrierWrites(dto, it)
           cost == Or(dto, "fuelGasAvgCost", it["fuelGasAvgCost"])
           gal == Or(dto, "fuelGasAvgGallxMil", it["fuelGasAvgGallxMil"])
<1>1. new = Overlay(cw, Overlay(dto, it))
    BY DEF Updated
<1>2. /\ Has(dto, "driverRate") => /\ "driverPayment" \in DOMAIN cw
                                   /\ cw["driverPayment"] = dto["driverRate"] * it["mileageOrder"]
      /\ HasAny(dto, FuelInputs) => /\ "fuelCost" \in DOMAIN cw
                                    /\ cw["fuelCost"] = it["mileageTotal"] * gal * cost
      /\ DOMAIN cw \subseteq {"driverPayment", "fuelCost"}
    BY DEF CarrierWrites
<1>3. \A f \in Inputs : new[f] = Or(dto, f, it[f])
    BY InputsFromBody DEF Roles
<1>4. ~Has(dto, "mileageOrder") /\ ~Has(dto, "mileageTotal")
    BY DEF Has, AllowedUpdateFields, FuelInputs
<1> HIDE DEF cw, new
<1>5. /\ new["mileageOrder"] = it["mileageOrder"]
      /\ new["fuelGasAvgCost"] = cost
      /\ new["fuelGasAvgGallxMil"] = gal
      /\ Has(dto, "driverRate") => new["driverRate"] = dto["driverRate"]
    BY <1>3, <1>4 DEF Inputs, FuelInputs, Or
<1>6. new["mileageTotal"] = it["mileageTotal"]
    BY <1>1, <1>2, <1>4 DEF Overlay, Or, Has, Fields
<1>7. /\ Has(dto, "driverRate") => new["driverPayment"] = dto["driverRate"] * it["mileageOrder"]
      /\ HasAny(dto, FuelInputs) => new["fuelCost"] = it["mileageTotal"] * gal * cost
    <2> HIDE DEF cost, gal
    <2> QED
        BY <1>1, <1>2 DEF Overlay, Or, Has, Fields
<1>8. /\ Has(dto, "driverRate") => DriverFits(new)
      /\ HasAny(dto, FuelInputs) => FuelFits(new)
    <2> HIDE DEF cost, gal
    <2> QED
        BY <1>5, <1>6, <1>7 DEF DriverFits, FuelFits
<1> QED
    BY <1>8 DEF new

LEMMA SplitFitsAfter ==
    ASSUME NEW it \in Items, NEW caller \in Roles, NEW dto, RecalcSplit(caller, dto),
           DOMAIN dto \subseteq AllowedUpdateFields(caller)
    PROVE  SplitFits(Updated(it, caller, dto, it))
<1> DEFINE new == Updated(it, caller, dto, it)
<1>1. SplitOf(new) = Split(Or(dto, "orderRate", it["orderRate"]),
                           new["adminRate"], new["dispatcherRate"])
    BY SplitIsWrittenWhole
<1>2. new["orderRate"] = Or(dto, "orderRate", it["orderRate"])
    BY InputsFromBody DEF Inputs
<1> HIDE DEF new
<1>3. SplitFits(new)
    BY <1>1, <1>2 DEF SplitFits
<1> QED
    BY <1>3 DEF new

\* A request that no other write came between repairs what its role
\* recalculates, whatever earlier races or writes by hand left there.
THEOREM RecalcRepairs == Spec => UndisturbedRecalcRepairs
<1>1. ASSUME IInv, Next, NEW r \in Requests, req[r] # Idle, req'[r] = Idle,
             item' # item, req[r].current = item
      PROVE  LET caller == req[r].role
                 dto == req[r].dto
             IN  /\ caller \in {"Admin", "Dispatcher"} => SplitFits(item')
                 /\ caller = "Dispatcher" => DriverFits(item') /\ MilesFit(item') /\ FuelFits(item')
                 /\ (caller = "Carrier" /\ Has(dto, "driverRate")) => DriverFits(item')
                 /\ (caller = "Carrier" /\ HasAny(dto, FuelInputs)) => FuelFits(item')
    <2> DEFINE caller == req[r].role
               dto == req[r].dto
    <2>1. Write(r)
        BY <1>1, EmptiedByItsStep DEF End
    <2>2. item \in Items /\ caller \in Roles
        BY <1>1 DEF IInv, TypeOK, InFlight
    <2>3. DOMAIN dto \subseteq AllowedUpdateFields(caller) /\ needsRecalc(caller, dto)
        BY <1>1, <2>2, UnreadAssumption DEF IInv, RequestsInOrder
    <2>4. item' = Updated(item, caller, dto, item)
        BY <1>1, <2>1 DEF Write
    <2> HIDE DEF caller, dto
    <2>5. caller \in {"Admin", "Dispatcher"} => RecalcSplit(caller, dto)
        BY <2>3 DEF needsRecalc
    <2>6. caller \in {"Admin", "Dispatcher"} => SplitFits(item')
        BY <2>2, <2>3, <2>4, <2>5, SplitFitsAfter
    <2>7. caller = "Dispatcher" => DriverFits(item') /\ MilesFit(item') /\ FuelFits(item')
        BY <2>2, <2>3, <2>4, <2>5, MileageFits
    <2>8. caller = "Carrier" =>
            /\ Has(dto, "driverRate") => DriverFits(item')
            /\ HasAny(dto, FuelInputs) => FuelFits(item')
        BY <2>2, <2>3, <2>4, CarrierFits
    <2> QED
        BY <2>6, <2>7, <2>8 DEF caller, dto
<1>2. IInv /\ [Next]_vars =>
        [\A r \in Requests :
            (req[r] # Idle /\ req'[r] = Idle /\ item' # item /\ req[r].current = item) =>
                LET caller == req[r].role
                    dto == req[r].dto
                IN  /\ caller \in {"Admin", "Dispatcher"} => SplitFits(item')
                    /\ caller = "Dispatcher" => DriverFits(item') /\ MilesFit(item') /\ FuelFits(item')
                    /\ (caller = "Carrier" /\ Has(dto, "driverRate")) => DriverFits(item')
                    /\ (caller = "Carrier" /\ HasAny(dto, FuelInputs)) => FuelFits(item')]_vars
    BY <1>1 DEF vars
<1> QED
    BY <1>2, MoneyInductive, PTL DEF Spec, UndisturbedRecalcRepairs

-----------------------------------------------------------------------------

\* Types, with what the debounce and the requests hold.
TableTypes ==
    /\ role \in TableRoles /\ user \in Users
    /\ filters \in Filters /\ pag \in Pagination
    /\ card \in Dates /\ shared \in Whos /\ form \in Whos
    /\ paginator \in [page: Pages, size: Sizes]
    /\ pending \in Emissions \cup {None} /\ last \in Emissions \cup {None}
    /\ request \in Fetches \cup {None} /\ asked \in Asked \cup {None}
    /\ shown \in Rows \cup {None} /\ cache \in Cached \cup {None}
    /\ mounted \in BOOLEAN /\ dead \in BOOLEAN /\ loading \in BOOLEAN /\ error \in BOOLEAN
    /\ lost \in BOOLEAN /\ hasty \in BOOLEAN /\ raced \in BOOLEAN /\ mixed \in BOOLEAN
    /\ crossed \in BOOLEAN
    /\ ops \in 0..MaxOps /\ data \in 0..ops

\* What exists with what.  An emission has the filters, the page and the size
\* of the subjects, and the tokens of when it was made; a request is that of
\* the last emission; and once nothing is pending the last emission is current.
StreamInv ==
    /\ pending # None => /\ mounted /\ ~dead
                         /\ pending.filters = filters
                         /\ pending.pag.page = pag.page /\ pending.pag.size = pag.size
    /\ request # None => /\ mounted /\ ~dead /\ last # None
                         /\ request.pag = last.pag /\ request.filters = last.filters
    /\ shown # None => last # None
    /\ last # None => mounted
    /\ dead => mounted /\ ~T.catches
    /\ error => ~mounted
    /\ mounted /\ ~dead /\ pending = None =>
        /\ last # None /\ last.filters = filters
        /\ last.pag.page = pag.page /\ last.pag.size = pag.size

\* A view that is there has the place of the table; one that is gone has left
\* the request of a payments view.
ViewInv ==
    asked # None =>
        /\ asked.pag.page = 0 /\ role # "driver"
        /\ asked.outlives => role \in PaymentsOutlive
        /\ ~asked.outlives => ~mounted /\ ~error /\ asked.user = user

\* None of the three things that RightPage leaves out has happened.
Clean == ~lost /\ ~hasty /\ ~mixed

\* k is the token of the rows after page p.
IsToken(k, f, size, p) == k = [filters |-> f, pos |-> (p + 1) * size]

\* The pagination has the token of every page before its own.
Reaches(f, p) == \A q \in Pages : q < p.page => IsToken(p.tokens[q], f, p.size, q)

\* The rows of a page of the filters, with their token if they have one.
IsPage(r, f, page, size) ==
    /\ r.filters = f /\ r.of = f /\ r.pos = page * size
    /\ r.n <= size /\ (r.more => r.n = size)
    /\ r.key # None => IsToken(r.key, f, size, page)

\* The last emission has been answered.
Standing == last # None /\ request = None /\ shown # None /\ ~dead

\* Every page that is asked for can be, wherever the pagination stands.
ReachInv ==
    Clean => /\ Reaches(filters, pag)
             /\ pending # None => Reaches(pending.filters, pending.pag)
             /\ last # None => Reaches(last.filters, last.pag)

\* A request is overtaken by an emission of page 0 only.
OvertakeInv == ~hasty /\ pending # None /\ request # None => pag.page = 0

\* The rows are those of the last emission, and the total promises one page more
\* at most.
ShownInv ==
    Standing /\ Clean =>
        /\ IsPage(shown, last.filters, last.pag.page, last.pag.size)
        /\ shown.total <= last.pag.page * last.pag.size + shown.n + (IF shown.more THEN 1 ELSE 0)

\* If there are more rows, their token is there; while an emission is pending it
\* may have been emptied.
TokenInv ==
    /\ Standing /\ Clean /\ shown.more
    /\ last.filters = filters /\ last.pag.page = pag.page /\ last.pag.size = pag.size
    /\ pending = None \/ pag.tokens[pag.page] # None
    => IsToken(pag.tokens[pag.page], filters, pag.size, pag.page)

\* The cached rows are those of their key: of page 0 always, of another page
\* while the pagination is not on page 0 and never was by mistake.
CacheInv ==
    /\ cache # None /\ ~mixed
    /\ cache.at[2] = 0 \/ (Clean /\ pag.page # 0)
    => /\ IsPage(cache.rows, cache.at[1], cache.at[2], cache.at[3])
       /\ T.cachesKey /\ cache.rows.more => cache.rows.key # None

\* The cache holds what is shown, or a page 0 that a view has cached.
PlaceInv == Standing /\ cache # None => cache.at = Key(last) \/ cache.at[2] = 0

\* Rows that are shown from the cache find their next token in the pagination.
BesideInv ==
    /\ /\ Clean /\ cache # None /\ pag.page # 0 /\ cache.rows.more
       /\ cache.at = <<filters, pag.page, pag.size>>
       => IsToken(pag.tokens[pag.page], filters, pag.size, pag.page)
    /\ /\ cache # None /\ cache.rows.more /\ cache.rows.key = None
       /\ ~mixed /\ cache.at = <<filters, 0, pag.size>> /\ pag.tokens[0] # None
       => IsToken(pag.tokens[0], filters, pag.size, 0)

\* The first row of the paginator's page is on page e.page.
OnPage(pg, e) ==
    /\ e.page * e.size <= pg.page * pg.size
    /\ pg.page * pg.size < (e.page + 1) * e.size

\* The paginator is on the page that is shown; while an emission is pending it
\* may be on another, but if the emission should be dropped then the tokens are
\* known to be lost.
PaginatorInv ==
    last # None /\ ~dead /\ Clean =>
        \/ OnPage(paginator, last.pag)
        \/ /\ pending # None
           /\ \/ last.pag.page # 0
              \/ /\ request = None /\ shown # None /\ shown.more
                 /\ pag.page = 0 => pag.tokens[0] = None
           /\ pag.page = last.pag.page /\ pag.size = last.pag.size => last.pag.page = 0

PageInv ==
    /\ ReachInv /\ OvertakeInv /\ ShownInv /\ TokenInv
    /\ CacheInv /\ PlaceInv /\ BesideInv /\ PaginatorInv

\* The user's rows, in the table, the cache, and on their way.
OwnInv ==
    /\ request # None => request.user = user
    /\ asked # None /\ ~crossed => asked.user = user
    /\ role # "carrier" /\ ~crossed =>
        /\ shown # None => shown.user = user
        /\ cache # None => cache.rows.user = user

\* Rows that have seen the last change.
FreshInv ==
    ~raced /\ role # "driver" =>
        /\ request # None => request.ver = data
        /\ asked # None => asked.ver = data
        /\ shown # None => shown.ver = data
        /\ cache # None => cache.rows.ver = data

\* The admin's overlay is on for a load.
LoadInv ==
    role = "admin" /\ loading =>
        cache = None /\ (mounted => pending # None \/ request # None)

\* A filter service that keeps no copy of the filters knows of none.
CopyInv == ~Form[role].copies => shared = Any

TableInv ==
    /\ TableTypes /\ StreamInv /\ ViewInv /\ PageInv
    /\ OwnInv /\ FreshInv /\ LoadInv /\ CopyInv

-----------------------------------------------------------------------------

\* What the four variants have in common, and what the proofs need of one.
LEMMA Variants ==
    ASSUME role \in TableRoles
    PROVE  /\ role \in {"dispatcher", "admin", "carrier", "driver"}
           /\ S.same \in {"all", "page", "nothing"}
           /\ S.overlay \in BOOLEAN /\ C.drops \in BOOLEAN /\ T.catches \in BOOLEAN
           /\ T.cachesKey \in BOOLEAN /\ Form[role].copies \in BOOLEAN
           /\ T.tokensOf \in {"request", "current"}
           /\ ~T.cachesKey => T.tokensOf = "request"
           /\ role # "carrier" => C.drops
           /\ S.overlay => role \in {"dispatcher", "admin"}
           /\ role = "admin" => S.overlay /\ T.catches /\ S.same = "nothing"
           /\ role \in {"carrier", "driver"} => ~T.catches
           /\ Form[role].copies <=> role = "dispatcher"
           /\ Form[role].clears => role = "carrier"
<1>1. role \in {"dispatcher", "admin", "carrier", "driver"}
  BY RolesAssumption
<1>2. CASE role = "dispatcher"
  BY <1>2 DEF S, C, T, State, Cache, Table, Form, DispatcherState, DispatcherCache,
              DispatcherTable, DispatcherForm
<1>3. CASE role = "admin"
  BY <1>3 DEF S, C, T, State, Cache, Table, Form, AdminState, AdminCache,
              AdminTable, AdminForm
<1>4. CASE role = "carrier"
  BY <1>4 DEF S, C, T, State, Cache, Table, Form, CarrierState, CarrierCache,
              CarrierTable, CarrierForm
<1>5. CASE role = "driver"
  BY <1>5 DEF S, C, T, State, Cache, Table, Form, DriverState, DriverCache,
              DriverTable, DriverForm
<1>6. QED
  BY <1>1, <1>2, <1>3, <1>4, <1>5

\* A user keeps the role, and the variant with it.
LEMMA VariantStays ==
    ASSUME role' = role
    PROVE  S' = S /\ C' = C /\ T' = T /\ Form[role'] = Form[role]
BY DEF S, C, T

\* The first page of a size has no tokens.
LEMMA FirstPageType ==
    ASSUME NEW s \in Sizes
    PROVE  /\ FirstPage(s) \in Pagination /\ FirstPage(s).page = 0 /\ FirstPage(s).size = s
           /\ \A q \in Pages : FirstPage(s).tokens[q] = None
           /\ 0 \in Pages
BY BoundAssumption DEF FirstPage, Pagination, NoTokens, Pages

\* Values that are there are not None.
LEMMA Present ==
    /\ \A x \in Tokens : x # None
    /\ \A x \in Emissions : x # None
    /\ \A x \in Fetches : x # None
    /\ \A x \in Asked : x # None
    /\ \A x \in Rows : x # None
    /\ \A x \in Cached : x # None
BY NoneAssumption

\* An emission has the filters and the pagination.
LEMMA EmissionType ==
    ASSUME NEW f \in Filters, NEW p \in Pagination
    PROVE  /\ Emission(f, p) \in Emissions /\ Emission(f, p) # None
           /\ Emission(f, p).filters = f /\ Emission(f, p).pag = p
BY Present DEF Emission, Emissions

\* What subjects with new values leave.
LEMMA EmitType ==
    ASSUME NEW f \in Filters, NEW p \in Pagination, Emit(f, p)
    PROVE  /\ filters' = f /\ pag' = p
           /\ filters' \in Filters /\ pag' \in Pagination
           /\ pending' \in Emissions \cup {None}
           /\ mounted /\ ~dead => pending' = Emission(f, p) /\ pending' # None
           /\ ~(mounted /\ ~dead) => pending' = None
<1> USE EmissionType DEF Emit
<1>1. CASE mounted /\ ~dead
  BY <1>1
<1>2. CASE ~(mounted /\ ~dead)
  BY <1>2
<1>3. QED
  BY <1>1, <1>2

\* The token of a request.
LEMMA TokenForType ==
    ASSUME NEW e, e.pag \in Pagination
    PROVE  TokenFor(e) \in Tokens \cup {None}
<1>1. CASE e.pag.page = 0
  BY <1>1 DEF TokenFor
<1>2. CASE e.pag.page # 0
  <2>1. e.pag.page \in Pages /\ e.pag.page - 1 \in Pages
    BY <1>2, BoundAssumption DEF Pagination, Pages
  <2>2. e.pag.tokens[e.pag.page - 1] \in Tokens \cup {None}
    BY <2>1 DEF Pagination
  <2>3. QED
    BY <1>2, <2>2 DEF TokenFor
<1>3. QED
  BY <1>1, <1>2

\* The smaller of two numbers.
LEMMA SmallerType ==
    ASSUME NEW a \in Nat, NEW b \in Nat
    PROVE  /\ SmallerOf(a, b) \in Nat /\ SmallerOf(a, b) <= a /\ SmallerOf(a, b) <= b
           /\ SmallerOf(a, b) = a \/ SmallerOf(a, b) = b
BY DEF SmallerOf

\* What an answer is made of: from position pos, n rows, and the token of those
\* after them if there are any.
LEMMA AnswerIs ==
    ASSUME NEW r, NEW v \in 0..MaxOps,
           r.filters \in Filters, r.pag \in Pagination, r.user \in Users
    PROVE  /\ Answer(r, v) \in Rows
           /\ Answer(r, v).user = r.user /\ Answer(r, v).filters = r.filters
           /\ Answer(r, v).ver = v /\ Answer(r, v).total = 0
           /\ Answer(r, v).pos = (IF TokenFor(r) = None THEN 0 ELSE TokenFor(r).pos)
           /\ Answer(r, v).of = (IF TokenFor(r) = None THEN r.filters ELSE TokenFor(r).filters)
           /\ Answer(r, v).n <= r.pag.size
           /\ Answer(r, v).more => Answer(r, v).n = r.pag.size
           /\ Answer(r, v).more <=> Answer(r, v).key # None
           /\ Answer(r, v).more =>
                Answer(r, v).key = [filters |-> r.filters,
                                    pos |-> Answer(r, v).pos + Answer(r, v).n]
<1> DEFINE tok == TokenFor(r)
           pos == IF tok = None THEN 0 ELSE tok.pos
           all == Count[r.filters]
           n == SmallerOf(r.pag.size, IF pos < all THEN all - pos ELSE 0)
           key == IF pos + n < all THEN [filters |-> r.filters, pos |-> pos + n] ELSE None
           of == IF tok = None THEN r.filters ELSE tok.filters
<1>1. tok \in Tokens \cup {None}
  BY TokenForType
<1>2. pos \in Nat /\ of \in Filters
  BY <1>1 DEF Tokens
<1>3. all \in Nat /\ r.pag.size \in Nat
  BY SizeAssumption, CountAssumption DEF Pagination
<1>4. n \in Nat /\ n <= r.pag.size /\ (pos + n < all => n = r.pag.size)
  <2> HIDE DEF pos, all
  <2>1. CASE pos < all
    <3>1. all - pos \in Nat /\ n = SmallerOf(r.pag.size, all - pos)
      BY <2>1, <1>2, <1>3
    <3>2. n \in Nat /\ n <= r.pag.size /\ (n = r.pag.size \/ n = all - pos)
      BY <3>1, <1>3, SmallerType
    <3>3. QED
      BY <3>2, <1>2, <1>3
  <2>2. CASE ~(pos < all)
    <3>1. n = SmallerOf(r.pag.size, 0)
      BY <2>2
    <3>2. n = 0
      BY <3>1, <1>3 DEF SmallerOf
    <3>3. QED
      BY <3>2, <2>2, <1>2, <1>3
  <2>3. QED
    BY <2>1, <2>2
<1>5. PICK m : m = (pos + n < all)
  OBVIOUS
<1>6. m \in BOOLEAN /\ (m <=> pos + n < all)
  <2>1. m \in BOOLEAN
    BY <1>5
  <2>2. m <=> pos + n < all
    BY <1>5, Zenon
  <2>3. QED
    BY <2>1, <2>2
<1>7. key \in Tokens \cup {None} /\ (m <=> key # None)
      /\ (m => key = [filters |-> r.filters, pos |-> pos + n])
  <2>1. [filters |-> r.filters, pos |-> pos + n] \in Tokens
    BY <1>2, <1>4 DEF Tokens
  <2>2. [filters |-> r.filters, pos |-> pos + n] # None
    BY <2>1, Present
  <2>3. QED
    BY <2>1, <2>2, <1>6
<1>8. Answer(r, v) = [user |-> r.user, filters |-> r.filters, pos |-> pos, n |-> n,
                      more |-> m, total |-> 0, of |-> of, ver |-> v, key |-> key]
  BY <1>5, Zenon DEF Answer
<1> HIDE DEF tok, pos, all, n, key, of
<1>9. Answer(r, v) \in Rows
  BY <1>2, <1>4, <1>6, <1>7, <1>8 DEF Rows
<1>10. /\ Answer(r, v).pos = pos /\ Answer(r, v).n = n /\ Answer(r, v).of = of
       /\ Answer(r, v).key = key /\ Answer(r, v).ver = v /\ Answer(r, v).total = 0
       /\ Answer(r, v).user = r.user /\ Answer(r, v).filters = r.filters
  BY <1>8
<1>11. Answer(r, v).more = m
  BY <1>8
<1>12. /\ Answer(r, v).n <= r.pag.size
       /\ Answer(r, v).more => Answer(r, v).n = r.pag.size
       /\ Answer(r, v).more <=> Answer(r, v).key # None
       /\ Answer(r, v).more =>
            Answer(r, v).key = [filters |-> r.filters,
                                pos |-> Answer(r, v).pos + Answer(r, v).n]
  BY <1>4, <1>6, <1>7, <1>10, <1>11
<1>13. /\ Answer(r, v).pos = (IF TokenFor(r) = None THEN 0 ELSE TokenFor(r).pos)
       /\ Answer(r, v).of = (IF TokenFor(r) = None THEN r.filters ELSE TokenFor(r).filters)
  BY <1>10 DEF tok, pos, of
<1>14. QED
  BY <1>9, <1>10, <1>12, <1>13

\* A page is numbered from 0 and has a size.
LEMMA PageType ==
    ASSUME NEW p \in Pagination
    PROVE  /\ p.page \in Pages /\ p.page \in Nat /\ p.page <= LastPage
           /\ p.size \in Sizes /\ p.size \in Nat /\ p.size > 0
<1>1. p.page \in Pages /\ p.size \in Sizes
  BY DEF Pagination
<1>2. p.page \in Nat /\ p.page <= LastPage
  BY <1>1, BoundAssumption DEF Pages
<1>3. p.size \in Nat /\ p.size > 0
  <2>1. \A s \in Nat \ {0} : s \in Nat /\ s > 0
    OBVIOUS
  <2>2. QED
    BY <1>1, <2>1, SizeAssumption
<1>4. QED
  BY <1>1, <1>2, <1>3

\* So has the paginator.
LEMMA PaginatorType ==
    ASSUME NEW p \in [page: Pages, size: Sizes]
    PROVE  /\ p.page \in Pages /\ p.page \in Nat /\ p.size \in Sizes
           /\ p.size \in Nat /\ p.size > 0
<1>1. p.page \in Pages /\ p.size \in Sizes
  OBVIOUS
<1>2. p.page \in Nat
  BY <1>1, BoundAssumption DEF Pages
<1>3. p.size \in Nat /\ p.size > 0
  <2>1. \A s \in Nat \ {0} : s \in Nat /\ s > 0
    OBVIOUS
  <2>2. QED
    BY <1>1, <2>1, SizeAssumption
<1>4. QED
  BY <1>1, <1>2, <1>3

\* The table changes nothing of the rows but their total.
LEMMA CountedIs ==
    ASSUME NEW r \in Rows, NEW p \in Pagination
    PROVE  /\ Counted(r, p) \in Rows
           /\ Counted(r, p) = [r EXCEPT !.total = Counted(r, p).total]
           /\ Counted(r, p).total <= p.page * p.size + r.n + (IF r.more THEN 1 ELSE 0)
<1> DEFINE full == r.more /\ (T.tokensOf = "current" => r.n >= p.size)
           total == p.page * p.size + r.n + (IF full THEN 1 ELSE 0)
<1>1. p.page \in Nat /\ p.size \in Nat /\ r.n \in Nat /\ r.more \in BOOLEAN
  <2>1. r.n \in Nat /\ r.more \in BOOLEAN
    BY DEF Rows
  <2>2. QED
    BY <2>1, PageType
<1>2. p.page * p.size \in Nat
  BY <1>1
<1>3. total \in Nat /\ total <= p.page * p.size + r.n + (IF r.more THEN 1 ELSE 0)
  BY <1>1, <1>2
<1>4. Counted(r, p) = [r EXCEPT !.total = total]
  BY DEF Counted
<1> HIDE DEF full, total
<1>5. QED
  BY <1>3, <1>4 DEF Rows

-----------------------------------------------------------------------------

\* The user's steps are counted.
LEMMA DoesType ==
    ASSUME ops \in 0..MaxOps, data \in 0..ops, Does
    PROVE  /\ ops' \in 0..MaxOps /\ ops' = ops + 1
           /\ data \in 0..ops' /\ data + 1 \in 0..ops' /\ data + 1 \in 0..MaxOps
BY BoundAssumption DEF Does

\* New filters: page 0, whatever was pending gone, and no rows in the cache that
\* were not there.
Refilters(f, s) ==
    /\ Emit(f, FirstPage(s))
    /\ cache' = None \/ cache' = cache
    /\ UNCHANGED <<role, paginator, last, request, shown, mounted, dead, lost, hasty, mixed>>

\* updateFilters is one such step.
LEMMA UpdateFiltersIs ==
    ASSUME TableTypes, NEW f \in Filters, UpdateFilters(f)
    PROVE  \E s \in Sizes :
             /\ Emit(f, FirstPage(s))
             /\ cache' = None \/ cache' = cache
             /\ C.drops => cache' = None
             /\ loading' \in BOOLEAN /\ error' \in BOOLEAN
             /\ loading' = (loading \/ S.overlay)
             /\ ~error => ~error'
<1> DEFINE s == IF S.size = "kept" THEN pag.size ELSE DefaultSize
<1>1. s \in Sizes
  BY SizeAssumption DEF TableTypes, Pagination
<1>2. Emit(f, FirstPage(s)) /\ cache' = (IF C.drops THEN None ELSE cache) /\ StartLoad
  BY DEF UpdateFilters
<1>3. /\ loading' \in BOOLEAN /\ error' \in BOOLEAN
      /\ loading' = (loading \/ S.overlay) /\ (~error => ~error')
  BY <1>2 DEF StartLoad
<1> HIDE DEF s
<1>4. QED
  BY <1>1, <1>2, <1>3

\* What a step with new filters does to the types.
LEMMA RefilterTypes ==
    ASSUME TableTypes, NEW f \in Filters, NEW s \in Sizes, Refilters(f, s)
    PROVE  /\ role' \in TableRoles
           /\ filters' \in Filters /\ pag' \in Pagination
           /\ paginator' \in [page: Pages, size: Sizes]
           /\ pending' \in Emissions \cup {None} /\ last' \in Emissions \cup {None}
           /\ request' \in Fetches \cup {None}
           /\ shown' \in Rows \cup {None} /\ cache' \in Cached \cup {None}
           /\ mounted' \in BOOLEAN /\ dead' \in BOOLEAN
           /\ lost' \in BOOLEAN /\ hasty' \in BOOLEAN /\ mixed' \in BOOLEAN
<1>1. filters' \in Filters /\ pag' \in Pagination /\ pending' \in Emissions \cup {None}
  BY FirstPageType, EmitType DEF Refilters
<1>2. QED
  BY <1>1 DEF Refilters, TableTypes

\* The date card is such a step.
LEMMA SetDatesIs ==
    ASSUME TableTypes, NEW d \in Dates, SetDates(d)
    PROVE  /\ \E f \in Filters, s \in Sizes :
                /\ Refilters(f, s)
                /\ f.dates = d
                /\ role \in {"dispatcher", "admin"} => f.who = shared
                /\ role \in {"carrier", "driver"} => f.who = filters.who
           /\ Does /\ ~error /\ card' = d
           /\ C.drops => cache' = None
           /\ loading' \in BOOLEAN /\ loading' = (loading \/ S.overlay) /\ ~error'
           /\ error' \in BOOLEAN
           /\ UNCHANGED <<view, user, shared, form, data, raced>>
<1>1. PICK f \in Filters : /\ UpdateFilters(f) /\ f.dates = d
                           /\ role \in {"dispatcher", "admin"} => f.who = shared
                           /\ role \in {"carrier", "driver"} => f.who = filters.who
  <2>1. CASE role = "dispatcher" /\ UpdateFilters(DispatcherDates(d))
    BY <2>1 DEF DispatcherDates, TableTypes, Filters
  <2>2. CASE role = "admin" /\ UpdateFilters(AdminDates(d))
    BY <2>2 DEF AdminDates, TableTypes, Filters
  <2>3. CASE role = "carrier" /\ UpdateFilters(CarrierDates(d))
    BY <2>3 DEF CarrierDates, TableTypes, Filters
  <2>4. CASE role = "driver" /\ UpdateFilters(DriverDates(d))
    BY <2>4 DEF DriverDates, TableTypes, Filters
  <2>5. QED
    BY <2>1, <2>2, <2>3, <2>4 DEF SetDates
<1>2. PICK s \in Sizes :
        /\ Emit(f, FirstPage(s))
        /\ cache' = None \/ cache' = cache
        /\ C.drops => cache' = None
        /\ loading' \in BOOLEAN /\ error' \in BOOLEAN
        /\ loading' = (loading \/ S.overlay)
        /\ ~error => ~error'
  BY <1>1, UpdateFiltersIs
<1>3. Refilters(f, s)
  BY <1>2 DEF Refilters, SetDates, history, view
<1>4. /\ Does /\ ~error /\ card' = d
      /\ UNCHANGED <<view, user, shared, form, data, raced>>
  BY DEF SetDates, history
<1>5. QED
  BY <1>1, <1>2, <1>3, <1>4

\* The form is such a step, or changes nothing but itself.
LEMMA SetWhoIs ==
    ASSUME TableTypes, NEW w \in Whos, SetWho(w)
    PROVE  /\ Does /\ Clickable /\ form' = w
           /\ UNCHANGED <<role, view, user, card, paginator, last, request, shown, mounted, dead,
                          data, history>>
           /\ \/ /\ Form[role].copies /\ w = shared /\ shared' = shared
                 /\ UNCHANGED <<filters, pag, pending, cache, loading, error>>
              \/ /\ \E f \in Filters, s \in Sizes :
                      /\ Refilters(f, s)
                      /\ f.who = w
                      /\ Form[role].copies => f.dates = card
                      /\ ~Form[role].copies => f.dates = filters.dates
                 /\ Form[role].copies => shared' = w
                 /\ ~Form[role].copies => shared' = shared
                 /\ C.drops => cache' = None
                 /\ loading' \in BOOLEAN /\ loading' = (loading \/ S.overlay)
                 /\ error' \in BOOLEAN /\ (~error => ~error')
<1>1. /\ Does /\ Clickable /\ form' = w
      /\ UNCHANGED <<role, view, user, card, paginator, last, request, shown, mounted, dead,
                     data, history>>
  BY DEF SetWho
<1>2. CASE Form[role].copies /\ w = shared
  <2>1. shared' = w /\ UNCHANGED <<filters, pag, pending, cache, loading, error>>
    BY <1>2 DEF SetWho
  <2>2. QED
    BY <1>1, <1>2, <2>1
<1>3. CASE ~(Form[role].copies /\ w = shared)
  <2>1. PICK f \in Filters :
          /\ UpdateFilters(f) /\ f.who = w
          /\ Form[role].copies => f.dates = card /\ shared' = w
          /\ ~Form[role].copies => f.dates = filters.dates /\ shared' = shared
    <3>1. CASE Form[role].copies
      <4>1. UpdateFilters([dates |-> card, who |-> w]) /\ shared' = w
        BY <1>3, <3>1 DEF SetWho
      <4>2. [dates |-> card, who |-> w] \in Filters
        BY DEF TableTypes, Filters
      <4>3. QED
        BY <3>1, <4>1, <4>2
    <3>2. CASE ~Form[role].copies
      <4>1. UpdateFilters([filters EXCEPT !.who = w]) /\ shared' = shared
        BY <3>2 DEF SetWho
      <4>2. [filters EXCEPT !.who = w] \in Filters
            /\ [filters EXCEPT !.who = w].dates = filters.dates
            /\ [filters EXCEPT !.who = w].who = w
        BY DEF TableTypes, Filters
      <4>3. QED
        BY <3>2, <4>1, <4>2
    <3>3. QED
      BY <3>1, <3>2
  <2>2. PICK s \in Sizes :
          /\ Emit(f, FirstPage(s))
          /\ cache' = None \/ cache' = cache
          /\ C.drops => cache' = None
          /\ loading' \in BOOLEAN /\ error' \in BOOLEAN
          /\ loading' = (loading \/ S.overlay)
          /\ ~error => ~error'
    BY <2>1, UpdateFiltersIs
  <2>3. Refilters(f, s)
    BY <2>2, <1>1 DEF Refilters, history, view
  <2>4. QED
    BY <1>1, <2>1, <2>2, <2>3
<1>4. QED
  BY <1>2, <1>3

\* clearAllFilters is such a step.
LEMMA CarrierClearIs ==
    ASSUME TableTypes, CarrierClear
    PROVE  /\ \E f \in Filters, s \in Sizes : Refilters(f, s)
           /\ Does /\ Clickable /\ Form[role].clears /\ form' = Any
           /\ UNCHANGED <<view, user, card, shared, cache, loading, error, data, raced>>
<1>1. Emit([dates |-> Week, who |-> Any], FirstPage(DefaultSize))
  BY DEF CarrierClear
<1>2. [dates |-> Week, who |-> Any] \in Filters /\ DefaultSize \in Sizes
  BY DateAssumption, SizeAssumption DEF Filters
<1>3. Refilters([dates |-> Week, who |-> Any], DefaultSize)
  BY <1>1 DEF CarrierClear, Refilters, history, view
<1>4. QED
  BY <1>2, <1>3 DEF CarrierClear, history

\* A driver's update is such a step.
LEMMA UpdateStatusIs ==
    ASSUME TableTypes, UpdateStatus
    PROVE  /\ \E s \in Sizes : Refilters(filters, s)
           /\ Does /\ role = "driver" /\ cache' = None /\ data' = data + 1
           /\ raced' = (request # None)
           /\ UNCHANGED <<view, user, card, shared, form, loading, error>>
<1>1. pag.size \in Sizes
  BY DEF TableTypes, Pagination
<1>2. Refilters(filters, pag.size)
  BY DEF UpdateStatus, Refilters, history, ui, view
<1>3. QED
  BY <1>1, <1>2 DEF UpdateStatus, ui

-----------------------------------------------------------------------------

\* A size over another: what the paginator makes of its page.
LEMMA DivisionType ==
    ASSUME NEW x \in Nat, NEW s \in Nat, s > 0
    PROVE  x \div s \in Nat /\ s * (x \div s) <= x
OBVIOUS

\* The page that the paginator goes to with another size.
PageOfSize(s) == SmallerOf((paginator.page * paginator.size) \div s, LastPage)

\* It is a page, and no row of it comes after the first row of the old one.
LEMMA PageOfSizeType ==
    ASSUME TableTypes, NEW s \in Sizes
    PROVE  /\ PageOfSize(s) \in Pages
           /\ PageOfSize(s) * s <= paginator.page * paginator.size
<1> DEFINE x == paginator.page * paginator.size
<1>1. x \in Nat
  <2>1. paginator.page \in Nat /\ paginator.size \in Nat
    BY PaginatorType DEF TableTypes
  <2>2. QED
    BY <2>1
<1>2. s \in Nat /\ s > 0
  BY SizeAssumption
<1> HIDE DEF x
<1>3. x \div s \in Nat /\ s * (x \div s) <= x
  BY <1>1, <1>2, DivisionType
<1> DEFINE d == x \div s
<1>4. d \in Nat /\ s * d <= x
  BY <1>3
<1> HIDE DEF d
<1>5. PICK p : p = SmallerOf(d, LastPage)
  OBVIOUS
<1>6. p \in Nat /\ p <= d /\ p <= LastPage
  BY <1>4, <1>5, SmallerType, BoundAssumption
<1>7. p * s <= d * s
  BY <1>2, <1>4, <1>6
<1>8. d * s = s * d /\ p * s \in Nat /\ d * s \in Nat
  BY <1>2, <1>4, <1>6
<1>9. p \in Pages /\ p * s <= x
  BY <1>1, <1>4, <1>6, <1>7, <1>8, BoundAssumption DEF Pages
<1>10. PageOfSize(s) = p
  BY <1>5 DEF PageOfSize, d, x
<1>11. QED
  BY <1>9, <1>10 DEF x

\* The paginator goes to page p of size s: another size starts from page 0, and
\* a click while other rows were on their way is hasty.
Turns(p, s) ==
    /\ shown # None
    /\ paginator' = [page |-> p, size |-> s]
    /\ Emit(filters, pag')
    /\ s # pag.size => pag' = FirstPage(s)
    /\ s = pag.size => pag' = [pag EXCEPT !.page = p]
    /\ hasty' = (hasty \/ ~Settled)
    /\ UNCHANGED <<role, last, request, shown, cache, mounted, dead, lost, mixed>>

\* What updatePagination does, in terms of what it leaves.
LEMMA UpdatePaginationIs ==
    ASSUME TableTypes, NEW p \in Pages, NEW s \in Sizes, UpdatePagination(p, s)
    PROVE  /\ Emit(filters, pag') /\ pag' \in Pagination
           /\ s # pag.size => pag' = FirstPage(s)
           /\ s = pag.size => pag' = [pag EXCEPT !.page = p]
           /\ UNCHANGED <<cache, loading, error>>
<1>1. UNCHANGED <<cache, loading, error>>
  BY DEF UpdatePagination
<1>2. CASE s # pag.size
  <2>1. Emit(filters, FirstPage(s))
    BY <1>2 DEF UpdatePagination
  <2>2. pag' = FirstPage(s)
    BY <2>1 DEF Emit
  <2>3. QED
    BY <1>1, <1>2, <2>1, <2>2, FirstPageType
<1>3. CASE s = pag.size
  <2>1. Emit(filters, [pag EXCEPT !.page = p])
    BY <1>3 DEF UpdatePagination
  <2>2. pag' = [pag EXCEPT !.page = p]
    BY <2>1 DEF Emit
  <2>3. [pag EXCEPT !.page = p] \in Pagination
    BY DEF TableTypes, Pagination
  <2>4. QED
    BY <1>1, <1>3, <2>1, <2>2, <2>3
<1>4. QED
  BY <1>2, <1>3

\* A click on a page, which is not the paginator's and is within its total.
LEMMA TurnPageIs ==
    ASSUME TableTypes, NEW p \in Pages, TurnPage(p)
    PROVE  /\ Turns(p, paginator.size) /\ pag' \in Pagination /\ paginator.size \in Sizes
           /\ p # paginator.page /\ p * paginator.size < shown.total
           /\ Does /\ Clickable
           /\ UNCHANGED <<view, user, card, shared, form, loading, error, data, raced>>
<1>1. paginator.size \in Sizes /\ UpdatePagination(p, paginator.size)
  BY DEF TurnPage, TableTypes
<1>2. /\ Emit(filters, pag') /\ pag' \in Pagination
      /\ paginator.size # pag.size => pag' = FirstPage(paginator.size)
      /\ paginator.size = pag.size => pag' = [pag EXCEPT !.page = p]
      /\ UNCHANGED <<cache, loading, error>>
  BY <1>1, UpdatePaginationIs
<1>3. paginator' = [page |-> p, size |-> paginator.size]
  BY DEF TurnPage, TableTypes
<1>4. /\ shown # None /\ hasty' = (hasty \/ ~Settled)
      /\ UNCHANGED <<role, last, request, shown, mounted, dead, lost, mixed>>
  BY DEF TurnPage, view
<1>5. Turns(p, paginator.size)
  BY <1>2, <1>3, <1>4 DEF Turns
<1>6. QED
  BY <1>1, <1>2, <1>5 DEF TurnPage

\* Another size.
LEMMA SetSizeIs ==
    ASSUME TableTypes, NEW s \in Sizes, SetSize(s)
    PROVE  /\ Turns(PageOfSize(s), s) /\ pag' \in Pagination
           /\ PageOfSize(s) \in Pages /\ s # paginator.size
           /\ Does /\ Clickable
           /\ UNCHANGED <<view, user, card, shared, form, loading, error, data, raced>>
<1>1. PageOfSize(s) \in Pages
  BY PageOfSizeType
<1>2. paginator' = [page |-> PageOfSize(s), size |-> s] /\ UpdatePagination(PageOfSize(s), s)
  BY DEF SetSize, PageOfSize
<1>3. /\ Emit(filters, pag') /\ pag' \in Pagination
      /\ s # pag.size => pag' = FirstPage(s)
      /\ s = pag.size => pag' = [pag EXCEPT !.page = PageOfSize(s)]
      /\ UNCHANGED <<cache, loading, error>>
  BY <1>1, <1>2, UpdatePaginationIs
<1>4. /\ shown # None /\ hasty' = (hasty \/ ~Settled)
      /\ UNCHANGED <<role, last, request, shown, mounted, dead, lost, mixed>>
  BY DEF SetSize, view
<1>5. Turns(PageOfSize(s), s)
  BY <1>2, <1>3, <1>4 DEF Turns
<1>6. QED
  BY <1>1, <1>3, <1>5 DEF SetSize

\* The stream's three answers to an emission: it is dropped, it is answered
\* from the cache, or it is asked for.
Drops ==
    /\ pending # None /\ Same(pending)
    /\ pending' = None
    /\ lost' = (lost \/ (request = None /\ NextIsUnknown))
    /\ UNCHANGED <<hasty, last, request, shown, pag, paginator, loading>>
Takes ==
    /\ pending # None
    /\ pending' = None /\ last' = pending
    /\ paginator' = [page |-> pending.pag.page, size |-> pending.pag.size]
    /\ hasty' = (hasty /\ pending.pag.page # 0)
Hits ==
    /\ Takes
    /\ cache # None /\ cache.at = Key(pending)
    /\ request' = None
    /\ shown' = Counted(cache.rows, pending.pag)
    /\ pag' = [pag EXCEPT !.tokens = TokensCached(pending, cache.rows.key)]
    /\ Finalize
    /\ lost' = IF pending.pag.page = 0 THEN NextIsUnknown' ELSE lost
Asks ==
    /\ Takes
    /\ ~(cache # None /\ cache.at = Key(pending))
    /\ request' = [filters |-> pending.filters, pag |-> pending.pag, ver |-> data, user |-> user]
    /\ loading' = (IF S.overlay THEN loading /\ request = None ELSE TRUE)
    /\ lost' = (lost /\ pending.pag.page # 0)
    /\ UNCHANGED <<shown, pag>>

\* The end of the debounce is one of the three.
LEMMA DebounceIs ==
    ASSUME Debounce
    PROVE  /\ Drops \/ (Hits /\ ~Same(pending)) \/ (Asks /\ ~Same(pending))
           /\ UNCHANGED <<role, view, user, filters, card, shared, form, cache, mounted, dead,
                          error, data, raced, ops>>
<1>1. UNCHANGED <<role, view, user, filters, card, shared, form, cache, mounted, dead,
                  error, data, raced, ops>>
  BY DEF Debounce
<1>2. CASE Same(pending)
  <2>1. Drops
    BY <1>2 DEF Debounce, Drops
  <2>2. QED
    BY <1>1, <2>1
<1>3. CASE ~Same(pending)
  <2>1. Takes
    BY <1>3 DEF Debounce, Takes
  <2>2. CASE cache # None /\ cache.at = Key(pending)
    <3>1. Hits
      BY <1>3, <2>1, <2>2 DEF Debounce, Hits
    <3>2. QED
      BY <1>1, <1>3, <3>1
  <2>3. CASE ~(cache # None /\ cache.at = Key(pending))
    <3>1. Asks
      BY <1>3, <2>1, <2>3 DEF Debounce, Asks
    <3>2. QED
      BY <1>1, <1>3, <3>1
  <2>4. QED
    BY <2>2, <2>3
<1>4. QED
  BY <1>2, <1>3

\* An answer to the request, and what the table makes of it.
Answers(r) ==
    /\ request # None
    /\ shown' = Counted(r, IF T.tokensOf = "request" THEN request.pag ELSE pag)
    /\ pag' = [pag EXCEPT !.tokens = TokensAfter(request, r.key)]
    /\ cache' = [at |-> Key(request), rows |-> Forget(r)]
    /\ request' = None /\ loading' = FALSE

\* What Answered does, in these terms.
LEMMA AnsweredIs ==
    ASSUME NEW v, Answered(v)
    PROVE  /\ Answers(Answer(request, v)) /\ v \in request.ver..data
           /\ UNCHANGED <<role, view, user, filters, ui, pending, last, dead, mounted, error,
                          data, history, ops>>
BY DEF Answered, Answers

-----------------------------------------------------------------------------

\* Cached rows and their key.
LEMMA CachedType ==
    ASSUME NEW e, e.filters \in Filters, e.pag \in Pagination, NEW r \in Rows
    PROVE  /\ [at |-> Key(e), rows |-> r] \in Cached
           /\ Key(e)[1] = e.filters /\ Key(e)[2] = e.pag.page /\ Key(e)[3] = e.pag.size
BY DEF Cached, Key, Pagination

\* A table that forgets the token keeps the rows.
LEMMA ForgetType ==
    ASSUME NEW r \in Rows
    PROVE  /\ Forget(r) \in Rows
           /\ Forget(r) = [r EXCEPT !.key = Forget(r).key]
           /\ Forget(r).key = r.key \/ Forget(r).key = None
           /\ T.cachesKey => Forget(r) = r
BY DEF Forget, Rows

\* Silent writes put tokens in place of tokens.
LEMMA TokensAfterType ==
    ASSUME NEW e, e.pag \in Pagination, NEW key \in Tokens \cup {None}, pag \in Pagination
    PROVE  TokensAfter(e, key) \in [Pages -> Tokens \cup {None}]
BY DEF TokensAfter, Pagination

\* Those after a cached page do too.
LEMMA TokensCachedType ==
    ASSUME NEW e, e.pag \in Pagination, NEW key \in Tokens \cup {None}, pag \in Pagination
    PROVE  TokensCached(e, key) \in [Pages -> Tokens \cup {None}]
<1>1. NoTokens \in [Pages -> Tokens \cup {None}]
  BY DEF NoTokens
<1>2. [NoTokens EXCEPT ![0] = key] \in [Pages -> Tokens \cup {None}]
  BY <1>1
<1>3. QED
  BY <1>2, TokensAfterType DEF TokensCached, Pagination

\* Each step keeps the types.
LEMMA RefilterStepTypes ==
    ASSUME TableTypes, NEW f \in Filters, NEW s \in Sizes, Refilters(f, s), Does,
           user' = user, card' \in Dates, shared' \in Whos, form' \in Whos, asked' = asked,
           loading' \in BOOLEAN, error' \in BOOLEAN, raced' \in BOOLEAN, crossed' = crossed,
           data' = data \/ data' = data + 1
    PROVE  TableTypes'
<1>1. /\ role' \in TableRoles
      /\ filters' \in Filters /\ pag' \in Pagination
      /\ paginator' \in [page: Pages, size: Sizes]
      /\ pending' \in Emissions \cup {None} /\ last' \in Emissions \cup {None}
      /\ request' \in Fetches \cup {None}
      /\ shown' \in Rows \cup {None} /\ cache' \in Cached \cup {None}
      /\ mounted' \in BOOLEAN /\ dead' \in BOOLEAN
      /\ lost' \in BOOLEAN /\ hasty' \in BOOLEAN /\ mixed' \in BOOLEAN
  BY RefilterTypes
<1>2. ops' \in 0..MaxOps /\ data' \in 0..ops'
  BY DoesType DEF TableTypes
<1>3. user' \in Users /\ asked' \in Asked \cup {None} /\ crossed' \in BOOLEAN
  BY DEF TableTypes
<1>4. QED
  BY <1>1, <1>2, <1>3 DEF TableTypes

\* A click on the paginator does.
LEMMA TurnTypes ==
    ASSUME TableTypes, NEW p \in Pages, NEW s \in Sizes, Turns(p, s), pag' \in Pagination, Does,
           UNCHANGED <<view, user, card, shared, form, loading, error, data, raced>>
    PROVE  TableTypes'
<1>1. filters' \in Filters /\ pending' \in Emissions \cup {None}
  BY EmitType DEF Turns, TableTypes
<1>2. ops' \in 0..MaxOps /\ data' \in 0..ops'
  BY DoesType DEF TableTypes
<1>3. paginator' \in [page: Pages, size: Sizes]
  BY DEF Turns
<1>4. hasty' \in BOOLEAN
  BY DEF Turns
<1>5. QED
  BY <1>1, <1>2, <1>3, <1>4 DEF TableTypes, Turns, view

\* What is put together from parts of the right types.
LEMMA DebounceTypes ==
    ASSUME TableTypes, Debounce
    PROVE  TableTypes'
<1> USE Present
<1>1. /\ Drops \/ (Hits /\ ~Same(pending)) \/ (Asks /\ ~Same(pending))
      /\ UNCHANGED <<role, view, user, filters, card, shared, form, cache, mounted, dead,
                     error, data, raced, ops>>
  BY DebounceIs
<1>2. CASE Drops
  <2>1. lost' \in BOOLEAN
    BY <1>2 DEF Drops
  <2>2. QED
    BY <1>1, <1>2, <2>1 DEF TableTypes, Drops, view
<1>3. ASSUME Takes
      PROVE  /\ pending \in Emissions /\ pending.filters \in Filters /\ pending.pag \in Pagination
             /\ pending' \in Emissions \cup {None} /\ last' \in Emissions \cup {None}
             /\ paginator' \in [page: Pages, size: Sizes]
             /\ hasty' \in BOOLEAN
  <2>1. pending \in Emissions
    BY <1>3 DEF TableTypes, Takes
  <2>2. pending.filters \in Filters /\ pending.pag \in Pagination
    BY <2>1 DEF Emissions
  <2>3. paginator' \in [page: Pages, size: Sizes]
    BY <1>3, <2>2, PageType DEF Takes
  <2>4. hasty' \in BOOLEAN
    BY <1>3 DEF Takes
  <2>5. QED
    BY <1>3, <2>1, <2>2, <2>3, <2>4 DEF Takes
<1>4. CASE Hits
  <2>1. Takes
    BY <1>4 DEF Hits
  <2>2. cache \in Cached /\ cache.rows \in Rows /\ cache.rows.key \in Tokens \cup {None}
    BY <1>4 DEF Hits, TableTypes, Cached, Rows
  <2>3. shown' \in Rows \cup {None}
    BY <1>3, <1>4, <2>1, <2>2, CountedIs DEF Hits
  <2>4. TokensCached(pending, cache.rows.key) \in [Pages -> Tokens \cup {None}]
    BY <1>3, <2>1, <2>2, TokensCachedType DEF TableTypes
  <2>5. pag' \in Pagination
    BY <1>4, <2>4 DEF Hits, TableTypes, Pagination
  <2>6. loading' \in BOOLEAN
    BY <1>4 DEF Hits, Finalize
  <2>7. lost' \in BOOLEAN
    <3>1. CASE pending.pag.page = 0
      BY <1>4, <3>1 DEF Hits, NextIsUnknown
    <3>2. CASE pending.pag.page # 0
      BY <1>4, <3>2 DEF Hits, TableTypes
    <3>3. QED
      BY <3>1, <3>2
  <2>8. request' \in Fetches \cup {None}
    BY <1>4 DEF Hits
  <2>9. QED
    BY <1>1, <1>3, <2>1, <2>3, <2>5, <2>6, <2>7, <2>8 DEF TableTypes, view
<1>5. CASE Asks
  <2>1. Takes
    BY <1>5 DEF Asks
  <2>2. data \in 0..MaxOps
    BY BoundAssumption DEF TableTypes
  <2>3. request' \in Fetches \cup {None}
    BY <1>3, <1>5, <2>1, <2>2 DEF Asks, Fetches, TableTypes
  <2>4. loading' \in BOOLEAN
    BY <1>5 DEF Asks
  <2>5. lost' \in BOOLEAN
    BY <1>5 DEF Asks
  <2>6. QED
    BY <1>1, <1>3, <1>5, <2>1, <2>3, <2>4, <2>5 DEF TableTypes, view, Asks
<1>6. QED
  BY <1>1, <1>2, <1>4, <1>5

\* What a request in flight has, and which versions may answer it.
LEMMA FetchIs ==
    ASSUME TableTypes, request # None
    PROVE  /\ request \in Fetches /\ request.filters \in Filters /\ request.pag \in Pagination
           /\ request.user \in Users /\ request.ver \in Nat
           /\ \A v : v \in request.ver..data => v \in 0..MaxOps
<1>1. request \in Fetches
  BY DEF TableTypes
<1>2. /\ request.filters \in Filters /\ request.pag \in Pagination
      /\ request.user \in Users /\ request.ver \in 0..MaxOps
  BY <1>1 DEF Fetches
<1>3. data \in 0..ops /\ ops \in 0..MaxOps
  BY DEF TableTypes
<1>4. request.ver \in Nat /\ data \in Nat /\ data <= MaxOps
  BY <1>2, <1>3, BoundAssumption
<1>5. \A v : v \in request.ver..data => v \in 0..MaxOps
  BY <1>4, BoundAssumption
<1>6. QED
  BY <1>1, <1>2, <1>4, <1>5

\* The same of a view's request.
LEMMA AskedIs ==
    ASSUME TableTypes, asked # None
    PROVE  /\ asked \in Asked /\ asked.filters \in Filters /\ asked.pag \in Pagination
           /\ asked.user \in Users /\ asked.ver \in Nat /\ asked.outlives \in BOOLEAN
           /\ \A v : v \in asked.ver..data => v \in 0..MaxOps
<1>1. asked \in Asked
  BY DEF TableTypes
<1>2. /\ asked.filters \in Filters /\ asked.pag \in Pagination
      /\ asked.user \in Users /\ asked.ver \in 0..MaxOps /\ asked.outlives \in BOOLEAN
  BY <1>1 DEF Asked
<1>3. data \in 0..ops /\ ops \in 0..MaxOps
  BY DEF TableTypes
<1>4. asked.ver \in Nat /\ data \in Nat /\ data <= MaxOps
  BY <1>2, <1>3, BoundAssumption
<1>5. \A v : v \in asked.ver..data => v \in 0..MaxOps
  BY <1>4, BoundAssumption
<1>6. QED
  BY <1>1, <1>2, <1>4, <1>5

\* The answer's rows are rows, in the table and in the cache.
LEMMA AnsweredTypes ==
    ASSUME TableTypes, NEW v, Answered(v)
    PROVE  TableTypes'
<1>1. PICK r : r = Answer(request, v)
  OBVIOUS
<1>2. /\ Answers(r) /\ v \in request.ver..data
      /\ UNCHANGED <<role, view, user, filters, ui, pending, last, dead, mounted, error,
                     data, history, ops>>
  BY <1>1, AnsweredIs
<1>3. request \in Fetches /\ request.filters \in Filters /\ request.pag \in Pagination
      /\ request.user \in Users /\ v \in 0..MaxOps
  BY <1>2, FetchIs DEF Answers
<1>4. r \in Rows /\ r.key \in Tokens \cup {None}
  <2>1. r \in Rows
    BY <1>1, <1>3, AnswerIs
  <2>2. QED
    BY <2>1 DEF Rows
<1>5. pag \in Pagination
  BY DEF TableTypes
<1>6. shown' \in Rows
  <2>1. PICK p \in Pagination : shown' = Counted(r, p)
    BY <1>2, <1>3, <1>5 DEF Answers
  <2>2. QED
    BY <1>4, <2>1, CountedIs
<1>7. TokensAfter(request, r.key) \in [Pages -> Tokens \cup {None}]
  BY <1>3, <1>4, <1>5, TokensAfterType
<1>8. pag' \in Pagination
  BY <1>2, <1>5, <1>7 DEF Answers, Pagination
<1>9. cache' \in Cached
  BY <1>2, <1>3, <1>4, ForgetType, CachedType DEF Answers
<1>10. QED
  BY <1>2, <1>6, <1>8, <1>9 DEF TableTypes, Answers, ui, view, history

\* A view's answer fills the cache with page 0, or leaves it; only under other
\* dates than its own does it mix them.
LEMMA ViewAnsweredIs ==
    ASSUME TableTypes, NEW v, ViewAnswered(v)
    PROVE  /\ asked # None /\ v \in asked.ver..data
           /\ \E d \in Dates :
                /\ mixed' = (mixed \/ d # asked.filters.dates)
                /\ asked.outlives => d = asked.filters.dates
                /\ \/ cache' = cache
                   \/ cache' = [at |-> Key(Emission([asked.filters EXCEPT !.dates = d], asked.pag)),
                                rows |-> Answer(asked, v)]
           /\ asked' = None /\ loading' = (loading /\ ~S.overlay)
           /\ error' = (error /\ ~(S.overlay /\ asked.outlives))
           /\ UNCHANGED <<role, crossed, user, filters, pag, ui, stream, shown, mounted, data,
                          history, ops>>
<1>1. /\ asked # None /\ v \in asked.ver..data
      /\ asked' = None /\ loading' = (loading /\ ~S.overlay)
      /\ error' = (error /\ ~(S.overlay /\ asked.outlives))
      /\ UNCHANGED <<role, crossed, user, filters, pag, ui, stream, shown, mounted, data,
                     history, ops>>
  BY DEF ViewAnswered
<1> DEFINE r == Answer(asked, v)
           at(d) == Key(Emission([asked.filters EXCEPT !.dates = d], asked.pag))
           own == asked.filters.dates
<1>2. PICK d \in IF asked.outlives THEN {own} ELSE {own, card} :
        /\ cache' = IF r.n = 0 THEN cache ELSE [at |-> at(d), rows |-> r]
        /\ mixed' = (mixed \/ d # own)
  BY DEF ViewAnswered
<1>3. own \in Dates /\ card \in Dates
  BY <1>1, AskedIs DEF TableTypes, Filters
<1>4. d \in Dates /\ (asked.outlives => d = own)
  BY <1>2, <1>3
<1> HIDE DEF r
<1>5. cache' = cache \/ cache' = [at |-> at(d), rows |-> r]
  BY <1>2
<1>6. QED
  BY <1>1, <1>2, <1>4, <1>5 DEF r

\* So are those that a view caches.
LEMMA ViewAnsweredTypes ==
    ASSUME TableTypes, NEW v, ViewAnswered(v)
    PROVE  TableTypes'
<1>1. asked # None /\ v \in asked.ver..data
  BY ViewAnsweredIs
<1>2. PICK d \in Dates :
        /\ mixed' = (mixed \/ d # asked.filters.dates)
        /\ asked.outlives => d = asked.filters.dates
        /\ \/ cache' = cache
           \/ cache' = [at |-> Key(Emission([asked.filters EXCEPT !.dates = d], asked.pag)),
                        rows |-> Answer(asked, v)]
  BY ViewAnsweredIs
<1>3. /\ asked' = None /\ loading' = (loading /\ ~S.overlay)
      /\ error' = (error /\ ~(S.overlay /\ asked.outlives))
      /\ UNCHANGED <<role, crossed, user, filters, pag, ui, stream, shown, mounted, data,
                     history, ops>>
  BY ViewAnsweredIs
<1>4. asked.filters \in Filters /\ asked.pag \in Pagination /\ asked.user \in Users
      /\ v \in 0..MaxOps
  BY <1>1, AskedIs
<1>5. PICK r : r = Answer(asked, v)
  OBVIOUS
<1>6. r \in Rows
  BY <1>4, <1>5, AnswerIs
<1>7. PICK e : e = Emission([asked.filters EXCEPT !.dates = d], asked.pag)
  OBVIOUS
<1>8. e.filters \in Filters /\ e.pag \in Pagination
  <2>1. [asked.filters EXCEPT !.dates = d] \in Filters
    BY <1>4 DEF Filters
  <2>2. QED
    BY <1>4, <1>7, <2>1, EmissionType
<1>9. cache' \in Cached \cup {None}
  <2>1. CASE cache' = cache
    BY <2>1 DEF TableTypes
  <2>2. CASE cache' = [at |-> Key(e), rows |-> r]
    BY <2>2, <1>6, <1>8, CachedType
  <2>3. QED
    BY <1>2, <1>5, <1>7, <2>1, <2>2
<1>10. mixed' \in BOOLEAN
  BY <1>2
<1>11. loading' \in BOOLEAN /\ error' \in BOOLEAN
  BY <1>3
<1>12. QED
  BY <1>3, <1>9, <1>10, <1>11 DEF TableTypes, ui, stream, history

\* A table that goes, and a new one.
LEMMA UnmountType ==
    ASSUME Unmount
    PROVE  /\ mounted' \in BOOLEAN /\ dead' \in BOOLEAN /\ pending' \in Emissions \cup {None}
           /\ last' \in Emissions \cup {None} /\ request' \in Fetches \cup {None}
           /\ shown' \in Rows \cup {None}
BY DEF Unmount

\* A new table waits for the emission of its subjects.
LEMMA MountType ==
    ASSUME NEW f \in Filters, NEW p \in Pagination, Mount(f, p)
    PROVE  /\ mounted' \in BOOLEAN /\ dead' \in BOOLEAN /\ pending' \in Emissions \cup {None}
           /\ last' \in Emissions \cup {None} /\ request' \in Fetches \cup {None}
           /\ shown' \in Rows \cup {None}
BY EmissionType DEF Mount

\* A view that goes leaves its request or none.
LEMMA CloseViewType ==
    ASSUME TableTypes, CloseView
    PROVE  /\ asked' \in Asked \cup {None}
           /\ asked' = None \/ asked' = asked
           /\ asked' # None => asked' = asked /\ asked.outlives
BY DEF CloseView, TableTypes

\* A failure takes the rows, or ends the stream.
LEMMA FailedTypes ==
    ASSUME TableTypes, Failed
    PROVE  TableTypes'
<1>1. ops' \in 0..MaxOps /\ data' \in 0..ops'
  BY DoesType DEF TableTypes, Failed
<1>2. shown' \in Rows \cup {None} /\ pending' \in Emissions \cup {None}
  BY DEF TableTypes, Failed
<1>3. dead' \in BOOLEAN /\ loading' \in BOOLEAN
  BY DEF TableTypes, Failed
<1>4. QED
  BY <1>1, <1>2, <1>3 DEF TableTypes, Failed, view, ui, history

\* A view asks for page 0, for the user, of now.
LEMMA ViewAsksTypes ==
    ASSUME TableTypes, NEW o \in BOOLEAN, ViewAsks(o)
    PROVE  /\ TableTypes'
           /\ asked' \in Asked /\ asked'.pag.page = 0 /\ asked'.outlives = o
           /\ asked'.user = user /\ asked'.ver = data
<1>1. ops' \in 0..MaxOps /\ data' \in 0..ops'
  BY DoesType DEF TableTypes, ViewAsks
<1>2. asked' = [filters |-> [dates |-> card, who |-> Any], pag |-> FirstPage(pag.size),
                ver |-> data, user |-> user, outlives |-> o]
  BY DEF ViewAsks
<1>3. data \in 0..MaxOps
  BY BoundAssumption DEF TableTypes
<1>4. [dates |-> card, who |-> Any] \in Filters
  BY DateAssumption DEF TableTypes, Filters
<1>5. pag.size \in Sizes
  BY DEF TableTypes, Pagination
<1>6. FirstPage(pag.size) \in Pagination /\ FirstPage(pag.size).page = 0
  BY <1>5, FirstPageType
<1>7. user \in Users
  BY DEF TableTypes
<1>8. /\ asked' \in Asked /\ asked'.pag.page = 0 /\ asked'.outlives = o
      /\ asked'.user = user /\ asked'.ver = data
  BY <1>2, <1>3, <1>4, <1>6, <1>7 DEF Asked
<1>9. QED
  BY <1>1, <1>8 DEF TableTypes, ViewAsks, ui, stream, history

\* A failed view unmounts the dispatcher's table, and nobody else's.
LEMMA ViewFailedTypes ==
    ASSUME TableTypes, ViewFailed
    PROVE  TableTypes'
<1>1. ops' \in 0..MaxOps /\ data' \in 0..ops'
  BY DoesType DEF TableTypes, ViewFailed
<1>2. loading' \in BOOLEAN
  BY DEF ViewFailed
<1>3. /\ error' \in BOOLEAN /\ mounted' \in BOOLEAN /\ dead' \in BOOLEAN
      /\ pending' \in Emissions \cup {None}
      /\ last' \in Emissions \cup {None} /\ request' \in Fetches \cup {None}
      /\ shown' \in Rows \cup {None}
  <2>1. CASE role = "dispatcher"
    BY <2>1, UnmountType DEF ViewFailed
  <2>2. CASE role # "dispatcher"
    BY <2>2 DEF ViewFailed, stream, TableTypes
  <2>3. QED
    BY <2>1, <2>2
<1>4. QED
  BY <1>1, <1>2, <1>3 DEF TableTypes, ViewFailed, ui, history

\* So does a timeout.
LEMMA LoadingTimeoutTypes ==
    ASSUME TableTypes, LoadingTimeout
    PROVE  TableTypes'
BY UnmountType, CloseViewType DEF TableTypes, LoadingTimeout, ui, history

\* A new table, after an error.
LEMMA RetryTypes ==
    ASSUME TableTypes, Retry
    PROVE  TableTypes'
<1>1. ops' \in 0..MaxOps /\ data' \in 0..ops'
  BY DoesType DEF TableTypes, Retry
<1>2. form' \in Whos
  BY DEF TableTypes, Retry, Filters
<1>3. /\ mounted' \in BOOLEAN /\ dead' \in BOOLEAN /\ pending' \in Emissions \cup {None}
      /\ last' \in Emissions \cup {None} /\ request' \in Fetches \cup {None}
      /\ shown' \in Rows \cup {None}
  BY MountType DEF TableTypes, Retry
<1>4. QED
  BY <1>1, <1>2, <1>3 DEF TableTypes, Retry, view, history

\* A table that goes.
LEMMA LeaveTypes ==
    ASSUME TableTypes, Leave
    PROVE  TableTypes'
<1>1. ops' \in 0..MaxOps /\ data' \in 0..ops'
  BY DoesType DEF TableTypes, Leave
<1>2. loading' \in BOOLEAN
  BY DEF Leave, Finalize
<1>3. QED
  BY <1>1, <1>2, UnmountType DEF TableTypes, Leave, view, ui, history

\* A new table, after another view.
LEMMA ReturnTypes ==
    ASSUME TableTypes, Return
    PROVE  TableTypes'
<1>1. form' \in Whos
  BY DEF TableTypes, Return, Filters
<1>2. /\ mounted' \in BOOLEAN /\ dead' \in BOOLEAN /\ pending' \in Emissions \cup {None}
      /\ last' \in Emissions \cup {None} /\ request' \in Fetches \cup {None}
      /\ shown' \in Rows \cup {None}
  BY MountType DEF TableTypes, Return
<1>3. asked' \in Asked \cup {None}
  BY CloseViewType DEF Return
<1>4. QED
  BY <1>1, <1>2, <1>3 DEF TableTypes, Return, history

\* A change of the orders is counted.
LEMMA EditTypes ==
    ASSUME TableTypes, Edit
    PROVE  TableTypes'
<1>1. ops' \in 0..MaxOps /\ data' \in 0..ops'
  BY DoesType DEF TableTypes, Edit
<1>2. raced' \in BOOLEAN
  BY DEF Edit
<1>3. asked' \in Asked \cup {None}
  BY CloseViewType DEF Edit
<1>4. QED
  BY <1>1, <1>2, <1>3 DEF TableTypes, Edit, ui, stream

\* So is a deletion, in the table's rows too.
LEMMA DeleteTypes ==
    ASSUME TableTypes, Delete
    PROVE  TableTypes'
<1>1. ops' \in 0..MaxOps /\ data' \in 0..ops' /\ data + 1 \in 0..MaxOps
  BY DoesType DEF TableTypes, Delete
<1>2. raced' \in BOOLEAN
  BY DEF Delete
<1>3. shown' \in Rows
  BY <1>1 DEF Delete, TableTypes, Rows
<1>4. QED
  BY <1>1, <1>2, <1>3 DEF TableTypes, Delete, view, ui, stream

\* The cache is emptied.
LEMMA FiveMinutesTypes ==
    ASSUME TableTypes, FiveMinutes
    PROVE  TableTypes'
BY DEF TableTypes, FiveMinutes, view, ui, stream, history

\* Another user has the defaults, or the dates of the card.
LEMMA ChangeUserTypes ==
    ASSUME TableTypes, NEW u \in Users, ChangeUser(u)
    PROVE  TableTypes'
<1>1. ops' \in 0..MaxOps /\ data' \in 0..ops'
  BY DoesType DEF TableTypes, ChangeUser
<1>2. filters' \in Filters /\ pag' \in Pagination
  BY DateAssumption, SizeAssumption, FirstPageType DEF TableTypes, ChangeUser, Filters
<1>3. /\ mounted' \in BOOLEAN /\ dead' \in BOOLEAN /\ pending' \in Emissions \cup {None}
      /\ last' \in Emissions \cup {None} /\ request' \in Fetches \cup {None}
      /\ shown' \in Rows \cup {None}
  <2>1. CASE error
    BY <2>1, UnmountType DEF ChangeUser
  <2>2. CASE ~error
    <3>1. Mount(filters', pag')
      BY <2>2 DEF ChangeUser
    <3>2. QED
      BY <1>2, <3>1, EmissionType DEF Mount
  <2>3. QED
    BY <2>1, <2>2
<1>4. asked' \in Asked \cup {None}
  BY CloseViewType DEF ChangeUser
<1>5. form' \in Whos /\ card' \in Dates /\ shared' \in Whos
  BY DateAssumption DEF TableTypes, ChangeUser
<1>6. cache' \in Cached \cup {None}
  BY DEF TableTypes, ChangeUser
<1>7. loading' \in BOOLEAN /\ crossed' \in BOOLEAN
  BY DEF ChangeUser, Finalize
<1>8. user' \in Users /\ lost' \in BOOLEAN /\ hasty' \in BOOLEAN /\ paginator' = paginator
      /\ UNCHANGED <<role, mixed, error, data, raced>>
  BY DEF ChangeUser
<1>9. QED
  BY <1>1, <1>2, <1>3, <1>4, <1>5, <1>6, <1>7, <1>8 DEF TableTypes

\* A step with new filters, whoever takes it.
SetsFilters ==
    /\ \E f \in Filters, s \in Sizes : Refilters(f, s)
    /\ Does /\ ~error'
    /\ UNCHANGED <<view, user>>

\* The date card takes such a step.
LEMMA SetDatesSets ==
    ASSUME TableTypes, NEW d \in Dates, SetDates(d)
    PROVE  SetsFilters /\ TableTypes'
<1>1. PICK f \in Filters, s \in Sizes : Refilters(f, s)
  BY SetDatesIs
<1>2. /\ Does /\ ~error /\ card' = d
      /\ loading' \in BOOLEAN /\ ~error' /\ error' \in BOOLEAN
      /\ UNCHANGED <<view, user, shared, form, data, raced>>
  BY SetDatesIs
<1>3. TableTypes'
  <2>1. /\ card' \in Dates /\ shared' \in Whos /\ form' \in Whos /\ asked' = asked
        /\ raced' \in BOOLEAN /\ crossed' = crossed /\ data' = data /\ user' = user
    BY <1>2 DEF TableTypes, view
  <2>2. QED
    BY <1>1, <1>2, <2>1, RefilterStepTypes
<1>4. QED
  BY <1>1, <1>2, <1>3 DEF SetsFilters

\* The form does, or changes nothing that others read.
LEMMA SetWhoSets ==
    ASSUME TableTypes, NEW w \in Whos, SetWho(w)
    PROVE  /\ TableTypes'
           /\ \/ SetsFilters
              \/ /\ UNCHANGED <<filters, pag, pending, cache, loading, error>>
                 /\ UNCHANGED <<role, view, user, card, shared, paginator, last, request, shown,
                                mounted, dead, data, history>>
<1>1. /\ Does /\ Clickable /\ form' = w
      /\ UNCHANGED <<role, view, user, card, paginator, last, request, shown, mounted, dead,
                     data, history>>
  BY SetWhoIs
<1>2. ~error
  BY <1>1 DEF Clickable
<1>3. CASE shared' = shared /\ UNCHANGED <<filters, pag, pending, cache, loading, error>>
  <2>1. ops' \in 0..MaxOps /\ data' \in 0..ops'
    BY <1>1, DoesType DEF TableTypes
  <2>2. TableTypes'
    BY <1>1, <1>3, <2>1 DEF TableTypes, view, history
  <2>3. QED
    BY <1>1, <1>3, <2>2
<1>4. CASE /\ \E f \in Filters, s \in Sizes : Refilters(f, s)
           /\ shared' \in Whos
           /\ loading' \in BOOLEAN /\ error' \in BOOLEAN /\ (~error => ~error')
  <2>1. PICK f \in Filters, s \in Sizes : Refilters(f, s)
    BY <1>4
  <2>2. /\ card' \in Dates /\ form' \in Whos /\ asked' = asked
        /\ raced' \in BOOLEAN /\ crossed' = crossed /\ data' = data /\ user' = user
    BY <1>1 DEF TableTypes, view, history
  <2>3. TableTypes'
    BY <1>1, <1>4, <2>1, <2>2, RefilterStepTypes
  <2>4. QED
    BY <1>1, <1>2, <1>4, <2>3 DEF SetsFilters
<1>5. \/ shared' = shared /\ UNCHANGED <<filters, pag, pending, cache, loading, error>>
      \/ /\ \E f \in Filters, s \in Sizes : Refilters(f, s)
         /\ shared' \in Whos
         /\ loading' \in BOOLEAN /\ error' \in BOOLEAN /\ (~error => ~error')
  <2>1. \/ shared' = shared /\ UNCHANGED <<filters, pag, pending, cache, loading, error>>
        \/ /\ \E f \in Filters, s \in Sizes : Refilters(f, s)
           /\ Form[role].copies => shared' = w
           /\ ~Form[role].copies => shared' = shared
           /\ loading' \in BOOLEAN /\ error' \in BOOLEAN /\ (~error => ~error')
    <3>1. \/ /\ Form[role].copies /\ w = shared /\ shared' = shared
             /\ UNCHANGED <<filters, pag, pending, cache, loading, error>>
          \/ /\ \E f \in Filters, s \in Sizes :
                  /\ Refilters(f, s)
                  /\ f.who = w
                  /\ Form[role].copies => f.dates = card
                  /\ ~Form[role].copies => f.dates = filters.dates
             /\ Form[role].copies => shared' = w
             /\ ~Form[role].copies => shared' = shared
             /\ C.drops => cache' = None
             /\ loading' \in BOOLEAN /\ loading' = (loading \/ S.overlay)
             /\ error' \in BOOLEAN /\ (~error => ~error')
      BY SetWhoIs
    <3>2. QED
      BY <3>1
  <2>2. shared \in Whos
    BY DEF TableTypes
  <2>3. QED
    BY <2>1, <2>2
<1>6. QED
  BY <1>3, <1>4, <1>5

\* clearAllFilters does.
LEMMA CarrierClearSets ==
    ASSUME TableTypes, CarrierClear
    PROVE  SetsFilters /\ TableTypes'
<1>1. PICK f \in Filters, s \in Sizes : Refilters(f, s)
  BY CarrierClearIs
<1>2. /\ Does /\ Clickable /\ form' = Any
      /\ UNCHANGED <<view, user, card, shared, cache, loading, error, data, raced>>
  BY CarrierClearIs
<1>3. TableTypes'
  <2>1. /\ card' \in Dates /\ shared' \in Whos /\ form' \in Whos /\ asked' = asked
        /\ raced' \in BOOLEAN /\ crossed' = crossed /\ data' = data /\ user' = user
        /\ loading' \in BOOLEAN /\ error' \in BOOLEAN
    BY <1>2, DateAssumption DEF TableTypes, view
  <2>2. QED
    BY <1>1, <1>2, <2>1, RefilterStepTypes
<1>4. QED
  BY <1>1, <1>2, <1>3 DEF SetsFilters, Clickable

\* A driver's update does, with the filters as they are.
LEMMA UpdateStatusSets ==
    ASSUME TableTypes, StreamInv, UpdateStatus
    PROVE  SetsFilters /\ TableTypes'
<1>1. PICK s \in Sizes : Refilters(filters, s)
  BY UpdateStatusIs
<1>2. /\ Does /\ role = "driver" /\ cache' = None /\ data' = data + 1
      /\ raced' = (request # None)
      /\ UNCHANGED <<view, user, card, shared, form, loading, error>>
  BY UpdateStatusIs
<1>3. filters \in Filters
  BY DEF TableTypes
<1>4. TableTypes'
  <2>1. /\ card' \in Dates /\ shared' \in Whos /\ form' \in Whos /\ asked' = asked
        /\ crossed' = crossed /\ user' = user /\ loading' \in BOOLEAN /\ error' \in BOOLEAN
    BY <1>2 DEF TableTypes, view
  <2>2. raced' \in BOOLEAN
    BY <1>2
  <2>3. QED
    BY <1>1, <1>2, <1>3, <2>1, <2>2, RefilterStepTypes
<1>5. ~error'
  <2>1. mounted
    BY DEF UpdateStatus
  <2>2. QED
    BY <1>2, <2>1 DEF StreamInv
<1>6. QED
  BY <1>1, <1>2, <1>3, <1>4, <1>5 DEF SetsFilters

\* A click on the paginator, whichever.
SetsPage ==
    /\ pag' \in Pagination /\ Does /\ Clickable
    /\ \E p \in Pages, s \in Sizes :
         /\ Turns(p, s)
         /\ \/ s = paginator.size /\ p # paginator.page /\ p * s < shown.total
            \/ s # paginator.size /\ p = PageOfSize(s)
    /\ UNCHANGED <<view, user, card, shared, form, loading, error, data, raced>>

\* A page is clicked.
LEMMA TurnPageSets ==
    ASSUME TableTypes, NEW p \in Pages, TurnPage(p)
    PROVE  SetsPage
<1>1. /\ Turns(p, paginator.size) /\ pag' \in Pagination /\ paginator.size \in Sizes
      /\ p # paginator.page /\ p * paginator.size < shown.total
      /\ Does /\ Clickable
      /\ UNCHANGED <<view, user, card, shared, form, loading, error, data, raced>>
  BY TurnPageIs
<1>2. QED
  BY <1>1 DEF SetsPage

\* A size is chosen.
LEMMA SetSizeSets ==
    ASSUME TableTypes, NEW s \in Sizes, SetSize(s)
    PROVE  SetsPage
<1>1. /\ Turns(PageOfSize(s), s) /\ pag' \in Pagination
      /\ PageOfSize(s) \in Pages /\ s # paginator.size
      /\ Does /\ Clickable
      /\ UNCHANGED <<view, user, card, shared, form, loading, error, data, raced>>
  BY SetSizeIs
<1>2. QED
  BY <1>1 DEF SetsPage

\* Either keeps the types.
LEMMA SetsPageTypes ==
    ASSUME TableTypes, SetsPage
    PROVE  TableTypes'
<1>1. PICK p \in Pages, s \in Sizes : Turns(p, s)
  BY DEF SetsPage
<1>2. QED
  BY <1>1, TurnTypes DEF SetsPage

\* Every step keeps the types.
LEMMA TypesStep ==
    ASSUME TableTypes, StreamInv, [TableNext]_tableVars
    PROVE  TableTypes'
<1>1. ASSUME NEW d \in Dates, SetDates(d) PROVE TableTypes'
  BY <1>1, SetDatesSets
<1>2. ASSUME NEW w \in Whos, SetWho(w) PROVE TableTypes'
  BY <1>2, SetWhoSets
<1>3. CASE CarrierClear
  BY <1>3, CarrierClearSets
<1>4. ASSUME NEW p \in Pages, TurnPage(p) PROVE TableTypes'
  BY <1>4, TurnPageSets, SetsPageTypes
<1>5. ASSUME NEW s \in Sizes, SetSize(s) PROVE TableTypes'
  BY <1>5, SetSizeSets, SetsPageTypes
<1>6. CASE Retry
  BY <1>6, RetryTypes
<1>7. CASE Leave
  BY <1>7, LeaveTypes
<1>8. CASE Edit
  BY <1>8, EditTypes
<1>9. CASE Delete
  BY <1>9, DeleteTypes
<1>10. CASE UpdateStatus
  BY <1>10, UpdateStatusSets
<1>11. ASSUME NEW u \in Users, ChangeUser(u) PROVE TableTypes'
  BY <1>11, ChangeUserTypes
<1>12. ASSUME NEW o \in BOOLEAN, ViewAsks(o) PROVE TableTypes'
  BY <1>12, ViewAsksTypes
<1>13. CASE Debounce
  BY <1>13, DebounceTypes
<1>14. ASSUME NEW v \in 0..MaxOps, Answered(v) PROVE TableTypes'
  BY <1>14, AnsweredTypes
<1>15. CASE Failed
  BY <1>15, FailedTypes
<1>16. ASSUME NEW v \in 0..MaxOps, ViewAnswered(v) PROVE TableTypes'
  BY <1>16, ViewAnsweredTypes
<1>17. CASE ViewFailed
  BY <1>17, ViewFailedTypes
<1>18. CASE LoadingTimeout
  BY <1>18, LoadingTimeoutTypes
<1>19. CASE Return
  BY <1>19, ReturnTypes
<1>20. CASE FiveMinutes
  BY <1>20, FiveMinutesTypes
<1>21. CASE UNCHANGED tableVars
  BY <1>21 DEF TableTypes, tableVars, view, ui, stream, history
<1>22. QED
  BY <1>1, <1>2, <1>3, <1>4, <1>5, <1>6, <1>7, <1>8, <1>9, <1>10, <1>11, <1>12, <1>13, <1>14,
     <1>15, <1>16, <1>17, <1>18, <1>19, <1>20, <1>21 DEF TableNext, UserStep, TabStep

-----------------------------------------------------------------------------

\* A silent write leaves the page and the size.
LEMMA SilentWrite ==
    ASSUME NEW p \in Pagination, NEW toks
    PROVE  /\ [p EXCEPT !.tokens = toks].page = p.page
           /\ [p EXCEPT !.tokens = toks].size = p.size
           /\ [p EXCEPT !.tokens = toks].tokens = toks
BY DEF Pagination

\* What the stream's parts are when they are there.
LEMMA StreamTypes ==
    ASSUME TableTypes
    PROVE  /\ pending # None => pending \in Emissions /\ pending.filters \in Filters
                                /\ pending.pag \in Pagination
           /\ last # None => last \in Emissions /\ last.filters \in Filters /\ last.pag \in Pagination
           /\ shown # None => shown \in Rows
           /\ cache # None => cache \in Cached /\ cache.rows \in Rows
                              /\ cache.at \in Filters \X Pages \X Sizes
BY DEF TableTypes, Emissions, Cached

\* New filters restart the debounce.
LEMMA SetsFiltersStream ==
    ASSUME TableTypes, StreamInv, ViewInv, SetsFilters
    PROVE  StreamInv' /\ ViewInv'
<1>1. PICK f \in Filters, s \in Sizes : Refilters(f, s)
  BY DEF SetsFilters
<1>2. FirstPage(s) \in Pagination /\ Emit(f, FirstPage(s))
  BY <1>1, FirstPageType DEF Refilters
<1>3. /\ filters' = f /\ pag' = FirstPage(s)
      /\ mounted /\ ~dead => pending' = Emission(f, FirstPage(s)) /\ pending' # None
      /\ ~(mounted /\ ~dead) => pending' = None
  BY <1>2, EmitType
<1>4. Emission(f, FirstPage(s)).filters = f /\ Emission(f, FirstPage(s)).pag = FirstPage(s)
  BY <1>2, EmissionType
<1>5. /\ UNCHANGED <<role, last, request, shown, mounted, dead>>
      /\ ~error' /\ asked' = asked /\ user' = user
  BY <1>1 DEF Refilters, SetsFilters, view
<1>6. StreamInv'
  BY <1>3, <1>4, <1>5, VariantStays DEF StreamInv
<1>7. ViewInv'
  BY <1>5 DEF ViewInv
<1>8. QED
  BY <1>6, <1>7

\* So does a click on the paginator.
LEMMA SetsPageStream ==
    ASSUME TableTypes, StreamInv, ViewInv, SetsPage
    PROVE  StreamInv' /\ ViewInv'
<1>1. PICK p \in Pages, s \in Sizes : Turns(p, s)
  BY DEF SetsPage
<1>2. pag' \in Pagination /\ filters \in Filters /\ Emit(filters, pag')
  BY <1>1 DEF SetsPage, TableTypes, Turns
<1>3. PICK q : q = pag'
  OBVIOUS
<1>4. q \in Pagination /\ Emit(filters, q)
  BY <1>2, <1>3
<1>5. /\ filters' = filters /\ pag' = q
      /\ mounted /\ ~dead => pending' = Emission(filters, q) /\ pending' # None
      /\ ~(mounted /\ ~dead) => pending' = None
  BY <1>2, <1>4, EmitType
<1>6. Emission(filters, q).filters = filters /\ Emission(filters, q).pag = q
  BY <1>2, <1>4, EmissionType
<1>7. UNCHANGED <<role, last, request, shown, mounted, dead, error, asked, user>>
  BY <1>1 DEF Turns, SetsPage, view
<1>8. StreamInv'
  BY <1>5, <1>6, <1>7, VariantStays DEF StreamInv
<1>9. ViewInv'
  BY <1>7 DEF ViewInv
<1>10. QED
  BY <1>8, <1>9

\* Its end makes the emission the last one.
LEMMA DebounceStream ==
    ASSUME TableTypes, StreamInv, ViewInv, Debounce
    PROVE  StreamInv' /\ ViewInv'
<1>1. /\ Drops \/ (Hits /\ ~Same(pending)) \/ (Asks /\ ~Same(pending))
      /\ UNCHANGED <<role, view, user, filters, card, shared, form, cache, mounted, dead,
                     error, data, raced, ops>>
  BY DebounceIs
<1>2. ViewInv'
  BY <1>1 DEF ViewInv, view
<1>3. CASE Drops
  <2>1. last # None /\ Key(pending) = Key(last)
    BY <1>3 DEF Drops, Same
  <2>2. /\ pending.filters = last.filters /\ pending.pag.page = last.pag.page
        /\ pending.pag.size = last.pag.size
    BY <2>1 DEF Key
  <2>3. /\ pending # None /\ pending' = None
        /\ UNCHANGED <<role, filters, last, request, shown, pag, mounted, dead, error>>
    BY <1>1, <1>3 DEF Drops
  <2>4. QED
    BY <1>2, <2>1, <2>2, <2>3, VariantStays DEF StreamInv
<1>4. CASE Hits
  <2>1. /\ pending # None /\ pending' = None /\ last' = pending /\ request' = None
        /\ UNCHANGED <<role, filters, mounted, dead, error>>
    BY <1>1, <1>4 DEF Hits, Takes
  <2>2. pag'.page = pag.page /\ pag'.size = pag.size
    BY <1>4, SilentWrite DEF Hits, TableTypes
  <2>3. QED
    BY <1>2, <2>1, <2>2, VariantStays DEF StreamInv
<1>5. CASE Asks
  <2>1. /\ pending # None /\ pending' = None /\ last' = pending
        /\ request' = [filters |-> pending.filters, pag |-> pending.pag, ver |-> data, user |-> user]
        /\ UNCHANGED <<role, filters, mounted, dead, error, pag, shown>>
    BY <1>1, <1>5 DEF Asks, Takes
  <2>2. request'.filters = last'.filters /\ request'.pag = last'.pag
    BY <2>1
  <2>3. QED
    BY <1>2, <2>1, <2>2, VariantStays DEF StreamInv
<1>6. QED
  BY <1>1, <1>3, <1>4, <1>5

\* An answer ends the request.
LEMMA AnsweredStream ==
    ASSUME TableTypes, StreamInv, ViewInv, NEW v, Answered(v)
    PROVE  StreamInv' /\ ViewInv'
<1>1. /\ request # None /\ request' = None
      /\ UNCHANGED <<role, view, user, filters, pending, last, dead, mounted, error>>
  BY DEF Answered
<1>2. pag'.page = pag.page /\ pag'.size = pag.size
  BY SilentWrite DEF Answered, TableTypes
<1>3. StreamInv'
  BY <1>1, <1>2, VariantStays DEF StreamInv
<1>4. ViewInv'
  BY <1>1 DEF ViewInv, view
<1>5. QED
  BY <1>3, <1>4

\* A failure ends it, with the stream or without.
LEMMA FailedStream ==
    ASSUME TableTypes, StreamInv, ViewInv, Failed
    PROVE  StreamInv' /\ ViewInv'
<1>1. /\ request # None /\ request' = None
      /\ shown' = (IF T.catches THEN None ELSE shown)
      /\ dead' = ~T.catches
      /\ pending' = (IF dead' THEN None ELSE pending)
      /\ UNCHANGED <<role, view, user, filters, pag, last, mounted, error>>
  BY DEF Failed
<1>2. T.catches \in BOOLEAN
  BY Variants DEF TableTypes
<1>3. dead' <=> ~T.catches
  BY <1>1, <1>2
<1>4. StreamInv'
  BY <1>1, <1>2, <1>3, VariantStays DEF StreamInv
<1>5. ViewInv'
  BY <1>1 DEF ViewInv, view
<1>6. QED
  BY <1>4, <1>5

\* A table that goes leaves nothing.
LEMMA UnmountStream ==
    ASSUME Unmount, role' = role
    PROVE  StreamInv'
BY VariantStays DEF Unmount, StreamInv

\* A new one starts with the subjects as they are.
LEMMA MountStream ==
    ASSUME NEW f \in Filters, NEW p \in Pagination, Mount(f, p), filters' = f, pag' = p,
           role' = role, ~error'
    PROVE  StreamInv' /\ mounted'
<1>1. Emission(f, p) # None /\ Emission(f, p).filters = f /\ Emission(f, p).pag = p
  BY EmissionType
<1>2. QED
  BY <1>1, VariantStays DEF Mount, StreamInv

\* The rest of the table's steps leave the stream as it is.
LEMMA StillStream ==
    ASSUME StreamInv,
           UNCHANGED <<role, filters, pag, pending, last, request, dead, mounted>>,
           shown' # None => shown # None, error' => error
    PROVE  StreamInv'
BY VariantStays DEF StreamInv

\* Tables that go and come.
LEMMA TableStream ==
    ASSUME TableTypes, StreamInv, ViewInv, Retry \/ Leave \/ LoadingTimeout \/ Return
    PROVE  StreamInv' /\ ViewInv'
<1>1. filters \in Filters /\ pag \in Pagination
  BY DEF TableTypes
<1>2. CASE Retry
  <2>1. /\ error /\ ~error' /\ Mount(filters, pag) /\ UNCHANGED <<role, view, user, filters, pag>>
    BY <1>2 DEF Retry
  <2>2. StreamInv' /\ mounted'
    BY <1>1, <2>1, MountStream
  <2>3. ViewInv'
    BY <2>1 DEF ViewInv, view
  <2>4. QED
    BY <2>2, <2>3
<1>3. CASE Leave
  <2>1. Unmount /\ UNCHANGED <<role, view, user, error>>
    BY <1>3 DEF Leave
  <2>2. ViewInv'
    <3>1. mounted /\ ~error
      BY <1>3 DEF Leave, StreamInv
    <3>2. QED
      BY <2>1, <3>1 DEF ViewInv, view
  <2>3. QED
    BY <2>1, <2>2, UnmountStream
<1>4. CASE LoadingTimeout
  <2>1. Unmount /\ CloseView /\ UNCHANGED <<role, user>>
    BY <1>4 DEF LoadingTimeout
  <2>2. ViewInv'
    BY <2>1, CloseViewType DEF ViewInv
  <2>3. QED
    BY <2>1, <2>2, UnmountStream
<1>5. CASE Return
  <2>1. /\ ~error /\ ~error' /\ Mount(filters, pag) /\ CloseView /\ UNCHANGED <<role, user, filters, pag>>
    BY <1>5 DEF Return
  <2>2. StreamInv'
    BY <1>1, <2>1, MountStream
  <2>3. ViewInv'
    BY <2>1, CloseViewType DEF ViewInv
  <2>4. QED
    BY <2>2, <2>3
<1>6. QED
  BY <1>2, <1>3, <1>4, <1>5

\* The steps of the views.
LEMMA ViewStream ==
    ASSUME TableTypes, StreamInv, ViewInv,
           \/ \E o \in BOOLEAN : ViewAsks(o)
           \/ \E v \in 0..MaxOps : ViewAnswered(v)
           \/ ViewFailed
    PROVE  StreamInv' /\ ViewInv'
<1>1. ASSUME NEW o \in BOOLEAN, ViewAsks(o)
      PROVE  StreamInv' /\ ViewInv'
  <2>1. /\ asked' # None /\ asked'.pag.page = 0 /\ asked'.outlives = o /\ asked'.user = user
    BY <1>1, ViewAsksTypes, Present
  <2>2. /\ role # "driver" /\ ~mounted /\ ~error /\ (o => role \in PaymentsOutlive)
        /\ UNCHANGED <<role, user, filters, pag, stream, shown, mounted, error>>
    BY <1>1 DEF ViewAsks
  <2>3. StreamInv'
    BY <2>2, StillStream DEF stream
  <2>4. ViewInv'
    BY <2>1, <2>2 DEF ViewInv
  <2>5. QED
    BY <2>3, <2>4
<1>2. ASSUME NEW v \in 0..MaxOps, ViewAnswered(v)
      PROVE  StreamInv' /\ ViewInv'
  <2>1. /\ asked' = None /\ error' = (error /\ ~(S.overlay /\ asked.outlives))
        /\ UNCHANGED <<role, user, filters, pag, stream, shown, mounted>>
    BY <1>2 DEF ViewAnswered
  <2>2. StreamInv'
    BY <2>1, StillStream DEF stream
  <2>3. QED
    BY <2>1, <2>2 DEF ViewInv
<1>3. CASE ViewFailed
  <2>1. asked' = None /\ role' = role
    BY <1>3 DEF ViewFailed
  <2>2. StreamInv'
    <3>1. CASE role = "dispatcher"
      BY <1>3, <2>1, <3>1, UnmountStream DEF ViewFailed
    <3>2. CASE role # "dispatcher"
      BY <1>3, <3>2, StillStream DEF ViewFailed, stream
    <3>3. QED
      BY <3>1, <3>2
  <2>3. QED
    BY <2>1, <2>2 DEF ViewInv
<1>4. QED
  BY <1>1, <1>2, <1>3

\* Changes of the orders, and of the cache alone.
LEMMA ChangeStream ==
    ASSUME TableTypes, StreamInv, ViewInv, Edit \/ Delete \/ FiveMinutes
    PROVE  StreamInv' /\ ViewInv'
<1>1. CASE Edit
  <2>1. /\ CloseView
        /\ UNCHANGED <<role, user, filters, pag, stream, shown, mounted, error>>
    BY <1>1 DEF Edit
  <2>2. ViewInv'
    BY <2>1, CloseViewType DEF ViewInv
  <2>3. QED
    BY <2>1, <2>2, StillStream DEF stream
<1>2. CASE Delete
  <2>1. /\ shown # None
        /\ UNCHANGED <<role, view, user, filters, pag, stream, mounted, error>>
    BY <1>2 DEF Delete
  <2>2. QED
    BY <2>1, StillStream DEF stream, view, ViewInv
<1>3. CASE FiveMinutes
  <2>1. UNCHANGED <<role, view, user, filters, pag, stream, shown, mounted, error>>
    BY <1>3 DEF FiveMinutes
  <2>2. QED
    BY <2>1, StillStream DEF stream, view, ViewInv
<1>4. QED
  BY <1>1, <1>2, <1>3

\* Another user.
LEMMA ChangeUserStream ==
    ASSUME TableTypes, StreamInv, ViewInv, NEW u \in Users, ChangeUser(u)
    PROVE  StreamInv' /\ ViewInv'
<1>1. filters' \in Filters /\ pag' \in Pagination
  BY ChangeUserTypes DEF TableTypes
<1>2. PICK f \in Filters : f = filters'
  BY <1>1
<1>3. PICK p \in Pagination : p = pag'
  BY <1>1
<1>4. /\ CloseView /\ role' = role /\ error' = error
      /\ IF error THEN Unmount ELSE Mount(f, p)
  BY <1>2, <1>3 DEF ChangeUser
<1>5. StreamInv'
  <2>1. CASE error
    BY <1>4, <2>1, UnmountStream
  <2>2. CASE ~error
    BY <1>2, <1>3, <1>4, <2>2, MountStream
  <2>3. QED
    BY <2>1, <2>2
<1>6. ViewInv'
  BY <1>4, CloseViewType DEF ViewInv
<1>7. QED
  BY <1>5, <1>6

-----------------------------------------------------------------------------

\* Step by step, PageInv.  New filters leave page 0 without tokens.
LEMMA RefilterPage ==
    ASSUME TableTypes, StreamInv, PageInv, NEW f \in Filters, NEW s \in Sizes, Refilters(f, s)
    PROVE  PageInv'
<1>1. PICK p \in Pagination : p = FirstPage(s)
  BY FirstPageType
<1>2. p.page = 0 /\ p.size = s /\ (\A q \in Pages : p.tokens[q] = None) /\ 0 \in Pages
  BY <1>1, FirstPageType
<1>3. /\ filters' = f /\ pag' = p
      /\ mounted /\ ~dead => pending' = Emission(f, p) /\ pending' # None
      /\ ~(mounted /\ ~dead) => pending' = None
  BY <1>1, EmitType DEF Refilters
<1>4. Emission(f, p).filters = f /\ Emission(f, p).pag = p
  BY EmissionType
<1>5. /\ cache' = None \/ cache' = cache
      /\ UNCHANGED <<role, paginator, last, request, shown, mounted, dead, lost, hasty, mixed>>
  BY DEF Refilters
<1>6. (Clean' <=> Clean) /\ (Standing' <=> Standing) /\ T' = T
  BY <1>5, VariantStays DEF Clean, Standing
<1>7. Standing => pending' # None /\ pending'.pag = p
  BY <1>3, <1>4 DEF Standing, StreamInv
<1>8. \A q \in Pages : ~(q < 0)
  BY BoundAssumption DEF Pages
<1>9. ReachInv'
  <2>1. Reaches(f, p)
    BY <1>2, <1>8 DEF Reaches
  <2>2. CASE pending' = None
    BY <1>3, <1>5, <1>6, <2>1, <2>2 DEF ReachInv, PageInv
  <2>3. CASE pending' # None
    BY <1>3, <1>4, <1>5, <1>6, <2>1, <2>3 DEF ReachInv, PageInv
  <2>4. QED
    BY <2>2, <2>3
<1>10. OvertakeInv'
  BY <1>2, <1>3 DEF OvertakeInv
<1>11. ShownInv'
  BY <1>5, <1>6 DEF ShownInv, PageInv
<1>12. TokenInv'
  BY <1>2, <1>3, <1>6, <1>7 DEF TokenInv
<1>13. CacheInv'
  BY <1>2, <1>3, <1>5, <1>6 DEF CacheInv, PageInv
<1>14. PlaceInv'
  BY <1>5, <1>6 DEF PlaceInv, PageInv, Key
<1>15. BesideInv'
  BY <1>2, <1>3 DEF BesideInv
<1>16. PaginatorInv'
  <2> SUFFICES ASSUME last # None, ~dead, Clean, ~OnPage(paginator, last.pag)
               PROVE  /\ pending' # None
                      /\ \/ last.pag.page # 0
                         \/ /\ request = None /\ shown # None /\ shown.more
                            /\ pag'.page = 0 => pag'.tokens[0] = None
                      /\ pag'.page = last.pag.page /\ pag'.size = last.pag.size
                           => last.pag.page = 0
    BY <1>5, <1>6 DEF PaginatorInv
  <2>1. pending' # None
    BY <1>3 DEF StreamInv
  <2>2. \/ last.pag.page # 0
        \/ request = None /\ shown # None /\ shown.more
    BY DEF PageInv, PaginatorInv
  <2>3. QED
    BY <1>2, <1>3, <2>1, <2>2
<1>17. QED
  BY <1>9, <1>10, <1>11, <1>12, <1>13, <1>14, <1>15, <1>16 DEF PageInv

\* Whole pages of rows.
LEMMA Times ==
    ASSUME NEW a \in Nat, NEW b \in Nat, NEW s \in Nat, a < b
    PROVE  a * s + s <= b * s
<1>1. b - (a + 1) \in Nat
  OBVIOUS
<1>2. PICK d \in Nat : d = b - (a + 1)
  BY <1>1
<1>3. b = a + 1 + d
  BY <1>2
<1>4. d * s \in Nat /\ a * s \in Nat
  OBVIOUS
<1>5. b * s = a * s + s + d * s
  BY <1>3
<1>6. QED
  BY <1>4, <1>5

\* A page that starts within the total is one of those before, this, or the
\* next if there are more rows.
LEMMA WithinTotal ==
    ASSUME NEW k \in Nat, NEW s \in Nat, s > 0, NEW p \in Nat, NEW n \in Nat, n <= s,
           NEW one \in 0..1, NEW total \in Nat,
           total <= k * s + n + one, p * s < total
    PROVE  p <= k + one /\ p <= k + 1
<1>1. k * s \in Nat /\ p * s \in Nat
  OBVIOUS
<1>2. CASE one = 0
  <2>1. SUFFICES ASSUME k < p PROVE FALSE
    BY <1>2
  <2>2. k * s + s <= p * s
    BY <2>1, Times
  <2>3. QED
    BY <1>1, <1>2, <2>2
<1>3. CASE one = 1
  <2>1. SUFFICES ASSUME k + 1 < p PROVE FALSE
    BY <1>3
  <2>2. (k + 1) * s + s <= p * s /\ (k + 1) * s = k * s + s
    BY <2>1, Times
  <2>3. QED
    BY <1>1, <1>3, <2>2
<1>4. QED
  BY <1>2, <1>3

\* A number lies on one page.
LEMMA OnOnePage ==
    ASSUME NEW k \in Nat, NEW d \in Nat, NEW s \in Nat, NEW x \in Nat,
           k * s <= x, x < (k + 1) * s, d * s <= x, x < (d + 1) * s
    PROVE  d = k
<1>1. k * s \in Nat /\ d * s \in Nat /\ (k + 1) * s = k * s + s /\ (d + 1) * s = d * s + s
  OBVIOUS
<1>2. ASSUME k < d PROVE FALSE
  <2>1. k * s + s <= d * s
    BY <1>2, Times
  <2>2. QED
    BY <1>1, <2>1
<1>3. ASSUME d < k PROVE FALSE
  <2>1. d * s + s <= k * s
    BY <1>3, Times
  <2>2. QED
    BY <1>1, <2>1
<1>4. QED
  BY <1>2, <1>3

\* A division leaves less than the divisor.
LEMMA DivisionBelow ==
    ASSUME NEW x \in Nat, NEW s \in Nat, s > 0
    PROVE  x < (x \div s + 1) * s
<1>1. x \div s \in Nat
  BY DivisionType
<1>2. x < s * (x \div s) + s
  OBVIOUS
<1> DEFINE d == x \div s
<1>3. d \in Nat /\ x < s * d + s
  BY <1>1, <1>2
<1> HIDE DEF d
<1>4. (d + 1) * s = s * d + s
  BY <1>3
<1>5. x < (d + 1) * s
  BY <1>3, <1>4
<1>6. QED
  BY <1>5 DEF d

\* A paginator of the same size, or made of the same size, is on the page.
LEMMA OnPageSame ==
    ASSUME TableTypes, NEW e \in Pagination, OnPage(paginator, e)
    PROVE  /\ paginator.size = e.size => paginator.page = e.page
           /\ PageOfSize(e.size) = e.page
<1>1. /\ paginator.page \in Nat /\ paginator.size \in Nat /\ paginator.size > 0
  BY PaginatorType DEF TableTypes
<1>2. e.page \in Nat /\ e.page <= LastPage /\ e.size \in Nat /\ e.size > 0
  BY PageType
<1> DEFINE x == paginator.page * paginator.size
           k == e.page
           s == e.size
<1>3. x \in Nat /\ k * s <= x /\ x < (k + 1) * s
  BY <1>1 DEF OnPage
<1>4. ASSUME paginator.size = e.size PROVE paginator.page = e.page
  <2> DEFINE j == paginator.page
  <2>1. j * s <= j * s /\ j * s < (j + 1) * s /\ j \in Nat
    <3>1. j \in Nat /\ s \in Nat /\ s > 0
      BY <1>1, <1>2
    <3> HIDE DEF j, s
    <3>2. QED
      BY <3>1
  <2>2. x = j * s
    BY <1>4
  <2>3. k \in Nat /\ s \in Nat
    BY <1>2
  <2> HIDE DEF x, j, k, s
  <2>4. j = k
    BY <1>3, <2>1, <2>2, <2>3, OnOnePage
  <2>5. QED
    BY <2>4 DEF j, k
<1>5. PageOfSize(e.size) = e.page
  <2>1. k \in Nat /\ s \in Nat /\ s > 0 /\ k <= LastPage
    BY <1>2
  <2>2. PageOfSize(s) = SmallerOf(x \div s, LastPage)
    BY DEF PageOfSize
  <2> HIDE DEF x, k, s
  <2>3. x \div s \in Nat /\ s * (x \div s) <= x /\ x < (x \div s + 1) * s
    BY <1>3, <2>1, DivisionType, DivisionBelow
  <2> DEFINE d == x \div s
  <2>4. d \in Nat /\ s * d <= x /\ x < (d + 1) * s
    BY <2>3
  <2> HIDE DEF d
  <2>5. d * s <= x
    BY <2>1, <2>4
  <2>6. d = k
    BY <1>3, <2>1, <2>4, <2>5, OnOnePage
  <2>7. SmallerOf(k, LastPage) = k
    BY <2>1, BoundAssumption DEF SmallerOf
  <2>8. QED
    BY <2>2, <2>6, <2>7 DEF d, k, s
<1>6. QED
  BY <1>4, <1>5

\* The rows on screen, when everything is at rest and nothing went wrong.
LEMMA AtRest ==
    ASSUME TableTypes, StreamInv, PageInv, Settled, Clean
    PROVE  /\ Standing /\ last # None /\ last.pag \in Pagination
           /\ last.filters = filters /\ last.pag.page = pag.page /\ last.pag.size = pag.size
           /\ OnPage(paginator, last.pag)
           /\ IsPage(shown, filters, pag.page, pag.size)
           /\ shown.total <= pag.page * pag.size + shown.n + (IF shown.more THEN 1 ELSE 0)
           /\ shown.more => IsToken(pag.tokens[pag.page], filters, pag.size, pag.page)
           /\ Reaches(filters, pag)
           /\ cache # None => cache.at = Key(last) \/ cache.at[2] = 0
<1>1. mounted /\ ~dead /\ pending = None /\ request = None /\ shown # None
  BY DEF Settled
<1>2. /\ last # None /\ last.filters = filters
      /\ last.pag.page = pag.page /\ last.pag.size = pag.size
  BY <1>1 DEF StreamInv
<1>3. last.pag \in Pagination
  BY <1>2, StreamTypes
<1>4. Standing
  BY <1>1, <1>2 DEF Standing
<1>5. OnPage(paginator, last.pag)
  BY <1>1, <1>2 DEF PageInv, PaginatorInv
<1>6. /\ IsPage(shown, filters, pag.page, pag.size)
      /\ shown.total <= pag.page * pag.size + shown.n + (IF shown.more THEN 1 ELSE 0)
  BY <1>2, <1>4 DEF PageInv, ShownInv
<1>7. shown.more => IsToken(pag.tokens[pag.page], filters, pag.size, pag.page)
  BY <1>1, <1>2, <1>4 DEF PageInv, TokenInv
<1>8. Reaches(filters, pag)
  BY DEF PageInv, ReachInv
<1>9. cache # None => cache.at = Key(last) \/ cache.at[2] = 0
  BY <1>4 DEF PageInv, PlaceInv
<1>10. QED
  BY <1>2, <1>3, <1>4, <1>5, <1>6, <1>7, <1>8, <1>9

\* Where a click leads, at rest: with the paginator's size to another page, the
\* next at most; with the size of the page to the page that is there; else to
\* page 0.
LEMMA WhereTo ==
    ASSUME TableTypes, StreamInv, PageInv, Settled, Clean,
           NEW p \in Pages, NEW s \in Sizes,
           \/ s = paginator.size /\ p # paginator.page /\ p * s < shown.total
           \/ s # paginator.size /\ p = PageOfSize(s)
    PROVE  /\ s = pag.size /\ s = paginator.size =>
                /\ p # pag.page /\ p <= pag.page + 1
                /\ p = pag.page + 1 => shown.more
           /\ s = pag.size /\ s # paginator.size => p = pag.page
           /\ pag.page = 0 /\ ~shown.more => p * s < pag.size
<1>1. /\ last.pag \in Pagination /\ last.pag.page = pag.page /\ last.pag.size = pag.size
      /\ OnPage(paginator, last.pag)
      /\ IsPage(shown, filters, pag.page, pag.size)
      /\ shown.total <= pag.page * pag.size + shown.n + (IF shown.more THEN 1 ELSE 0)
  BY AtRest
<1>2. /\ paginator.size = pag.size => paginator.page = pag.page
      /\ s = pag.size => PageOfSize(s) = pag.page
  BY <1>1, OnPageSame
<1>3. shown \in Rows
  BY StreamTypes DEF Settled
<1>4. PICK k \in Nat, z \in Nat, n \in Nat, t \in Nat :
        k = pag.page /\ z = pag.size /\ n = shown.n /\ t = shown.total /\ z > 0
  BY <1>1, <1>3, PageType DEF Rows
<1>5. PICK one \in 0..1 : (one = 1 <=> shown.more) /\ one = (IF shown.more THEN 1 ELSE 0)
  OBVIOUS
<1>6. t <= k * z + n + one /\ n <= z
  BY <1>1, <1>4, <1>5 DEF IsPage
<1>7. p \in Nat /\ s \in Nat /\ s > 0 /\ p * s \in Nat
  <2>1. p \in Nat
    BY BoundAssumption DEF Pages
  <2>2. s \in Nat /\ s > 0
    <3>1. \A x \in Nat \ {0} : x \in Nat /\ x > 0
      OBVIOUS
    <3>2. QED
      BY <3>1, SizeAssumption
  <2>3. QED
    BY <2>1, <2>2
<1>8. ASSUME s = pag.size, s = paginator.size
      PROVE  p # pag.page /\ p <= pag.page + 1 /\ (p = pag.page + 1 => shown.more)
  <2>1. p # pag.page /\ p * z < t
    BY <1>2, <1>4, <1>8
  <2>2. p <= k + one /\ p <= k + 1
    BY <1>4, <1>6, <1>7, <2>1, WithinTotal
  <2>3. p = k + 1 => one = 1
    BY <1>7, <2>2
  <2>4. QED
    BY <1>4, <1>5, <2>1, <2>2, <2>3
<1>9. ASSUME s = pag.size, s # paginator.size
      PROVE  p = pag.page
  BY <1>2, <1>9
<1>10. ASSUME pag.page = 0, ~shown.more
       PROVE  p * s < pag.size
  <2>1. one = 0 /\ k = 0
    BY <1>4, <1>5, <1>10
  <2>2. k * z = 0
    BY <2>1
  <2>3. CASE s = paginator.size /\ p * s < shown.total
    BY <1>4, <1>6, <1>7, <2>1, <2>2, <2>3
  <2>4. CASE s # paginator.size /\ p = PageOfSize(s)
    <3>1. p * s <= paginator.page * paginator.size
      BY <2>4, PageOfSizeType
    <3>2. paginator.page * paginator.size < (k + 1) * z /\ paginator.page * paginator.size \in Nat
      <4>1. paginator.page \in Nat /\ paginator.size \in Nat
        BY PaginatorType DEF TableTypes
      <4>2. QED
        BY <1>1, <1>4, <4>1 DEF OnPage
    <3>3. (k + 1) * z = z
      BY <2>1
    <3>4. QED
      BY <1>4, <1>7, <3>1, <3>2, <3>3
  <2>5. QED
    BY <2>3, <2>4
<1>11. QED
  BY <1>8, <1>9, <1>10

\* A click on the paginator.
LEMMA SetsPagePage ==
    ASSUME TableTypes, StreamInv, PageInv, SetsPage
    PROVE  PageInv'
<1>1. PICK p \in Pages, s \in Sizes :
        /\ Turns(p, s)
        /\ \/ s = paginator.size /\ p # paginator.page /\ p * s < shown.total
           \/ s # paginator.size /\ p = PageOfSize(s)
  BY DEF SetsPage
<1>2. PICK g \in Pagination : g = pag'
  BY DEF SetsPage
<1>3. /\ shown # None
      /\ paginator' = [page |-> p, size |-> s]
      /\ Emit(filters, g)
      /\ s # pag.size => g = FirstPage(s)
      /\ s = pag.size => g = [pag EXCEPT !.page = p]
      /\ hasty' = (hasty \/ ~Settled)
      /\ UNCHANGED <<role, last, request, shown, cache, mounted, dead, lost, mixed>>
  BY <1>1, <1>2 DEF Turns
<1>4. filters \in Filters /\ pag \in Pagination /\ 0 \in Pages
  BY BoundAssumption DEF TableTypes, Pages
<1>5. /\ filters' = filters /\ pag' = g
      /\ mounted /\ ~dead => pending' = Emission(filters, g) /\ pending' # None
      /\ ~(mounted /\ ~dead) => pending' = None
  BY <1>3, <1>4, EmitType
<1>6. Emission(filters, g).filters = filters /\ Emission(filters, g).pag = g
  BY <1>4, EmissionType
<1>7. s # pag.size => g.page = 0 /\ g.size = s /\ (\A q \in Pages : g.tokens[q] = None)
  BY <1>3, FirstPageType
<1>8. s = pag.size => g.page = p /\ g.size = s /\ g.tokens = pag.tokens
  BY <1>3, <1>4 DEF Pagination
<1>9. (Standing' <=> Standing) /\ T' = T
  BY <1>3, VariantStays DEF Standing
<1>10. hasty' <=> hasty \/ ~Settled
  BY <1>3
<1>11. Clean' <=> Clean /\ Settled
  BY <1>3, <1>10 DEF Clean
<1>12. PlaceInv'
  BY <1>3, <1>9 DEF PlaceInv, PageInv, Key
<1>13. ASSUME cache' # None, cache'.rows.more, cache'.rows.key = None,
              ~mixed', cache'.at = <<filters', 0, pag'.size>>, pag'.tokens[0] # None
       PROVE  IsToken(pag'.tokens[0], filters', pag'.size, 0)
  <2>1. s = pag.size
    BY <1>4, <1>5, <1>7, <1>13
  <2>2. QED
    BY <1>3, <1>5, <1>8, <1>13, <2>1 DEF PageInv, BesideInv
<1>14. CASE ~(Clean /\ Settled)
  <2>1. ~Clean'
    BY <1>11, <1>14
  <2>2. ReachInv' /\ ShownInv' /\ TokenInv' /\ PaginatorInv'
    BY <2>1 DEF ReachInv, ShownInv, TokenInv, PaginatorInv
  <2>3. OvertakeInv'
    <3>1. CASE hasty'
      BY <3>1 DEF OvertakeInv
    <3>2. CASE ~hasty'
      BY <1>3, <1>10, <3>2 DEF OvertakeInv, Settled
    <3>3. QED
      BY <3>1, <3>2
  <2>4. CacheInv'
    BY <1>3, <1>9, <2>1 DEF CacheInv, PageInv
  <2>5. BesideInv'
    BY <1>13, <2>1 DEF BesideInv
  <2>6. QED
    BY <1>12, <2>2, <2>3, <2>4, <2>5 DEF PageInv
<1>15. CASE Clean /\ Settled
  <2>1. /\ Standing /\ last # None /\ last.pag \in Pagination
        /\ last.filters = filters /\ last.pag.page = pag.page /\ last.pag.size = pag.size
        /\ OnPage(paginator, last.pag)
        /\ shown.more => IsToken(pag.tokens[pag.page], filters, pag.size, pag.page)
        /\ Reaches(filters, pag)
        /\ cache # None => cache.at = Key(last) \/ cache.at[2] = 0
    BY <1>15, AtRest
  <2>2. /\ s = pag.size /\ s = paginator.size =>
             /\ p # pag.page /\ p <= pag.page + 1
             /\ p = pag.page + 1 => shown.more
        /\ s = pag.size /\ s # paginator.size => p = pag.page
        /\ pag.page = 0 /\ ~shown.more => p * s < pag.size
    BY <1>1, <1>15, WhereTo
  <2>3. mounted /\ ~dead /\ pending = None /\ request = None
    BY <1>15 DEF Settled
  <2>4. pending' # None /\ pending'.filters = filters /\ pending'.pag = g
    BY <1>5, <1>6, <2>3
  <2>5. pag.page \in Nat /\ p \in Nat /\ \A q \in Pages : q \in Nat
    BY <1>4, PageType, BoundAssumption DEF Pages
  <2>6. Reaches(filters, g)
    <3>1. SUFFICES ASSUME NEW q \in Pages, q < g.page
                   PROVE  IsToken(g.tokens[q], filters, g.size, q)
      BY DEF Reaches
    <3>2. s = pag.size /\ g.page = p /\ g.size = pag.size /\ g.tokens = pag.tokens
      BY <1>7, <1>8, <2>5, <3>1
    <3>3. CASE q < pag.page
      BY <2>1, <3>2, <3>3 DEF Reaches
    <3>4. CASE ~(q < pag.page)
      <4>1. q = pag.page /\ shown.more
        <5>1. s = paginator.size
          BY <2>2, <3>1, <3>2, <3>4
        <5>2. p <= pag.page + 1 /\ (p = pag.page + 1 => shown.more)
          BY <2>2, <3>2, <5>1
        <5>3. q < p /\ ~(q < pag.page) /\ q \in Nat
          BY <2>5, <3>1, <3>2, <3>4
        <5>4. q = pag.page /\ p = pag.page + 1
          BY <2>5, <5>2, <5>3
        <5>5. QED
          BY <5>2, <5>4
      <4>2. QED
        BY <2>1, <3>2, <4>1
    <3>5. QED
      BY <3>3, <3>4
  <2>7. ReachInv'
    BY <1>3, <1>5, <1>15, <2>4, <2>6 DEF ReachInv, PageInv
  <2>8. OvertakeInv'
    BY <1>3, <2>3 DEF OvertakeInv
  <2>9. ShownInv'
    BY <1>3, <1>9, <1>15 DEF ShownInv, PageInv
  <2>10. TokenInv'
    <3>1. SUFFICES ASSUME last.pag.page = g.page, last.pag.size = g.size, shown.more,
                          g.tokens[g.page] # None
                   PROVE  IsToken(g.tokens[g.page], filters, g.size, g.page)
      BY <1>3, <1>5, <2>4 DEF TokenInv
    <3>2. s = pag.size
      BY <1>4, <1>7, <3>1
    <3>3. QED
      BY <1>8, <2>1, <3>1, <3>2
  <2>11. CacheInv'
    <3>1. SUFFICES ASSUME cache # None, ~mixed, cache.at[2] = 0 \/ g.page # 0
                   PROVE  /\ IsPage(cache.rows, cache.at[1], cache.at[2], cache.at[3])
                          /\ T.cachesKey /\ cache.rows.more => cache.rows.key # None
      BY <1>3, <1>5, <1>9 DEF CacheInv
    <3>2. cache.at[2] = 0 \/ pag.page # 0
      <4>1. CASE cache.at = Key(last)
        BY <2>1, <4>1 DEF Key
      <4>2. QED
        BY <2>1, <3>1, <4>1
    <3>3. QED
      BY <1>15, <3>1, <3>2 DEF CacheInv, PageInv
  <2>12. BesideInv'
    <3>1. ASSUME cache # None, g.page # 0, cache.rows.more, cache.at = <<filters, g.page, g.size>>
          PROVE  IsToken(g.tokens[g.page], filters, g.size, g.page)
      <4>1. s = pag.size /\ g.page = p /\ g.size = s /\ g.tokens = pag.tokens
        BY <1>7, <1>8, <3>1
      <4>2. cache.at[2] = g.page
        BY <3>1
      <4>3. g.page = pag.page
        <5>1. cache.at = Key(last)
          BY <2>1, <3>1, <4>2
        <5>2. QED
          BY <2>1, <4>2, <5>1 DEF Key
      <4>4. QED
        BY <1>15, <3>1, <4>1, <4>3 DEF PageInv, BesideInv
    <3>2. QED
      BY <1>3, <1>5, <1>13, <3>1 DEF BesideInv
  <2>13. PaginatorInv'
    <3>1. SUFFICES ASSUME ~OnPage(paginator', last.pag)
                   PROVE  /\ \/ pag.page # 0
                             \/ /\ shown.more
                                /\ g.page = 0 => g.tokens[0] = None
                          /\ g.page = pag.page /\ g.size = pag.size => pag.page = 0
      BY <1>3, <1>5, <2>1, <2>3, <2>4 DEF PaginatorInv
    <3>2. last.pag.size \in Nat /\ last.pag.size > 0 /\ s \in Nat /\ p * s \in Nat
      <4>1. last.pag.size \in Nat /\ last.pag.size > 0
        BY <2>1, PageType
      <4>2. s \in Nat
        BY SizeAssumption
      <4>3. QED
        BY <2>5, <4>1, <4>2
    <3>3. ~(s = pag.size /\ s # paginator.size)
      <4>1. SUFFICES ASSUME s = pag.size, s # paginator.size PROVE FALSE
        OBVIOUS
      <4>2. paginator'.page = last.pag.page /\ paginator'.size = last.pag.size
        BY <1>3, <2>1, <2>2, <4>1
      <4>3. \A a \in Nat, z \in Nat : z > 0 => a * z <= a * z /\ a * z < (a + 1) * z
        OBVIOUS
      <4>4. last.pag.page \in Nat
        BY <2>1, PageType
      <4>5. OnPage(paginator', last.pag)
        BY <3>2, <4>2, <4>3, <4>4 DEF OnPage
      <4>6. QED
        BY <3>1, <4>5
    <3>4. pag.page = 0 => shown.more
      <4>1. SUFFICES ASSUME pag.page = 0, ~shown.more PROVE FALSE
        OBVIOUS
      <4>2. p * s < pag.size
        BY <2>2, <4>1
      <4>3. paginator'.page * paginator'.size = p * s
        BY <1>3
      <4>4. 0 * last.pag.size = 0 /\ (0 + 1) * last.pag.size = last.pag.size
        BY <3>2
      <4>5. OnPage(paginator', last.pag)
        BY <2>1, <3>2, <4>1, <4>2, <4>3, <4>4 DEF OnPage
      <4>6. QED
        BY <3>1, <4>5
    <3>5. CASE s = pag.size
      <4>1. s = paginator.size /\ p # pag.page /\ g.page = p
        BY <1>8, <2>2, <3>3, <3>5
      <4>2. QED
        BY <3>4, <4>1
    <3>6. CASE s # pag.size
      BY <1>4, <1>7, <3>4, <3>6
    <3>7. QED
      BY <3>5, <3>6
  <2>14. QED
    BY <1>12, <2>7, <2>8, <2>9, <2>10, <2>11, <2>12, <2>13 DEF PageInv
<1>16. QED
  BY <1>14, <1>15

\* Rows keep their place when the total changes.
LEMMA CountedPage ==
    ASSUME NEW r \in Rows, NEW g \in Pagination, NEW f, NEW page, NEW size
    PROVE  /\ IsPage(Counted(r, g), f, page, size) <=> IsPage(r, f, page, size)
           /\ Counted(r, g).more = r.more /\ Counted(r, g).n = r.n
<1>1. PICK x : Counted(r, g) = [r EXCEPT !.total = x]
  BY CountedIs
<1>2. /\ Counted(r, g).filters = r.filters /\ Counted(r, g).of = r.of
      /\ Counted(r, g).pos = r.pos /\ Counted(r, g).n = r.n
      /\ Counted(r, g).more = r.more /\ Counted(r, g).key = r.key
  BY <1>1 DEF Rows
<1>3. QED
  BY <1>2 DEF IsPage

\* No page is before page 0.
LEMMA FirstReaches ==
    ASSUME NEW f, NEW p, p.page = 0
    PROVE  Reaches(f, p)
<1>1. \A q \in Pages : ~(q < 0)
  BY BoundAssumption DEF Pages
<1>2. QED
  BY <1>1 DEF Reaches

\* The paginator of an emission is on its page.
LEMMA OwnPage ==
    ASSUME NEW e \in Pagination, NEW g, g.page = e.page, g.size = e.size
    PROVE  OnPage(g, e)
<1>1. e.page \in Nat /\ e.size \in Nat /\ e.size > 0
  BY PageType
<1>2. \A a \in Nat, z \in Nat : z > 0 => a * z <= a * z /\ a * z < (a + 1) * z
  OBVIOUS
<1>3. QED
  BY <1>1, <1>2 DEF OnPage

\* A dropped emission.
LEMMA DropsPage ==
    ASSUME TableTypes, StreamInv, PageInv, Drops,
           UNCHANGED <<role, user, filters, cache, mounted, dead, mixed>>
    PROVE  PageInv'
<1>1. /\ pending # None /\ pending' = None
      /\ UNCHANGED <<role, filters, cache, mounted, dead, mixed, hasty, last, request, shown,
                     pag, paginator>>
  BY DEF Drops
<1>2. lost' <=> lost \/ (request = None /\ NextIsUnknown)
  BY DEF Drops
<1>3. Clean' <=> Clean /\ ~(request = None /\ NextIsUnknown)
  BY <1>1, <1>2 DEF Clean
<1>4. (Standing' <=> Standing) /\ T' = T
  BY <1>1, VariantStays DEF Standing
<1>5. /\ last # None /\ last.filters = filters
      /\ last.pag.page = pag.page /\ last.pag.size = pag.size
  BY DEF Drops, Same, Key, StreamInv
<1>6. ReachInv'
  BY <1>1, <1>3 DEF ReachInv, PageInv
<1>7. OvertakeInv'
  BY <1>1 DEF OvertakeInv
<1>8. ShownInv'
  BY <1>1, <1>3, <1>4 DEF ShownInv, PageInv
<1>9. TokenInv'
  <2>1. SUFFICES ASSUME Standing, Clean, shown.more, ~NextIsUnknown
                 PROVE  IsToken(pag.tokens[pag.page], filters, pag.size, pag.page)
    BY <1>1, <1>3, <1>4 DEF TokenInv, Standing
  <2>2. pag.tokens[pag.page] # None
    BY <2>1 DEF NextIsUnknown, Standing
  <2>3. QED
    BY <1>5, <2>1, <2>2 DEF TokenInv, PageInv
<1>10. CacheInv'
  BY <1>1, <1>3, <1>4 DEF CacheInv, PageInv
<1>11. PlaceInv'
  BY <1>1, <1>4 DEF PlaceInv, PageInv, Key
<1>12. BesideInv'
  BY <1>1, <1>3 DEF BesideInv, PageInv
<1>13. PaginatorInv'
  <2>1. SUFFICES ASSUME ~dead, Clean, ~(request = None /\ NextIsUnknown)
                 PROVE  OnPage(paginator, last.pag)
    BY <1>1, <1>3 DEF PaginatorInv
  <2>2. SUFFICES ASSUME ~OnPage(paginator, last.pag) PROVE FALSE
    OBVIOUS
  <2>3. /\ last.pag.page = 0
        /\ \/ last.pag.page # 0
           \/ /\ request = None /\ shown # None /\ shown.more
              /\ pag.page = 0 => pag.tokens[0] = None
    BY <1>5, <2>1, <2>2 DEF PaginatorInv, PageInv
  <2>4. request = None /\ NextIsUnknown
    BY <1>5, <2>3 DEF NextIsUnknown
  <2>5. QED
    BY <2>1, <2>4
<1>14. QED
  BY <1>6, <1>7, <1>8, <1>9, <1>10, <1>11, <1>12, <1>13 DEF PageInv

\* What every emission that is not dropped leaves.
LEMMA TakesPage ==
    ASSUME TableTypes, StreamInv, PageInv, Takes, lost' \in BOOLEAN, mixed' = mixed,
           pending.pag.page # 0 => (lost' <=> lost)
    PROVE  /\ pending \in Emissions /\ pending.pag \in Pagination
           /\ pending.filters = filters
           /\ pending.pag.page = pag.page /\ pending.pag.size = pag.size
           /\ pag.page # 0 => (Clean' <=> Clean)
           /\ Clean' => ~mixed /\ Reaches(pending.filters, pending.pag)
           /\ OnPage(paginator', pending.pag)
<1>1. /\ pending # None /\ hasty' = (hasty /\ pending.pag.page # 0)
      /\ paginator' = [page |-> pending.pag.page, size |-> pending.pag.size]
  BY DEF Takes
<1>2. pending \in Emissions /\ pending.pag \in Pagination
  BY <1>1, StreamTypes
<1>3. /\ pending.filters = filters
      /\ pending.pag.page = pag.page /\ pending.pag.size = pag.size
  BY <1>1 DEF StreamInv
<1>4. hasty' <=> hasty /\ pending.pag.page # 0
  BY <1>1
<1>5. pag.page # 0 => (Clean' <=> Clean)
  BY <1>3, <1>4 DEF Clean
<1>6. ASSUME Clean' PROVE ~mixed /\ Reaches(pending.filters, pending.pag)
  <2>1. ~mixed
    BY <1>6 DEF Clean
  <2>2. CASE pag.page = 0
    BY <1>3, <2>1, <2>2, FirstReaches
  <2>3. CASE pag.page # 0
    BY <1>1, <1>5, <1>6, <2>1, <2>3 DEF PageInv, ReachInv
  <2>4. QED
    BY <2>2, <2>3
<1>7. OnPage(paginator', pending.pag)
  <2>1. PICK g : g = paginator'
    OBVIOUS
  <2>2. g.page = pending.pag.page /\ g.size = pending.pag.size
    BY <1>1, <2>1
  <2>3. OnPage(g, pending.pag)
    BY <1>2, <2>2, OwnPage
  <2>4. QED
    BY <2>1, <2>3
<1>8. QED
  BY <1>2, <1>3, <1>5, <1>6, <1>7

\* A request for an emission.
LEMMA AsksPage ==
    ASSUME TableTypes, StreamInv, PageInv, Asks,
           UNCHANGED <<role, user, filters, cache, mounted, dead, mixed>>
    PROVE  PageInv'
<1>1. /\ Takes /\ pending # None /\ pending' = None /\ last' = pending
      /\ UNCHANGED <<role, filters, cache, mounted, dead, mixed, shown, pag>>
  BY DEF Asks, Takes
<1>2. request' # None
  <2>1. PICK e \in Emissions : e = pending
    BY <1>1, StreamTypes
  <2>2. data \in 0..MaxOps /\ user \in Users
    BY BoundAssumption DEF TableTypes
  <2>3. request' \in Fetches
    BY <2>1, <2>2 DEF Asks, Emissions, Fetches
  <2>4. QED
    BY <2>3, Present
<1>3. lost' \in BOOLEAN /\ (lost' <=> lost /\ pending.pag.page # 0)
  BY DEF Asks
<1>4. /\ pending.pag \in Pagination /\ pending.filters = filters
      /\ pending.pag.page = pag.page /\ pending.pag.size = pag.size
      /\ pag.page # 0 => (Clean' <=> Clean)
      /\ Clean' => ~mixed /\ Reaches(pending.filters, pending.pag)
      /\ OnPage(paginator', pending.pag)
  BY <1>1, <1>3, TakesPage
<1>5. ~Standing' /\ T' = T
  BY <1>1, <1>2, VariantStays DEF Standing
<1>6. ReachInv'
  <2>1. SUFFICES ASSUME Clean' PROVE Reaches(filters, pag)
    BY <1>1, <1>4 DEF ReachInv
  <2>2. CASE pag.page = 0
    BY <2>2, FirstReaches
  <2>3. CASE pag.page # 0
    BY <1>4, <2>1, <2>3 DEF ReachInv, PageInv
  <2>4. QED
    BY <2>2, <2>3
<1>7. OvertakeInv' /\ ShownInv' /\ TokenInv' /\ PlaceInv'
  BY <1>1, <1>5 DEF OvertakeInv, ShownInv, TokenInv, PlaceInv
<1>8. CacheInv'
  BY <1>1, <1>4, <1>5 DEF CacheInv, PageInv
<1>9. BesideInv'
  BY <1>1, <1>4 DEF BesideInv, PageInv
<1>10. PaginatorInv'
  BY <1>1, <1>4 DEF PaginatorInv
<1>11. QED
  BY <1>6, <1>7, <1>8, <1>9, <1>10 DEF PageInv

\* An emission that the cache answers.  Of page 0 the cached rows bring their
\* token or lost tells that there is none; of another page the pagination has it.
LEMMA HitsPage ==
    ASSUME TableTypes, StreamInv, PageInv, Hits, lost' \in BOOLEAN,
           UNCHANGED <<role, user, filters, cache, mounted, dead, mixed>>
    PROVE  PageInv'
<1>1. /\ Takes /\ pending # None /\ pending' = None /\ last' = pending
      /\ cache # None /\ cache.at = Key(pending)
      /\ request' = None
      /\ shown' = Counted(cache.rows, pending.pag)
      /\ UNCHANGED <<role, filters, cache, mounted, dead, mixed>>
  BY DEF Hits, Takes
<1>2. PICK toks : toks = TokensCached(pending, cache.rows.key)
  OBVIOUS
<1>3. PICK g : g = [pag EXCEPT !.tokens = toks]
  OBVIOUS
<1>4. pag' = g /\ g.page = pag.page /\ g.size = pag.size /\ g.tokens = toks
  BY <1>2, <1>3, SilentWrite DEF Hits, TableTypes
<1>5. /\ pending.pag.page # 0 => lost' = lost
      /\ pending.pag.page = 0 => (lost' <=> NextIsUnknown')
  <2>1. pending.pag.page # 0 => lost' = lost
    BY DEF Hits
  <2>2. ASSUME pending.pag.page = 0 PROVE lost' <=> NextIsUnknown'
    <3>1. PICK b : b = NextIsUnknown'
      OBVIOUS
    <3>2. lost' = b
      BY <2>2, <3>1 DEF Hits
    <3>3. QED
      BY <3>1, <3>2
  <2>3. QED
    BY <2>1, <2>2
<1>6. /\ pending \in Emissions /\ pending.pag \in Pagination /\ pending.filters = filters
      /\ pending.pag.page = pag.page /\ pending.pag.size = pag.size
      /\ pag.page # 0 => (Clean' <=> Clean)
      /\ Clean' => ~mixed /\ Reaches(pending.filters, pending.pag)
      /\ OnPage(paginator', pending.pag)
  BY <1>1, <1>5, TakesPage
<1>7. cache.rows \in Rows /\ shown' \in Rows /\ shown' # None
  <2>1. cache.rows \in Rows
    BY <1>1, StreamTypes
  <2>2. shown' \in Rows
    BY <1>1, <1>6, <2>1, CountedIs
  <2>3. QED
    BY <2>1, <2>2, Present
<1>8. /\ cache.at = <<filters, pag.page, pag.size>>
      /\ cache.at[1] = filters /\ cache.at[2] = pag.page /\ cache.at[3] = pag.size
  BY <1>1, <1>6 DEF Key
<1>9. T' = T /\ Standing' = ~dead
  <2>1. T' = T
    BY <1>1, VariantStays
  <2>2. Standing' <=> ~dead
    BY <1>1, <1>7 DEF Standing
  <2>3. QED
    BY <2>1, <2>2, Zenon DEF Standing
<1>10. ASSUME Clean'
       PROVE  /\ IsPage(cache.rows, filters, pag.page, pag.size)
              /\ T.cachesKey /\ cache.rows.more => cache.rows.key # None
  <2>1. ~mixed /\ (cache.at[2] = 0 \/ (Clean /\ pag.page # 0))
    BY <1>6, <1>8, <1>10
  <2>2. QED
    BY <1>1, <1>8, <2>1 DEF PageInv, CacheInv
<1>11. ASSUME pag.page # 0
       PROVE  \/ toks = pag.tokens
              \/ /\ T.tokensOf = "current" /\ cache.rows.key # None
                 /\ toks = [pag.tokens EXCEPT ![pag.page] = cache.rows.key]
  BY <1>2, <1>6, <1>11 DEF TokensCached, TokensAfter
<1>12. ASSUME Clean', cache.rows.more
       PROVE  IsToken(toks[pag.page], filters, pag.size, pag.page)
  <2>1. pag.tokens \in [Pages -> Tokens \cup {None}] /\ pag.page \in Pages /\ 0 \in Pages
    BY BoundAssumption DEF TableTypes, Pagination, Pages
  <2>2. CASE pag.page = 0 /\ cache.rows.key # None
    <3>1. toks = [NoTokens EXCEPT ![0] = cache.rows.key]
      BY <1>2, <1>6, <2>2 DEF TokensCached
    <3>2. toks[0] = cache.rows.key
      BY <2>1, <3>1 DEF NoTokens
    <3>3. QED
      BY <1>10, <1>12, <2>2, <3>2 DEF IsPage
  <2>3. CASE pag.page = 0 /\ cache.rows.key = None
    <3>1. toks = pag.tokens
      BY <1>2, <2>3 DEF TokensCached, TokensAfter
    <3>2. ~NextIsUnknown'
      BY <1>5, <1>6, <1>12, <2>3 DEF Clean
    <3>3. shown'.more
      BY <1>1, <1>6, <1>7, <1>12, CountedPage
    <3>4. toks[0] # None
      BY <1>4, <1>7, <2>3, <3>2, <3>3 DEF NextIsUnknown
    <3>5. ~mixed
      BY <1>6, <1>12
    <3>6. QED
      BY <1>1, <1>8, <1>12, <2>3, <3>1, <3>4, <3>5 DEF PageInv, BesideInv
  <2>4. CASE pag.page # 0
    <3>1. Clean
      BY <1>6, <1>12, <2>4
    <3>2. CASE toks = pag.tokens
      <4>1. IsToken(pag.tokens[pag.page], filters, pag.size, pag.page)
        BY <1>1, <1>8, <1>12, <2>4, <3>1 DEF PageInv, BesideInv
      <4>2. QED
        BY <3>2, <4>1
    <3>3. CASE toks = [pag.tokens EXCEPT ![pag.page] = cache.rows.key] /\ cache.rows.key # None
      <4>1. toks[pag.page] = cache.rows.key
        BY <2>1, <3>3
      <4>2. QED
        BY <1>10, <1>12, <3>3, <4>1 DEF IsPage
    <3>4. QED
      BY <1>11, <2>4, <3>2, <3>3
  <2>5. QED
    BY <2>2, <2>3, <2>4
<1>13. ReachInv'
  <2>1. SUFFICES ASSUME Clean' PROVE Reaches(filters, g)
    BY <1>1, <1>4, <1>6 DEF ReachInv
  <2>2. CASE pag.page = 0
    BY <1>4, <2>2, FirstReaches
  <2>3. CASE pag.page # 0
    <3>1. Reaches(filters, pag)
      BY <1>6, <2>1, <2>3 DEF ReachInv, PageInv
    <3>2. \A q \in Pages : q < pag.page => toks[q] = pag.tokens[q]
      <4>1. pag.tokens \in [Pages -> Tokens \cup {None}] /\ pag.page \in Pages
        BY DEF TableTypes, Pagination
      <4>2. \A q \in Pages : q < pag.page => q # pag.page
        BY <4>1, BoundAssumption DEF Pages
      <4>3. QED
        BY <1>11, <2>3, <4>1, <4>2
    <3>3. QED
      BY <1>4, <3>1, <3>2 DEF Reaches
  <2>4. QED
    BY <2>2, <2>3
<1>14. OvertakeInv'
  BY <1>1 DEF OvertakeInv
<1>15. ShownInv'
  <2>1. SUFFICES ASSUME Clean'
        PROVE  /\ IsPage(shown', pending.filters, pending.pag.page, pending.pag.size)
               /\ shown'.total <= pending.pag.page * pending.pag.size + shown'.n
                                    + (IF shown'.more THEN 1 ELSE 0)
    BY <1>1 DEF ShownInv
  <2>2. PICK r : r = shown'
    OBVIOUS
  <2>3. r = Counted(cache.rows, pending.pag)
    BY <1>1, <2>2
  <2>4. IsPage(r, filters, pag.page, pag.size) /\ r.more = cache.rows.more /\ r.n = cache.rows.n
    BY <1>6, <1>7, <1>10, <2>1, <2>3, CountedPage
  <2>5. r.total <= pending.pag.page * pending.pag.size + cache.rows.n
                     + (IF cache.rows.more THEN 1 ELSE 0)
    BY <1>6, <1>7, <2>3, CountedIs
  <2>6. QED
    BY <1>6, <2>2, <2>4, <2>5
<1>16. TokenInv'
  <2>1. SUFFICES ASSUME Clean', shown'.more
                 PROVE  IsToken(g.tokens[g.page], filters, g.size, g.page)
    BY <1>1, <1>4 DEF TokenInv
  <2>2. cache.rows.more
    BY <1>1, <1>6, <1>7, <2>1, CountedPage
  <2>3. QED
    BY <1>4, <1>12, <2>1, <2>2
<1>17. CacheInv'
  BY <1>1, <1>4, <1>6, <1>9 DEF CacheInv, PageInv
<1>18. PlaceInv'
  BY <1>1 DEF PlaceInv, Key
<1>19. BesideInv'
  <2>1. ASSUME Clean', cache.rows.more
        PROVE  IsToken(g.tokens[g.page], filters, g.size, g.page)
    BY <1>4, <1>12, <2>1
  <2>2. ASSUME cache.rows.more, cache.rows.key = None, ~mixed,
               cache.at = <<filters, 0, g.size>>, g.tokens[0] # None
        PROVE  IsToken(g.tokens[0], filters, g.size, 0)
    <3>1. toks = pag.tokens
      BY <1>2, <2>2 DEF TokensCached, TokensAfter
    <3>2. QED
      BY <1>1, <1>4, <2>2, <3>1 DEF BesideInv, PageInv
  <2>3. QED
    BY <1>1, <1>4, <2>1, <2>2 DEF BesideInv
<1>20. PaginatorInv'
  BY <1>1, <1>6 DEF PaginatorInv
<1>21. QED
  BY <1>13, <1>14, <1>15, <1>16, <1>17, <1>18, <1>19, <1>20 DEF PageInv

\* The answer to a request of page 0, or with the right token, is the page that
\* was asked for.
LEMMA AnswerIsPage ==
    ASSUME NEW e, NEW v \in 0..MaxOps,
           e.filters \in Filters, e.pag \in Pagination, e.user \in Users,
           e.pag.page = 0 \/ Reaches(e.filters, e.pag)
    PROVE  /\ IsPage(Answer(e, v), e.filters, e.pag.page, e.pag.size)
           /\ Answer(e, v).more => Answer(e, v).key # None
<1>1. PICK r : r = Answer(e, v)
  OBVIOUS
<1>2. /\ r \in Rows /\ r.filters = e.filters
      /\ r.pos = (IF TokenFor(e) = None THEN 0 ELSE TokenFor(e).pos)
      /\ r.of = (IF TokenFor(e) = None THEN e.filters ELSE TokenFor(e).filters)
      /\ r.n <= e.pag.size
      /\ r.more => r.n = e.pag.size
      /\ r.more <=> r.key # None
      /\ r.more => r.key = [filters |-> e.filters, pos |-> r.pos + r.n]
  BY <1>1, AnswerIs
<1>3. PICK k \in Nat, s \in Nat : k = e.pag.page /\ s = e.pag.size /\ k \in Pages
  BY PageType
<1>4. r.pos = k * s /\ r.of = e.filters
  <2>1. CASE k = 0
    <3>1. TokenFor(e) = None
      BY <1>3, <2>1 DEF TokenFor
    <3>2. QED
      BY <1>2, <1>3, <2>1, <3>1
  <2>2. CASE k # 0
    <3>1. k - 1 \in Pages /\ k - 1 < k
      BY <1>3, <2>2, BoundAssumption DEF Pages
    <3>2. TokenFor(e) = e.pag.tokens[k - 1]
      BY <1>3, <2>2 DEF TokenFor
    <3>3. IsToken(TokenFor(e), e.filters, s, k - 1)
      BY <1>3, <2>2, <3>1, <3>2 DEF Reaches
    <3>4. (k - 1) + 1 = k /\ k * s \in Nat
      BY <1>3
    <3>5. TokenFor(e) = [filters |-> e.filters, pos |-> k * s]
      BY <3>3, <3>4 DEF IsToken
    <3>6. [filters |-> e.filters, pos |-> k * s] \in Tokens
      BY <3>4 DEF Tokens
    <3>7. TokenFor(e) # None
      BY <3>5, <3>6, Present
    <3>8. QED
      BY <1>2, <3>5, <3>7
  <2>3. QED
    BY <2>1, <2>2
<1>5. ASSUME r.key # None PROVE r.more /\ IsToken(r.key, e.filters, s, k)
  <2>1. r.more /\ r.n = s /\ r.key = [filters |-> e.filters, pos |-> k * s + s]
    BY <1>2, <1>3, <1>4, <1>5
  <2>2. k * s + s = (k + 1) * s
    BY <1>3
  <2>3. QED
    BY <2>1, <2>2 DEF IsToken
<1>6. IsPage(r, e.filters, k, s)
  BY <1>2, <1>3, <1>4, <1>5 DEF IsPage
<1>7. QED
  BY <1>1, <1>2, <1>3, <1>6

\* Rows without their token are the same page.
LEMMA ForgetPage ==
    ASSUME NEW r \in Rows, NEW f, NEW page, NEW size, IsPage(r, f, page, size)
    PROVE  IsPage(Forget(r), f, page, size) /\ Forget(r).more = r.more
<1>1. PICK x : Forget(r) = [r EXCEPT !.key = x] /\ (x = r.key \/ x = None)
  BY ForgetType
<1>2. /\ Forget(r).filters = r.filters /\ Forget(r).of = r.of
      /\ Forget(r).pos = r.pos /\ Forget(r).n = r.n
      /\ Forget(r).more = r.more /\ Forget(r).key = x
  BY <1>1 DEF Rows
<1>3. QED
  BY <1>1, <1>2 DEF IsPage

\* An answer.
LEMMA AnsweredPage ==
    ASSUME TableTypes, StreamInv, PageInv, NEW v, Answered(v)
    PROVE  PageInv'
<1>1. PICK r : r = Answer(request, v)
  OBVIOUS
<1>2. PICK toks : toks = TokensAfter(request, r.key)
  OBVIOUS
<1>3. PICK g : g = [pag EXCEPT !.tokens = toks]
  OBVIOUS
<1>4. PICK w : w = Forget(r)
  OBVIOUS
<1>5. /\ request # None /\ request' = None
      /\ pag' = g
      /\ cache' = [at |-> Key(request), rows |-> w]
      /\ UNCHANGED <<role, filters, pending, last, dead, mounted, lost, hasty, mixed, paginator>>
      /\ v \in request.ver..data
  BY <1>1, <1>2, <1>3, <1>4, AnsweredIs DEF Answers, view, ui, history
<1>6. /\ mounted /\ ~dead /\ last # None
      /\ request.pag = last.pag /\ request.filters = last.filters
      /\ pending = None => /\ last.filters = filters
                           /\ last.pag.page = pag.page /\ last.pag.size = pag.size
  BY <1>5 DEF StreamInv
<1>7. /\ request.filters \in Filters /\ request.pag \in Pagination /\ request.user \in Users
      /\ v \in 0..MaxOps /\ pag \in Pagination
  BY <1>5, FetchIs DEF TableTypes
<1>8. r \in Rows /\ (r.more <=> r.key # None)
  BY <1>1, <1>7, AnswerIs
<1>9. PICK p \in Pagination : /\ shown' = Counted(r, p)
                              /\ p = pag \/ p = last.pag
  <2>1. shown' = Counted(r, IF T.tokensOf = "request" THEN request.pag ELSE pag)
    BY <1>1, AnsweredIs DEF Answers
  <2>2. QED
    BY <1>6, <1>7, <2>1
<1>10. g.page = pag.page /\ g.size = pag.size /\ g.tokens = toks
  BY <1>3, <1>7, SilentWrite
<1>11. w \in Rows /\ w # None /\ (w.key = None \/ w.key = r.key) /\ (T.cachesKey => w = r)
       /\ w.more = r.more
  <2>1. w \in Rows /\ (w.key = None \/ w.key = r.key) /\ (T.cachesKey => w = r)
    BY <1>4, <1>8, ForgetType
  <2>2. w.more = r.more
    BY <1>4, <1>8, ForgetType DEF Rows
  <2>3. QED
    BY <2>1, <2>2, Present
<1>12. /\ cache'.at = Key(request) /\ cache'.rows = w
       /\ Key(request) = <<last.filters, last.pag.page, last.pag.size>>
       /\ cache'.at[1] = last.filters /\ cache'.at[2] = last.pag.page
       /\ cache'.at[3] = last.pag.size
  BY <1>5, <1>6 DEF Key
<1>13. (Clean' <=> Clean) /\ T' = T
  BY <1>5, VariantStays DEF Clean
<1>14. shown' \in Rows /\ shown'.more = r.more /\ shown'.n = r.n
       /\ shown'.total <= p.page * p.size + r.n + (IF r.more THEN 1 ELSE 0)
  <2>1. PICK x : x = Counted(r, p)
    OBVIOUS
  <2>2. x \in Rows /\ x.more = r.more /\ x.n = r.n
        /\ x.total <= p.page * p.size + r.n + (IF r.more THEN 1 ELSE 0)
    BY <1>8, <2>1, CountedIs, CountedPage
  <2>3. QED
    BY <1>9, <2>1, <2>2
<1>15. ASSUME Clean \/ last.pag.page = 0
       PROVE  /\ IsPage(r, last.filters, last.pag.page, last.pag.size)
              /\ IsPage(w, last.filters, last.pag.page, last.pag.size)
  <2>1. request.pag.page = 0 \/ Reaches(request.filters, request.pag)
    BY <1>6, <1>15 DEF PageInv, ReachInv
  <2>2. IsPage(r, request.filters, request.pag.page, request.pag.size)
    BY <1>1, <1>7, <2>1, AnswerIsPage
  <2>3. QED
    BY <1>4, <1>6, <1>8, <2>2, ForgetPage
<1>16. Clean /\ pag.page # 0 => pending = None
  BY <1>5 DEF PageInv, OvertakeInv, Clean
<1>17. \/ toks = pag.tokens /\ r.key = None
       \/ /\ r.key # None /\ T.tokensOf = "request"
          /\ toks = [last.pag.tokens EXCEPT ![last.pag.page] = r.key]
       \/ /\ r.key # None /\ T.tokensOf # "request"
          /\ toks = [pag.tokens EXCEPT ![pag.page] = r.key]
  BY <1>2, <1>6 DEF TokensAfter
<1>18. /\ pag.tokens \in [Pages -> Tokens \cup {None}] /\ pag.page \in Pages
       /\ last.pag.tokens \in [Pages -> Tokens \cup {None}] /\ last.pag.page \in Pages
  BY <1>6, <1>7 DEF Pagination
<1>19. ASSUME r.more, last.pag.page = pag.page
       PROVE  toks[pag.page] = r.key
  BY <1>8, <1>17, <1>18, <1>19
<1>20. ReachInv'
  <2>1. SUFFICES ASSUME Clean PROVE Reaches(filters, g)
    BY <1>5, <1>13 DEF ReachInv, PageInv
  <2>2. CASE pag.page = 0
    BY <1>10, <2>2, FirstReaches
  <2>3. CASE pag.page # 0
    <3>1. Reaches(filters, pag) /\ Reaches(last.filters, last.pag)
      BY <1>6, <2>1 DEF ReachInv, PageInv
    <3>2. last.filters = filters /\ last.pag.page = pag.page /\ last.pag.size = pag.size
      BY <1>6, <1>16, <2>1, <2>3
    <3>3. \A q \in Pages : q < pag.page => q # pag.page
      BY <1>18, BoundAssumption DEF Pages
    <3>4. \A q \in Pages : q < pag.page => toks[q] = pag.tokens[q] \/ toks[q] = last.pag.tokens[q]
      BY <1>17, <1>18, <3>2, <3>3
    <3>5. QED
      BY <1>10, <3>1, <3>2, <3>4 DEF Reaches
  <2>4. QED
    BY <2>2, <2>3
<1>21. OvertakeInv'
  BY <1>5 DEF OvertakeInv
<1>22. ShownInv'
  <2>1. SUFFICES ASSUME Clean
        PROVE  /\ IsPage(shown', last.filters, last.pag.page, last.pag.size)
               /\ shown'.total <= last.pag.page * last.pag.size + shown'.n
                                    + (IF shown'.more THEN 1 ELSE 0)
    BY <1>5, <1>13 DEF ShownInv
  <2>2. PICK x : x = Counted(r, p)
    OBVIOUS
  <2>3. IsPage(x, last.filters, last.pag.page, last.pag.size)
    BY <1>8, <1>15, <2>1, <2>2, CountedPage
  <2>4. /\ last.pag.page * last.pag.size \in Nat /\ p.page * p.size \in Nat
        /\ p.page * p.size <= last.pag.page * last.pag.size
    <3>1. /\ last.pag.page \in Nat /\ last.pag.size \in Nat
          /\ p.page \in Nat /\ p.size \in Nat
      BY <1>6, <1>7, PageType
    <3>2. last.pag.page * last.pag.size \in Nat /\ p.page * p.size \in Nat
      BY <3>1
    <3>3. CASE p.page = last.pag.page /\ p.size = last.pag.size
      BY <3>2, <3>3
    <3>4. CASE p.page = 0
      <4>1. p.page * p.size = 0
        BY <3>1, <3>4
      <4>2. QED
        BY <3>2, <4>1
    <3>5. QED
      BY <1>6, <1>9, <1>16, <2>1, <3>3, <3>4
  <2>5. PICK y \in Nat, z \in Nat : y = p.page * p.size /\ z = last.pag.page * last.pag.size
    BY <2>4
  <2>6. r.n \in Nat /\ shown'.total \in Nat
    BY <1>8, <1>14 DEF Rows
  <2>7. shown'.total <= z + shown'.n + (IF shown'.more THEN 1 ELSE 0)
    BY <1>14, <2>4, <2>5, <2>6
  <2>8. QED
    BY <1>9, <2>2, <2>3, <2>5, <2>7
<1>23. TokenInv'
  <2>1. SUFFICES ASSUME Clean, r.more,
                        last.filters = filters, last.pag.page = pag.page, last.pag.size = pag.size
                 PROVE  IsToken(toks[pag.page], filters, pag.size, pag.page)
    BY <1>5, <1>10, <1>13, <1>14 DEF TokenInv
  <2>2. toks[pag.page] = r.key
    BY <1>19, <2>1
  <2>3. QED
    BY <1>8, <1>15, <2>1, <2>2 DEF IsPage
<1>24. CacheInv'
  <2>1. SUFFICES ASSUME last.pag.page = 0 \/ Clean
                 PROVE  /\ IsPage(w, last.filters, last.pag.page, last.pag.size)
                        /\ T.cachesKey /\ w.more => w.key # None
    BY <1>5, <1>12, <1>13 DEF CacheInv
  <2>2. QED
    BY <1>8, <1>11, <1>15, <2>1
<1>25. PlaceInv'
  BY <1>5, <1>6, <1>12 DEF PlaceInv, Key
<1>26. BesideInv'
  <2>1. ASSUME Clean, pag.page # 0, r.more
        PROVE  IsToken(toks[pag.page], filters, pag.size, pag.page)
    <3>1. last.filters = filters /\ last.pag.page = pag.page /\ last.pag.size = pag.size
      BY <1>6, <1>16, <2>1
    <3>2. QED
      BY <1>8, <1>15, <1>19, <2>1, <3>1 DEF IsPage
  <2>2. ASSUME r.more, w.key = None, Key(request) = <<filters, 0, pag.size>>
        PROVE  IsToken(toks[0], filters, pag.size, 0)
    <3>1. last.filters = filters /\ last.pag.page = 0 /\ last.pag.size = pag.size
      BY <1>12, <2>2
    <3>2. T.tokensOf = "request"
      <4>1. ~T.cachesKey
        BY <1>8, <1>11, <2>2
      <4>2. QED
        BY <4>1, Variants DEF TableTypes
    <3>3. toks[0] = r.key
      BY <1>8, <1>17, <1>18, <2>2, <3>1, <3>2
    <3>4. QED
      BY <1>8, <1>15, <2>2, <3>1, <3>3 DEF IsPage
  <2>3. cache'.rows.more = r.more
    BY <1>11, <1>12
  <2>4. QED
    BY <1>5, <1>10, <1>11, <1>12, <1>13, <2>1, <2>2, <2>3 DEF BesideInv
<1>27. PaginatorInv'
  BY <1>5, <1>10, <1>13 DEF PaginatorInv, PageInv
<1>28. QED
  BY <1>20, <1>21, <1>22, <1>23, <1>24, <1>25, <1>26, <1>27 DEF PageInv

\* A table that goes, and one that comes, with the subjects as they are or with
\* page 0 without tokens.
LEMMA FreshPage ==
    ASSUME PageInv, role' = role, mixed' = mixed, cache' = None \/ cache' = cache,
           last' = None, request' = None, shown' = None,
           pending' # None => pending'.filters = filters' /\ pending'.pag = pag',
           \/ UNCHANGED <<filters, pag, lost, hasty>>
           \/ pag'.page = 0 /\ pag'.tokens[0] = None
    PROVE  PageInv'
<1>1. T' = T /\ ~Standing'
  BY VariantStays DEF Standing
<1>2. ReachInv'
  <2>1. CASE UNCHANGED <<filters, pag, lost, hasty>>
    BY <2>1 DEF PageInv, ReachInv, Clean
  <2>2. CASE pag'.page = 0
    <3>1. PICK g : g = pag'
      OBVIOUS
    <3>2. PICK f : f = filters'
      OBVIOUS
    <3>3. Reaches(f, g)
      BY <2>2, <3>1, FirstReaches
    <3>4. QED
      BY <3>1, <3>2, <3>3 DEF ReachInv
  <2>3. QED
    BY <2>1, <2>2
<1>3. OvertakeInv' /\ ShownInv' /\ TokenInv' /\ PlaceInv' /\ PaginatorInv'
  BY <1>1 DEF OvertakeInv, ShownInv, TokenInv, PlaceInv, PaginatorInv
<1>4. CacheInv' /\ BesideInv'
  <2>1. CASE UNCHANGED <<filters, pag, lost, hasty>>
    BY <1>1, <2>1 DEF PageInv, CacheInv, BesideInv, Clean
  <2>2. CASE pag'.page = 0 /\ pag'.tokens[0] = None
    BY <1>1, <2>2 DEF PageInv, CacheInv, BesideInv
  <2>3. QED
    BY <2>1, <2>2
<1>5. QED
  BY <1>2, <1>3, <1>4 DEF PageInv

\* Steps that touch the version of the rows or empty the cache, and no more.
LEMMA StillPage ==
    ASSUME PageInv, cache' = None \/ cache' = cache,
           UNCHANGED <<role, filters, pag, paginator, pending, last, request, dead, lost, hasty,
                       mixed>>,
           shown' = None <=> shown = None,
           shown # None => /\ shown'.filters = shown.filters /\ shown'.of = shown.of
                           /\ shown'.pos = shown.pos /\ shown'.n = shown.n
                           /\ shown'.more = shown.more /\ shown'.key = shown.key
                           /\ shown'.total = shown.total
    PROVE  PageInv'
<1>1. T' = T /\ (Standing' <=> Standing) /\ (Clean' <=> Clean)
  BY VariantStays DEF Standing, Clean
<1>2. ReachInv' /\ OvertakeInv'
  BY <1>1 DEF PageInv, ReachInv, OvertakeInv
<1>3. ShownInv'
  <2>1. SUFFICES ASSUME Standing, Clean
                 PROVE  /\ IsPage(shown', last.filters, last.pag.page, last.pag.size)
                        /\ shown'.total <= last.pag.page * last.pag.size + shown'.n
                                             + (IF shown'.more THEN 1 ELSE 0)
    BY <1>1 DEF ShownInv
  <2>2. /\ IsPage(shown, last.filters, last.pag.page, last.pag.size)
        /\ shown.total <= last.pag.page * last.pag.size + shown.n
                            + (IF shown.more THEN 1 ELSE 0)
    BY <2>1 DEF PageInv, ShownInv
  <2>3. shown # None
    BY <2>1 DEF Standing
  <2>4. QED
    BY <2>2, <2>3 DEF IsPage
<1>4. TokenInv'
  BY <1>1 DEF PageInv, TokenInv, Standing
<1>5. CacheInv' /\ PlaceInv' /\ BesideInv'
  BY <1>1 DEF PageInv, CacheInv, PlaceInv, BesideInv, Key
<1>6. PaginatorInv'
  BY <1>1 DEF PageInv, PaginatorInv
<1>7. QED
  BY <1>2, <1>3, <1>4, <1>5, <1>6 DEF PageInv

\* New filters, whoever sets them.
LEMMA SetsFiltersPage ==
    ASSUME TableTypes, StreamInv, PageInv, SetsFilters
    PROVE  PageInv'
BY RefilterPage DEF SetsFilters

\* The end of the debounce.
LEMMA DebouncePage ==
    ASSUME TableTypes, StreamInv, PageInv, Debounce
    PROVE  PageInv'
<1>1. /\ Drops \/ Hits \/ Asks
      /\ UNCHANGED <<role, user, filters, cache, mounted, dead, mixed>>
  BY DebounceIs DEF view
<1>2. lost' \in BOOLEAN
  BY DebounceTypes DEF TableTypes
<1>3. CASE Drops
  BY <1>1, <1>3, DropsPage
<1>4. CASE Hits
  BY <1>1, <1>2, <1>4, HitsPage
<1>5. CASE Asks
  BY <1>1, <1>5, AsksPage
<1>6. QED
  BY <1>1, <1>3, <1>4, <1>5

\* A failure: the rows go, or the stream ends.
LEMMA FailedPage ==
    ASSUME TableTypes, StreamInv, PageInv, Failed
    PROVE  PageInv'
<1>1. /\ request # None /\ request' = None /\ last # None /\ ~dead
      /\ shown' = (IF T.catches THEN None ELSE shown)
      /\ dead' = ~T.catches
      /\ pending' = (IF dead' THEN None ELSE pending)
      /\ UNCHANGED <<role, filters, pag, paginator, last, cache, lost, hasty, mixed>>
  BY DEF Failed, view, ui, history, StreamInv
<1>2. T.catches \in BOOLEAN
  BY Variants DEF TableTypes
<1>3. dead' <=> ~T.catches
  BY <1>1, <1>2
<1>4. T' = T /\ ~Standing' /\ (Clean' <=> Clean)
  BY <1>1, <1>3, VariantStays DEF Standing, Clean
<1>5. ReachInv'
  BY <1>1, <1>4 DEF PageInv, ReachInv
<1>6. OvertakeInv' /\ ShownInv' /\ TokenInv' /\ PlaceInv'
  BY <1>1, <1>4 DEF OvertakeInv, ShownInv, TokenInv, PlaceInv
<1>7. CacheInv' /\ BesideInv'
  BY <1>1, <1>4 DEF PageInv, CacheInv, BesideInv
<1>8. PaginatorInv'
  <2>1. SUFFICES ASSUME ~dead', Clean, ~OnPage(paginator, last.pag)
                 PROVE  /\ pending # None
                        /\ last.pag.page # 0
                        /\ pag.page = last.pag.page /\ pag.size = last.pag.size => last.pag.page = 0
    BY <1>1, <1>4 DEF PaginatorInv
  <2>2. QED
    BY <1>1, <2>1 DEF PageInv, PaginatorInv
<1>9. QED
  BY <1>5, <1>6, <1>7, <1>8 DEF PageInv

\* The table goes, or a new one comes.
LEMMA TablePage ==
    ASSUME TableTypes, StreamInv, PageInv, Retry \/ Leave \/ LoadingTimeout \/ Return
    PROVE  PageInv'
<1>1. filters \in Filters /\ pag \in Pagination
  BY DEF TableTypes
<1>2. Emission(filters, pag).filters = filters /\ Emission(filters, pag).pag = pag
  BY <1>1, EmissionType
<1>3. /\ Unmount \/ Mount(filters, pag)
      /\ UNCHANGED <<role, filters, pag, cache, lost, hasty, mixed>>
  BY DEF Retry, Leave, LoadingTimeout, Return, view, ui, history
<1>4. /\ last' = None /\ request' = None /\ shown' = None
      /\ pending' # None => pending'.filters = filters' /\ pending'.pag = pag'
  BY <1>2, <1>3 DEF Unmount, Mount
<1>5. QED
  BY <1>3, <1>4, FreshPage

\* Another user starts from page 0.
LEMMA ChangeUserPage ==
    ASSUME TableTypes, StreamInv, PageInv, NEW u \in Users, ChangeUser(u)
    PROVE  PageInv'
<1>1. filters' \in Filters /\ pag' = FirstPage(DefaultSize)
  BY ChangeUserTypes DEF TableTypes, ChangeUser
<1>2. PICK f \in Filters : f = filters'
  BY <1>1
<1>3. PICK p \in Pagination : p = FirstPage(DefaultSize) /\ p.page = 0 /\ p.tokens[0] = None
  BY SizeAssumption, FirstPageType
<1>4. /\ Unmount \/ Mount(f, p)
      /\ UNCHANGED <<role, mixed>>
      /\ cache' = None \/ cache' = cache
  BY <1>2, <1>3 DEF ChangeUser
<1>5. Emission(f, p).filters = f /\ Emission(f, p).pag = p
  BY EmissionType
<1>6. /\ last' = None /\ request' = None /\ shown' = None
      /\ pending' # None => pending'.filters = filters' /\ pending'.pag = pag'
  BY <1>1, <1>2, <1>3, <1>4, <1>5 DEF Unmount, Mount
<1>7. QED
  BY <1>1, <1>3, <1>4, <1>6, FreshPage

\* A view's answer is page 0 of its filters, or is known to be mixed.
LEMMA ViewAnsweredPage ==
    ASSUME TableTypes, StreamInv, ViewInv, PageInv, NEW v, ViewAnswered(v)
    PROVE  PageInv'
<1>1. asked # None /\ v \in asked.ver..data
  BY ViewAnsweredIs
<1>2. PICK d \in Dates :
        /\ mixed' = (mixed \/ d # asked.filters.dates)
        /\ asked.outlives => d = asked.filters.dates
        /\ \/ cache' = cache
           \/ cache' = [at |-> Key(Emission([asked.filters EXCEPT !.dates = d], asked.pag)),
                        rows |-> Answer(asked, v)]
  BY ViewAnsweredIs
<1>3. UNCHANGED <<role, filters, pag, paginator, pending, last, request, dead, shown, lost, hasty>>
  BY ViewAnsweredIs DEF ui, stream, history
<1>4. /\ asked.filters \in Filters /\ asked.pag \in Pagination /\ asked.user \in Users
      /\ v \in 0..MaxOps /\ asked.pag.page = 0
  BY <1>1, AskedIs DEF ViewInv
<1>5. mixed' <=> mixed \/ d # asked.filters.dates
  BY <1>2
<1>6. T' = T /\ (Standing' <=> Standing)
  BY <1>3, VariantStays DEF Standing
<1>7. Clean' => Clean
  BY <1>3, <1>5 DEF Clean
<1>8. ReachInv' /\ ShownInv' /\ TokenInv' /\ OvertakeInv' /\ PaginatorInv'
  BY <1>3, <1>6, <1>7 DEF PageInv, ReachInv, ShownInv, TokenInv, OvertakeInv, PaginatorInv
<1>9. CASE cache' = cache
  <2>1. CacheInv' /\ PlaceInv' /\ BesideInv'
    BY <1>3, <1>5, <1>6, <1>7, <1>9 DEF PageInv, CacheInv, PlaceInv, BesideInv, Key
  <2>2. QED
    BY <1>8, <2>1 DEF PageInv
<1>10. CASE cache' # cache
  <2>1. PICK r : r = Answer(asked, v)
    OBVIOUS
  <2>2. PICK e : e = Emission([asked.filters EXCEPT !.dates = d], asked.pag)
    OBVIOUS
  <2>3. [asked.filters EXCEPT !.dates = d] \in Filters
    BY <1>4 DEF Filters
  <2>4. /\ e.filters = [asked.filters EXCEPT !.dates = d] /\ e.pag = asked.pag
        /\ Key(e)[1] = e.filters /\ Key(e)[2] = 0 /\ Key(e)[3] = asked.pag.size
    BY <1>4, <2>2, <2>3, EmissionType DEF Key
  <2>5. cache' = [at |-> Key(e), rows |-> r]
    BY <1>2, <1>10, <2>1, <2>2
  <2>6. cache'.at = Key(e) /\ cache'.rows = r
    BY <2>5
  <2>7. /\ IsPage(r, asked.filters, 0, asked.pag.size) /\ (r.more => r.key # None)
    BY <1>4, <2>1, AnswerIsPage
  <2>8. ~mixed' => e.filters = asked.filters
    BY <1>4, <1>5, <2>4 DEF Filters
  <2>9. CacheInv'
    <3>1. SUFFICES ASSUME ~mixed'
                   PROVE  /\ IsPage(r, e.filters, 0, asked.pag.size)
                          /\ r.more => r.key # None
      BY <2>4, <2>6 DEF CacheInv
    <3>2. QED
      BY <2>7, <2>8, <3>1
  <2>10. PlaceInv'
    BY <2>4, <2>6 DEF PlaceInv
  <2>11. BesideInv'
    <3>1. cache'.at[2] = 0
      BY <2>4, <2>6
    <3>2. ASSUME pag'.page # 0, cache'.at = <<filters', pag'.page, pag'.size>> PROVE FALSE
      BY <3>1, <3>2
    <3>3. ~(cache'.rows.more /\ cache'.rows.key = None)
      BY <2>6, <2>7
    <3>4. QED
      BY <3>2, <3>3 DEF BesideInv
  <2>12. QED
    BY <1>8, <2>9, <2>10, <2>11 DEF PageInv
<1>11. QED
  BY <1>9, <1>10

\* The other steps of the views, and changes of the orders.
LEMMA ViewPage ==
    ASSUME TableTypes, StreamInv, ViewInv, PageInv,
           \/ \E o \in BOOLEAN : ViewAsks(o)
           \/ ViewFailed \/ Edit \/ Delete \/ FiveMinutes
    PROVE  PageInv'
<1>1. CASE \E o \in BOOLEAN : ViewAsks(o)
  <2>1. UNCHANGED <<role, filters, pag, paginator, pending, last, request, dead, lost, hasty,
                    mixed, shown, cache>>
    BY <1>1 DEF ViewAsks, ui, stream, history
  <2>2. QED
    BY <2>1, StillPage
<1>2. CASE ViewFailed
  <2>1. UNCHANGED <<role, filters, pag, paginator, cache, lost, hasty, mixed>>
    BY <1>2 DEF ViewFailed, ui, history
  <2>2. CASE role = "dispatcher"
    <3>1. Unmount
      BY <1>2, <2>2 DEF ViewFailed
    <3>2. last' = None /\ request' = None /\ shown' = None /\ pending' = None
      BY <3>1 DEF Unmount
    <3>3. QED
      BY <2>1, <3>2, FreshPage
  <2>3. CASE role # "dispatcher"
    <3>1. UNCHANGED <<pending, last, request, dead, shown>>
      BY <1>2, <2>3 DEF ViewFailed, stream
    <3>2. QED
      BY <2>1, <3>1, StillPage
  <2>4. QED
    BY <2>2, <2>3
<1>3. CASE Edit
  <2>1. /\ UNCHANGED <<role, filters, pag, paginator, pending, last, request, dead, lost, hasty,
                       mixed, shown>>
        /\ cache' = None
    BY <1>3 DEF Edit, ui, stream
  <2>2. QED
    BY <2>1, StillPage
<1>4. CASE Delete
  <2>1. /\ UNCHANGED <<role, filters, pag, paginator, pending, last, request, dead, lost, hasty,
                       mixed>>
        /\ cache' = None /\ shown # None /\ shown' = [shown EXCEPT !.ver = data + 1]
    BY <1>4 DEF Delete, ui, stream, view
  <2>2. shown \in Rows /\ shown' \in Rows
    <3>1. data + 1 \in 0..MaxOps
      BY <1>4, DoesType DEF Delete, TableTypes
    <3>2. QED
      BY <2>1, <3>1, StreamTypes DEF Rows
  <2>3. shown' # None
    BY <2>2, Present
  <2>4. /\ shown'.filters = shown.filters /\ shown'.of = shown.of
        /\ shown'.pos = shown.pos /\ shown'.n = shown.n
        /\ shown'.more = shown.more /\ shown'.key = shown.key
        /\ shown'.total = shown.total
    BY <2>1, <2>2 DEF Rows
  <2>5. QED
    BY <2>1, <2>3, <2>4, StillPage
<1>5. CASE FiveMinutes
  <2>1. /\ UNCHANGED <<role, filters, pag, paginator, pending, last, request, dead, lost, hasty,
                       mixed, shown>>
        /\ cache' = None
    BY <1>5 DEF FiveMinutes, ui, stream, history, view
  <2>2. QED
    BY <2>1, StillPage
<1>6. QED
  BY <1>1, <1>2, <1>3, <1>4, <1>5

\* Every step keeps what exists with what.
LEMMA StreamStep ==
    ASSUME TableTypes, StreamInv, ViewInv, [TableNext]_tableVars
    PROVE  StreamInv' /\ ViewInv'
<1>1. ASSUME NEW d \in Dates, SetDates(d) PROVE StreamInv' /\ ViewInv'
  BY <1>1, SetDatesSets, SetsFiltersStream
<1>2. ASSUME NEW w \in Whos, SetWho(w) PROVE StreamInv' /\ ViewInv'
  <2>1. CASE SetsFilters
    BY <2>1, SetsFiltersStream
  <2>2. CASE /\ UNCHANGED <<filters, pag, pending, cache, loading, error>>
             /\ UNCHANGED <<role, view, user, card, shared, paginator, last, request, shown,
                            mounted, dead, data, history>>
    BY <2>2, StillStream DEF ViewInv, view
  <2>3. QED
    BY <1>2, <2>1, <2>2, SetWhoSets
<1>3. CASE CarrierClear
  BY <1>3, CarrierClearSets, SetsFiltersStream
<1>4. ASSUME NEW p \in Pages, TurnPage(p) PROVE StreamInv' /\ ViewInv'
  BY <1>4, TurnPageSets, SetsPageStream
<1>5. ASSUME NEW s \in Sizes, SetSize(s) PROVE StreamInv' /\ ViewInv'
  BY <1>5, SetSizeSets, SetsPageStream
<1>6. CASE Retry \/ Leave \/ LoadingTimeout \/ Return
  BY <1>6, TableStream
<1>7. CASE Edit \/ Delete \/ FiveMinutes
  BY <1>7, ChangeStream
<1>8. CASE UpdateStatus
  BY <1>8, UpdateStatusSets, SetsFiltersStream
<1>9. ASSUME NEW u \in Users, ChangeUser(u) PROVE StreamInv' /\ ViewInv'
  BY <1>9, ChangeUserStream
<1>10. CASE \/ \E o \in BOOLEAN : ViewAsks(o)
            \/ \E v \in 0..MaxOps : ViewAnswered(v)
            \/ ViewFailed
  BY <1>10, ViewStream
<1>11. CASE Debounce
  BY <1>11, DebounceStream
<1>12. ASSUME NEW v \in 0..MaxOps, Answered(v) PROVE StreamInv' /\ ViewInv'
  BY <1>12, AnsweredStream
<1>13. CASE Failed
  BY <1>13, FailedStream
<1>14. CASE UNCHANGED tableVars
  BY <1>14, StillStream DEF ViewInv, tableVars, view, stream
<1>15. QED
  BY <1>1, <1>2, <1>3, <1>4, <1>5, <1>6, <1>7, <1>8, <1>9, <1>10, <1>11, <1>12, <1>13, <1>14
     DEF TableNext, UserStep, TabStep

\* Every step keeps the pages.
LEMMA PageStep ==
    ASSUME TableTypes, StreamInv, ViewInv, PageInv, [TableNext]_tableVars
    PROVE  PageInv'
<1>1. ASSUME NEW d \in Dates, SetDates(d) PROVE PageInv'
  BY <1>1, SetDatesSets, SetsFiltersPage
<1>2. ASSUME NEW w \in Whos, SetWho(w) PROVE PageInv'
  <2>1. CASE SetsFilters
    BY <2>1, SetsFiltersPage
  <2>2. CASE /\ UNCHANGED <<filters, pag, pending, cache, loading, error>>
             /\ UNCHANGED <<role, view, user, card, shared, paginator, last, request, shown,
                            mounted, dead, data, history>>
    BY <2>2, StillPage DEF view, history
  <2>3. QED
    BY <1>2, <2>1, <2>2, SetWhoSets
<1>3. CASE CarrierClear
  BY <1>3, CarrierClearSets, SetsFiltersPage
<1>4. ASSUME NEW p \in Pages, TurnPage(p) PROVE PageInv'
  BY <1>4, TurnPageSets, SetsPagePage
<1>5. ASSUME NEW s \in Sizes, SetSize(s) PROVE PageInv'
  BY <1>5, SetSizeSets, SetsPagePage
<1>6. CASE Retry \/ Leave \/ LoadingTimeout \/ Return
  BY <1>6, TablePage
<1>7. CASE UpdateStatus
  BY <1>7, UpdateStatusSets, SetsFiltersPage
<1>8. ASSUME NEW u \in Users, ChangeUser(u) PROVE PageInv'
  BY <1>8, ChangeUserPage
<1>9. CASE \/ \E o \in BOOLEAN : ViewAsks(o)
           \/ ViewFailed \/ Edit \/ Delete \/ FiveMinutes
  BY <1>9, ViewPage
<1>10. ASSUME NEW v \in 0..MaxOps, ViewAnswered(v) PROVE PageInv'
  BY <1>10, ViewAnsweredPage
<1>11. CASE Debounce
  BY <1>11, DebouncePage
<1>12. ASSUME NEW v \in 0..MaxOps, Answered(v) PROVE PageInv'
  BY <1>12, AnsweredPage
<1>13. CASE Failed
  BY <1>13, FailedPage
<1>14. CASE UNCHANGED tableVars
  BY <1>14, StillPage DEF tableVars, view, ui, stream, history
<1>15. QED
  BY <1>1, <1>2, <1>3, <1>4, <1>5, <1>6, <1>7, <1>8, <1>9, <1>10, <1>11, <1>12, <1>13, <1>14
     DEF TableNext, UserStep, TabStep

-----------------------------------------------------------------------------

\* Where rows come from: those of a new request are the user's and of now; the
\* table's were in the table, in the cache or on their way to it; the cache's were
\* in the cache or on their way to the table or to a view.
Moves ==
    /\ request' # None => request' = request \/ (request'.user = user /\ request'.ver = data)
    /\ asked' # None => asked' = asked \/ (asked'.user = user /\ asked'.ver = data)
    /\ shown' # None =>
         \/ shown # None /\ shown'.user = shown.user /\ shown'.ver = shown.ver
         \/ cache # None /\ shown'.user = cache.rows.user /\ shown'.ver = cache.rows.ver
         \/ request # None /\ shown'.user = request.user /\ shown'.ver \in request.ver..data
    /\ cache' # None =>
         \/ cache' = cache
         \/ /\ request # None /\ cache'.rows.user = request.user
            /\ cache'.rows.ver \in request.ver..data
         \/ /\ asked # None /\ cache'.rows.user = asked.user
            /\ cache'.rows.ver \in asked.ver..data

\* Rows that move so stay the user's.
LEMMA MovesOwn ==
    ASSUME OwnInv, Moves, UNCHANGED <<role, user, crossed>>
    PROVE  OwnInv'
BY DEF OwnInv, Moves

\* Rows that move so are of the last change if no change raced.
LEMMA MovesFresh ==
    ASSUME TableTypes, FreshInv, Moves, UNCHANGED <<role, data, raced>>
    PROVE  FreshInv'
<1>1. data \in Nat
  BY DEF TableTypes
<1>2. \A v : v \in data..data => v = data
  BY <1>1
<1>3. SUFFICES ASSUME ~raced, role # "driver"
               PROVE  /\ request' # None => request'.ver = data
                      /\ asked' # None => asked'.ver = data
                      /\ shown' # None => shown'.ver = data
                      /\ cache' # None => cache'.rows.ver = data
  BY DEF FreshInv
<1>4. /\ request # None => request.ver = data
      /\ asked # None => asked.ver = data
      /\ shown # None => shown.ver = data
      /\ cache # None => cache.rows.ver = data
  BY <1>3 DEF FreshInv
<1>5. QED
  BY <1>2, <1>4 DEF Moves

\* The stream's steps move them so.
LEMMA DebounceMoves ==
    ASSUME TableTypes, Debounce
    PROVE  Moves
<1>1. /\ Drops \/ Hits \/ Asks
      /\ UNCHANGED <<cache, asked>>
  BY DebounceIs DEF view
<1>2. CASE Drops
  BY <1>1, <1>2 DEF Drops, Moves
<1>3. CASE Hits
  <2>1. /\ cache # None /\ request' = None
        /\ shown' = Counted(cache.rows, pending.pag)
    BY <1>3 DEF Hits
  <2>2. cache.rows \in Rows /\ pending.pag \in Pagination
    BY <1>3, StreamTypes DEF Hits, Takes
  <2>3. shown'.user = cache.rows.user /\ shown'.ver = cache.rows.ver
    <3>1. PICK x : shown' = [cache.rows EXCEPT !.total = x]
      BY <2>1, <2>2, CountedIs
    <3>2. QED
      BY <2>2, <3>1 DEF Rows
  <2>4. QED
    BY <1>1, <2>1, <2>3 DEF Moves
<1>4. CASE Asks
  <2>1. /\ request' = [filters |-> pending.filters, pag |-> pending.pag, ver |-> data, user |-> user]
        /\ shown' = shown
    BY <1>4 DEF Asks
  <2>2. request'.user = user /\ request'.ver = data
    BY <2>1
  <2>3. QED
    BY <1>1, <2>1, <2>2 DEF Moves
<1>5. QED
  BY <1>1, <1>2, <1>3, <1>4

\* An answer brings the rows that were asked for.
LEMMA AnsweredMoves ==
    ASSUME TableTypes, NEW v, Answered(v)
    PROVE  Moves
<1>1. PICK r : r = Answer(request, v)
  OBVIOUS
<1>2. /\ request # None /\ request' = None
      /\ cache' = [at |-> Key(request), rows |-> Forget(r)]
      /\ v \in request.ver..data /\ asked' = asked
  BY <1>1, AnsweredIs DEF Answers, view
<1>3. /\ request.filters \in Filters /\ request.pag \in Pagination /\ request.user \in Users
      /\ v \in 0..MaxOps /\ pag \in Pagination
  BY <1>2, FetchIs DEF TableTypes
<1>4. r \in Rows /\ r.user = request.user /\ r.ver = v
  BY <1>1, <1>3, AnswerIs
<1>5. shown'.user = request.user /\ shown'.ver = v
  <2>1. PICK p \in Pagination : shown' = Counted(r, p)
    BY <1>1, <1>3, AnsweredIs DEF Answers
  <2>2. PICK x : shown' = [r EXCEPT !.total = x]
    BY <1>4, <2>1, CountedIs
  <2>3. QED
    BY <1>4, <2>2 DEF Rows
<1>6. cache'.rows.user = request.user /\ cache'.rows.ver = v
  <2>1. PICK x : Forget(r) = [r EXCEPT !.key = x]
    BY <1>4, ForgetType
  <2>2. Forget(r).user = r.user /\ Forget(r).ver = r.ver
    BY <1>4, <2>1 DEF Rows
  <2>3. QED
    BY <1>2, <1>4, <2>2
<1>7. QED
  BY <1>2, <1>5, <1>6 DEF Moves

\* So do the views'.
LEMMA ViewAnsweredMoves ==
    ASSUME TableTypes, NEW v, ViewAnswered(v)
    PROVE  Moves
<1>1. /\ asked # None /\ v \in asked.ver..data /\ asked' = None
      /\ UNCHANGED <<request, shown>>
  BY ViewAnsweredIs DEF stream
<1>2. PICK d \in Dates :
        \/ cache' = cache
        \/ cache' = [at |-> Key(Emission([asked.filters EXCEPT !.dates = d], asked.pag)),
                     rows |-> Answer(asked, v)]
  BY ViewAnsweredIs
<1>3. Answer(asked, v).user = asked.user /\ Answer(asked, v).ver = v
  <2>1. /\ asked.filters \in Filters /\ asked.pag \in Pagination /\ asked.user \in Users
        /\ v \in 0..MaxOps
    BY <1>1, AskedIs
  <2>2. QED
    BY <2>1, AnswerIs
<1>4. cache' = cache \/ (cache'.rows.user = asked.user /\ cache'.rows.ver = v)
  BY <1>2, <1>3
<1>5. QED
  BY <1>1, <1>4 DEF Moves

\* Whatever leaves the rows where they are, or takes them away, moves them so.
LEMMA StillMoves ==
    ASSUME request' = None \/ request' = request,
           asked' = None \/ asked' = asked,
           shown' = None \/ shown' = shown,
           cache' = None \/ cache' = cache
    PROVE  Moves
BY DEF Moves

\* The steps that ask for nothing and answer nothing.
LEMMA TableMoves ==
    ASSUME TableTypes,
           \/ SetsFilters \/ SetsPage \/ Failed
           \/ Retry \/ Leave \/ LoadingTimeout \/ Return \/ ViewFailed \/ FiveMinutes
    PROVE  Moves
<1>1. CASE SetsFilters
  BY <1>1, StillMoves DEF SetsFilters, Refilters, view
<1>2. CASE SetsPage
  BY <1>2, StillMoves DEF SetsPage, Turns, view
<1>3. CASE Failed
  BY <1>3, StillMoves DEF Failed, view
<1>4. CASE Retry
  BY <1>4, StillMoves DEF Retry, Mount, view
<1>5. CASE Leave
  BY <1>5, StillMoves DEF Leave, Unmount, view
<1>6. CASE LoadingTimeout
  BY <1>6, StillMoves, CloseViewType DEF LoadingTimeout, Unmount
<1>7. CASE Return
  BY <1>7, StillMoves, CloseViewType DEF Return, Mount
<1>8. CASE ViewFailed
  <2>1. asked' = None /\ cache' = cache
    BY <1>8 DEF ViewFailed
  <2>2. CASE role = "dispatcher"
    BY <1>8, <2>1, <2>2, StillMoves DEF ViewFailed, Unmount
  <2>3. CASE role # "dispatcher"
    BY <1>8, <2>1, <2>3, StillMoves DEF ViewFailed, stream
  <2>4. QED
    BY <2>2, <2>3
<1>9. CASE FiveMinutes
  BY <1>9, StillMoves DEF FiveMinutes, view, stream
<1>10. QED
  BY <1>1, <1>2, <1>3, <1>4, <1>5, <1>6, <1>7, <1>8, <1>9

\* Another user: the request and the table's rows go, the cache's too but for the
\* carrier, and of the views' requests those that outlive, which is remembered.
LEMMA ChangeUserRows ==
    ASSUME TableTypes, StreamInv, OwnInv, FreshInv, NEW u \in Users, ChangeUser(u)
    PROVE  OwnInv' /\ FreshInv'
<1>1. /\ user' = u /\ UNCHANGED <<role, data, raced>>
      /\ CloseView /\ crossed' = (crossed \/ asked' # None)
      /\ cache' = (IF C.drops THEN None ELSE cache)
  BY DEF ChangeUser
<1>2. request' = None /\ shown' = None
  BY DEF ChangeUser, Mount, Unmount
<1>3. (asked' = None \/ asked' = asked) /\ (cache' = None \/ cache' = cache)
  BY <1>1, CloseViewType
<1>4. FreshInv'
  BY <1>1, <1>2, <1>3, StillMoves, MovesFresh
<1>5. role # "carrier" => cache' = None
  BY <1>1, Variants DEF TableTypes
<1>6. crossed' <=> crossed \/ asked' # None
  BY <1>1
<1>7. OwnInv'
  BY <1>1, <1>2, <1>5, <1>6 DEF OwnInv
<1>8. QED
  BY <1>4, <1>7

\* A change of the orders: what is on its way is remembered, the cache is empty,
\* and the table has no rows or those with the change.
LEMMA ChangeRows ==
    ASSUME TableTypes, StreamInv, OwnInv, FreshInv, Edit \/ Delete \/ UpdateStatus
    PROVE  OwnInv' /\ FreshInv'
<1>1. CASE Edit
  <2>1. /\ ~mounted /\ data' = data + 1 /\ cache' = None /\ CloseView
        /\ raced' = (asked' # None)
        /\ UNCHANGED <<role, user, crossed, request, shown>>
    BY <1>1 DEF Edit, stream
  <2>2. request' = None /\ shown' = None
    BY <2>1 DEF StreamInv
  <2>3. asked' = None \/ asked' = asked
    BY <2>1, CloseViewType
  <2>4. OwnInv'
    BY <2>1, <2>2, <2>3, StillMoves, MovesOwn
  <2>5. FreshInv'
    BY <2>1, <2>2 DEF FreshInv
  <2>6. QED
    BY <2>4, <2>5
<1>2. CASE Delete
  <2>1. /\ data' = data + 1 /\ cache' = None /\ raced' = (request # None \/ asked # None)
        /\ shown # None /\ shown' = [shown EXCEPT !.ver = data + 1]
        /\ UNCHANGED <<role, user, crossed, request, asked>>
    BY <1>2 DEF Delete, stream, view
  <2>2. shown'.user = shown.user /\ shown'.ver = data + 1
    BY <2>1, StreamTypes DEF Rows
  <2>3. OwnInv'
    BY <2>1, <2>2 DEF OwnInv
  <2>4. FreshInv'
    BY <2>1, <2>2 DEF FreshInv
  <2>5. QED
    BY <2>3, <2>4
<1>3. CASE UpdateStatus
  <2>1. /\ role' = "driver" /\ cache' = None
        /\ UNCHANGED <<role, user, crossed, request, asked, shown>>
    BY <1>3 DEF UpdateStatus, view
  <2>2. OwnInv'
    BY <2>1, StillMoves, MovesOwn
  <2>3. FreshInv'
    BY <2>1 DEF FreshInv
  <2>4. QED
    BY <2>2, <2>3
<1>4. QED
  BY <1>1, <1>2, <1>3

\* Every step keeps the rows the user's, and those of the last change.
LEMMA RowsStep ==
    ASSUME TableTypes, StreamInv, OwnInv, FreshInv, [TableNext]_tableVars
    PROVE  OwnInv' /\ FreshInv'
<1>1. ASSUME Moves, UNCHANGED <<role, user, crossed, data, raced>>
      PROVE  OwnInv' /\ FreshInv'
  BY <1>1, MovesOwn, MovesFresh
<1>2. ASSUME NEW d \in Dates, SetDates(d) PROVE OwnInv' /\ FreshInv'
  <2>1. SetsFilters /\ UNCHANGED <<role, user, crossed, data, raced>>
    BY <1>2, SetDatesSets DEF SetDates, view, history
  <2>2. QED
    BY <1>1, <2>1, TableMoves
<1>3. ASSUME NEW w \in Whos, SetWho(w) PROVE OwnInv' /\ FreshInv'
  <2>1. UNCHANGED <<role, user, crossed, data, raced>>
    BY <1>3 DEF SetWho, view, history
  <2>2. CASE SetsFilters
    BY <1>1, <2>1, <2>2, TableMoves
  <2>3. CASE UNCHANGED <<cache, view, request, shown>>
    BY <1>1, <2>1, <2>3, StillMoves DEF view
  <2>4. QED
    BY <1>3, <2>2, <2>3, SetWhoSets
<1>4. CASE CarrierClear
  <2>1. SetsFilters /\ UNCHANGED <<role, user, crossed, data, raced>>
    BY <1>4, CarrierClearSets DEF CarrierClear, view, history
  <2>2. QED
    BY <1>1, <2>1, TableMoves
<1>5. ASSUME NEW p \in Pages, TurnPage(p) PROVE OwnInv' /\ FreshInv'
  <2>1. SetsPage /\ UNCHANGED <<role, user, crossed, data, raced>>
    BY <1>5, TurnPageSets DEF TurnPage, view
  <2>2. QED
    BY <1>1, <2>1, TableMoves
<1>6. ASSUME NEW s \in Sizes, SetSize(s) PROVE OwnInv' /\ FreshInv'
  <2>1. SetsPage /\ UNCHANGED <<role, user, crossed, data, raced>>
    BY <1>6, SetSizeSets DEF SetSize, view
  <2>2. QED
    BY <1>1, <2>1, TableMoves
<1>7. CASE Retry \/ Leave \/ LoadingTimeout \/ Return \/ ViewFailed \/ FiveMinutes \/ Failed
  <2>1. UNCHANGED <<role, user, crossed, data, raced>>
    BY <1>7 DEF Retry, Leave, LoadingTimeout, Return, ViewFailed, FiveMinutes, Failed,
                view, history
  <2>2. QED
    BY <1>1, <1>7, <2>1, TableMoves
<1>8. CASE Edit \/ Delete \/ UpdateStatus
  BY <1>8, ChangeRows
<1>9. ASSUME NEW u \in Users, ChangeUser(u) PROVE OwnInv' /\ FreshInv'
  BY <1>9, ChangeUserRows
<1>10. ASSUME NEW o \in BOOLEAN, ViewAsks(o) PROVE OwnInv' /\ FreshInv'
  <2>1. UNCHANGED <<role, user, crossed, data, raced, request, shown, cache>>
    BY <1>10 DEF ViewAsks, stream, history
  <2>2. asked'.user = user /\ asked'.ver = data
    BY <1>10, ViewAsksTypes
  <2>3. QED
    BY <1>1, <2>1, <2>2 DEF Moves
<1>11. ASSUME NEW v \in 0..MaxOps, ViewAnswered(v) PROVE OwnInv' /\ FreshInv'
  <2>1. UNCHANGED <<role, user, crossed, data, raced>>
    BY <1>11 DEF ViewAnswered, history
  <2>2. QED
    BY <1>1, <1>11, <2>1, ViewAnsweredMoves
<1>12. CASE Debounce
  <2>1. UNCHANGED <<role, user, crossed, data, raced>>
    BY <1>12 DEF Debounce, view
  <2>2. QED
    BY <1>1, <1>12, <2>1, DebounceMoves
<1>13. ASSUME NEW v \in 0..MaxOps, Answered(v) PROVE OwnInv' /\ FreshInv'
  <2>1. UNCHANGED <<role, user, crossed, data, raced>>
    BY <1>13 DEF Answered, view, history
  <2>2. QED
    BY <1>1, <1>13, <2>1, AnsweredMoves
<1>14. CASE UNCHANGED tableVars
  <2>1. UNCHANGED <<role, user, crossed, data, raced, request, asked, shown, cache>>
    BY <1>14 DEF tableVars, view, stream, history
  <2>2. QED
    BY <1>1, <2>1, StillMoves
<1>15. QED
  BY <1>2, <1>3, <1>4, <1>5, <1>6, <1>7, <1>8, <1>9, <1>10, <1>11, <1>12, <1>13, <1>14
     DEF TableNext, UserStep, TabStep

-----------------------------------------------------------------------------

\* The admin's overlay: what turns it on empties the cache and emits, and no
\* emission is dropped.
LEMMA LoadStep ==
    ASSUME TableTypes, StreamInv, LoadInv, [TableNext]_tableVars
    PROVE  LoadInv'
<1> DEFINE Waits == mounted => pending # None \/ request # None
<1>1. role' = role
  BY DEF TableNext, UserStep, TabStep, tableVars, SetDates, SetWho, CarrierClear, TurnPage,
         SetSize, Retry, Leave, Edit, Delete, UpdateStatus, ChangeUser, ViewAsks, Debounce,
         Answered, Failed, ViewAnswered, ViewFailed, LoadingTimeout, Return, FiveMinutes
<1>2. SUFFICES ASSUME role = "admin", loading'
               PROVE  cache' = None /\ Waits'
  BY <1>1 DEF LoadInv
<1>3. /\ S.overlay /\ T.catches /\ S.same = "nothing" /\ C.drops
      /\ ~Form[role].copies /\ ~Form[role].clears /\ ~dead
  BY <1>2, Variants DEF TableTypes, StreamInv
<1>4. loading => cache = None /\ Waits
  BY <1>2 DEF LoadInv
<1>5. ASSUME NEW f \in Filters, NEW s \in Sizes, Refilters(f, s)
      PROVE  Waits'
  <2>1. FirstPage(s) \in Pagination /\ Emit(f, FirstPage(s)) /\ mounted' = mounted
    BY <1>5, FirstPageType DEF Refilters
  <2>2. mounted => pending' # None
    BY <1>3, <2>1, EmitType
  <2>3. QED
    BY <2>1, <2>2
<1>6. ASSUME NEW d \in Dates, SetDates(d) PROVE cache' = None /\ Waits'
  BY <1>3, <1>5, <1>6, SetDatesIs
<1>7. ASSUME NEW w \in Whos, SetWho(w) PROVE cache' = None /\ Waits'
  <2>1. /\ \E f \in Filters, s \in Sizes : Refilters(f, s)
        /\ cache' = None
    BY <1>3, <1>7, SetWhoIs
  <2>2. QED
    BY <1>5, <2>1
<1>8. ASSUME SetsPage PROVE FALSE
  <2>1. ~loading /\ loading' = loading
    BY <1>2, <1>8 DEF SetsPage, Clickable
  <2>2. QED
    BY <1>2, <2>1
<1>9. ASSUME Mount(filters, pag), loading' = loading, cache' = cache
      PROVE  cache' = None /\ Waits'
  <2>1. Emission(filters, pag) # None
    BY EmissionType DEF TableTypes
  <2>2. QED
    BY <1>2, <1>4, <1>9, <2>1 DEF Mount
<1>10. CASE Retry
  BY <1>9, <1>10 DEF Retry
<1>11. CASE Return
  BY <1>9, <1>11 DEF Return
<1>12. CASE Leave
  BY <1>2, <1>4, <1>12 DEF Leave, Finalize, Unmount
<1>13. CASE Edit \/ FiveMinutes
  <2>1. cache' = None /\ UNCHANGED <<pending, request, mounted, loading>>
    BY <1>13 DEF Edit, FiveMinutes, stream
  <2>2. QED
    BY <1>2, <1>4, <2>1
<1>14. ASSUME NEW u \in Users, ChangeUser(u) PROVE cache' = None /\ Waits'
  <2>1. cache' = None
    BY <1>3, <1>14 DEF ChangeUser
  <2>2. filters' \in Filters /\ pag' \in Pagination
    BY <1>14, ChangeUserTypes DEF TableTypes
  <2>3. CASE error
    BY <1>14, <2>1, <2>3 DEF ChangeUser, Unmount
  <2>4. CASE ~error
    <3>1. Mount(filters', pag')
      BY <1>14, <2>4 DEF ChangeUser
    <3>2. pending' # None
      BY <2>2, <3>1, EmissionType DEF Mount
    <3>3. QED
      BY <2>1, <3>2
  <2>5. QED
    BY <2>3, <2>4
<1>15. ASSUME NEW o \in BOOLEAN, ViewAsks(o) PROVE cache' = None /\ Waits'
  BY <1>2, <1>4, <1>15 DEF ViewAsks, stream
<1>16. CASE Debounce
  <2>1. /\ Drops \/ Hits \/ Asks
        /\ UNCHANGED <<cache, mounted>>
    BY <1>16, DebounceIs
  <2>2. CASE Drops
    BY <1>3, <2>2 DEF Drops, Same
  <2>3. CASE Hits
    BY <1>2, <1>4, <2>3 DEF Hits, Finalize
  <2>4. CASE Asks
    <3>1. loading
      BY <1>2, <1>3, <2>4 DEF Asks
    <3>2. request' # None
      <4>1. PICK e \in Emissions : e = pending
        BY <2>4, StreamTypes DEF Asks, Takes
      <4>2. data \in 0..MaxOps /\ user \in Users
        BY BoundAssumption DEF TableTypes
      <4>3. request' \in Fetches
        BY <2>4, <4>1, <4>2 DEF Asks, Emissions, Fetches
      <4>4. QED
        BY <4>3, Present
    <3>3. QED
      BY <1>4, <2>1, <3>1, <3>2
  <2>5. QED
    BY <2>1, <2>2, <2>3, <2>4
<1>17. ASSUME NEW v, Answered(v) \/ Failed \/ ViewAnswered(v) \/ ViewFailed \/ LoadingTimeout
       PROVE  FALSE
  BY <1>2, <1>3, <1>17 DEF Answered, Failed, ViewAnswered, ViewFailed, LoadingTimeout
<1>18. CASE CarrierClear \/ Delete \/ UpdateStatus
  BY <1>2, <1>3, <1>18 DEF CarrierClear, Delete, UpdateStatus
<1>19. CASE UNCHANGED tableVars
  BY <1>2, <1>4, <1>19 DEF tableVars, stream
<1>20. QED
  BY <1>6, <1>7, <1>8, <1>10, <1>11, <1>12, <1>13, <1>14, <1>15, <1>16, <1>17, <1>18, <1>19,
     TurnPageSets, SetSizeSets DEF TableNext, UserStep, TabStep

\* Only the form changes the filter service's copy.
LEMMA CopyStep ==
    ASSUME TableTypes, CopyInv, [TableNext]_tableVars
    PROVE  CopyInv'
<1>1. role' = role
  BY DEF TableNext, UserStep, TabStep, tableVars, SetDates, SetWho, CarrierClear, TurnPage,
         SetSize, Retry, Leave, Edit, Delete, UpdateStatus, ChangeUser, ViewAsks, Debounce,
         Answered, Failed, ViewAnswered, ViewFailed, LoadingTimeout, Return, FiveMinutes
<1>2. ASSUME NEW w \in Whos, SetWho(w), ~Form[role].copies PROVE shared' = shared
  BY <1>2 DEF SetWho
<1>3. (\E w \in Whos : SetWho(w)) \/ shared' = shared
  BY DEF TableNext, UserStep, TabStep, tableVars, SetDates, CarrierClear, TurnPage,
         SetSize, Retry, Leave, Edit, Delete, UpdateStatus, ChangeUser, ViewAsks, Debounce,
         Answered, Failed, ViewAnswered, ViewFailed, LoadingTimeout, Return, FiveMinutes, ui
<1>4. QED
  BY <1>1, <1>2, <1>3, VariantStays DEF CopyInv

-----------------------------------------------------------------------------

\* What the card, the filter service and the form say, step by step.
LEMMA AgreeStep ==
    ASSUME TableTypes, CopyInv, [TableNext]_tableVars, Agree, ~Agree'
    PROVE  \/ user' # user
           \/ role = "carrier" /\ form' = Any
           \/ role = "admin" /\ filters.who # Any
<1>1. /\ filters.dates = card
      /\ Form[role].copies => filters.who = shared
      /\ ~Form[role].copies /\ mounted => filters.who = form
  BY DEF Agree
<1>2. SUFFICES ASSUME role' = role,
                      ~(role = "carrier" /\ form' = Any), ~(role = "admin" /\ filters.who # Any),
                      user' = user
               PROVE  /\ filters'.dates = card'
                      /\ Form[role].copies => filters'.who = shared'
                      /\ ~Form[role].copies /\ mounted' => filters'.who = form'
  <2>1. role' = role
    BY DEF TableNext, UserStep, TabStep, tableVars, SetDates, SetWho, CarrierClear, TurnPage,
           SetSize, Retry, Leave, Edit, Delete, UpdateStatus, ChangeUser, ViewAsks, Debounce,
           Answered, Failed, ViewAnswered, ViewFailed, LoadingTimeout, Return, FiveMinutes
  <2>2. Form[role'] = Form[role]
    BY <2>1
  <2>3. QED
    BY <2>1, <2>2 DEF Agree
<1> DEFINE Right == /\ filters'.dates = card'
                    /\ Form[role].copies => filters'.who = shared'
                    /\ ~Form[role].copies /\ mounted' => filters'.who = form'
<1>3. ASSUME UNCHANGED <<filters, card, shared>>,
             mounted' => (mounted /\ form' = form)
                           \/ form' = (IF Form[role].copies THEN shared ELSE filters.who)
      PROVE  Right
  BY <1>1, <1>3
<1>4. ASSUME NEW d \in Dates, SetDates(d) PROVE Right
  <2>1. PICK f \in Filters, s \in Sizes :
          /\ Refilters(f, s)
          /\ f.dates = d
          /\ role \in {"dispatcher", "admin"} => f.who = shared
          /\ role \in {"carrier", "driver"} => f.who = filters.who
    BY <1>4, SetDatesIs
  <2>2. card' = d /\ UNCHANGED <<shared, form>> /\ mounted' = mounted
    BY <1>4 DEF SetDates
  <2>3. filters' = f
    BY <2>1 DEF Refilters, Emit
  <2>4. Form[role].copies <=> role = "dispatcher"
    BY Variants DEF TableTypes
  <2>5. role \in {"dispatcher", "admin", "carrier", "driver"}
    BY RolesAssumption DEF TableTypes
  <2>6. CASE role = "admin"
    BY <1>1, <1>2, <2>1, <2>2, <2>3, <2>4, <2>6 DEF CopyInv
  <2>7. CASE role # "admin"
    BY <1>1, <2>1, <2>2, <2>3, <2>4, <2>5, <2>7
  <2>8. QED
    BY <2>6, <2>7
<1>5. ASSUME NEW w \in Whos, SetWho(w) PROVE Right
  <2>1. form' = w /\ UNCHANGED <<card, mounted>>
    BY <1>5 DEF SetWho
  <2>2. CASE /\ Form[role].copies /\ w = shared /\ shared' = shared
             /\ UNCHANGED <<filters, pag, pending, cache, loading, error>>
    BY <1>1, <2>1, <2>2
  <2>3. ASSUME NEW f \in Filters, NEW s \in Sizes,
               /\ Refilters(f, s)
               /\ f.who = w
               /\ Form[role].copies => f.dates = card
               /\ ~Form[role].copies => f.dates = filters.dates,
               Form[role].copies => shared' = w
        PROVE  Right
    <3>1. filters' = f
      BY <2>3 DEF Refilters, Emit
    <3>2. QED
      BY <1>1, <2>1, <2>3, <3>1
  <2>4. QED
    BY <1>5, <2>2, <2>3, SetWhoIs
<1>6. CASE CarrierClear
  <2>1. role = "carrier" /\ form' = Any
    BY <1>6, Variants DEF CarrierClear, TableTypes
  <2>2. QED
    BY <1>2, <2>1
<1>7. ASSUME SetsPage PROVE Right
  <2>1. UNCHANGED <<filters, card, shared, form, mounted>>
    BY <1>7 DEF SetsPage, Turns, Emit
  <2>2. QED
    BY <1>3, <2>1
<1>8. CASE Retry \/ Return
  BY <1>3, <1>8 DEF Retry, Return
<1>9. CASE Leave \/ LoadingTimeout
  <2>1. ~mounted' /\ UNCHANGED <<filters, card, shared>>
    BY <1>9 DEF Leave, LoadingTimeout, Unmount, ui
  <2>2. QED
    BY <1>3, <2>1
<1>10. CASE ViewFailed
  <2>1. UNCHANGED <<filters, card, shared, form>>
    BY <1>10 DEF ViewFailed, ui
  <2>2. ~mounted' \/ mounted' = mounted
    BY <1>10 DEF ViewFailed, Unmount
  <2>3. QED
    BY <1>3, <2>1, <2>2
<1>11. CASE UpdateStatus
  <2>1. UNCHANGED <<filters, card, shared, form, mounted>>
    BY <1>11 DEF UpdateStatus, Emit, ui
  <2>2. QED
    BY <1>3, <2>1
<1>12. ASSUME NEW u \in Users, ChangeUser(u) PROVE FALSE
  BY <1>2, <1>12 DEF ChangeUser
<1>13. ASSUME \/ Edit \/ Delete \/ Debounce \/ Failed \/ FiveMinutes
              \/ \E o \in BOOLEAN : ViewAsks(o)
              \/ \E v \in 0..MaxOps : Answered(v) \/ ViewAnswered(v)
              \/ UNCHANGED tableVars
       PROVE  Right
  <2>1. UNCHANGED <<filters, card, shared, form, mounted>>
    BY <1>13 DEF Edit, Delete, Debounce, Failed, FiveMinutes, ViewAsks, Answered, ViewAnswered,
                 tableVars, ui
  <2>2. QED
    BY <1>3, <2>1
<1>14. QED
  BY <1>4, <1>5, <1>6, <1>7, <1>8, <1>9, <1>10, <1>11, <1>12, <1>13, TurnPageSets, SetSizeSets
     DEF TableNext, UserStep, TabStep

\* Who shows an error, and when.
LEMMA TimeoutStep ==
    ASSUME TableTypes, LoadInv, [TableNext]_tableVars, error', ~error
    PROVE  request # None \/ pending # None \/ ~mounted \/ role = "dispatcher"
<1>1. CASE LoadingTimeout
  <2>1. loading /\ S.overlay
    BY <1>1 DEF LoadingTimeout
  <2>2. role \in {"dispatcher", "admin"}
    BY <2>1, Variants DEF TableTypes
  <2>3. QED
    BY <2>1, <2>2 DEF LoadInv
<1>2. CASE ViewFailed
  BY <1>2 DEF ViewFailed
<1>3. ASSUME NEW d \in Dates, SetDates(d) PROVE FALSE
  BY <1>3, SetDatesIs
<1>4. ASSUME NEW w \in Whos, SetWho(w) PROVE FALSE
  BY <1>4, SetWhoIs
<1>5. ASSUME \E v \in 0..MaxOps : ViewAnswered(v) PROVE FALSE
  BY <1>5 DEF ViewAnswered
<1>6. ASSUME SetsPage PROVE FALSE
  BY <1>6 DEF SetsPage
<1>7. ASSUME \/ CarrierClear \/ Retry \/ Leave \/ Edit \/ Delete \/ UpdateStatus
             \/ \E u \in Users : ChangeUser(u)
             \/ \E o \in BOOLEAN : ViewAsks(o)
             \/ Debounce \/ \E v \in 0..MaxOps : Answered(v)
             \/ Failed \/ Return \/ FiveMinutes
             \/ UNCHANGED tableVars
      PROVE  FALSE
  BY <1>7 DEF CarrierClear, Retry, Leave, Edit, Delete, UpdateStatus, ChangeUser, ViewAsks,
              Debounce, Answered, Failed, Return, FiveMinutes, tableVars
<1>8. QED
  BY <1>1, <1>2, <1>3, <1>4, <1>5, <1>6, <1>7, TurnPageSets, SetSizeSets
     DEF TableNext, UserStep, TabStep

-----------------------------------------------------------------------------

\* A tab opens with the month, the first page, and a table that waits.
LEMMA InitRight ==
    ASSUME TableInit
    PROVE  TableInv
<1>1. /\ role \in TableRoles /\ user \in Users
      /\ filters = DefaultFilters /\ pag = FirstPage(DefaultSize)
      /\ card = Month /\ shared = Any /\ form = Any
      /\ paginator = [page |-> 0, size |-> DefaultSize]
      /\ pending = Emission(filters, pag) /\ last = None /\ request = None
      /\ shown = None /\ cache = None /\ mounted = TRUE /\ dead = FALSE
      /\ loading = FALSE /\ error = FALSE
      /\ data = 0 /\ lost = FALSE /\ hasty = FALSE /\ raced = FALSE /\ ops = 0
      /\ asked = None /\ mixed = FALSE /\ crossed = FALSE
  BY DEF TableInit
<1>2. filters \in Filters /\ card \in Dates /\ shared \in Whos /\ form \in Whos
  BY <1>1, DateAssumption DEF DefaultFilters, Filters
<1>3. /\ pag \in Pagination /\ pag.page = 0 /\ 0 \in Pages
      /\ paginator \in [page: Pages, size: Sizes]
  BY <1>1, SizeAssumption, FirstPageType
<1>4. /\ pending \in Emissions /\ pending # None
      /\ pending.filters = filters /\ pending.pag = pag
  BY <1>1, <1>2, <1>3, EmissionType
<1>5. TableTypes
  <2>1. ops \in 0..MaxOps /\ data \in 0..ops
    BY <1>1, BoundAssumption
  <2>2. /\ mounted \in BOOLEAN /\ dead \in BOOLEAN /\ loading \in BOOLEAN /\ error \in BOOLEAN
        /\ lost \in BOOLEAN /\ hasty \in BOOLEAN /\ raced \in BOOLEAN /\ mixed \in BOOLEAN
        /\ crossed \in BOOLEAN
    BY <1>1
  <2>3. /\ last \in Emissions \cup {None} /\ request \in Fetches \cup {None}
        /\ asked \in Asked \cup {None} /\ shown \in Rows \cup {None}
        /\ cache \in Cached \cup {None}
    BY <1>1
  <2>4. role \in TableRoles /\ user \in Users /\ pending \in Emissions \cup {None}
    BY <1>1, <1>4
  <2>5. QED
    BY <1>2, <1>3, <2>1, <2>2, <2>3, <2>4 DEF TableTypes
<1>6. StreamInv /\ ViewInv
  BY <1>1, <1>4 DEF StreamInv, ViewInv
<1>7. PageInv
  <2>1. Reaches(filters, pag)
    BY <1>3, FirstReaches
  <2>2. ReachInv /\ OvertakeInv /\ PaginatorInv
    BY <1>1, <1>4, <2>1 DEF ReachInv, OvertakeInv, PaginatorInv
  <2>3. ShownInv /\ TokenInv /\ CacheInv /\ PlaceInv /\ BesideInv
    BY <1>1 DEF ShownInv, TokenInv, CacheInv, PlaceInv, BesideInv, Standing
  <2>4. QED
    BY <2>2, <2>3 DEF PageInv
<1>8. OwnInv /\ FreshInv /\ LoadInv /\ CopyInv
  BY <1>1 DEF OwnInv, FreshInv, LoadInv, CopyInv
<1>9. QED
  BY <1>5, <1>6, <1>7, <1>8 DEF TableInv

\* The invariant holds in every state of every tab.
THEOREM TableInductive == TableSpec => []TableInv
<1>1. TableInit => TableInv
  BY InitRight
<1>2. TableInv /\ [TableNext]_tableVars => TableInv'
  <2>1. SUFFICES ASSUME TableInv, [TableNext]_tableVars PROVE TableInv'
    OBVIOUS
  <2>2. TableTypes'
    BY <2>1, TypesStep DEF TableInv
  <2>3. StreamInv' /\ ViewInv'
    BY <2>1, StreamStep DEF TableInv
  <2>4. PageInv'
    BY <2>1, PageStep DEF TableInv
  <2>5. OwnInv' /\ FreshInv'
    BY <2>1, RowsStep DEF TableInv
  <2>6. LoadInv' /\ CopyInv'
    BY <2>1, LoadStep, CopyStep DEF TableInv
  <2>7. QED
    BY <2>2, <2>3, <2>4, <2>5, <2>6 DEF TableInv
<1>3. QED
  BY <1>1, <1>2, PTL DEF TableSpec

\* What it says of the rows on screen.
LEMMA RowsRight ==
    ASSUME TableInv
    PROVE  RowsAreRight
<1>1. TableTypes /\ StreamInv /\ ViewInv /\ PageInv /\ OwnInv /\ FreshInv
  BY DEF TableInv
<1>2. TableTypeOK
  <2>1. pending # None => pending = Emission(filters, pending.pag)
    BY <1>1 DEF TableTypes, StreamInv, Emissions, Emission
  <2>2. {mounted, dead, loading, error, lost, hasty, raced, mixed, crossed} \subseteq BOOLEAN
    BY <1>1 DEF TableTypes
  <2>3. /\ asked # None /\ ~asked.outlives => ~mounted /\ ~error /\ asked.user = user
        /\ pending # None => mounted /\ ~dead
        /\ request # None => mounted /\ ~dead /\ last # None /\ request.pag = last.pag
        /\ shown # None => mounted /\ last # None
        /\ error => ~mounted
    BY <1>1 DEF StreamInv, ViewInv
  <2>4. QED
    BY <1>1, <2>1, <2>2, <2>3 DEF TableTypeOK, TableTypes
<1>3. RightPage
  <2>1. SUFFICES ASSUME Settled, Clean
                 PROVE  /\ shown.filters = filters /\ shown.of = filters
                        /\ shown.pos = pag.page * pag.size
    BY DEF RightPage, Clean
  <2>2. IsPage(shown, filters, pag.page, pag.size)
    BY <1>1, <2>1, AtRest
  <2>3. QED
    BY <2>2 DEF IsPage
<1>4. OwnRows
  BY <1>1 DEF OwnRows, OwnInv
<1>5. UpdateIsShownToOthers
  BY <1>1 DEF UpdateIsShownToOthers, UpdateIsShown, Settled, FreshInv
<1>6. QED
  BY <1>2, <1>3, <1>4, <1>5 DEF RowsAreRight

\* The rows that a user sees when nothing is on its way are his own, those of the
\* filters and the page, and up to date: for all filters, sizes, pages and counts.
THEOREM RowsStayRight == TableSpec => []RowsAreRight
<1>1. TableInv => RowsAreRight
  BY RowsRight
<1>2. QED
  BY <1>1, TableInductive, PTL

\* Card, filter service and form stop to agree with the filters only at a login,
\* at the carrier's clear, and at the admin's dates under other filters.
THEOREM FiltersStayAgreed == TableSpec => FiltersAgree
<1> DEFINE Step == Agree /\ ~Agree' =>
                     \/ user' # user
                     \/ role = "carrier" /\ form' = Any
                     \/ role = "admin" /\ filters.who # Any
<1>1. TableInv /\ [TableNext]_tableVars => [Step]_tableVars
  BY AgreeStep DEF TableInv
<1>2. QED
  BY <1>1, TableInductive, PTL DEF TableSpec, FiltersAgree

\* The error of a load that takes too long is said of a load, but for the
\* dispatcher's.
THEOREM TimeoutsMeanWaiting == TableSpec => TimeoutMeansWaiting
<1> DEFINE Step == error' /\ ~error => \/ request # None \/ pending # None \/ ~mounted
                                       \/ role = "dispatcher"
<1>1. TableInv /\ [TableNext]_tableVars => [Step]_tableVars
  BY TimeoutStep DEF TableInv
<1>2. QED
  BY <1>1, TableInductive, PTL DEF TableSpec, TimeoutMeansWaiting
=============================================================================
