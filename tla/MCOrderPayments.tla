--------------------------- MODULE MCOrderPayments ---------------------------
(* Small instances of OrderPayments: bodies of a field or two, amounts that   *)
(* make the half-cent rounding of Pct happen (5% of 1010 cents is 50.5).      *)
EXTENDS OrderPayments, TLC

Symmetry == Permutations(Requests)

\* The empty function: a record that is not there, a body with nothing in it.
Nothing == [f \in {} |-> 0]

\* All bodies over the fields F with values from V[f].
Bodies(F, V) ==
    UNION {{dto \in [G -> UNION {V[f] : f \in G}] : \A f \in G : dto[f] \in V[f]} :
              G \in (SUBSET F) \ {{}}}

RateValues == [dispatcherRate |-> {7}, orderRate |-> {1010}, adminPayment |-> {7},
               mileageOrder |-> {20}, driverRate |-> {1}, fuelGasAvgCost |-> {5}]

\* The dispatcher's form sends rate and payments together.
Form(orderRate) == Split(orderRate, 5, 5) @@ [orderRate |-> orderRate, mileageOrder |-> 10]

FormDtos == {Form(1000)}
BareDtos == {[orderRate |-> 1000]}
BothDtos == FormDtos \cup BareDtos

NoRecords == {Nothing}
OneDriver == {[rate |-> 2]}
OneTruck == {[fuelGasAvgCost |-> 3, fuelGasAvgGallxMil |-> 1]}
SomeAdmins == {Nothing, [rate |-> 6]}

\* An Admin edits one rate, the Dispatcher what the order costs and how far it
\* goes (or one payment by hand), the Carrier what driver and fuel cost.
EverySend ==
    [role \in Roles |->
        CASE role = "Admin" -> Bodies({"dispatcherRate"}, RateValues)
          [] role = "Dispatcher" -> Bodies({"orderRate", "mileageOrder"}, RateValues)
                                        \cup Bodies({"adminPayment"}, RateValues)
          [] role = "Carrier" -> Bodies({"driverRate"}, RateValues)
                                     \cup Bodies({"fuelGasAvgCost"}, RateValues)]

OneRateEach ==
    [role \in Roles |->
        CASE role = "Admin" -> Bodies({"dispatcherRate"}, RateValues)
          [] role = "Dispatcher" -> Bodies({"orderRate"}, RateValues)
          [] OTHER -> {}]
=============================================================================
