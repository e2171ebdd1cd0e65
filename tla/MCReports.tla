------------------------------ MODULE MCReports -----------------------------
(* A small instance of Reports: two orders, two parties of each kind, two       *)
(* months.  The amounts are powers of two, so that a sum tells which of them    *)
(* are in it.                                                                   *)
EXTENDS Reports

Field == <<"orderRate", "adminPayment", "dispatcherPayment", "carrierPayment",
           "driverPayment", "fuelCost", "lumperValue", "detentionValue">>
Powers == [o \in Orders |-> [f \in Money |-> 2 ^ (8 * (o - 1) + (CHOOSE i \in 1..8 : Field[i] = f))]]
=============================================================================
