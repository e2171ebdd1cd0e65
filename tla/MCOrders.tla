------------------------------ MODULE MCOrders ------------------------------
(* Instances of Orders for TLC, and the refinement mapping to OrderLifecycle. *)
EXTENDS Orders, TLC

\* Requests, brokers and dates are interchangeable, and so are the users of
\* one role.
Symmetry ==
    UNION { Permutations(S) : S \in {Requests, OrderIds, Admins, Dispatchers,
                                     Carriers, Drivers, Brokers, Dates} }
=============================================================================
