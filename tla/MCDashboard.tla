---------------------------- MODULE MCDashboard -----------------------------
(* Instances of Dashboard for TLC.  The month has three orders, one of which *)
(* the other filters keep; the week has two.                                *)
EXTENDS Dashboard

Orders == [f \in Filters |-> IF f.who # Any THEN 1 ELSE IF f.dates = Month THEN 3 ELSE 2]
=============================================================================
