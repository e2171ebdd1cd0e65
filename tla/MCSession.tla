----------------------------- MODULE MCSession ------------------------------
(* Instances of Session for TLC.  No symmetry where a run checks liveness. *)
EXTENDS Session, TLC

Symmetry == Permutations(Users) \cup Permutations(Calls)
=============================================================================
