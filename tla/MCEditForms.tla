---------------------------- MODULE MCEditForms -----------------------------
(* An instance of EditForms for TLC; the constants are in the configuration. *)
EXTENDS EditForms
=============================================================================
