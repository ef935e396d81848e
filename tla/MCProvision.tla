----------------------------- MODULE MCProvision -----------------------------
(* Instances of Provision for TLC.                                          *)
EXTENDS Provision
=============================================================================
