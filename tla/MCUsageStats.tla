----------------------------- MODULE MCUsageStats -----------------------------
(* Instance of UsageStats for TLC: two clients, one of which is spelled with *)
(* capitals.                                                                 *)
EXTENDS UsageStats

CONSTANTS Alice, bob, alice

LowerEmail == [e \in Emails |-> IF e = Alice THEN alice ELSE e]
=============================================================================
