----------------------------- MODULE MCStateSync -----------------------------
(* Instances of StateSync for TLC: symmetry between entries of a kind.      *)
EXTENDS StateSync, TLC

Sym == Permutations(Emails) \cup Permutations(Secrets)
=============================================================================
