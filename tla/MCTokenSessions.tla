-------------------------- MODULE MCTokenSessions --------------------------
(* TokenSessions on small instances: accounts and calls are model values   *)
(* that no action tells apart, so their permutations are symmetries.       *)
EXTENDS TokenSessions, TLC

Symmetry == Permutations(Users) \cup Permutations(Calls)
=============================================================================
