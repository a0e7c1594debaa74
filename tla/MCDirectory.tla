---------------------------- MODULE MCDirectory ----------------------------
(***************************************************************************)
(* Directory on a small instance: two workspaces that want one name, two   *)
(* users that want one address in the workspace that is there already.     *)
(***************************************************************************)
EXTENDS Directory, TLC

CONSTANTS w1, w2, w3, u1, u2, u3, u4, u5

NameOfRow == [w \in Workspaces |-> IF w = w1 THEN "n1" ELSE "n2"]
EmailOfRow == [u \in Users |-> IF u \in {u3, u4} THEN "e2" ELSE "e1"]
HomeOfRow == [u \in Users |-> IF u = u2 THEN w2 ELSE IF u = u5 THEN w3 ELSE w1]

Symmetry == Permutations(Calls)
=============================================================================
