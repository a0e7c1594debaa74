-------------------------- MODULE MCResourceAdmin --------------------------
(* ResourceAdmin on small instances: two calls at a time, two resources,   *)
(* policies that may be linked to both.                                    *)
EXTENDS ResourceAdmin, TLC

CONSTANTS u1, u2, r1, r2, w1, w2

Row(id, created) ==
  [id |-> id, effect |-> "allow", target_type |-> "role",
   target_value |-> Canonical("user"), priority |-> 1, created_at |-> created]

OnePolicy == {Row(1, 1)}
TwoPolicies == {Row(1, 1), Row(2, 1)}
Oversized == [Row(3, 1) EXCEPT !.priority = 2]
OneOversized == TwoPolicies \cup {Oversized}

OneWorkspace == [x \in Users \cup Resources |-> w1]
TwoWorkspaces == [x \in Users \cup Resources |-> IF x = u2 THEN w2 ELSE w1]

Symmetry == Permutations(Calls)

NoSeeds == {}
AllResources == Resources
SharedLinks == {<<r1, Row(1, 1)>>, <<r2, Row(1, 1)>>}
=============================================================================
