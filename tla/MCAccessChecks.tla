-------------------------- MODULE MCAccessChecks --------------------------
(***************************************************************************)
(* AccessChecks on small instances.  Calls only read the tables, so one    *)
(* call among all writers shows every interleaving a call can meet.        *)
(***************************************************************************)
EXTENDS AccessChecks

CONSTANTS u1, u2, u3, r1, r2, w1, w2

Row(id, effect, type, value, priority, created) ==
  [id |-> id, effect |-> effect, target_type |-> type, target_value |-> value,
   priority |-> priority, created_at |-> created]

AllowUsers == Row(1, "allow", "role", Canonical("user"), 1, 1)
DenyU1     == Row(2, "deny",  "user", Canonical(u1),     2, 1)
AllowU1    == Row(3, "allow", "user", Canonical(u1),     2, 1)

(* An allow for everybody that a deny for one user outranks *)
TwoPolicies == {AllowUsers, DenyU1}
OnePolicy == {AllowU1}

OneWorkspace == [x \in Users \cup Resources |-> w1]
TwoWorkspaces == [x \in Users \cup Resources |-> IF x = u2 THEN w2 ELSE w1]

NoSeeds == {}
SharedLinks == {<<r1, AllowUsers>>, <<r2, AllowUsers>>}
=============================================================================
