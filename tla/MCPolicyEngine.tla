--------------------------- MODULE MCPolicyEngine ---------------------------
(***************************************************************************)
(* Decisions with a small catalogue: ties on priority, ties on priority    *)
(* and creation time, both effects, both target types and a user id in     *)
(* another spelling.                                                       *)
(***************************************************************************)
EXTENDS Decisions

CONSTANTS u1, u2

Row(id, effect, type, value, priority, created) ==
  [id |-> id, effect |-> effect, target_type |-> type, target_value |-> value,
   priority |-> priority, created_at |-> created]

FiveRows ==
  { Row(1, "allow", "role", Canonical("user"), 1, 1),
    Row(2, "deny",  "user", Canonical(u1),     1, 1),
    Row(3, "allow", "user", Canonical(u1),     2, 2),
    Row(4, "deny",  "role", Canonical("user"), 2, 1),
    Row(5, "allow", "user", <<u2, "other">>,   3, 2) }
=============================================================================
