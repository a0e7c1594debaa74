---------------------------- MODULE PolicyEngine ----------------------------
(***************************************************************************)
(* The access decision (app/policy_engine.py) and the order in which the   *)
(* policy repository hands it the policies of a resource.  No state: the   *)
(* modules that read and write the tables use these operators.             *)
(***************************************************************************)
EXTENDS Integers, Sequences, FiniteSets, Functions

CONSTANTS Users,     \* user ids
          NoPolicy   \* effective_policy.policy when its row is gone (None)

Roles == {"admin", "user"}
Effects == {"allow", "deny"}

(* A text is what it denotes and how it is spelt.  A target_value is stored *)
(* as the client spelt it: a user id has one canonical spelling and others *)
(* (upper case, braces, urn:uuid:) that validate_target_value accepts.     *)
Texts == (Roles \cup Users) \X {"canonical", "other"}
Canonical(x) == <<x, "canonical">>

(* schemas/policy.py: what a policy row may hold *)
ValidTarget(p) ==
  \/ p.target_type = "role" /\ p.target_value \in {Canonical(r) : r \in Roles}
  \/ p.target_type = "user" /\ p.target_value[1] \in Users

PolicyRows ==
  {p \in [id : Nat, effect : Effects, target_type : {"role", "user"},
          target_value : Texts, priority : Nat \ {0}, created_at : Nat] :
     ValidTarget(p)}

ASSUME NoPolicyAssumption == NoPolicy \notin PolicyRows

(* A user row, as much of it as the engine looks at. *)
UserRows == [id : Users, role : Roles]

_policy_matches_user(p, user) ==
  \/ p.target_type = "role" /\ p.target_value = Canonical(user.role)
  \/ p.target_type = "user" /\ p.target_value = Canonical(user.id)

(* Mutant: the last matching entry decides. *)
StopsAtLast(list, user) ==
  LET stops == {i \in DOMAIN list :
                  list[i] = NoPolicy \/ _policy_matches_user(list[i], user)}
  IN  {i \in stops : \A j \in stops : i >= j}

(* The entry at which the loop of policy_eval stops, if there is one: a    *)
(* matching policy, or a missing one, whose attributes cannot be read.     *)
StopsAt(list, user) ==
  LET stops == {i \in DOMAIN list :
                  list[i] = NoPolicy \/ _policy_matches_user(list[i], user)}
  IN  {i \in stops : \A j \in stops : i <= j}

(* Mutants: any matching allow grants; the final "return False" is missing. *)
AnyAllowGrants(list, user) ==
  IF \E i \in DOMAIN list : /\ list[i] # NoPolicy
                            /\ _policy_matches_user(list[i], user)
                            /\ list[i].effect = "allow"
    THEN "granted" ELSE "denied"

FallsOffTheEnd(list, user) ==
  IF \A i \in StopsAt(list, user) : list[i] = NoPolicy THEN "error"
    ELSE IF \E i \in StopsAt(list, user) : list[i].effect = "allow"
      THEN "granted" ELSE "denied"

policy_eval(list, user) ==
  IF \E i \in StopsAt(list, user) : list[i] = NoPolicy
    THEN "error"
    ELSE IF \E i \in StopsAt(list, user) : list[i].effect = "allow"
      THEN "granted"
      ELSE "denied"

(* Mutant: the last sort key is missing. *)
PrecedesWithoutId(p, q) ==
  \/ p.priority > q.priority
  \/ p.priority = q.priority /\ p.created_at < q.created_at

(* ORDER BY priority DESC, created_at ASC, id ASC *)
Precedes(p, q) ==
  \/ p.priority > q.priority
  \/ /\ p.priority = q.priority
     /\ \/ p.created_at < q.created_at
        \/ p.created_at = q.created_at /\ p.id < q.id

(* What the ordered query returns for the policies S: one sequence, since  *)
(* ids tell any two rows apart.                                            *)
Listings(S) ==
  {s \in [1 .. Cardinality(S) -> S] :
     /\ Range(s) = S
     /\ \A i, j \in DOMAIN s : i < j => ~Precedes(s[j], s[i])}

-----------------------------------------------------------------------------
(* What the decision is meant to be, without a loop or an order of reading *)
(* (DESIGN.md:184-199): admins are granted; otherwise the matching policy  *)
(* that precedes all other matching ones decides, and no match means no.   *)

Wins(p, S, user) ==
  /\ p \in S
  /\ _policy_matches_user(p, user)
  /\ \A q \in S \ {p} : _policy_matches_user(q, user) => Precedes(p, q)

Entitles(S, user) ==
  \/ user.role = "admin"
  \/ \E p \in S : Wins(p, S, user) /\ p.effect = "allow"
=============================================================================
