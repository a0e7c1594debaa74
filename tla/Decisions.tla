----------------------------- MODULE Decisions -----------------------------
(***************************************************************************)
(* policy_eval on the policies of one resource and one user of it, while   *)
(* admins link and unlink policies and change the user's role.             *)
(***************************************************************************)
EXTENDS PolicyEngine

CONSTANT Catalogue   \* the policy rows that may be linked

ASSUME CatalogueAssumption ==
  /\ IsFiniteSet(Catalogue) /\ Catalogue \subseteq PolicyRows
  /\ \A p, q \in Catalogue : p.id = q.id => p = q

VARIABLES
  linked,   \* the policies that effective_policies links to the resource
  user      \* the user's row

vars == <<linked, user>>

Init == linked = {} /\ user \in UserRows

Link == \E p \in Catalogue \ linked : linked' = linked \cup {p} /\ UNCHANGED user
Unlink == \E p \in linked : linked' = linked \ {p} /\ UNCHANGED user
ChangeRole == \E r \in Roles : user' = [user EXCEPT !.role = r] /\ UNCHANGED linked

Next == Link \/ Unlink \/ ChangeRole

Spec == Init /\ [][Next]_vars

-----------------------------------------------------------------------------
(* What policy_eval may answer, whatever order the query returns.          *)
Decision(S, u) == {policy_eval(s, u) : s \in Listings(S)}

(* The ORDER BY of list_effective_for_resource leaves the rows one order   *)
(* only, so the same policies always give the same answer.                 *)
OneListing == Cardinality(Listings(linked)) = 1

(* The loop of policy_eval decides as the policy that precedes every other *)
(* matching one says, and denies when none matches.                        *)
DecidesAsMeant ==
  user.role # "admin" =>
    Decision(linked, user) = {IF Entitles(linked, user) THEN "granted" ELSE "denied"}

(* The id of a user in another spelling than that of str(user.id) *)
Misspelt(p) == p.target_type = "user" /\ p.target_value # Canonical(p.target_value[1])

(* Linking or unlinking a policy changes policy_eval's answer only if that *)
(* policy is the one that decides, after the link or before the unlink.    *)
(* It never is one for an id that is not spelt as the program spells it,   *)
(* which validate_target_value lets through all the same.                  *)
OnlyTheWinnerMatters ==
  [][user' = user /\ Decision(linked, user) # Decision(linked', user) =>
       \/ \E p \in linked' \ linked : Wins(p, linked', user) /\ ~Misspelt(p)
       \/ \E p \in linked \ linked' : Wins(p, linked, user) /\ ~Misspelt(p)]_vars
=============================================================================
