-------------------------- MODULE DecisionsProofs --------------------------
(***************************************************************************)
(* For every catalogue: the query returns a set of policies in one order   *)
(* only, and policy_eval on it decides as it is meant to.                  *)
(***************************************************************************)
EXTENDS Decisions, PolicyEngineProofs

(* What policy_eval answers for the policies S *)
Allowed(S, u) == \E p \in S : Wins(p, S, u) /\ p.effect = "allow"

LEMMA DecisionIs ==
  ASSUME NEW S, Table(S), NEW u \in UserRows
  PROVE  Decision(S, u) = {IF Allowed(S, u) THEN "granted" ELSE "denied"}
<1>1. PICK s : Listings(S) = {s}
  BY OneOrder
<1>2. S \in SUBSET PolicyRows /\ s \in Listings(S)
  BY <1>1 DEF Table
<1>3. policy_eval(s, u) # "error"
  BY <1>2, ListingPositions DEF policy_eval, StopsAt
<1>4. policy_eval(s, u) \in {"granted", "denied"}
  BY <1>3 DEF policy_eval
<1>5. policy_eval(s, u) = "granted" => Allowed(S, u)
  BY <1>2, GrantHasWinner DEF Table, Allowed
<1>6. policy_eval(s, u) = "denied" => ~Allowed(S, u)
  BY <1>2, DenialHasNoWinner DEF Allowed
<1>7. policy_eval(s, u) = IF Allowed(S, u) THEN "granted" ELSE "denied"
  BY <1>4, <1>5, <1>6
<1>8. Decision(S, u) = {policy_eval(s, u)}
  BY <1>1 DEF Decision
<1>9. QED
  BY <1>7, <1>8

(* A policy p more: if it does not win, the winner stays the winner.       *)
LEMMA OnlyAWinnerChanges ==
  ASSUME NEW S, NEW p, Table(S \cup {p}), p \notin S, NEW u \in UserRows,
         ~Wins(p, S \cup {p}, u)
  PROVE  Allowed(S, u) <=> Allowed(S \cup {p}, u)
<1>1. ASSUME NEW q \in S, Wins(q, S, u) PROVE Wins(q, S \cup {p}, u)
  <2>1. CASE ~_policy_matches_user(p, u)
    BY <1>1, <2>1 DEF Wins
  <2>2. CASE _policy_matches_user(p, u)
    <3>1. PICK r \in S : _policy_matches_user(r, u) /\ ~Precedes(p, r)
      BY <2>2 DEF Wins
    <3>2. p.id # q.id /\ p.id # r.id
      BY DEF Table
    <3>3. Precedes(r, p)
      BY <3>1, <3>2, PrecedesStrictTotal DEF Table
    <3>4. r = q \/ Precedes(q, r)
      BY <1>1, <3>1 DEF Wins
    <3>5. Precedes(q, p)
      BY <3>3, <3>4, PrecedesStrictTotal DEF Table
    <3>6. QED
      BY <1>1, <3>5 DEF Wins
  <2>3. QED
    BY <2>1, <2>2
<1>2. ASSUME NEW q \in S, Wins(q, S \cup {p}, u) PROVE Wins(q, S, u)
  BY <1>2 DEF Wins
<1>3. QED
  BY <1>1, <1>2 DEF Allowed

-----------------------------------------------------------------------------
RowsOK == linked \subseteq Catalogue /\ user \in UserRows

LEMMA RowsStay == Spec => []RowsOK
<1>1. Init => RowsOK
  BY DEF Init, RowsOK
<1>2. RowsOK /\ [Next]_vars => RowsOK'
  BY DEF RowsOK, Next, Link, Unlink, ChangeRole, vars, UserRows
<1>3. QED
  BY <1>1, <1>2, PTL DEF Spec

LEMMA LinkedIsTable == ASSUME NEW S \in SUBSET Catalogue PROVE Table(S)
BY CatalogueAssumption, FS_Subset DEF Table

(* list_effective_for_resource: whatever is linked, the query returns it   *)
(* in one order.                                                           *)
THEOREM OrderIsOne == Spec => []OneListing
<1>1. ASSUME RowsOK PROVE OneListing
  <2>1. PICK s : Listings(linked) = {s}
    BY <1>1, LinkedIsTable, OneOrder DEF RowsOK
  <2>2. QED
    BY <2>1, FS_Singleton DEF OneListing
<1>2. QED
  BY <1>1, RowsStay, PTL

(* policy_eval: whatever is linked, the decision is that of the matching   *)
(* policy which precedes all others.                                       *)
THEOREM DecisionsAreMeant == Spec => []DecidesAsMeant
<1>1. ASSUME RowsOK PROVE DecidesAsMeant
  <2>1. Table(linked) /\ user \in UserRows
    BY <1>1, LinkedIsTable DEF RowsOK
  <2>2. Decision(linked, user) = {IF Allowed(linked, user) THEN "granted" ELSE "denied"}
    BY <2>1, DecisionIs
  <2>3. user.role # "admin" => (Entitles(linked, user) <=> Allowed(linked, user))
    BY DEF Entitles, Allowed
  <2>4. QED
    BY <2>2, <2>3 DEF DecidesAsMeant
<1>2. QED
  BY <1>1, RowsStay, PTL

LEMMA MisspeltNeverMatch ==
  ASSUME NEW p, NEW u, Misspelt(p) PROVE ~_policy_matches_user(p, u)
  BY DEF Misspelt, _policy_matches_user, Canonical

(* Linking or unlinking a policy changes the answer for a user only if     *)
(* that policy decides it, which one in another spelling never does.       *)
THEOREM WinnersDecide == Spec => OnlyTheWinnerMatters
<1>1. ASSUME RowsOK, [Next]_vars, user' = user, Decision(linked, user) # Decision(linked', user)
      PROVE  \/ \E p \in linked' \ linked : Wins(p, linked', user) /\ ~Misspelt(p)
             \/ \E p \in linked \ linked' : Wins(p, linked, user) /\ ~Misspelt(p)
  <2>0. \A p, S : Wins(p, S, user) => ~Misspelt(p)
    BY MisspeltNeverMatch DEF Wins
  <2>1. linked \subseteq Catalogue /\ user \in UserRows
    BY <1>1 DEF RowsOK
  <2>2. CASE Link
    <3>1. PICK p \in Catalogue \ linked : linked' = linked \cup {p}
      BY <2>2 DEF Link
    <3>2. Table(linked) /\ Table(linked \cup {p})
      BY <2>1, LinkedIsTable
    <3>3. Allowed(linked, user) # Allowed(linked \cup {p}, user)
      BY <1>1, <2>1, <3>1, <3>2, DecisionIs
    <3>4. Wins(p, linked \cup {p}, user)
      <4>1. SUFFICES ASSUME ~Wins(p, linked \cup {p}, user) PROVE FALSE
        OBVIOUS
      <4>2. Allowed(linked, user) <=> Allowed(linked \cup {p}, user)
        BY <2>1, <3>2, <4>1, OnlyAWinnerChanges
      <4>3. QED
        BY <3>3, <4>2 DEF Allowed
    <3>5. QED
      BY <2>0, <3>1, <3>4
  <2>3. CASE Unlink
    <3>1. PICK p \in linked : linked' = linked \ {p}
      BY <2>3 DEF Unlink
    <3>2. linked = linked' \cup {p} /\ p \notin linked'
      BY <3>1
    <3>3. Table(linked') /\ Table(linked)
      BY <2>1, <3>1, LinkedIsTable
    <3>4. Allowed(linked', user) # Allowed(linked, user)
      BY <1>1, <2>1, <3>3, DecisionIs
    <3>5. Wins(p, linked, user)
      <4>1. SUFFICES ASSUME ~Wins(p, linked' \cup {p}, user) PROVE FALSE
        BY <3>2
      <4>2. Table(linked' \cup {p})
        BY <3>2, <3>3
      <4>3. Allowed(linked', user) <=> Allowed(linked' \cup {p}, user)
        BY <2>1, <3>2, <4>1, <4>2, OnlyAWinnerChanges
      <4>4. QED
        BY <3>2, <3>4, <4>3 DEF Allowed
    <3>6. QED
      BY <2>0, <3>1, <3>5
  <2>4. CASE ChangeRole \/ UNCHANGED vars
    BY <1>1, <2>4 DEF ChangeRole, vars
  <2>5. QED
    BY <1>1, <2>2, <2>3, <2>4 DEF Next
<1>2. RowsOK /\ [Next]_vars =>
        [user' = user /\ Decision(linked, user) # Decision(linked', user) =>
           \/ \E p \in linked' \ linked : Wins(p, linked', user) /\ ~Misspelt(p)
           \/ \E p \in linked \ linked' : Wins(p, linked, user) /\ ~Misspelt(p)]_vars
  BY <1>1
<1>3. QED
  BY <1>2, RowsStay, PTL DEF Spec, OnlyTheWinnerMatters

(* validate_target_value lets any spelling of an id through, and policy    *)
(* rows keep it: whatever is linked, such policies decide nothing, for     *)
(* anybody.                                                                *)
THEOREM MisspeltDecideNothing ==
  Spec => [](\A u \in UserRows :
               Decision(linked, u) = Decision({p \in linked : ~Misspelt(p)}, u))
<1> DEFINE S == {p \in linked : ~Misspelt(p)}
           Idle == \A u \in UserRows : Decision(linked, u) = Decision(S, u)
<1>1. RowsOK => Idle
  <2> SUFFICES ASSUME RowsOK, NEW u \in UserRows PROVE Decision(linked, u) = Decision(S, u)
    OBVIOUS
  <2>1. Table(linked) /\ Table(S)
    BY LinkedIsTable DEF RowsOK
  <2>2. ASSUME NEW p, Misspelt(p) PROVE ~_policy_matches_user(p, u)
    BY <2>2, MisspeltNeverMatch
  <2>3. Allowed(linked, u) <=> Allowed(S, u)
    BY <2>2 DEF Allowed, Wins
  <2> HIDE DEF S
  <2>4. Decision(linked, u) = {IF Allowed(linked, u) THEN "granted" ELSE "denied"}
    BY <2>1, DecisionIs
  <2>5. Decision(S, u) = {IF Allowed(S, u) THEN "granted" ELSE "denied"}
    BY <2>1, DecisionIs
  <2> QED
    BY <2>3, <2>4, <2>5
<1>2. QED
  BY <1>1, RowsStay, PTL
=============================================================================
