------------------------- MODULE PolicyEngineProofs -------------------------
(***************************************************************************)
(* The query returns a set of policies in one order only, and the loop of  *)
(* policy_eval, run on it, decides what Entitles says it should.           *)
(***************************************************************************)
EXTENDS PolicyEngine, WellFoundedInduction, FiniteSetTheorems, TLAPS

(* Every non-empty set of naturals has a least element. *)
LEMMA LeastNatural ==
  ASSUME NEW T \in SUBSET Nat, T # {}
  PROVE  \E m \in T : \A k \in T : m <= k
<1> DEFINE LessThan == {ss \in Nat \X Nat : ss[1] < ss[2]}
<1>1. IsWellFoundedOn(LessThan, Nat)
  BY NatLessThanWellFounded DEF OpToRel
<1>2. PICK m \in T : \A k \in T : ~(<<k, m>> \in LessThan)
  <2> HIDE DEF LessThan
  <2> QED
    BY <1>1, WFMin
<1>3. ASSUME NEW k \in T, k < m PROVE FALSE
  <2>1. <<k, m>> \in Nat \X Nat /\ <<k, m>>[1] < <<k, m>>[2]
    BY <1>3
  <2> QED
    BY <1>2, <2>1
<1> QED
  BY <1>3

(* The ORDER BY is a strict total order on rows with different ids, so the *)
(* listing of a resource's policies does not depend on how rows are stored.*)
LEMMA PrecedesStrictTotal ==
  /\ \A p, q \in PolicyRows : Precedes(p, q) => ~Precedes(q, p)
  /\ \A p, q, r \in PolicyRows : Precedes(p, q) /\ Precedes(q, r) => Precedes(p, r)
  /\ \A p, q \in PolicyRows : p.id # q.id => Precedes(p, q) \/ Precedes(q, p)
BY DEF PolicyRows, Precedes

(* In a listing nothing is missing, and positions follow precedence. *)
LEMMA ListingPositions ==
  ASSUME NEW S \in SUBSET PolicyRows, NEW s \in Listings(S)
  PROVE  /\ \A i \in DOMAIN s : s[i] \in S /\ s[i] # NoPolicy
         /\ \A i, j \in DOMAIN s : Precedes(s[i], s[j]) => i < j
         /\ \A p \in S : \E i \in DOMAIN s : s[i] = p
         /\ DOMAIN s \subseteq Int
<1>1. /\ s \in [1 .. Cardinality(S) -> S] /\ Range(s) = S
      /\ \A i, j \in DOMAIN s : i < j => ~Precedes(s[j], s[i])
  BY DEF Listings
<1>2. \A i \in DOMAIN s : s[i] \in S /\ s[i] # NoPolicy
  BY <1>1, NoPolicyAssumption
<1>3. DOMAIN s \subseteq Int
  BY <1>1
<1>4. ASSUME NEW i \in DOMAIN s, NEW j \in DOMAIN s, Precedes(s[i], s[j])
      PROVE  i < j
  <2>1. i # j
    BY <1>2, <1>4, PrecedesStrictTotal
  <2> QED
    BY <1>1, <1>3, <2>1, <1>4
<1> QED
  BY <1>1, <1>2, <1>3, <1>4 DEF Range

(* A grant by the loop is a grant by the winning policy, even when the     *)
(* rows behind some entries of the listing are gone by the time it runs.   *)
LEMMA GrantHasWinner ==
  ASSUME NEW S \in SUBSET PolicyRows, \A p, q \in S : p.id = q.id => p = q,
         NEW s \in Listings(S), NEW user \in UserRows,
         NEW list, DOMAIN list = DOMAIN s,
         \A i \in DOMAIN s : list[i] \in {s[i], NoPolicy},
         policy_eval(list, user) = "granted"
  PROVE  \E p \in S : Wins(p, S, user) /\ p.effect = "allow"
<1>1. PICK i \in StopsAt(list, user) : list[i].effect = "allow" /\ list[i] # NoPolicy
  BY DEF policy_eval
<1>2. /\ i \in DOMAIN s /\ list[i] = s[i] /\ s[i] \in S
      /\ _policy_matches_user(s[i], user)
      /\ \A j \in DOMAIN s : _policy_matches_user(list[j], user) \/ list[j] = NoPolicy => i <= j
  BY <1>1, ListingPositions DEF StopsAt
<1>3. ASSUME NEW q \in S \ {s[i]}, _policy_matches_user(q, user)
      PROVE  Precedes(s[i], q)
  <2>1. PICK j \in DOMAIN s : s[j] = q
    BY ListingPositions
  <2>2. i <= j /\ i # j
    BY <1>2, <1>3, <2>1
  <2>3. ~Precedes(q, s[i])
    BY <1>2, <2>1, <2>2, ListingPositions DEF Listings
  <2>4. s[i].id # q.id
    BY <1>2
  <2> QED
    BY <1>2, <2>3, <2>4, PrecedesStrictTotal
<1> QED
  BY <1>1, <1>2, <1>3 DEF Wins
(* A denial by the loop means that no allowing policy wins.  The entries   *)
(* behind which the row is gone stop the loop with an error, never with a  *)
(* denial, so they cannot hide a winner.                                   *)
LEMMA DenialHasNoWinner ==
  ASSUME NEW S \in SUBSET PolicyRows, NEW s \in Listings(S), NEW user \in UserRows,
         NEW list, DOMAIN list = DOMAIN s,
         \A i \in DOMAIN s : list[i] \in {s[i], NoPolicy},
         policy_eval(list, user) = "denied",
         NEW p \in S, Wins(p, S, user), p.effect = "allow"
  PROVE  FALSE
<1> DEFINE stops == {i \in DOMAIN list :
                       list[i] = NoPolicy \/ _policy_matches_user(list[i], user)}
<1>1. PICK k \in DOMAIN s : s[k] = p
  BY ListingPositions
<1>2. k \in stops
  BY <1>1 DEF Wins
<1>3. stops \in SUBSET Nat
  BY DEF Listings
<1>4. PICK i \in stops : \A j \in stops : i <= j
  <2> HIDE DEF stops
  <2> QED
    BY <1>2, <1>3, LeastNatural
<1>5. i \in StopsAt(list, user)
  BY <1>4 DEF StopsAt
<1>6. list[i] # NoPolicy /\ list[i].effect # "allow"
  BY <1>5 DEF policy_eval
<1>7. list[i] = s[i] /\ _policy_matches_user(s[i], user) /\ s[i] \in S /\ s[i] # p
  BY <1>4, <1>6, ListingPositions
<1>8. k < i
  BY <1>1, <1>4, <1>7, ListingPositions DEF Wins
<1> QED
  BY <1>2, <1>3, <1>4, <1>8

(* On the listing of any set of policies the loop of policy_eval decides   *)
(* as Entitles does, and never meets a missing policy.                     *)
THEOREM EvalMeetsDecision ==
  ASSUME NEW S \in SUBSET PolicyRows, \A p, q \in S : p.id = q.id => p = q,
         NEW s \in Listings(S), NEW user \in UserRows,
         user.role # "admin"
  PROVE  policy_eval(s, user) = IF Entitles(S, user) THEN "granted" ELSE "denied"
<1>1. policy_eval(s, user) # "error"
  BY ListingPositions DEF policy_eval, StopsAt
<1>2. policy_eval(s, user) \in {"granted", "denied"}
  BY <1>1 DEF policy_eval
<1>3. policy_eval(s, user) = "granted" => Entitles(S, user)
  BY GrantHasWinner DEF Entitles
<1>4. policy_eval(s, user) = "denied" => ~Entitles(S, user)
  BY DenialHasNoWinner DEF Entitles
<1> QED
  BY <1>2, <1>3, <1>4

-----------------------------------------------------------------------------
(* A finite set of policies with distinct ids *)
Table(S) ==
  /\ S \in SUBSET PolicyRows /\ IsFiniteSet(S)
  /\ \A p, q \in S : p.id = q.id => p = q

Before(S, p) == {q \in S : Precedes(q, p)}
Rank(S) == [p \in S |-> Cardinality(Before(S, p)) + 1]

-----------------------------------------------------------------------------
(* How many policies come before one is its place, and no two share it.    *)
LEMMA RanksDiffer ==
  ASSUME NEW S, Table(S), NEW p \in S, NEW q \in S, Precedes(p, q)
  PROVE  /\ Cardinality(Before(S, p)) \in Nat /\ Cardinality(Before(S, q)) \in Nat
         /\ Cardinality(Before(S, p)) < Cardinality(Before(S, q))
<1>1. Before(S, p) \subseteq S /\ Before(S, q) \subseteq S
  BY DEF Before
<1>2. IsFiniteSet(Before(S, p)) /\ IsFiniteSet(Before(S, q))
  BY <1>1, FS_Subset DEF Table
<1>3. p \notin Before(S, p) /\ Before(S, p) \cup {p} \subseteq Before(S, q)
  BY PrecedesStrictTotal DEF Before, Table
<1>4. Cardinality(Before(S, p) \cup {p}) = Cardinality(Before(S, p)) + 1
  BY <1>2, <1>3, FS_AddElement
<1>5. Cardinality(Before(S, p) \cup {p}) <= Cardinality(Before(S, q))
  BY <1>2, <1>3, FS_Subset
<1>6. QED
  BY <1>2, <1>4, <1>5, FS_CardinalityType

LEMMA RankIsBijection ==
  ASSUME NEW S, Table(S)
  PROVE  /\ Cardinality(S) \in Nat
         /\ Rank(S) \in [S -> 1 .. Cardinality(S)]
         /\ \A p, q \in S : Rank(S)[p] = Rank(S)[q] => p = q
         /\ \A i \in 1 .. Cardinality(S) : \E p \in S : Rank(S)[p] = i
<1> DEFINE n == Cardinality(S)
<1>1. IsFiniteSet(S) /\ n \in Nat
  BY FS_CardinalityType DEF Table
<1>2. ASSUME NEW p \in S PROVE Rank(S)[p] \in 1 .. n
  <2>1. Before(S, p) \subseteq S \ {p}
    BY PrecedesStrictTotal DEF Before, Table
  <2>2. IsFiniteSet(S \ {p}) /\ Cardinality(S \ {p}) = n - 1
    BY <1>1, FS_RemoveElement
  <2>3. IsFiniteSet(Before(S, p)) /\ Cardinality(Before(S, p)) <= n - 1
    BY <2>1, <2>2, FS_Subset
  <2>4. Cardinality(Before(S, p)) \in Nat
    BY <2>3, FS_CardinalityType
  <2>5. QED
    BY <1>1, <2>3, <2>4 DEF Rank
<1>3. Rank(S) \in [S -> 1 .. n]
  <2>1. Rank(S) = [p \in S |-> Rank(S)[p]]
    BY DEF Rank
  <2>2. QED
    BY <1>2, <2>1
<1>4. ASSUME NEW p \in S, NEW q \in S, Rank(S)[p] = Rank(S)[q] PROVE p = q
  <2>1. SUFFICES ASSUME p # q PROVE FALSE
    OBVIOUS
  <2>2. Precedes(p, q) \/ Precedes(q, p)
    BY <2>1, PrecedesStrictTotal DEF Table
  <2>3. Cardinality(Before(S, p)) # Cardinality(Before(S, q))
    BY <2>2, RanksDiffer
  <2>4. Cardinality(Before(S, p)) \in Nat /\ Cardinality(Before(S, q)) \in Nat
    BY <2>2, RanksDiffer
  <2>5. QED
    BY <1>4, <2>3, <2>4 DEF Rank
<1>5. Rank(S) \in Injection(S, 1 .. n)
  BY <1>3, <1>4 DEF Injection, IsInjective
<1>6. IsFiniteSet(1 .. n) /\ Cardinality(1 .. n) = n
  BY <1>1, FS_Interval
<1>7. Rank(S) \in Surjection(S, 1 .. n)
  BY <1>5, <1>6, FS_Injection
<1>8. QED
  BY <1>1, <1>3, <1>4, <1>7 DEF Surjection

(* In a listing the policy at place i has rank i: the ones before it are   *)
(* exactly those at the places before.                                     *)
LEMMA PlaceIsRank ==
  ASSUME NEW S, Table(S), NEW s \in Listings(S), NEW i \in 1 .. Cardinality(S)
  PROVE  s[i] \in S /\ Rank(S)[s[i]] = i
<1> DEFINE n == Cardinality(S)
           g == [j \in 1 .. i - 1 |-> s[j]]
<1>1. n \in Nat /\ IsFiniteSet(1 .. n) /\ Cardinality(1 .. n) = n
  BY RankIsBijection, FS_Interval
<1>2. s \in [1 .. n -> S] /\ Range(s) = S
      /\ \A j, k \in 1 .. n : j < k => ~Precedes(s[k], s[j])
  BY DEF Listings
<1>3. s \in Surjection(1 .. n, S)
  BY <1>2 DEF Surjection, Range
<1>4. \A j, k \in 1 .. n : s[j] = s[k] => j = k
  <2>1. s \in Injection(1 .. n, S)
    BY <1>1, <1>3, FS_SurjSameCardinalityImpliesInj
  <2>2. QED
    BY <2>1 DEF Injection, IsInjective
<1>5. \A j, k \in 1 .. n : j < k => Precedes(s[j], s[k])
  BY <1>2, <1>4, PrecedesStrictTotal DEF Table
<1>6. Before(S, s[i]) = {s[j] : j \in 1 .. i - 1}
  <2>1. ASSUME NEW j \in 1 .. i - 1 PROVE s[j] \in Before(S, s[i])
    BY <1>1, <1>2, <1>5 DEF Before
  <2>2. ASSUME NEW q \in Before(S, s[i]) PROVE \E j \in 1 .. i - 1 : q = s[j]
    <3>1. PICK j \in 1 .. n : q = s[j]
      BY <1>2 DEF Before, Range
    <3>2. Precedes(s[j], s[i]) /\ s[j] \in PolicyRows /\ s[i] \in PolicyRows
      BY <1>2, <3>1 DEF Before, Table
    <3>3. ~Precedes(s[i], s[j])
      BY <3>2, PrecedesStrictTotal
    <3>4. j # i
      BY <3>2, <3>3
    <3>5. j < i
      BY <1>1, <1>5, <3>3, <3>4
    <3>6. QED
      BY <1>1, <3>1, <3>5
  <2>3. QED
    BY <2>1, <2>2
<1>7. g \in Bijection(1 .. i - 1, Before(S, s[i]))
  <2>1. g \in [1 .. i - 1 -> Before(S, s[i])]
    BY <1>6
  <2>2. \A j, k \in 1 .. i - 1 : g[j] = g[k] => j = k
    BY <1>1, <1>4
  <2>3. \A q \in Before(S, s[i]) : \E j \in 1 .. i - 1 : g[j] = q
    BY <1>6
  <2>4. QED
    BY <2>1, <2>2, <2>3 DEF Bijection, Injection, Surjection, IsInjective
<1>8. Cardinality(Before(S, s[i])) = i - 1
  <2>1. ExistsBijection(1 .. i - 1, Before(S, s[i]))
    BY <1>7 DEF ExistsBijection
  <2>2. i - 1 \in Nat
    BY <1>1
  <2>3. QED
    BY <2>1, <2>2, FS_CountingElements
<1>9. QED
  BY <1>1, <1>2, <1>8 DEF Rank

(* ORDER BY priority DESC, created_at ASC, id ASC returns a set of rows in *)
(* one order, and in no other.                                             *)
LEMMA OneOrder ==
  ASSUME NEW S, Table(S)
  PROVE  \E s : Listings(S) = {s}
<1> DEFINE n == Cardinality(S)
           s == [i \in 1 .. n |-> CHOOSE p \in S : Rank(S)[p] = i]
<1>1. ASSUME NEW i \in 1 .. n PROVE s[i] \in S /\ Rank(S)[s[i]] = i
  BY RankIsBijection
<1>2. s \in Listings(S)
  <2>1. s \in [1 .. n -> S]
    BY <1>1
  <2>2. ASSUME NEW p \in S PROVE \E i \in 1 .. n : s[i] = p
    <3>1. PICK i \in 1 .. n : i = Rank(S)[p]
      BY RankIsBijection
    <3>2. s[i] \in S /\ Rank(S)[s[i]] = i
      BY <1>1
    <3>3. s[i] = p
      BY <3>1, <3>2, RankIsBijection
    <3>4. QED
      BY <3>3
  <2>3. Range(s) = S
    BY <2>1, <2>2 DEF Range
  <2>4. ASSUME NEW i \in 1 .. n, NEW j \in 1 .. n, i < j, Precedes(s[j], s[i])
        PROVE  FALSE
    <3>1. s[i] \in S /\ s[j] \in S /\ Rank(S)[s[i]] = i /\ Rank(S)[s[j]] = j
      BY <1>1
    <3>2. /\ Cardinality(Before(S, s[j])) \in Nat /\ Cardinality(Before(S, s[i])) \in Nat
          /\ Cardinality(Before(S, s[j])) < Cardinality(Before(S, s[i]))
      BY <2>4, <3>1, RanksDiffer
    <3>3. i = Cardinality(Before(S, s[i])) + 1 /\ j = Cardinality(Before(S, s[j])) + 1
      BY <3>1 DEF Rank
    <3>4. n \in Nat
      BY RankIsBijection
    <3> HIDE DEF s, n
    <3>5. QED
      BY <2>4, <3>2, <3>3, <3>4
  <2>5. QED
    BY <2>1, <2>3, <2>4 DEF Listings
<1>3. ASSUME NEW t \in Listings(S) PROVE t = s
  <2>1. t \in [1 .. n -> S]
    BY DEF Listings
  <2>2. ASSUME NEW i \in 1 .. n PROVE t[i] = s[i]
    <3>1. t[i] \in S /\ Rank(S)[t[i]] = i /\ s[i] \in S /\ Rank(S)[s[i]] = i
      BY <1>1, PlaceIsRank
    <3>2. QED
      BY <3>1, RankIsBijection
  <2>3. QED
    BY <2>1, <2>2
<1>4. QED
  BY <1>2, <1>3
=============================================================================
