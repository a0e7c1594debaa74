---------------------------- MODULE StoreProofs ----------------------------
(***************************************************************************)
(* What holds of the tables whatever the endpoints write, for every number *)
(* of workspaces, users, resources and policies.                           *)
(***************************************************************************)
EXTENDS Store, TLAPS

(* What any step does to the tables. *)
StoreMoves ==
  /\ born \subseteq born' /\ resources' \cap born \subseteq resources
  /\ written \subseteq written' /\ policies' \cap written \subseteq policies
  /\ \A l \in links' : l \in links \/ l[2] \notin written
  /\ StoreTypeOK' /\ LinksIntact'

(* Every write keeps the foreign keys, never reuses an id, and links a     *)
(* policy only when it inserts it.                                         *)
LEMMA WriteMoves ==
  ASSUME StoreTypeOK, LinksIntact, [Write]_store
  PROVE  StoreMoves
<1>1. ASSUME NEW x \in Resources, CreateResource(x) PROVE StoreMoves
  BY <1>1 DEF CreateResource, StoreTypeOK, LinksIntact, StoreMoves
<1>2. ASSUME NEW x \in Resources, DeleteResource(x) PROVE StoreMoves
  BY <1>2 DEF DeleteResource, StoreTypeOK, LinksIntact, StoreMoves
<1>3. ASSUME NEW x \in Resources, NEW p \in Catalogue, CreatePolicy(p, x) PROVE StoreMoves
  <2>1. \A l \in links : l[2] # p
    BY <1>3 DEF CreatePolicy, StoreTypeOK, LinksIntact
  <2>2. /\ links' = links \cup {<<x, p>>} /\ x \in resources /\ p \notin written
        /\ policies' = policies \cup {p} /\ resources' = resources
    BY <1>3 DEF CreatePolicy
  <2>3. LinksIntact'
    BY <2>1, <2>2 DEF LinksIntact
  <2>4. StoreTypeOK'
    BY <1>3 DEF CreatePolicy, StoreTypeOK
  <2> QED
    BY <1>3, <2>2, <2>3, <2>4 DEF CreatePolicy, StoreMoves
<1>4. ASSUME NEW x \in Resources, NEW p \in Catalogue, DeletePolicy(p, x) PROVE StoreMoves
  <2>1. LinksIntact'
    <3>1. \A l \in links' : l \in links /\ l = <<l[1], l[2]>> /\ l[1] \in Resources
      BY <1>4 DEF DeletePolicy, StoreTypeOK
    <3>2. \A l \in links' : l[2] \in policies'
      BY <1>4, <3>1 DEF DeletePolicy, LinksIntact
    <3> QED
      BY <1>4, <3>1, <3>2 DEF DeletePolicy, LinksIntact
  <2> QED
    BY <1>4, <2>1 DEF DeletePolicy, StoreTypeOK, StoreMoves
<1>5. ASSUME NEW u \in Users, NEW r \in Roles, ChangeRole(u, r) PROVE StoreMoves
  BY <1>5 DEF ChangeRole, StoreTypeOK, LinksIntact, StoreMoves
<1>6. CASE UNCHANGED store
  BY <1>6 DEF store, StoreTypeOK, LinksIntact, StoreMoves
<1> QED
  BY <1>1, <1>2, <1>3, <1>4, <1>5, <1>6 DEF Write

(* The tables the endpoints start from respect the foreign keys. *)
LEMMA StoreStarts == ASSUME StoreInit PROVE StoreTypeOK /\ LinksIntact
<1>1. StoreTypeOK
  BY SeedAssumption DEF StoreInit, StoreTypeOK
<1>2. LinksIntact
  BY SeedAssumption DEF StoreInit, LinksIntact
<1> QED
  BY <1>1, <1>2

(* The composite foreign keys hold for ever, whatever is written when. *)
THEOREM ForeignKeysHold == StoreSpec => [](StoreTypeOK /\ LinksIntact)
<1>1. StoreInit => StoreTypeOK /\ LinksIntact
  BY StoreStarts
<1>2. StoreTypeOK /\ LinksIntact /\ [Write]_store => (StoreTypeOK /\ LinksIntact)'
  BY WriteMoves DEF StoreMoves
<1> QED
  BY <1>1, <1>2, PTL DEF StoreSpec
=============================================================================
