------------------------ MODULE ResourceAdminProofs ------------------------
(***************************************************************************)
(* ResourceAdmin does what Store says, for every number of calls, users,   *)
(* resources and policies.                                                 *)
(***************************************************************************)
EXTENDS ResourceAdmin, StoreProofs

Working == {"write", "link", "find", "unlink", "check", "commit"}

(* No column took what the call was to write. *)
Refused(c) == call[c].pc = "failed" /\ ~Storable(call[c])

(* The row a call is going to insert, or was. *)
NewResource(c) ==
  call[c].op = "create_resource" /\ (call[c].pc \in {"authorized", "write"} \/ Refused(c))
NewPolicy(c) ==
  call[c].op = "create_policy" /\ (call[c].pc \in {"authorized", "write", "link"} \/ Refused(c))

Started(c) == call[c].pc \notin {"idle", "forbidden"}

(* Ids in a path are of rows that were inserted; ids of rows to come are   *)
(* of none.                                                                *)
IdsKnown(c) ==
  /\ NewResource(c) => /\ call[c].target \in Resources \ born
                       /\ SameWorkspace(call[c].target, call[c].caller)
  /\ NewPolicy(c) => call[c].policy \in Catalogue \ written
  /\ Started(c) /\ ~NewResource(c) => call[c].target \in born
  /\ Started(c) /\ call[c].op = "delete_policy" => call[c].policy \in written
  /\ Started(c) /\ call[c].op = "create_policy" /\ ~NewPolicy(c) /\ call[c].pc \in {"reread", "failed"}
       => call[c].policy \in written
  /\ call[c].pc \in Working => SameWorkspace(call[c].target, call[c].caller)

PathKnown(c) ==
  /\ call[c].pc = "write" => call[c].op # "delete_policy"
  /\ call[c].pc = "link" => call[c].op = "create_policy"
  /\ call[c].pc \in {"link", "reread"} => Storable(call[c])
  /\ call[c].pc \in {"find", "unlink", "check", "commit"} => call[c].op = "delete_policy"
  /\ call[c].pc \in {"reread", "failed"} =>
       call[c].op \in {"create_resource", "update_resource", "create_policy"}

(* No two calls insert the same row. *)
Distinct(c, d) ==
  /\ NewResource(c) /\ NewResource(d) => call[c].target # call[d].target
  /\ NewPolicy(c) /\ NewPolicy(d) => call[c].policy # call[d].policy

(* What has_remaining_links says when the call finishes: if no, it is      *)
(* true; if yes, it is true, or the policy counts as explained.            *)
KeptKnown(c) ==
  call[c].pc = "commit" =>
    /\ ~call[c].kept =>
         \A y \in Resources : <<y, call[c].policy>> \in links => y = call[c].target
    /\ call[c].kept /\ <<call[c].target, call[c].policy>> \in links =>
         \/ \E y \in Resources \ {call[c].target} : <<y, call[c].policy>> \in links
         \/ call[c].policy \in cascaded \cup overlapped

Answered(c) ==
  LET q == call[c] IN
  /\ q.pc = "ok" => /\ q.op = "delete_resource" => q.target \notin resources
                    /\ q.op = "delete_policy" => <<q.target, q.policy>> \notin links
  /\ q.pc = "not_found" =>
       \/ q.target \notin resources \/ ~SameWorkspace(q.target, q.caller)
       \/ q.op = "delete_policy" /\ <<q.target, q.policy>> \notin links
  /\ q.pc = "conflict" => \/ q.op = "update_resource" /\ q.body = "null"
                          \/ q.op = "create_policy" /\ q.target \notin resources
  /\ q.pc = "failed" =>
       CASE q.op = "create_resource" -> q.target \notin resources /\ (~Storable(q) \/ q.target \in born)
         [] q.op = "create_policy" -> q.policy \notin policies /\ (~Storable(q) \/ q.policy \in written)
         [] q.op = "update_resource" -> ~Storable(q) \/ q.target \in born \ resources
         [] OTHER -> FALSE

CallInv(c) == IdsKnown(c) /\ PathKnown(c) /\ KeptKnown(c) /\ Answered(c)

IInv ==
  /\ TypeOK /\ LinksIntact /\ OrphansExplained
  /\ \A c \in Calls : CallInv(c)
  /\ \A c, d \in Calls : c # d => Distinct(c, d)

-----------------------------------------------------------------------------
(* A call that takes no part in a step keeps what is known about it.       *)
LEMMA OtherCalls ==
  ASSUME IInv, StoreMoves, NEW c \in Calls, call'[c] = call[c], KeptKnown(c)',
         NewResource(c) => call[c].target \notin born',
         NewPolicy(c) => call[c].policy \notin written',
         \A p \in written' : Fits(p)
  PROVE  CallInv(c)'
<1>1. IdsKnown(c) /\ PathKnown(c) /\ Answered(c) /\ call[c] \in CallState
  BY DEF IInv, CallInv, TypeOK
<1>2. born \subseteq born' /\ written \subseteq written' /\ written' \subseteq Catalogue
  BY DEF StoreMoves, StoreTypeOK
<1>3. IdsKnown(c)'
  BY <1>1, <1>2 DEF IdsKnown, NewResource, NewPolicy, Refused, Storable, Started, SameWorkspace
<1>4. PathKnown(c)'
  BY <1>1 DEF PathKnown, Storable
<1>5. Answered(c)'
  <2>1. ASSUME Started(c), ~NewResource(c), call[c].target \notin resources
        PROVE  call[c].target \notin resources'
    BY <1>1, <2>1 DEF IdsKnown, StoreMoves
  <2>2. ASSUME Started(c), call[c].op = "delete_policy",
               <<call[c].target, call[c].policy>> \notin links
        PROVE  <<call[c].target, call[c].policy>> \notin links'
    BY <1>1, <2>2 DEF IdsKnown, StoreMoves
  <2>3. ASSUME call[c].policy \in written \ policies
        PROVE  call[c].policy \in written' \ policies'
    BY <2>3, <1>2 DEF StoreMoves
  <2>4. ASSUME call[c].pc \in {"ok", "not_found", "conflict"}
        PROVE  Started(c) /\ ~NewResource(c)
    BY <2>4 DEF Started, NewResource, Refused
  <2>5. (call[c].pc = "ok" =>
           /\ call[c].op = "delete_resource" => call[c].target \notin resources
           /\ call[c].op = "delete_policy" => <<call[c].target, call[c].policy>> \notin links)'
    BY <1>1, <2>1, <2>2, <2>4 DEF Answered
  <2>6. (call[c].pc = "not_found" =>
           \/ call[c].target \notin resources \/ ~SameWorkspace(call[c].target, call[c].caller)
           \/ call[c].op = "delete_policy" /\ <<call[c].target, call[c].policy>> \notin links)'
    BY <1>1, <2>1, <2>2, <2>4 DEF Answered, SameWorkspace
  <2>7. (call[c].pc = "conflict" =>
           \/ call[c].op = "update_resource" /\ call[c].body = "null"
           \/ call[c].op = "create_policy" /\ call[c].target \notin resources)'
    BY <1>1, <2>1, <2>4 DEF Answered
  <2>8. (call[c].pc = "failed" =>
           LET q == call[c] IN
           CASE q.op = "create_resource" ->
                  q.target \notin resources /\ (~Storable(q) \/ q.target \in born)
             [] q.op = "create_policy" ->
                  q.policy \notin policies /\ (~Storable(q) \/ q.policy \in written)
             [] q.op = "update_resource" -> ~Storable(q) \/ q.target \in born \ resources
             [] OTHER -> FALSE)'
    <3> SUFFICES ASSUME call[c].pc = "failed"
                 PROVE  (LET q == call[c] IN
                         CASE q.op = "create_resource" ->
                                q.target \notin resources /\ (~Storable(q) \/ q.target \in born)
                           [] q.op = "create_policy" ->
                                q.policy \notin policies /\ (~Storable(q) \/ q.policy \in written)
                           [] q.op = "update_resource" -> ~Storable(q) \/ q.target \in born \ resources
                           [] OTHER -> FALSE)'
      OBVIOUS
    <3>1. policies' \subseteq written' /\ resources' \subseteq born'
      BY DEF StoreMoves, StoreTypeOK
    <3>2. Storable(call[c])' <=> Storable(call[c])
      BY DEF Storable
    <3>3. CASE call[c].op = "create_resource"
      <4>1. CASE Storable(call[c])
        BY <1>1, <1>2, <2>1, <3>2, <3>3, <4>1 DEF Answered, Started, NewResource, Refused
      <4>2. CASE ~Storable(call[c])
        BY <3>1, <3>2, <3>3, <4>2 DEF NewResource, Refused
      <4> QED
        BY <4>1, <4>2
    <3>4. CASE call[c].op = "create_policy"
      <4>1. CASE Storable(call[c])
        BY <1>1, <1>2, <2>3, <3>2, <3>4, <4>1 DEF Answered
      <4>2. CASE ~Storable(call[c])
        BY <3>1, <3>2, <3>4, <4>2 DEF NewPolicy, Refused
      <4> QED
        BY <4>1, <4>2
    <3>5. CASE call[c].op = "update_resource"
      BY <1>1, <1>2, <2>1, <3>2, <3>5 DEF Answered, Started, NewResource
    <3> QED
      BY <1>1, <3>3, <3>4, <3>5 DEF Answered
  <2> QED
    BY <2>5, <2>6, <2>7, <2>8 DEF Answered
<1> QED
  BY <1>3, <1>4, <1>5 DEF CallInv

(* A step that writes nothing. *)
LEMMA QuietStep ==
  ASSUME IInv, UNCHANGED <<store, history>>, NEW c \in Calls, NEW q \in CallState,
         call' = [call EXCEPT ![c] = q], CallInv(c)',
         \A d \in Calls \ {c} : Distinct(c, d)' /\ Distinct(d, c)'
  PROVE  IInv'
<1>1. /\ role' = role /\ resources' = resources /\ links' = links /\ policies' = policies
      /\ born' = born /\ written' = written
      /\ cascaded' = cascaded /\ overlapped' = overlapped
  BY DEF store, history
<1>2. TypeOK' /\ LinksIntact' /\ OrphansExplained'
  BY <1>1 DEF IInv, TypeOK, StoreTypeOK, LinksIntact, OrphansExplained
<1>3. StoreMoves
  <2>1. StoreTypeOK /\ LinksIntact /\ UNCHANGED store
    BY DEF IInv, TypeOK
  <2> QED
    BY <2>1, WriteMoves
<1>4. ASSUME NEW d \in Calls, d # c PROVE call'[d] = call[d]
  BY <1>4 DEF IInv, TypeOK
<1>5. ASSUME NEW d \in Calls, d # c PROVE CallInv(d)'
  <2>1. CallInv(d)
    BY DEF IInv
  <2>2. KeptKnown(d)'
    BY <1>1, <1>4, <1>5, <2>1 DEF CallInv, KeptKnown
  <2>3. /\ NewResource(d) => call[d].target \notin born'
        /\ NewPolicy(d) => call[d].policy \notin written'
    BY <1>1, <2>1 DEF CallInv, IdsKnown
  <2> QED
    BY <1>2, <1>3, <1>4, <1>5, <2>2, <2>3, OtherCalls DEF TypeOK
<1>6. ASSUME NEW d \in Calls, NEW e \in Calls, d # e PROVE Distinct(d, e)'
  <2>1. CASE d # c /\ e # c
    <3>1. Distinct(d, e)
      BY <1>6 DEF IInv
    <3> QED
      BY <1>4, <2>1, <3>1 DEF Distinct, NewResource, NewPolicy, Refused, Storable
  <2> QED
    BY <1>6, <2>1
<1> QED
  BY <1>2, <1>5, <1>6 DEF IInv

(* A step to another place in the same call, which then inserts no row     *)
(* that it was not going to insert.                                        *)
LEMMA MovesOn ==
  ASSUME IInv, NEW c \in Calls, NEW pc \in Open \cup Closed, Keeps(c, pc),
         NewResource(c)' => NewResource(c), NewPolicy(c)' => NewPolicy(c), CallInv(c)'
  PROVE  IInv'
<1> DEFINE q == [call[c] EXCEPT !.pc = pc]
<1>1. q \in CallState /\ call' = [call EXCEPT ![c] = q] /\ UNCHANGED <<store, history>>
  BY DEF Keeps, Goto, IInv, TypeOK, CallState
<1>2. call'[c].target = call[c].target /\ call'[c].policy = call[c].policy
  BY <1>1 DEF IInv, TypeOK, CallState
<1>3. ASSUME NEW d \in Calls \ {c} PROVE Distinct(c, d)' /\ Distinct(d, c)'
  <2>1. call'[d] = call[d]
    BY <1>1 DEF IInv, TypeOK
  <2>2. Distinct(c, d) /\ Distinct(d, c)
    BY DEF IInv
  <2>3. (NewResource(d)' => NewResource(d)) /\ (NewPolicy(d)' => NewPolicy(d))
    BY <2>1 DEF NewResource, NewPolicy, Refused, Storable
  <2> QED
    BY <1>2, <2>1, <2>2, <2>3 DEF Distinct
<1> HIDE DEF q
<1> QED
  BY <1>1, <1>3, QuietStep

(* What Keeps leaves as it was. *)
LEMMA KeepsFacts ==
  ASSUME IInv, NEW c \in Calls, NEW pc \in Open \cup Closed, Keeps(c, pc)
  PROVE  /\ call'[c].pc = pc /\ call'[c].op = call[c].op /\ call'[c].caller = call[c].caller
         /\ call'[c].target = call[c].target /\ call'[c].policy = call[c].policy
         /\ call'[c].body = call[c].body /\ call'[c].kept = call[c].kept
         /\ resources' = resources /\ links' = links /\ policies' = policies
         /\ born' = born /\ written' = written
         /\ cascaded' = cascaded /\ overlapped' = overlapped
BY DEF Keeps, Goto, store, history, IInv, TypeOK, CallState

LEMMA FindResourceIInv == ASSUME IInv, NEW c \in Calls, FindResource(c) PROVE IInv'
<1>1. call[c].pc = "authorized" /\ CallInv(c)
  BY DEF FindResource, IInv
<1>2. PICK pc \in Open \cup Closed :
        /\ Keeps(c, pc)
        /\ \/ pc = "write" /\ call[c].op = "create_resource"
           \/ pc = "not_found" /\ call[c].op # "create_resource"
                /\ (call[c].target \notin resources \/ ~SameWorkspace(call[c].target, call[c].caller))
           \/ /\ call[c].op # "create_resource" /\ SameWorkspace(call[c].target, call[c].caller)
              /\ pc = IF call[c].op = "delete_policy" THEN "find" ELSE "write"
  BY DEF FindResource, Open, Closed
<1>3. /\ call'[c].pc = pc /\ call'[c].op = call[c].op /\ call'[c].caller = call[c].caller
      /\ call'[c].target = call[c].target /\ call'[c].policy = call[c].policy
      /\ call'[c].body = call[c].body
      /\ resources' = resources /\ links' = links /\ policies' = policies
      /\ born' = born /\ written' = written
  BY <1>2, KeepsFacts
<1>4. (NewResource(c)' => NewResource(c)) /\ (NewPolicy(c)' => NewPolicy(c))
  BY <1>1, <1>3 DEF NewResource, NewPolicy, Refused, Storable
<1>5. IdsKnown(c)'
  BY <1>1, <1>2, <1>3 DEF CallInv, IdsKnown, NewResource, NewPolicy, Refused, Storable, Started, Working, SameWorkspace
<1>6. PathKnown(c)' /\ KeptKnown(c)'
  BY <1>1, <1>2, <1>3 DEF PathKnown, KeptKnown
<1>7. Answered(c)'
  BY <1>2, <1>3 DEF Answered, SameWorkspace
<1> QED
  BY <1>2, <1>4, <1>5, <1>6, <1>7, MovesOn DEF CallInv

LEMMA UpdateResourceIInv == ASSUME IInv, NEW c \in Calls, UpdateResource(c) PROVE IInv'
<1>1. call[c].pc = "write" /\ call[c].op = "update_resource" /\ CallInv(c)
  BY DEF UpdateResource, IInv
<1>2. PICK pc \in Open \cup Closed :
        Keeps(c, pc) /\ pc = IF ~Storable(call[c]) \/ call[c].target \notin resources THEN "failed"
                             ELSE IF call[c].body = "null" THEN "conflict" ELSE "reread"
  BY DEF UpdateResource, Open, Closed
<1>3. /\ call'[c].pc = pc /\ call'[c].op = call[c].op /\ call'[c].caller = call[c].caller
      /\ call'[c].target = call[c].target /\ call'[c].policy = call[c].policy
      /\ call'[c].body = call[c].body
      /\ resources' = resources /\ born' = born /\ written' = written
  BY <1>2, KeepsFacts
<1>4. ~NewResource(c)' /\ ~NewPolicy(c)'
  BY <1>1, <1>3 DEF NewResource, NewPolicy, Refused, Storable
<1>5. IdsKnown(c)'
  BY <1>1, <1>2, <1>3 DEF CallInv, IdsKnown, NewResource, NewPolicy, Refused, Storable, Started, Working
<1>6. PathKnown(c)' /\ KeptKnown(c)'
  BY <1>1, <1>2, <1>3 DEF PathKnown, KeptKnown, Storable
<1>7. Answered(c)'
  <2>1. call[c].target \in born
    BY <1>1 DEF CallInv, IdsKnown, Started, NewResource, Refused, Storable
  <2> QED
    BY <1>1, <1>2, <1>3, <2>1 DEF Answered, Storable
<1> QED
  BY <1>2, <1>4, <1>5, <1>6, <1>7, MovesOn DEF CallInv

LEMMA InsertPolicyIInv == ASSUME IInv, NEW c \in Calls, InsertPolicy(c) PROVE IInv'
<1>1. call[c].pc = "write" /\ call[c].op = "create_policy" /\ CallInv(c) /\ NewPolicy(c)
  BY DEF InsertPolicy, IInv, NewPolicy
<1>2. PICK pc \in Open \cup Closed :
        Keeps(c, pc) /\ pc = IF Storable(call[c]) THEN "link" ELSE "failed"
  BY DEF InsertPolicy, Open, Closed
<1>3. /\ call'[c].pc = pc /\ call'[c].op = call[c].op /\ call'[c].caller = call[c].caller
      /\ call'[c].target = call[c].target /\ call'[c].policy = call[c].policy
      /\ call'[c].body = call[c].body
      /\ policies' = policies /\ born' = born /\ written' = written
  BY <1>2, KeepsFacts
<1>4. (NewResource(c)' => NewResource(c)) /\ (NewPolicy(c)' => NewPolicy(c))
  BY <1>1, <1>3 DEF NewResource, Refused, Storable
<1>5. call[c].policy \notin policies
  BY <1>1 DEF CallInv, IdsKnown, IInv, TypeOK, StoreTypeOK
<1>6. CallInv(c)'
  BY <1>1, <1>2, <1>3, <1>5 DEF CallInv, IdsKnown, NewResource, NewPolicy, Refused, Storable, Started, Working,
                    SameWorkspace, PathKnown, KeptKnown, Answered
<1> QED
  BY <1>2, <1>4, <1>6, MovesOn

LEMMA RereadIInv == ASSUME IInv, NEW c \in Calls, Reread(c) PROVE IInv'
<1>1. call[c].pc = "reread" /\ CallInv(c)
  BY DEF Reread, IInv
<1>2. PICK pc \in Open \cup Closed :
        /\ Keeps(c, pc) /\ pc \in {"ok", "failed"}
        /\ pc = "failed" => IF call[c].op = "create_policy" THEN call[c].policy \notin policies
                                                           ELSE call[c].target \notin resources
  BY DEF Reread, Closed
<1>3. /\ call'[c].pc = pc /\ call'[c].op = call[c].op /\ call'[c].caller = call[c].caller
      /\ call'[c].target = call[c].target /\ call'[c].policy = call[c].policy
      /\ call'[c].body = call[c].body
      /\ resources' = resources /\ policies' = policies /\ born' = born /\ written' = written
  BY <1>2, KeepsFacts
<1>4. /\ call[c].op \in {"create_resource", "update_resource", "create_policy"}
      /\ call[c].target \in born
      /\ call[c].op = "create_policy" => call[c].policy \in written
      /\ Storable(call[c])
  BY <1>1 DEF CallInv, IdsKnown, PathKnown, Started, NewResource, NewPolicy, Refused
<1>5. ~NewResource(c)' /\ ~NewPolicy(c)'
  BY <1>2, <1>3, <1>4 DEF NewResource, NewPolicy, Refused, Storable
<1>6. CallInv(c)'
  BY <1>2, <1>3, <1>4, <1>5 DEF CallInv, IdsKnown, Started, Working, PathKnown, KeptKnown, Answered,
                                Storable
<1> QED
  BY <1>2, <1>5, <1>6, MovesOn

LEMMA FindPolicyIInv == ASSUME IInv, NEW c \in Calls, FindPolicy(c) PROVE IInv'
<1>1. call[c].pc = "find" /\ call[c].op = "delete_policy" /\ CallInv(c)
  BY DEF FindPolicy, IInv, CallInv, PathKnown
<1>2. PICK pc \in Open \cup Closed :
        Keeps(c, pc) /\ pc = IF <<call[c].target, call[c].policy>> \in links
                              THEN "unlink" ELSE "not_found"
  BY DEF FindPolicy, Open, Closed
<1>3. /\ call'[c].pc = pc /\ call'[c].op = call[c].op /\ call'[c].caller = call[c].caller
      /\ call'[c].target = call[c].target /\ call'[c].policy = call[c].policy
      /\ call'[c].body = call[c].body
      /\ resources' = resources /\ links' = links /\ born' = born /\ written' = written
  BY <1>2, KeepsFacts
<1>4. ~NewResource(c)' /\ ~NewPolicy(c)' /\ ~NewResource(c)
  BY <1>1, <1>3 DEF NewResource, NewPolicy, Refused, Storable
<1>5. CallInv(c)'
  BY <1>1, <1>2, <1>3, <1>4 DEF CallInv, IdsKnown, Started, Working, SameWorkspace,
                                PathKnown, KeptKnown, Answered
<1> QED
  BY <1>2, <1>4, <1>5, MovesOn

LEMMA UnlinkIInv == ASSUME IInv, NEW c \in Calls, Unlink(c) PROVE IInv'
<1>1. /\ call[c].pc = "unlink" /\ call[c].op = "delete_policy" /\ CallInv(c)
      /\ Keeps(c, "check") /\ "check" \in Open \cup Closed
  BY DEF Unlink, IInv, CallInv, PathKnown, Open
<1>2. /\ call'[c].pc = "check" /\ call'[c].op = call[c].op /\ call'[c].caller = call[c].caller
      /\ call'[c].target = call[c].target /\ call'[c].policy = call[c].policy
      /\ call'[c].body = call[c].body
      /\ born' = born /\ written' = written
  BY <1>1, KeepsFacts
<1>3. ~NewResource(c)' /\ ~NewPolicy(c)' /\ ~NewResource(c)
  BY <1>1, <1>2 DEF NewResource, NewPolicy, Refused, Storable
<1>4. CallInv(c)'
  BY <1>1, <1>2, <1>3 DEF CallInv, IdsKnown, Started, Working, SameWorkspace,
                          PathKnown, KeptKnown, Answered
<1> QED
  BY <1>1, <1>3, <1>4, MovesOn

LEMMA AbandonIInv == ASSUME IInv, NEW c \in Calls, Abandon(c) PROVE IInv'
<1>1. Keeps(c, "idle") /\ "idle" \in Open \cup Closed
  BY DEF Abandon, Closed
<1>2. call'[c].pc = "idle"
  BY <1>1, KeepsFacts
<1>3. ~NewResource(c)' /\ ~NewPolicy(c)' /\ CallInv(c)'
  BY <1>2 DEF NewResource, NewPolicy, Refused, Storable, CallInv, IdsKnown, Started, Working,
              PathKnown, KeptKnown, Answered
<1> QED
  BY <1>1, <1>3, MovesOn

(* The test for other links is right when it is made. *)
LEMMA CheckLinksIInv == ASSUME IInv, NEW c \in Calls, CheckLinks(c) PROVE IInv'
<1> DEFINE more == \E y \in Resources \ {call[c].target} : <<y, call[c].policy>> \in links
           q == [call[c] EXCEPT !.pc = "commit", !.kept = more]
<1>1. /\ call[c].pc = "check" /\ call[c].op = "delete_policy" /\ CallInv(c)
      /\ UNCHANGED <<store, history>>
  BY DEF CheckLinks, IInv, CallInv, PathKnown
<1>2. /\ resources' = resources /\ links' = links /\ born' = born /\ written' = written
      /\ cascaded' = cascaded /\ overlapped' = overlapped
  BY <1>1 DEF store, history
<1>3. q \in CallState /\ call' = [call EXCEPT ![c] = q] /\ call'[c] = q
  BY DEF CheckLinks, IInv, TypeOK, CallState, Open
<1>4. /\ call'[c].pc = "commit" /\ call'[c].op = call[c].op /\ call'[c].caller = call[c].caller
      /\ call'[c].target = call[c].target /\ call'[c].policy = call[c].policy
      /\ call'[c].body = call[c].body
      /\ call'[c].kept = more
  BY <1>3 DEF IInv, TypeOK, CallState
<1> HIDE DEF q
<1>5. ~NewResource(c)' /\ ~NewPolicy(c)' /\ ~NewResource(c)
  BY <1>1, <1>4 DEF NewResource, NewPolicy, Refused, Storable
<1>6. IdsKnown(c)' /\ PathKnown(c)' /\ Answered(c)'
  BY <1>1, <1>2, <1>4, <1>5 DEF CallInv, IdsKnown, Started, Working, SameWorkspace, PathKnown, Answered
<1>7. KeptKnown(c)'
  BY <1>2, <1>4 DEF KeptKnown
<1>8. ASSUME NEW d \in Calls \ {c} PROVE Distinct(c, d)' /\ Distinct(d, c)'
  BY <1>5 DEF Distinct
<1> QED
  BY <1>1, <1>3, <1>6, <1>7, <1>8, QuietStep DEF CallInv

(* A call that arrives with ids that it may have. *)
LEMMA BeginIInv ==
  ASSUME IInv, NEW c \in Calls, NEW op \in Ops, NEW u \in Users, NEW w \in Workspaces,
         NEW x \in Resources, NEW p \in Catalogue \cup {NoPolicy}, NEW body \in Bodies,
         Begin(c, op, u, w, x, p, body),
         op = "create_resource" => x \notin born /\ WorkspaceOf[x] = w /\ Fresh(c, op, x),
         op # "create_resource" => x \in born,
         op = "create_policy" => p \in Catalogue \ written /\ Fresh(c, op, p),
         op = "delete_policy" => p \in written
  PROVE  IInv'
<1> DEFINE go == WorkspaceOf[u] = w /\ role[u] = "admin"
           q == [pc |-> IF go THEN "authorized" ELSE "forbidden",
                 op |-> op, caller |-> u, target |-> x, policy |-> p, body |-> body,
                 kept |-> FALSE]
<1>1. UNCHANGED <<store, history>>
  BY DEF Begin
<1>2. resources' = resources /\ links' = links /\ born' = born /\ written' = written
  BY <1>1 DEF store
<1>3. q \in CallState /\ call' = [call EXCEPT ![c] = q] /\ call'[c] = q
  BY DEF Begin, IInv, TypeOK, CallState, Open, Closed
<1>4. /\ call'[c].pc = IF go THEN "authorized" ELSE "forbidden"
      /\ call'[c].op = op /\ call'[c].caller = u
      /\ call'[c].target = x /\ call'[c].policy = p /\ call'[c].body = body
  BY <1>3
<1> HIDE DEF q
<1>5. CallInv(c)'
  BY <1>2, <1>4 DEF CallInv, IdsKnown, NewResource, NewPolicy, Refused, Storable, Started, Working, SameWorkspace,
                    PathKnown, KeptKnown, Answered
<1>6. ASSUME NEW d \in Calls \ {c} PROVE Distinct(c, d)' /\ Distinct(d, c)'
  <2>1. call'[d] = call[d]
    BY <1>3 DEF IInv, TypeOK
  <2>2. /\ NewResource(d)' /\ op = "create_resource" => call[d].target # x
        /\ NewPolicy(d)' /\ op = "create_policy" => call[d].policy # p
    BY <2>1 DEF NewResource, NewPolicy, Refused, Storable, Fresh, Open
  <2> QED
    BY <1>4, <2>1, <2>2 DEF Distinct, NewResource, NewPolicy, Refused, Storable
<1> QED
  BY <1>1, <1>3, <1>5, <1>6, QuietStep

LEMMA ArriveIInv == ASSUME IInv, NEW c \in Calls, Arrive(c) PROVE IInv'
<1>1. PICK u \in Users, w \in Workspaces :
        \/ \E x \in Resources \ born, body \in Bodies \ {"null"} :
             WorkspaceOf[x] = w /\ Fresh(c, "create_resource", x)
               /\ Begin(c, "create_resource", u, w, x, NoPolicy, body)
        \/ \E x \in born :
             \/ \E body \in Bodies : Begin(c, "update_resource", u, w, x, NoPolicy, body)
             \/ Begin(c, "delete_resource", u, w, x, NoPolicy, "valid")
             \/ \E p \in Catalogue \ written :
                  Fresh(c, "create_policy", p) /\ Begin(c, "create_policy", u, w, x, p, "valid")
             \/ \E p \in written : Begin(c, "delete_policy", u, w, x, p, "valid")
  BY DEF Arrive
<1>2. /\ born \subseteq Resources /\ written \subseteq Catalogue /\ "valid" \in Bodies
      /\ {"create_resource", "update_resource", "delete_resource", "create_policy",
          "delete_policy"} \subseteq Ops
  BY DEF IInv, TypeOK, StoreTypeOK, Ops, Bodies
<1>3. ASSUME NEW x \in Resources \ born, NEW body \in Bodies, WorkspaceOf[x] = w,
             Fresh(c, "create_resource", x),
             Begin(c, "create_resource", u, w, x, NoPolicy, body)
      PROVE  IInv'
  BY <1>2, <1>3, BeginIInv
<1>4. ASSUME NEW x \in born, NEW op \in {"update_resource", "delete_resource"},
             NEW body \in Bodies, Begin(c, op, u, w, x, NoPolicy, body)
      PROVE  IInv'
  BY <1>2, <1>4, BeginIInv
<1>5. ASSUME NEW x \in born, NEW p \in Catalogue \ written, Fresh(c, "create_policy", p),
             Begin(c, "create_policy", u, w, x, p, "valid")
      PROVE  IInv'
  BY <1>2, <1>5, BeginIInv
<1>6. ASSUME NEW x \in born, NEW p \in written, Begin(c, "delete_policy", u, w, x, p, "valid")
      PROVE  IInv'
  BY <1>2, <1>6, BeginIInv
<1> QED
  BY <1>1, <1>2, <1>3, <1>4, <1>5, <1>6

-----------------------------------------------------------------------------
(* A step that writes, as Store allows it. *)
LEMMA WriteStep ==
  ASSUME IInv, [Write]_store, NEW c \in Calls, NEW pc \in Open \cup Closed, Goto(c, pc),
         cascaded' \in SUBSET Catalogue, overlapped' \in SUBSET Catalogue,
         OrphansExplained', CallInv(c)', ~NewResource(c)', ~NewPolicy(c)',
         \A p \in written' : Fits(p),
         \A d \in Calls \ {c} :
            /\ KeptKnown(d)'
            /\ NewResource(d) => call[d].target \notin born'
            /\ NewPolicy(d) => call[d].policy \notin written'
  PROVE  IInv'
<1>1. StoreMoves
  BY WriteMoves DEF IInv, TypeOK
<1>2. TypeOK' /\ LinksIntact'
  <2>1. call' \in [Calls -> CallState]
    BY DEF Goto, IInv, TypeOK, CallState
  <2> QED
    BY <1>1, <2>1 DEF StoreMoves, TypeOK
<1>3. ASSUME NEW d \in Calls \ {c} PROVE call'[d] = call[d]
  BY DEF Goto, IInv, TypeOK
<1>4. ASSUME NEW d \in Calls, d # c PROVE CallInv(d)'
  BY <1>1, <1>3, <1>4, OtherCalls
<1>5. ASSUME NEW d \in Calls, NEW e \in Calls, d # e PROVE Distinct(d, e)'
  <2>1. CASE d # c /\ e # c
    <3>1. Distinct(d, e)
      BY <1>5 DEF IInv
    <3> QED
      BY <1>3, <2>1, <3>1 DEF Distinct, NewResource, NewPolicy, Refused, Storable
  <2>2. CASE d = c \/ e = c
    BY <2>2 DEF Distinct
  <2> QED
    BY <2>1, <2>2
<1> QED
  BY <1>2, <1>4, <1>5 DEF IInv

(* What Goto leaves as it was. *)
LEMMA GotoFacts ==
  ASSUME IInv, NEW c \in Calls, NEW pc \in Open \cup Closed, Goto(c, pc)
  PROVE  /\ call'[c].pc = pc /\ call'[c].op = call[c].op /\ call'[c].caller = call[c].caller
         /\ call'[c].target = call[c].target /\ call'[c].policy = call[c].policy
         /\ call'[c].body = call[c].body /\ call'[c].kept = call[c].kept
         /\ \A d \in Calls \ {c} : call'[d] = call[d]
BY DEF Goto, IInv, TypeOK, CallState

LEMMA InsertResourceIInv == ASSUME IInv, NEW c \in Calls, InsertResource(c) PROVE IInv' /\ [Write]_store
<1>1. CASE Storable(call[c])
  <2> DEFINE x == call[c].target
  <2>1. /\ call[c].pc = "write" /\ call[c].op = "create_resource" /\ CallInv(c)
        /\ CreateResource(x) /\ Goto(c, "reread") /\ "reread" \in Open \cup Closed
        /\ cascaded' = cascaded /\ overlapped' = overlapped
    BY <1>1 DEF InsertResource, IInv, history, Open
  <2>2. /\ call'[c].pc = "reread" /\ call'[c].op = call[c].op /\ call'[c].caller = call[c].caller
        /\ call'[c].target = x /\ call'[c].policy = call[c].policy
        /\ call'[c].body = call[c].body
        /\ \A d \in Calls \ {c} : call'[d] = call[d]
    BY <2>1, GotoFacts
  <2>3. /\ x \in Resources /\ links' = links /\ policies' = policies /\ written' = written
        /\ born' = born \cup {x} /\ NewResource(c)
    BY <2>1 DEF CreateResource, CallInv, IdsKnown, NewResource, Refused, Storable
  <2>4. [Write]_store
    BY <2>1, <2>3 DEF Write
  <2>5. ~NewResource(c)' /\ ~NewPolicy(c)'
    BY <2>1, <2>2 DEF NewResource, NewPolicy, Refused, Storable
  <2>6. CallInv(c)'
    BY <1>1, <2>1, <2>2, <2>3, <2>5 DEF CallInv, IdsKnown, Started, Working, PathKnown, KeptKnown,
                                        Answered, Storable
  <2>7. OrphansExplained'
    BY <2>1, <2>3 DEF IInv, OrphansExplained
  <2>8. ASSUME NEW d \in Calls \ {c}
        PROVE  /\ KeptKnown(d)'
               /\ NewResource(d) => call[d].target \notin born'
               /\ NewPolicy(d) => call[d].policy \notin written'
    <3>1. CallInv(d) /\ Distinct(c, d)
      BY DEF IInv
    <3>2. KeptKnown(d)'
      BY <2>1, <2>2, <2>3, <3>1 DEF CallInv, KeptKnown
    <3>3. NewResource(d) => call[d].target \notin born'
      BY <2>3, <3>1 DEF CallInv, IdsKnown, Distinct
    <3>4. NewPolicy(d) => call[d].policy \notin written'
      BY <2>3, <3>1 DEF CallInv, IdsKnown
    <3> QED
      BY <3>2, <3>3, <3>4
  <2>9. cascaded' \in SUBSET Catalogue /\ overlapped' \in SUBSET Catalogue
    BY <2>1 DEF IInv, TypeOK
  <2>10. \A p \in written' : Fits(p)
    BY <2>3 DEF IInv, TypeOK
  <2> HIDE DEF x
  <2> QED
    BY <2>1, <2>4, <2>5, <2>6, <2>7, <2>8, <2>9, <2>10, WriteStep
<1>2. CASE ~Storable(call[c])
  <2>1. /\ call[c].pc = "write" /\ call[c].op = "create_resource" /\ CallInv(c)
        /\ Keeps(c, "failed") /\ "failed" \in Open \cup Closed
    BY <1>2 DEF InsertResource, Keeps, IInv, history, Closed
  <2>2. /\ call'[c].pc = "failed" /\ call'[c].op = call[c].op /\ call'[c].body = call[c].body
        /\ call'[c].target = call[c].target /\ call'[c].policy = call[c].policy
        /\ resources' = resources /\ born' = born
    BY <2>1, KeepsFacts
  <2>3. NewResource(c) /\ NewResource(c)' /\ ~NewPolicy(c)'
    BY <1>2, <2>1, <2>2 DEF NewResource, NewPolicy, Refused, Storable
  <2>4. call[c].target \in Resources \ born /\ resources \subseteq born
        /\ SameWorkspace(call[c].target, call[c].caller)
    BY <2>1, <2>3 DEF CallInv, IdsKnown, IInv, TypeOK, StoreTypeOK
  <2>5. ~Storable(call[c])' /\ call'[c].caller = call[c].caller
    BY <1>2, <2>1, <2>2, KeepsFacts DEF Storable
  <2>6. CallInv(c)'
    BY <2>1, <2>2, <2>3, <2>4, <2>5
       DEF CallInv, IdsKnown, Started, Working, SameWorkspace, PathKnown, KeptKnown, Answered
  <2>7. [Write]_store
    BY <2>1 DEF Keeps
  <2> QED
    BY <2>1, <2>3, <2>6, <2>7, MovesOn
<1> QED
  BY <1>1, <1>2

LEMMA InsertLinkIInv == ASSUME IInv, NEW c \in Calls, InsertLink(c) PROVE IInv' /\ [Write]_store
<1> DEFINE x == call[c].target
           p == call[c].policy
<1>1. /\ call[c].pc = "link" /\ call[c].op = "create_policy" /\ CallInv(c) /\ NewPolicy(c)
      /\ cascaded' = cascaded /\ overlapped' = overlapped
  BY DEF InsertLink, IInv, history, CallInv, PathKnown, NewPolicy
<1>2. CASE x \notin resources
  <2>1. Keeps(c, "conflict") /\ "conflict" \in Open \cup Closed
    BY <1>1, <1>2 DEF InsertLink, Keeps, history, Closed, store
  <2>2. /\ call'[c].pc = "conflict" /\ call'[c].op = call[c].op /\ call'[c].target = x
        /\ resources' = resources /\ born' = born
    BY <2>1, KeepsFacts
  <2>3. ~NewResource(c)' /\ ~NewPolicy(c)' /\ ~NewResource(c)
    BY <1>1, <2>2 DEF NewResource, NewPolicy, Refused, Storable
  <2>4. CallInv(c)'
    BY <1>1, <1>2, <2>2, <2>3 DEF CallInv, IdsKnown, Started, Working, PathKnown, KeptKnown, Answered
  <2>5. [Write]_store
    BY <2>1 DEF Keeps
  <2> QED
    BY <2>1, <2>3, <2>4, <2>5, MovesOn
<1>3. CASE x \in resources
  <2>1. CreatePolicy(p, x) /\ Goto(c, "reread") /\ "reread" \in Open \cup Closed
    BY <1>3 DEF InsertLink, Open
  <2>2. /\ call'[c].pc = "reread" /\ call'[c].op = call[c].op /\ call'[c].caller = call[c].caller
        /\ call'[c].target = x /\ call'[c].policy = p
        /\ call'[c].body = call[c].body
        /\ \A d \in Calls \ {c} : call'[d] = call[d]
    BY <2>1, GotoFacts
  <2>3. /\ x \in Resources /\ x \in born /\ p \in Catalogue \ written /\ links' = links \cup {<<x, p>>}
        /\ policies' = policies \cup {p} /\ born' = born /\ written' = written \cup {p}
    BY <1>1, <1>3, <2>1 DEF CreatePolicy, CallInv, IdsKnown, IInv, TypeOK, StoreTypeOK
  <2>4. [Write]_store
    BY <2>1, <2>3 DEF Write
  <2>5. ~NewResource(c)' /\ ~NewPolicy(c)'
    BY <1>1, <2>2 DEF NewResource, NewPolicy, Refused, Storable
  <2>6. CallInv(c)'
    BY <1>1, <2>2, <2>3, <2>5 DEF CallInv, IdsKnown, Started, Working, PathKnown, KeptKnown,
                                  Answered, Storable
  <2>7. OrphansExplained'
    BY <1>1, <2>3 DEF IInv, OrphansExplained
  <2>8. ASSUME NEW d \in Calls \ {c}
        PROVE  /\ KeptKnown(d)'
               /\ NewResource(d) => call[d].target \notin born'
               /\ NewPolicy(d) => call[d].policy \notin written'
    <3>1. CallInv(d) /\ Distinct(c, d)
      BY DEF IInv
    <3>2. call[d].pc = "commit" => call[d].policy # p
      BY <2>3, <3>1 DEF CallInv, IdsKnown, PathKnown, Started
    <3>3. KeptKnown(d)'
      BY <1>1, <2>2, <2>3, <3>1, <3>2 DEF CallInv, KeptKnown
    <3>4. NewResource(d) => call[d].target \notin born'
      BY <2>3, <3>1 DEF CallInv, IdsKnown
    <3>5. NewPolicy(d) => call[d].policy \notin written'
      BY <1>1, <2>3, <3>1 DEF CallInv, IdsKnown, Distinct
    <3> QED
      BY <3>3, <3>4, <3>5
  <2>9. cascaded' \in SUBSET Catalogue /\ overlapped' \in SUBSET Catalogue
    BY <1>1 DEF IInv, TypeOK
  <2>10. \A r \in written' : Fits(r)
    BY <1>1, <2>3 DEF CallInv, PathKnown, Storable, IInv, TypeOK
  <2> HIDE DEF x, p
  <2> QED
    BY <2>1, <2>4, <2>5, <2>6, <2>7, <2>8, <2>9, <2>10, WriteStep
<1> QED
  BY <1>2, <1>3

(* The cascade takes links away; their policies are cascaded from then on. *)
LEMMA RemoveResourceIInv == ASSUME IInv, NEW c \in Calls, RemoveResource(c) PROVE IInv' /\ [Write]_store
<1> DEFINE x == call[c].target
<1>1. /\ call[c].pc = "write" /\ call[c].op = "delete_resource" /\ CallInv(c)
      /\ IF x \in resources THEN DeleteResource(x) ELSE UNCHANGED store
      /\ cascaded' = cascaded \cup PoliciesOf(x) /\ overlapped' = overlapped
      /\ Goto(c, "ok") /\ "ok" \in Open \cup Closed
  BY DEF RemoveResource, IInv, Closed
<1>2. /\ call'[c].pc = "ok" /\ call'[c].op = call[c].op /\ call'[c].caller = call[c].caller
      /\ call'[c].target = x /\ call'[c].policy = call[c].policy
      /\ \A d \in Calls \ {c} : call'[d] = call[d]
  BY <1>1, GotoFacts
<1>3. x \in born /\ x \in Resources
  BY <1>1 DEF CallInv, IdsKnown, Started, NewResource, Refused, Storable, IInv, TypeOK, StoreTypeOK
<1>4. /\ resources' = resources \ {x} /\ links' = {l \in links : l[1] # x}
      /\ policies' = policies /\ born' = born /\ written' = written
  <2>1. CASE x \in resources
    BY <1>1, <2>1 DEF DeleteResource
  <2>2. CASE x \notin resources
    <3>1. \A l \in links : l[1] # x
      BY <2>2 DEF IInv, LinksIntact
    <3> QED
      BY <1>1, <2>2, <3>1 DEF store
  <2> QED
    BY <2>1, <2>2
<1>5. [Write]_store
  BY <1>1, <1>3 DEF Write
<1>6. ~NewResource(c)' /\ ~NewPolicy(c)'
  BY <1>1, <1>2 DEF NewResource, NewPolicy, Refused, Storable
<1>7. CallInv(c)'
  BY <1>1, <1>2, <1>3, <1>4, <1>6 DEF CallInv, IdsKnown, Started, Working, PathKnown, KeptKnown, Answered
<1>8. \A p : <<x, p>> \in links => p \in cascaded'
  <2>1. ASSUME NEW p, <<x, p>> \in links PROVE p \in policies
    <3>1. <<x, p>>[2] \in policies
      BY <2>1 DEF IInv, LinksIntact
    <3> QED
      BY <3>1
  <2> QED
    BY <1>1, <2>1 DEF PoliciesOf
<1>9. \A y, p : <<y, p>> \in links /\ y # x => <<y, p>> \in links'
  BY <1>4
<1>10. OrphansExplained'
  <2> SUFFICES ASSUME NEW p \in policies, \A y \in Resources : <<y, p>> \notin links'
               PROVE  p \in cascaded' \cup overlapped'
    BY <1>4 DEF OrphansExplained
  <2>1. CASE \E y \in Resources : <<y, p>> \in links
    BY <1>8, <1>9, <2>1
  <2>2. CASE \A y \in Resources : <<y, p>> \notin links
    BY <1>1, <2>2 DEF IInv, OrphansExplained
  <2> QED
    BY <2>1, <2>2
<1>11. ASSUME NEW d \in Calls \ {c}
       PROVE  /\ KeptKnown(d)'
              /\ NewResource(d) => call[d].target \notin born'
              /\ NewPolicy(d) => call[d].policy \notin written'
  <2>1. CallInv(d)
    BY DEF IInv
  <2>2. KeptKnown(d)'
    <3>1. links' \subseteq links /\ cascaded \subseteq cascaded' /\ call'[d] = call[d]
      BY <1>1, <1>2, <1>4
    <3>2. KeptKnown(d)
      BY <2>1 DEF CallInv
    <3> QED
      BY <1>1, <1>8, <1>9, <3>1, <3>2 DEF KeptKnown
  <2> QED
    BY <1>4, <2>1, <2>2 DEF CallInv, IdsKnown
<1>12. cascaded' \in SUBSET Catalogue /\ overlapped' \in SUBSET Catalogue
  BY <1>1 DEF IInv, TypeOK, StoreTypeOK, PoliciesOf
<1>13. \A p \in written' : Fits(p)
  BY <1>4 DEF IInv, TypeOK
<1> HIDE DEF x
<1> QED
  BY <1>1, <1>5, <1>6, <1>7, <1>10, <1>11, <1>12, <1>13, WriteStep

(* The policy is removed when it has no other link.  When it is kept for   *)
(* a link that is gone by now, some deletion of a resource took that link, *)
(* or the call that did overlapped this one.                               *)
LEMMA FinishDeleteIInv == ASSUME IInv, NEW c \in Calls, FinishDelete(c) PROVE IInv' /\ [Write]_store
<1> DEFINE x == call[c].target
           p == call[c].policy
<1>1. /\ call[c].pc = "commit" /\ call[c].op = "delete_policy" /\ CallInv(c)
      /\ links' = links \ {<<x, p>>}
      /\ policies' = IF call[c].kept THEN policies ELSE policies \ {p}
      /\ UNCHANGED <<role, resources, born, written>>
      /\ overlapped' = overlapped \cup
           {r \in {p} : call[c].kept /\ \E d \in Calls \ {c}, y \in Resources : HoldsLink(d, y, r)}
      /\ cascaded' = cascaded /\ Goto(c, "ok") /\ "ok" \in Open \cup Closed
  BY DEF FinishDelete, IInv, CallInv, PathKnown, Closed
<1>2. /\ call'[c].pc = "ok" /\ call'[c].op = call[c].op /\ call'[c].caller = call[c].caller
      /\ call'[c].target = x /\ call'[c].policy = p
      /\ \A d \in Calls \ {c} : call'[d] = call[d]
  BY <1>1, GotoFacts
<1>3. x \in born /\ x \in Resources /\ p \in written /\ p \in Catalogue
  BY <1>1 DEF CallInv, IdsKnown, Started, NewResource, Refused, Storable, IInv, TypeOK, StoreTypeOK
<1>4. ~call[c].kept => \A y \in Resources : <<y, p>> \in links => y = x
  BY <1>1 DEF CallInv, KeptKnown
<1>5. \A y, r : <<y, r>> \in links' <=> <<y, r>> \in links /\ <<y, r>> # <<x, p>>
  BY <1>1
<1>6. DeletePolicy(p, x)
  <2>1. ~call[c].kept => \A y \in Resources : <<y, p>> \notin links'
    BY <1>4, <1>5
  <2> QED
    BY <1>1, <2>1 DEF DeletePolicy
<1>7. [Write]_store
  BY <1>3, <1>6 DEF Write
<1>8. ~NewResource(c)' /\ ~NewPolicy(c)'
  BY <1>1, <1>2 DEF NewResource, NewPolicy, Refused, Storable
<1>9. CallInv(c)'
  BY <1>1, <1>2, <1>3, <1>5, <1>8 DEF CallInv, IdsKnown, Started, Working, PathKnown, KeptKnown, Answered
<1>10. OrphansExplained'
  <2> SUFFICES ASSUME NEW r \in policies', \A y \in Resources : <<y, r>> \notin links'
               PROVE  r \in cascaded \cup overlapped'
    BY <1>1 DEF OrphansExplained
  <2>1. CASE \A y \in Resources : <<y, r>> \notin links
    BY <1>1, <2>1 DEF IInv, OrphansExplained
  <2>2. CASE \E y \in Resources : <<y, r>> \in links
    <3>1. r = p /\ <<x, p>> \in links
      BY <1>5, <2>2
    <3>2. call[c].kept
      BY <1>1, <3>1
    <3>3. \A y \in Resources \ {x} : <<y, p>> \notin links
      BY <1>5, <3>1
    <3>4. p \in cascaded \cup overlapped
      BY <1>1, <3>1, <3>2, <3>3 DEF CallInv, KeptKnown
    <3> QED
      BY <1>1, <3>1, <3>4
  <2> QED
    BY <2>1, <2>2
<1>11. ASSUME NEW d \in Calls \ {c}
       PROVE  /\ KeptKnown(d)'
              /\ NewResource(d) => call[d].target \notin born'
              /\ NewPolicy(d) => call[d].policy \notin written'
  <2> DEFINE z == call[d].target
             r == call[d].policy
  <2>1. CallInv(d) /\ call'[d] = call[d]
    BY <1>2 DEF IInv
  <2>2. ASSUME call[d].pc = "commit", ~call[d].kept
        PROVE  \A y \in Resources : <<y, r>> \in links' => y = z
    BY <1>5, <2>1, <2>2 DEF CallInv, KeptKnown
  <2>3. ASSUME call[d].pc = "commit", call[d].kept, <<z, r>> \in links'
        PROVE  \/ \E y \in Resources \ {z} : <<y, r>> \in links'
               \/ r \in cascaded' \cup overlapped'
    <3>1. <<z, r>> \in links /\ <<z, r>> # <<x, p>>
      BY <1>5, <2>3
    <3>2. CASE r \in cascaded \cup overlapped
      BY <1>1, <3>2
    <3>3. CASE \E y \in Resources \ {z} : <<y, r>> \in links /\ <<y, r>> # <<x, p>>
      BY <1>5, <3>3
    <3>4. CASE r = p /\ z # x
      <4>1. z \in Resources
        <5>1. <<z, r>> \in Resources \X Catalogue
          BY <3>1 DEF IInv, TypeOK, StoreTypeOK
        <5> QED
          BY <5>1
      <4>2. call[c].kept
        BY <1>4, <3>1, <3>4, <4>1
      <4>3. HoldsLink(d, z, p)
        BY <2>3, <3>1, <3>4 DEF HoldsLink
      <4> QED
        BY <1>1, <3>4, <4>1, <4>2, <4>3
    <3> QED
      <4>1. \/ \E y \in Resources \ {z} : <<y, r>> \in links
            \/ r \in cascaded \cup overlapped
        BY <2>1, <2>3, <3>1 DEF CallInv, KeptKnown
      <4> QED
        BY <3>2, <3>3, <3>4, <4>1
  <2>4. KeptKnown(d)'
    BY <2>1, <2>2, <2>3 DEF KeptKnown
  <2> QED
    BY <1>1, <2>1, <2>4 DEF CallInv, IdsKnown
<1>12. cascaded' \in SUBSET Catalogue /\ overlapped' \in SUBSET Catalogue
  BY <1>1, <1>3 DEF IInv, TypeOK
<1>13. \A r \in written' : Fits(r)
  BY <1>1 DEF IInv, TypeOK
<1> HIDE DEF x, p
<1> QED
  BY <1>1, <1>7, <1>8, <1>9, <1>10, <1>11, <1>12, <1>13, WriteStep

LEMMA RoleChangesIInv == ASSUME IInv, RoleChanges PROVE IInv'
<1>1. PICK u \in Users, r \in Roles : ChangeRole(u, r)
  BY DEF RoleChanges
<1>2. /\ call' = call /\ cascaded' = cascaded /\ overlapped' = overlapped
      /\ resources' = resources /\ links' = links /\ policies' = policies
      /\ born' = born /\ written' = written
  BY <1>1 DEF RoleChanges, history, ChangeRole
<1>3. [Write]_store
  BY <1>1 DEF Write
<1>4. StoreMoves
  BY <1>3, WriteMoves DEF IInv, TypeOK
<1>5. TypeOK' /\ LinksIntact' /\ OrphansExplained'
  BY <1>2, <1>4 DEF StoreMoves, IInv, TypeOK, OrphansExplained
<1>6. ASSUME NEW c \in Calls PROVE CallInv(c)'
  BY <1>2 DEF IInv, CallInv, IdsKnown, NewResource, NewPolicy, Refused, Storable, Started, SameWorkspace,
              PathKnown, KeptKnown, Answered
<1>7. ASSUME NEW c \in Calls, NEW d \in Calls, c # d PROVE Distinct(c, d)'
  BY <1>2, <1>7 DEF IInv, Distinct, NewResource, NewPolicy, Refused, Storable
<1> QED
  BY <1>5, <1>6, <1>7 DEF IInv

-----------------------------------------------------------------------------
LEMMA InitIInv == Init => IInv
<1> SUFFICES ASSUME Init PROVE IInv
  OBVIOUS
<1>1. StoreTypeOK /\ LinksIntact
  BY StoreStarts DEF Init
<1>2. call \in [Calls -> CallState] /\ \A c \in Calls : call[c].pc = "idle"
  BY DEF Init, CallState, Ops, Bodies, Closed
<1>3. TypeOK
  BY <1>1, <1>2, PriorityAssumption DEF Init, StoreInit, TypeOK
<1>4. OrphansExplained
  <2>1. \A l \in SeedLinks : <<l[1], l[2]>> \in links /\ l[1] \in Resources
    BY SeedAssumption DEF Init, StoreInit
  <2> QED
    BY <2>1 DEF Init, StoreInit, OrphansExplained
<1>5. ASSUME NEW c \in Calls PROVE CallInv(c) /\ ~NewResource(c) /\ ~NewPolicy(c)
  BY <1>2 DEF CallInv, IdsKnown, NewResource, NewPolicy, Refused, Storable, Started, Working,
              PathKnown, KeptKnown, Answered
<1> QED
  BY <1>1, <1>3, <1>4, <1>5 DEF IInv, Distinct

LEMMA NextIInv == IInv /\ [Next]_vars => IInv'
<1> SUFFICES ASSUME IInv, [Next]_vars PROVE IInv'
  OBVIOUS
<1>1. CASE UNCHANGED vars
  <2>1. /\ call' = call /\ cascaded' = cascaded /\ overlapped' = overlapped
        /\ role' = role /\ resources' = resources /\ links' = links /\ policies' = policies
        /\ born' = born /\ written' = written
    BY <1>1 DEF vars, history, store
  <2>2. TypeOK' /\ LinksIntact' /\ OrphansExplained'
    BY <2>1 DEF IInv, TypeOK, StoreTypeOK, LinksIntact, OrphansExplained
  <2>3. ASSUME NEW c \in Calls PROVE CallInv(c)'
    BY <2>1 DEF IInv, CallInv, IdsKnown, NewResource, NewPolicy, Refused, Storable, Started, SameWorkspace,
                PathKnown, KeptKnown, Answered
  <2>4. ASSUME NEW c \in Calls, NEW d \in Calls, c # d PROVE Distinct(c, d)'
    BY <2>1, <2>4 DEF IInv, Distinct, NewResource, NewPolicy, Refused, Storable
  <2> QED
    BY <2>2, <2>3, <2>4 DEF IInv
<1>2. ASSUME NEW c \in Calls, Proceed(c) PROVE IInv'
  BY <1>2, FindResourceIInv, InsertResourceIInv, UpdateResourceIInv, RemoveResourceIInv,
     InsertPolicyIInv, InsertLinkIInv, RereadIInv, FindPolicyIInv, UnlinkIInv,
     CheckLinksIInv, FinishDeleteIInv
     DEF Proceed
<1> QED
  BY <1>1, <1>2, ArriveIInv, AbandonIInv, RoleChangesIInv DEF Next

LEMMA InvariantHolds == Spec => []IInv
  BY InitIInv, NextIInv, PTL DEF Spec

THEOREM TypeCorrect == Spec => []TypeOK
<1>1. IInv => TypeOK
  BY DEF IInv
<1> QED
  BY <1>1, InvariantHolds, PTL

(* What a 204 of delete_resource or delete_resource_policy says is gone    *)
(* never comes back.                                                       *)
THEOREM DeletesAreFinal == Spec => []DeletesStick
<1>1. IInv => DeletesStick
  BY DEF IInv, CallInv, Answered, DeletesStick
<1> QED
  BY <1>1, InvariantHolds, PTL

(* 404, 409 and 500 of create, update and delete: for rows that are gone,  *)
(* and stay so, or for values that no column takes, of which no row comes. *)
THEOREM ErrorsAreFounded == Spec => []ErrorsFounded
<1>1. IInv => ErrorsFounded
  <2> SUFFICES ASSUME IInv, NEW c \in Calls PROVE Answered(c)
    BY DEF ErrorsFounded, Answered
  <2> QED
    BY DEF IInv, CallInv
<1> QED
  BY <1>1, InvariantHolds, PTL

(* A policy without links lost one to the deletion of a resource, or to    *)
(* two overlapping deletions of links, and in no other way.                *)
THEOREM OrphansAreExplained == Spec => []OrphansExplained
<1>1. IInv => OrphansExplained
  BY DEF IInv
<1> QED
  BY <1>1, InvariantHolds, PTL

(* Every step is one write of the store, or none. *)
LEMMA StepWrites == IInv /\ [Next]_vars => [Write]_store
<1> SUFFICES ASSUME IInv, [Next]_vars PROVE [Write]_store
  OBVIOUS
<1>1. CASE RoleChanges
  BY <1>1 DEF RoleChanges, Write
<1>2. CASE UNCHANGED vars
  BY <1>2 DEF vars
<1>3. ASSUME NEW c \in Calls, Proceed(c) PROVE [Write]_store
  <2>1. CASE FindResource(c) \/ UpdateResource(c) \/ InsertPolicy(c) \/ Reread(c)
             \/ FindPolicy(c) \/ Unlink(c) \/ CheckLinks(c)
    BY <2>1 DEF FindResource, UpdateResource, InsertPolicy, Reread, FindPolicy, Unlink,
                CheckLinks, Keeps
  <2>2. CASE InsertResource(c) \/ InsertLink(c) \/ RemoveResource(c) \/ FinishDelete(c)
    BY <2>2, InsertResourceIInv, InsertLinkIInv, RemoveResourceIInv, FinishDeleteIInv
  <2> QED
    BY <1>3, <2>1, <2>2 DEF Proceed
<1>4. ASSUME NEW c \in Calls, Arrive(c) \/ Abandon(c) PROVE [Write]_store
  BY <1>4 DEF Arrive, Abandon, Begin, Keeps
<1> QED
  BY <1>1, <1>2, <1>3, <1>4 DEF Next

(* The statements of the endpoints do what Store says, committed write by  *)
(* committed write.                                                        *)
THEOREM ImplementsStore == Spec => StoreSpec
<1>1. Init => StoreInit
  BY DEF Init
<1> QED
  BY <1>1, StepWrites, InvariantHolds, PTL DEF Spec, StoreSpec

(* Every change of a resource, or of its links, is made by a call of a     *)
(* user of the resource's workspace.                                       *)
THEOREM WritesStayInside == Spec => WritesStayHome
<1> DEFINE Touched(x) == \/ (x \in resources) # (x \in resources')
                         \/ {l \in links : l[1] = x} # {l \in links' : l[1] = x}
           Home(x) == \E c \in Calls : call[c].pc \in Open /\ call'[c].pc # call[c].pc
                                        /\ SameWorkspace(x, call[c].caller)
<1>1. ASSUME IInv, Next, NEW x \in Resources, Touched(x) PROVE Home(x)
  <2>1. ~UNCHANGED <<resources, links>>
    BY <1>1
  <2>2. PICK c \in Calls : InsertResource(c) \/ InsertLink(c) \/ RemoveResource(c) \/ FinishDelete(c)
    <3>1. PICK c \in Calls : Proceed(c)
      BY <1>1, <2>1 DEF Next, RoleChanges, ChangeRole, Arrive, Abandon, Begin, Keeps, store
    <3> QED
      BY <2>1, <3>1 DEF Proceed, FindResource, UpdateResource, InsertPolicy, Reread, FindPolicy,
                        Unlink, CheckLinks, Keeps, store
  <2> DEFINE t == call[c].target
             p == call[c].policy
  <2>3. \/ resources' = resources \cup {t} /\ links' = links
        \/ resources' = resources \ {t} /\ links' = {l \in links : l[1] # t}
        \/ resources' = resources /\ links' = links \cup {<<t, p>>}
        \/ resources' = resources /\ links' = links \ {<<t, p>>}
    BY <2>1, <2>2 DEF InsertResource, CreateResource, InsertLink, CreatePolicy, RemoveResource,
                      DeleteResource, FinishDelete, store
  <2>4. x = t
    BY <1>1, <2>3
  <2>5. call[c].pc \in {"write", "link", "commit"}
    BY <2>2 DEF InsertResource, InsertLink, RemoveResource, FinishDelete
  <2>6. SameWorkspace(t, call[c].caller)
    BY <1>1, <2>5 DEF IInv, CallInv, IdsKnown, Working
  <2>7. PICK pc \in {"ok", "reread"} : Goto(c, pc)
    BY <2>1, <2>2 DEF InsertResource, InsertLink, RemoveResource, FinishDelete, store
  <2>8. call'[c].pc # call[c].pc /\ call[c].pc \in Open
    <3>1. pc \in Open \cup Closed
      BY DEF Open, Closed
    <3> QED
      BY <1>1, <2>5, <2>7, <3>1, GotoFacts DEF Open
  <2> QED
    BY <2>4, <2>6, <2>8
<1>2. IInv /\ [Next]_vars => [\A x \in Resources : Touched(x) => Home(x)]_vars
  BY <1>1
<1> QED
  BY <1>2, InvariantHolds, PTL DEF Spec, WritesStayHome

-----------------------------------------------------------------------------
(* EveryWriteAnswered rests on fairness, its substance does not: no call   *)
(* repeats a statement, a row lock has one holder, and its holder waits    *)
(* for nobody.                                                             *)

(* The statements a call has left at most, by the next one. *)
StepsLeft(pc) ==
  CASE pc = "authorized" -> 6
    [] pc \in {"write", "find"} -> 5
    [] pc \in {"link", "unlink"} -> 4
    [] pc = "check" -> 3
    [] pc = "commit" -> 2
    [] pc = "reread" -> 1
    [] OTHER -> 0

LEMMA OneCallMoves ==
  ASSUME IInv, [Next]_vars, NEW c \in Calls
  PROVE  call'[c] = call[c] \/ Arrive(c) \/ Proceed(c) \/ Abandon(c)
<1>1. CASE RoleChanges \/ UNCHANGED vars
  BY <1>1 DEF RoleChanges, vars
<1>2. ASSUME NEW d \in Calls, d # c, Arrive(d) \/ Proceed(d) \/ Abandon(d)
      PROVE  call'[c] = call[c]
  <2>0. ASSUME NEW pc, Goto(d, pc) PROVE call'[c] = call[c]
    BY <1>2, <2>0 DEF Goto, IInv, TypeOK
  <2>1. CASE Arrive(d)
    BY <1>2, <2>1 DEF Arrive, Begin, IInv, TypeOK
  <2>2. CASE CheckLinks(d)
    BY <1>2, <2>2 DEF CheckLinks, IInv, TypeOK
  <2>3. CASE Proceed(d) /\ ~CheckLinks(d)
    BY <2>0, <2>3 DEF Proceed, FindResource, InsertResource, UpdateResource, RemoveResource,
       InsertPolicy, InsertLink, Reread, FindPolicy, Unlink, FinishDelete, Keeps
  <2>4. CASE Abandon(d)
    BY <2>0, <2>4 DEF Abandon, Keeps
  <2> QED
    BY <1>2, <2>1, <2>2, <2>3, <2>4
<1> QED
  BY <1>1, <1>2 DEF Next

LEMMA StepShrinks ==
  ASSUME IInv, NEW c \in Calls, Proceed(c) \/ Abandon(c)
  PROVE  StepsLeft(call'[c].pc) < StepsLeft(call[c].pc)
<1>0. call \in [Calls -> CallState]
  BY DEF IInv, TypeOK
<1>1. ASSUME NEW pc, Goto(c, pc) PROVE call'[c].pc = pc
  BY <1>0, <1>1 DEF Goto, CallState
<1>2. CASE FindResource(c)
  <2>1. call[c].pc = "authorized" /\ call'[c].pc \in {"write", "not_found", "find"}
    BY <1>1, <1>2 DEF FindResource, Keeps
  <2> QED
    BY <2>1 DEF StepsLeft
<1>3. CASE InsertResource(c) \/ UpdateResource(c) \/ RemoveResource(c) \/ InsertPolicy(c)
  <2>1. call[c].pc = "write" /\ call'[c].pc \in {"reread", "failed", "conflict", "ok", "link"}
    BY <1>1, <1>3 DEF InsertResource, UpdateResource, RemoveResource, InsertPolicy, Keeps
  <2> QED
    BY <2>1 DEF StepsLeft
<1>4. CASE InsertLink(c)
  <2>1. call[c].pc = "link" /\ call'[c].pc \in {"reread", "conflict"}
    BY <1>1, <1>4 DEF InsertLink
  <2> QED
    BY <2>1 DEF StepsLeft
<1>5. CASE Reread(c)
  <2>1. call[c].pc = "reread" /\ call'[c].pc \in {"ok", "failed"}
    BY <1>1, <1>5 DEF Reread, Keeps
  <2> QED
    BY <2>1 DEF StepsLeft
<1>6. CASE FindPolicy(c)
  <2>1. call[c].pc = "find" /\ call'[c].pc \in {"unlink", "not_found"}
    BY <1>1, <1>6 DEF FindPolicy, Keeps
  <2> QED
    BY <2>1 DEF StepsLeft
<1>7. CASE Unlink(c)
  <2>1. call[c].pc = "unlink" /\ call'[c].pc = "check"
    BY <1>1, <1>7 DEF Unlink, Keeps
  <2> QED
    BY <2>1 DEF StepsLeft
<1>8. CASE CheckLinks(c)
  <2>1. call[c].pc = "check" /\ call'[c].pc = "commit"
    BY <1>0, <1>8 DEF CheckLinks, CallState
  <2> QED
    BY <2>1 DEF StepsLeft
<1>9. CASE FinishDelete(c)
  <2>1. call[c].pc = "commit" /\ call'[c].pc = "ok"
    BY <1>1, <1>9 DEF FinishDelete
  <2> QED
    BY <2>1 DEF StepsLeft
<1>10. CASE Abandon(c)
  <2>1. call[c].pc \in Open /\ call'[c].pc = "idle"
    BY <1>1, <1>10 DEF Abandon, Keeps
  <2> QED
    BY <2>1 DEF StepsLeft, Open
<1> QED
  BY <1>2, <1>3, <1>4, <1>5, <1>6, <1>7, <1>8, <1>9, <1>10 DEF Proceed

(* The services of resources and policies retry nothing: a call is         *)
(* answered after six statements at most.                                  *)
THEOREM EveryStepBringsTheAnswerNearer ==
  Spec => [][\A c \in Calls :
               call[c].pc \in Open /\ call'[c] # call[c] =>
                 StepsLeft(call'[c].pc) < StepsLeft(call[c].pc)]_vars
<1> DEFINE Nearer == \A c \in Calls : call[c].pc \in Open /\ call'[c] # call[c] =>
                                        StepsLeft(call'[c].pc) < StepsLeft(call[c].pc)
<1>1. IInv /\ [Next]_vars => [Nearer]_vars
  <2> SUFFICES ASSUME IInv, Next, NEW c \in Calls, call[c].pc \in Open, call'[c] # call[c]
               PROVE  StepsLeft(call'[c].pc) < StepsLeft(call[c].pc)
    OBVIOUS
  <2>1. ~Arrive(c)
    BY DEF Arrive, Begin, Open, Closed
  <2> QED
    BY <2>1, OneCallMoves, StepShrinks
<1> QED
  BY <1>1, InvariantHolds, PTL DEF Spec

(* delete_for_resource and the cascade of delete_resource wait for a row   *)
(* that another transaction has deleted.                                   *)
Waits(c) ==
  \/ call[c].pc = "unlink" /\ \E d \in Calls : HoldsLink(d, call[c].target, call[c].policy)
  \/ /\ call[c].pc = "write" /\ call[c].op = "delete_resource"
     /\ \E d \in Calls, p \in Catalogue : HoldsLink(d, call[c].target, p)

LocksExclude ==
  \A c, d \in Calls : \A x \in Resources, p \in Catalogue :
    HoldsLink(c, x, p) /\ HoldsLink(d, x, p) => c = d /\ ~Waits(c)

(* The statement that takes the lock. *)
Locks(c, x, p) == Unlink(c) /\ call[c].target = x /\ call[c].policy = p

LEMMA NewHolder ==
  ASSUME IInv, [Next]_vars, NEW c \in Calls, NEW x \in Resources, NEW p \in Catalogue,
         HoldsLink(c, x, p)', ~HoldsLink(c, x, p)
  PROVE  Locks(c, x, p)
<1>0. call \in [Calls -> CallState] /\ call'[c].pc \in {"check", "commit"}
      /\ call'[c].target = x /\ call'[c].policy = p /\ <<x, p>> \in links'
  BY DEF HoldsLink, IInv, TypeOK
<1>1. CASE call'[c] = call[c]
  <2>1. <<x, p>> \notin links /\ Started(c) /\ call[c].op = "delete_policy" /\ call[c].policy = p
    BY <1>0, <1>1 DEF HoldsLink, Started, IInv, CallInv, PathKnown
  <2>2. p \in written
    BY <2>1 DEF IInv, CallInv, IdsKnown
  <2>3. StoreMoves
    BY StepWrites, WriteMoves DEF IInv, TypeOK
  <2>4. <<x, p>> \in links \/ <<x, p>>[2] \notin written
    BY <1>0, <2>3 DEF StoreMoves
  <2> QED
    BY <2>1, <2>2, <2>4
<1>2. CASE Arrive(c)
  <2>1. call'[c].pc \in {"authorized", "forbidden"}
    BY <1>0, <1>2 DEF Arrive, Begin
  <2> QED
    BY <1>0, <2>1
<1>3. CASE Proceed(c) \/ Abandon(c)
  <2>1. ASSUME NEW pc, Goto(c, pc)
        PROVE  call'[c].pc = pc /\ call'[c].target = call[c].target /\ call'[c].policy = call[c].policy
    BY <1>0, <2>1 DEF Goto, CallState
  <2>2. CASE Unlink(c)
    BY <1>0, <2>1, <2>2 DEF Unlink, Keeps, Locks
  <2>3. CASE CheckLinks(c)
    <3>1. call[c].pc = "check" /\ call[c].target = x /\ call[c].policy = p /\ links' = links
      BY <1>0, <2>3 DEF CheckLinks, CallState, store
    <3> QED
      BY <1>0, <3>1 DEF HoldsLink
  <2>4. CASE (Proceed(c) /\ ~Unlink(c) /\ ~CheckLinks(c)) \/ Abandon(c)
    <3>1. call'[c].pc \notin {"check", "commit"}
      BY <2>1, <2>4 DEF Proceed, FindResource, InsertResource, UpdateResource, RemoveResource,
         InsertPolicy, InsertLink, Reread, FindPolicy, FinishDelete, Abandon, Keeps
    <3> QED
      BY <1>0, <3>1
  <2> QED
    BY <1>3, <2>2, <2>3, <2>4
<1> QED
  BY <1>1, <1>2, <1>3, OneCallMoves

(* No two transactions have deleted the same link, and the one that has    *)
(* waits for no other: deletions cannot wait for each other in a circle.   *)
THEOREM LocksAreExclusive == Spec => []LocksExclude
<1> DEFINE Alone == \A c, d \in Calls : \A x \in Resources, p \in Catalogue :
                      HoldsLink(c, x, p) /\ HoldsLink(d, x, p) => c = d
<1>1. Init => Alone
  BY DEF Init, HoldsLink
<1>2. IInv /\ Alone /\ [Next]_vars => Alone'
  <2> SUFFICES ASSUME IInv, Alone, [Next]_vars, NEW c \in Calls, NEW d \in Calls, c # d,
                      NEW x \in Resources, NEW p \in Catalogue,
                      HoldsLink(c, x, p)', HoldsLink(d, x, p)'
               PROVE  FALSE
    OBVIOUS
  <2>1. ASSUME NEW e \in Calls, HoldsLink(e, x, p)', ~HoldsLink(e, x, p) PROVE Locks(e, x, p)
    BY <2>1, NewHolder
  <2>2. ASSUME NEW e \in Calls, NEW g \in Calls, e # g, Locks(e, x, p), HoldsLink(g, x, p)'
        PROVE  FALSE
    <3>1. ~HoldsLink(g, x, p)
      BY <2>2 DEF Locks, Unlink
    <3>2. Locks(g, x, p)
      BY <2>1, <2>2, <3>1
    <3>3. Goto(e, "check") /\ call[g].pc = "unlink" /\ Goto(g, "check")
      BY <2>2, <3>2 DEF Locks, Unlink, Keeps
    <3>4. call'[g].pc = "unlink" /\ call'[g].pc = "check"
      BY <2>2, <3>3 DEF Goto, IInv, TypeOK, CallState
    <3> QED
      BY <3>4
  <2>3. CASE HoldsLink(c, x, p) /\ HoldsLink(d, x, p)
    BY <2>3
  <2>4. CASE ~HoldsLink(c, x, p)
    BY <2>1, <2>2, <2>4
  <2>5. CASE ~HoldsLink(d, x, p)
    BY <2>1, <2>2, <2>5
  <2> QED
    BY <2>3, <2>4, <2>5
<1>3. Alone => LocksExclude
  BY DEF LocksExclude, HoldsLink, Waits
<1> HIDE DEF Alone
<1> QED
  BY <1>1, <1>2, <1>3, InvariantHolds, PTL DEF Spec
=============================================================================
