------------------------- MODULE AccessChecksProofs -------------------------
(***************************************************************************)
(* AccessChecks answers rightly for every number of calls, users,          *)
(* resources and policies, whatever commits between a call's SELECTs.      *)
(***************************************************************************)
EXTENDS AccessChecks, StoreProofs, PolicyEngineProofs

(* The subject would be granted by the policies S under the role read.     *)
Deserves(S, c) ==
  \E p \in S : Wins(p, S, UserRow(call[c].user, call[c].seen)) /\ p.effect = "allow"

(* What was noted about an open call covers the present moment. *)
Observed(c) ==
  call[c].pc \in Open =>
    /\ EntitledTo(call[c].user) \subseteq had[c]
    /\ Resources \ EntitledTo(call[c].user) \subseteq lacked[c]
    /\ Missing(call[c].target, call[c].user) => missed[c]

RoleRead(c) == call[c].pc \in {"resource", "decide", "load", "policies"}

(* The role a call goes by is the present one, unless it has changed. *)
RoleKnown(c) == RoleRead(c) => moved[c] \/ role[call[c].user] = call[c].seen

(* Whatever a call holds lies in one workspace. *)
Scoped(c) ==
  /\ call[c].op \in {"details", "list"} => call[c].user = call[c].caller
  /\ RoleRead(c) => WorkspaceOf[call[c].user] = WorkspaceOf[call[c].caller]
  /\ \A x \in call[c].pending \cup call[c].shown \cup call[c].withheld :
       SameWorkspace(x, call[c].user) /\ SameWorkspace(x, call[c].caller)

(* Ids are never reused: if the resource an admin asked for is there when  *)
(* it is looked up, it was there when the role was read.                   *)
TargetKnown(c) ==
  call[c].op # "list" /\ call[c].pc \in {"user", "resource"} =>
    /\ call[c].target \in born
    /\ call[c].pc = "resource" /\ call[c].seen = "admin"
         /\ call[c].target \in resources /\ SameWorkspace(call[c].target, call[c].user)
       => call[c].target \in had[c]

Progressed(c) ==
  /\ call[c].pc \in {"user", "resource"} =>
       call[c].pending = {} /\ call[c].shown = {} /\ call[c].withheld = {}
  /\ call[c].pc \in {"decide", "load"} => call[c].seen = "user"
  /\ call[c].pc = "load" => call[c].target \in call[c].pending
  /\ call[c].pc = "policies" => call[c].op # "list"

(* The links read for a resource say what the subject was entitled to.     *)
VerdictKnown(c) ==
  call[c].pc = "load" =>
    \E S \in SUBSET Catalogue :
      /\ call[c].list \in Listings(S)
      /\ Deserves(S, c) => call[c].target \in had[c]
      /\ ~Deserves(S, c) => moved[c] \/ call[c].target \in lacked[c]

ListKnown(c) ==
  call[c].op = "list" /\ call[c].pc \in {"decide", "load", "ok"} =>
    /\ moved[c] \/ Resources \ (call[c].shown \cup call[c].pending) \subseteq lacked[c]
    /\ call[c].pc = "ok" => call[c].pending = {}

LinksKnown(c) ==
  /\ call[c].pc \in {"load", "failed"} =>
       \A i \in DOMAIN call[c].list : call[c].list[i] \in written
  /\ call[c].pc = "failed" =>
       \E i \in DOMAIN call[c].list : <<call[c].target, call[c].list[i]>> \notin links

Answered(c) ==
  /\ ~(call[c].op = "list" /\ call[c].seen = "admin" /\ moved[c]) =>
       call[c].shown \subseteq had[c]
  /\ moved[c] \/ call[c].withheld \subseteq lacked[c]
  /\ call[c].pc = "not_found" =>
       WorkspaceOf[call[c].user] # WorkspaceOf[call[c].caller] \/ missed[c]

CallInv(c) ==
  /\ Observed(c) /\ RoleKnown(c) /\ Scoped(c) /\ TargetKnown(c) /\ Progressed(c)
  /\ VerdictKnown(c) /\ ListKnown(c) /\ LinksKnown(c) /\ Answered(c)

(* The composite foreign keys, as LinksIntact states them. *)
IInv == TypeOK /\ LinksIntact /\ \A c \in Calls : CallInv(c)

-----------------------------------------------------------------------------
(* The history of a call that is under way only grows, and takes in the    *)
(* moment after the step.                                                  *)
LEMMA Noted ==
  ASSUME TypeOK, Observe, NEW c \in Calls, call[c].pc \in Open
  PROVE  /\ had[c] \subseteq had'[c] /\ lacked[c] \subseteq lacked'[c]
         /\ EntitledTo(call[c].user)' \subseteq had'[c]
         /\ Resources \ EntitledTo(call[c].user)' \subseteq lacked'[c]
         /\ missed[c] => missed'[c]
         /\ Missing(call[c].target, call[c].user)' => missed'[c]
         /\ moved[c] => moved'[c]
         /\ role'[call[c].user] # role[call[c].user] => moved'[c]
<1>1. During(c) /\ ~Begins(c)
  BY DEF During, Begins, Open, Closed
<1>2. had'[c] = had[c] \cup EntitledTo(call[c].user)'
  BY <1>1 DEF Observe
<1>3. lacked'[c] = lacked[c] \cup (Resources \ EntitledTo(call[c].user)')
  BY <1>1 DEF Observe
<1>4. moved'[c] = (moved[c] \/ role'[call[c].user] # role[call[c].user])
  BY <1>1 DEF Observe
<1>5. missed'[c] = (missed[c] \/ Missing(call[c].target, call[c].user)')
  BY <1>1 DEF Observe
<1> QED
  BY <1>2, <1>3, <1>4, <1>5

(* The history of a call that is not under way stays. *)
LEMMA NotedClosed ==
  ASSUME TypeOK, Observe, NEW c \in Calls, call[c].pc \in Closed, call'[c].pc \in Closed
  PROVE  /\ had'[c] = had[c] /\ lacked'[c] = lacked[c]
         /\ missed'[c] = missed[c] /\ moved'[c] = moved[c]
<1>1. ~During(c) /\ ~Begins(c)
  BY DEF During, Begins, Open, Closed
<1>2. had'[c] = had[c] /\ lacked'[c] = lacked[c] /\ missed'[c] = missed[c]
  BY <1>1 DEF Observe
<1>3. moved'[c] = moved[c]
  BY <1>1 DEF Observe, TypeOK
<1> QED
  BY <1>2, <1>3

(* The history keeps its type. *)
LEMMA HistoryType ==
  ASSUME TypeOK, Observe, StoreTypeOK', call' \in [Calls -> CallState]
  PROVE  TypeOK'
<1>1. \A u \in Users : EntitledTo(u) \subseteq Resources /\ EntitledTo(u)' \subseteq Resources
  BY DEF EntitledTo, TypeOK, StoreTypeOK
<1>2. \A c \in Calls : call[c].user \in Users /\ call'[c].user \in Users
  BY DEF TypeOK, CallState
<1>3. had' \in [Calls -> SUBSET Resources] /\ lacked' \in [Calls -> SUBSET Resources]
  BY <1>1, <1>2 DEF Observe, TypeOK
<1>4. moved' \in [Calls -> BOOLEAN]
  BY DEF Observe, TypeOK, Begins, During
<1>5. missed' \in [Calls -> BOOLEAN]
  BY DEF Observe, TypeOK, Begins, During, Missing
<1> QED
  BY <1>3, <1>4, <1>5 DEF TypeOK

(* A call that takes no part in a step keeps what is known about it. *)
LEMMA OtherCalls ==
  ASSUME IInv, StoreMoves, Observe, NEW c \in Calls, call'[c] = call[c]
  PROVE  CallInv(c)'
<1> USE DEF IInv
<1>1. CallInv(c) /\ call[c] \in CallState
  BY DEF TypeOK
<1>2. CASE call[c].pc \in Closed
  <2>1. /\ had'[c] = had[c] /\ lacked'[c] = lacked[c]
        /\ missed'[c] = missed[c] /\ moved'[c] = moved[c]
    BY <1>2, NotedClosed
  <2>2. call[c].pc \notin Open /\ ~RoleRead(c) /\ call[c].pc \notin {"user", "decide", "load"}
    BY <1>2 DEF Closed, Open, RoleRead
  <2>3. (Observed(c) /\ RoleKnown(c) /\ TargetKnown(c) /\ Progressed(c) /\ VerdictKnown(c))'
    BY <2>2 DEF Observed, RoleKnown, RoleRead, TargetKnown, Progressed, VerdictKnown
  <2>4. (Scoped(c) /\ ListKnown(c) /\ Answered(c))'
    BY <1>1, <2>1 DEF CallInv, Scoped, RoleRead, SameWorkspace, ListKnown, Answered
  <2>5. LinksKnown(c)'
    BY <1>1 DEF CallInv, LinksKnown, StoreMoves
  <2> QED
    BY <2>3, <2>4, <2>5 DEF CallInv
<1>3. CASE call[c].pc \in Open
  <2>1. /\ had[c] \subseteq had'[c] /\ lacked[c] \subseteq lacked'[c]
        /\ EntitledTo(call[c].user)' \subseteq had'[c]
        /\ Resources \ EntitledTo(call[c].user)' \subseteq lacked'[c]
        /\ missed[c] => missed'[c]
        /\ Missing(call[c].target, call[c].user)' => missed'[c]
        /\ moved[c] => moved'[c]
        /\ role'[call[c].user] # role[call[c].user] => moved'[c]
    BY <1>3, Noted
  <2>2. Observed(c)'
    BY <2>1 DEF Observed, EntitledTo, PoliciesOf
  <2>3. RoleKnown(c)'
    BY <1>1, <2>1 DEF CallInv, RoleKnown, RoleRead
  <2>4. (Scoped(c) /\ Progressed(c))'
    BY <1>1 DEF CallInv, Scoped, RoleRead, SameWorkspace, Progressed
  <2>5. TargetKnown(c)'
    BY <1>1, <2>1 DEF CallInv, TargetKnown, SameWorkspace, StoreMoves
  <2>6. VerdictKnown(c)'
    BY <1>1, <2>1 DEF CallInv, VerdictKnown, Deserves
  <2>7. ListKnown(c)'
    BY <1>1, <2>1 DEF CallInv, ListKnown
  <2>8. LinksKnown(c)'
    BY <1>1 DEF CallInv, LinksKnown, StoreMoves
  <2>9. Answered(c)'
    BY <1>1, <2>1 DEF CallInv, Answered
  <2> QED
    BY <2>2, <2>3, <2>4, <2>5, <2>6, <2>7, <2>8, <2>9 DEF CallInv
<1> QED
  BY <1>1, <1>2, <1>3 DEF CallState

-----------------------------------------------------------------------------
(* A step of one call leaves the tables and the other calls alone. *)
LEMMA OneCallActs ==
  ASSUME IInv, Reads, NEW c \in Calls, NEW q \in CallState,
         call' = [call EXCEPT ![c] = q], CallInv(c)'
  PROVE  IInv'
<1> USE DEF IInv
<1>1. StoreMoves /\ StoreTypeOK' /\ LinksIntact'
  <2>1. StoreTypeOK /\ UNCHANGED store
    BY DEF TypeOK, Reads
  <2>2. StoreMoves
    BY <2>1, WriteMoves
  <2> QED
    BY <2>2 DEF StoreMoves
<1>2. TypeOK'
  <2>1. call' \in [Calls -> CallState]
    BY DEF TypeOK
  <2> QED
    BY <1>1, <2>1, HistoryType DEF Reads
<1>3. ASSUME NEW d \in Calls PROVE CallInv(d)'
  <2>1. CASE d = c
    BY <2>1
  <2>2. CASE d # c
    <3>1. call'[d] = call[d]
      BY <2>2 DEF TypeOK
    <3> QED
      BY <1>1, <3>1, OtherCalls DEF Reads
  <2> QED
    BY <2>1, <2>2
<1> QED
  BY <1>1, <1>2, <1>3

(* A read adds nothing to the history of a call that is under way: the     *)
(* present moment is noted already.                                        *)
LEMMA ReadKeepsHistory ==
  ASSUME IInv, Reads, NEW c \in Calls, call[c].pc \in Open, call'[c].user = call[c].user
  PROVE  /\ had'[c] = had[c] /\ lacked'[c] = lacked[c] /\ moved'[c] = moved[c]
         /\ missed[c] => missed'[c]
         /\ Missing(call[c].target, call[c].user)' => missed'[c]
         /\ role' = role /\ resources' = resources /\ links' = links
         /\ policies' = policies /\ born' = born /\ written' = written
         /\ EntitledTo(call[c].user)' = EntitledTo(call[c].user)
<1>1. During(c) /\ ~Begins(c)
  BY DEF During, Begins, Open, Closed
<1>2. /\ role' = role /\ resources' = resources /\ links' = links
      /\ policies' = policies /\ born' = born /\ written' = written
  BY DEF Reads, store
<1>3. EntitledTo(call[c].user)' = EntitledTo(call[c].user)
  BY <1>2 DEF EntitledTo, PoliciesOf
<1>4. Observed(c)
  BY DEF IInv, CallInv
<1>5. had'[c] = had[c] \cup EntitledTo(call[c].user)'
  BY <1>1 DEF Observe, Reads
<1>6. lacked'[c] = lacked[c] \cup (Resources \ EntitledTo(call[c].user)')
  BY <1>1 DEF Observe, Reads
<1>7. moved'[c] = (moved[c] \/ role'[call[c].user] # role[call[c].user])
  BY <1>1 DEF Observe, Reads
<1>8. missed'[c] = (missed[c] \/ Missing(call[c].target, call[c].user)')
  BY <1>1 DEF Observe, Reads
<1> QED
  BY <1>2, <1>3, <1>4, <1>5, <1>6, <1>7, <1>8 DEF Observed, IInv, TypeOK

(* Init *)
LEMMA InitIInv == ASSUME Init PROVE IInv
<1> USE DEF Init
<1>1. StoreTypeOK
  BY StoreStarts
<1>2. LinksIntact
  BY StoreStarts
<1>3. PICK u \in Users : \A c \in Calls : call[c] =
        [pc |-> "idle", op |-> "check", caller |-> u, user |-> u,
         target |-> NoResource, seen |-> "user", pending |-> {},
         list |-> <<>>, shown |-> {}, withheld |-> {}]
  OBVIOUS
<1>4. TypeOK
  <2>1. <<>> \in Seq(Catalogue)
    OBVIOUS
  <2> QED
    BY <1>1, <2>1 DEF TypeOK, CallState, Open, Closed, Roles
<1>5. ASSUME NEW c \in Calls PROVE CallInv(c)
  BY <1>3 DEF CallInv, Observed, RoleKnown, RoleRead, Scoped, TargetKnown, Progressed,
              VerdictKnown, ListKnown, LinksKnown, Answered, Open
<1> QED
  BY <1>2, <1>4, <1>5 DEF IInv

(* A call that begins has noted the present moment and holds nothing. *)
LEMMA BeginIInv ==
  ASSUME IInv, NEW c \in Calls, NEW op \in {"check", "details", "list"},
         NEW caller \in Users, NEW u \in Users, NEW x \in Resources \cup {NoResource},
         NEW pc \in {"user", "forbidden"}, Begin(c, op, caller, u, x, pc),
         op # "list" => x \in born, op \in {"details", "list"} => u = caller
  PROVE  IInv'
<1> DEFINE q == [pc |-> pc, op |-> op, caller |-> caller, user |-> u, target |-> x,
                 seen |-> "user", pending |-> {}, list |-> <<>>,
                 shown |-> {}, withheld |-> {}]
<1>1. Reads /\ call[c].pc \in Closed /\ call' = [call EXCEPT ![c] = q]
  BY DEF Begin
<1>2. q \in CallState
  <2>1. <<>> \in Seq(Catalogue)
    OBVIOUS
  <2> QED
    BY <2>1 DEF CallState, Open, Closed, Roles
<1>3. call'[c] = q
  BY <1>1 DEF IInv, TypeOK
<1>4. /\ role' = role /\ resources' = resources /\ links' = links
      /\ policies' = policies /\ born' = born /\ written' = written
  BY <1>1 DEF Reads, store
<1>5. Observed(c)'
  <2>1. CASE pc = "user"
    <3>1. Begins(c)
      BY <1>1, <1>3, <2>1 DEF Begins, Open
    <3>2. had'[c] = EntitledTo(u) /\ lacked'[c] = Resources \ EntitledTo(u)
      BY <1>1, <1>3, <3>1 DEF Observe, Reads
    <3>3. Missing(call[c].target, call[c].user)' => missed'[c]
      BY <1>1, <3>1 DEF Observe, Reads
    <3>4. EntitledTo(call[c].user)' = EntitledTo(u)
      BY <1>3, <1>4 DEF EntitledTo, PoliciesOf
    <3> QED
      BY <3>2, <3>3, <3>4 DEF Observed
  <2>2. CASE pc = "forbidden"
    BY <1>3, <2>2 DEF Observed, Open
  <2> QED
    BY <2>1, <2>2
<1>6. CallInv(c)'
  BY <1>3, <1>4, <1>5 DEF CallInv, RoleKnown, RoleRead, Scoped, TargetKnown, Progressed,
              VerdictKnown, ListKnown, LinksKnown, Answered
<1> QED
  BY <1>1, <1>2, <1>6, OneCallActs

(* The role is read: the subject of an admin's check is entitled to every  *)
(* resource that is in the workspace at that moment.                       *)
LEMMA ReadUserIInv == ASSUME IInv, NEW c \in Calls, ReadUser(c) PROVE IInv'
<1> DEFINE q == IF WorkspaceOf[call[c].user] = WorkspaceOf[call[c].caller]
                  THEN [call[c] EXCEPT !.pc = "resource", !.seen = role[call[c].user]]
                  ELSE [call[c] EXCEPT !.pc = "not_found"]
<1>1. /\ Reads /\ call[c].pc = "user" /\ call' = [call EXCEPT ![c] = q]
      /\ CallInv(c) /\ call[c] \in CallState /\ StoreTypeOK
  BY DEF ReadUser, IInv, TypeOK
<1>2. q \in CallState /\ call'[c] = q
  <2>1. role[call[c].user] \in Roles
    BY <1>1 DEF StoreTypeOK, CallState
  <2> QED
    BY <1>1, <2>1 DEF IInv, TypeOK, CallState, Open, Closed
<1>3. call[c].pc \in Open /\ q.user = call[c].user
  BY <1>1 DEF Open, CallState
<1>4. /\ had'[c] = had[c] /\ lacked'[c] = lacked[c] /\ moved'[c] = moved[c]
      /\ missed[c] => missed'[c]
      /\ Missing(call[c].target, call[c].user)' => missed'[c]
      /\ role' = role /\ resources' = resources /\ links' = links
      /\ policies' = policies /\ born' = born /\ written' = written
      /\ EntitledTo(call[c].user)' = EntitledTo(call[c].user)
  BY <1>1, <1>2, <1>3, ReadKeepsHistory
<1>5. ASSUME role[call[c].user] = "admin", call[c].target \in resources,
             SameWorkspace(call[c].target, call[c].user)
      PROVE  call[c].target \in had[c]
  <2>1. call[c].target \in EntitledTo(call[c].user)
    BY <1>5 DEF EntitledTo, Entitles, UserRow
  <2> QED
    BY <1>1, <1>3, <2>1 DEF CallInv, Observed
<1>6. CASE WorkspaceOf[call[c].user] = WorkspaceOf[call[c].caller]
  <2>1. /\ q.pc = "resource" /\ q.seen = role[call[c].user]
        /\ q.op = call[c].op /\ q.caller = call[c].caller /\ q.user = call[c].user
        /\ q.target = call[c].target /\ q.pending = call[c].pending
        /\ q.shown = call[c].shown /\ q.withheld = call[c].withheld
    BY <1>1, <1>6 DEF CallState
  <2> HIDE DEF q
  <2>2. q.pending = {} /\ q.shown = {} /\ q.withheld = {}
    BY <1>1, <2>1 DEF CallInv, Progressed
  <2>3. Observed(c)' /\ RoleKnown(c)'
    BY <1>1, <1>2, <1>3, <1>4, <2>1 DEF CallInv, Observed, EntitledTo, PoliciesOf, RoleKnown
  <2>4. Scoped(c)'
    BY <1>1, <1>2, <1>6, <2>1, <2>2 DEF CallInv, Scoped
  <2>5. TargetKnown(c)'
    BY <1>1, <1>2, <1>4, <1>5, <2>1 DEF CallInv, TargetKnown, SameWorkspace
  <2>6. (Progressed(c) /\ VerdictKnown(c) /\ ListKnown(c) /\ LinksKnown(c) /\ Answered(c))'
    BY <1>2, <2>1, <2>2 DEF Progressed, VerdictKnown, ListKnown, LinksKnown, Answered
  <2>7. CallInv(c)'
    BY <2>3, <2>4, <2>5, <2>6 DEF CallInv
  <2> QED
    BY <1>1, <1>2, <2>7, OneCallActs
<1>7. CASE WorkspaceOf[call[c].user] # WorkspaceOf[call[c].caller]
  <2>1. /\ q.pc = "not_found" /\ q.seen = call[c].seen
        /\ q.op = call[c].op /\ q.caller = call[c].caller /\ q.user = call[c].user
        /\ q.target = call[c].target /\ q.pending = call[c].pending
        /\ q.shown = call[c].shown /\ q.withheld = call[c].withheld
    BY <1>1, <1>7 DEF CallState
  <2> HIDE DEF q
  <2>2. q.pending = {} /\ q.shown = {} /\ q.withheld = {}
    BY <1>1, <2>1 DEF CallInv, Progressed
  <2>3. WorkspaceOf[q.user] # WorkspaceOf[q.caller]
    BY <1>1, <1>3, <1>7, <2>1
  <2>4. CallInv(c)'
    BY <1>1, <1>2, <2>1, <2>2, <2>3 DEF CallInv, Observed, RoleKnown, RoleRead, Scoped,
       TargetKnown, Progressed, VerdictKnown, ListKnown, LinksKnown, Answered, Open
  <2> QED
    BY <1>1, <1>2, <2>4, OneCallActs
<1> QED
  BY <1>6, <1>7

(* The target is found, and granted to an admin, or is missing. *)
LEMMA ReadResourceIInv == ASSUME IInv, NEW c \in Calls, ReadResource(c) PROVE IInv'
<1> DEFINE t == call[c].target
           missing == t \notin resources \/ ~SameWorkspace(t, call[c].caller)
           q == IF missing THEN [call[c] EXCEPT !.pc = "not_found"]
                ELSE IF call[c].seen = "admin"
                  THEN [call[c] EXCEPT !.shown = {t},
                          !.pc = IF call[c].op = "check" THEN "ok" ELSE "policies"]
                  ELSE [call[c] EXCEPT !.pending = {t}, !.pc = "decide"]
<1>1. /\ Reads /\ call[c].pc = "resource" /\ call[c].op # "list"
      /\ call' = [call EXCEPT ![c] = q]
      /\ CallInv(c) /\ call[c] \in CallState /\ StoreTypeOK
  BY DEF ReadResource, IInv, TypeOK
<1>2. t \in born /\ t \in Resources
  BY <1>1 DEF CallInv, TargetKnown, StoreTypeOK
<1>3. q \in CallState /\ call'[c] = q /\ q.user = call[c].user
  BY <1>1, <1>2 DEF IInv, TypeOK, CallState, Open, Closed
<1>4. call[c].pc \in Open
  BY <1>1 DEF Open
<1>5. /\ had'[c] = had[c] /\ lacked'[c] = lacked[c] /\ moved'[c] = moved[c]
      /\ missed[c] => missed'[c]
      /\ Missing(call[c].target, call[c].user)' => missed'[c]
      /\ role' = role /\ resources' = resources /\ links' = links
      /\ policies' = policies /\ born' = born /\ written' = written
      /\ EntitledTo(call[c].user)' = EntitledTo(call[c].user)
  BY <1>1, <1>3, <1>4, ReadKeepsHistory
<1>6. /\ call[c].pending = {} /\ call[c].shown = {} /\ call[c].withheld = {}
      /\ WorkspaceOf[call[c].user] = WorkspaceOf[call[c].caller]
      /\ call[c].op = "details" => call[c].user = call[c].caller
  BY <1>1 DEF CallInv, Progressed, Scoped, RoleRead
<1> HIDE DEF q
<1>7. CASE missing
  <2>1. /\ q.pc = "not_found" /\ q.op = call[c].op /\ q.caller = call[c].caller
        /\ q.target = t /\ q.pending = {} /\ q.shown = {} /\ q.withheld = {}
    BY <1>1, <1>6, <1>7 DEF q, CallState
  <2>2. missed[c]
    BY <1>1, <1>4, <1>6, <1>7 DEF CallInv, Observed, Missing, SameWorkspace
  <2>3. Scoped(c)'
    BY <1>1, <1>3, <1>6, <2>1 DEF Scoped, RoleRead
  <2>4. (Observed(c) /\ RoleKnown(c) /\ TargetKnown(c) /\ Progressed(c) /\ VerdictKnown(c)
          /\ ListKnown(c) /\ LinksKnown(c) /\ Answered(c))'
    BY <1>1, <1>3, <1>5, <2>1, <2>2 DEF Observed, RoleKnown, RoleRead,
       TargetKnown, Progressed, VerdictKnown, ListKnown, LinksKnown, Answered, Open
  <2> QED
    BY <1>1, <1>3, <2>3, <2>4, OneCallActs DEF CallInv
<1>8. CASE ~missing /\ call[c].seen = "admin"
  <2>1. /\ q.pc \in {"ok", "policies"} /\ q.op = call[c].op /\ q.caller = call[c].caller
        /\ q.seen = call[c].seen
        /\ q.target = t /\ q.pending = {} /\ q.shown = {t} /\ q.withheld = {}
    BY <1>1, <1>6, <1>8 DEF q, CallState
  <2>2. t \in had[c]
    BY <1>1, <1>6, <1>8 DEF CallInv, TargetKnown, SameWorkspace
  <2>3. Observed(c)' /\ RoleKnown(c)'
    BY <1>1, <1>3, <1>4, <1>5, <2>1
       DEF CallInv, Observed, EntitledTo, PoliciesOf, RoleKnown, RoleRead
  <2>4. Scoped(c)'
    BY <1>1, <1>3, <1>6, <1>8, <2>1 DEF Scoped, SameWorkspace
  <2>5. (TargetKnown(c) /\ Progressed(c) /\ VerdictKnown(c) /\ ListKnown(c)
          /\ LinksKnown(c) /\ Answered(c))'
    BY <1>1, <1>3, <1>5, <2>1, <2>2
       DEF TargetKnown, Progressed, VerdictKnown, ListKnown, LinksKnown, Answered
  <2> QED
    BY <1>1, <1>3, <2>3, <2>4, <2>5, OneCallActs DEF CallInv
<1>9. CASE ~missing /\ call[c].seen # "admin"
  <2>1. /\ q.pc = "decide" /\ q.op = call[c].op /\ q.caller = call[c].caller
        /\ q.seen = call[c].seen /\ q.seen = "user"
        /\ q.target = t /\ q.pending = {t} /\ q.shown = {} /\ q.withheld = {}
    BY <1>1, <1>6, <1>9 DEF q, CallState, Roles
  <2>2. Observed(c)' /\ RoleKnown(c)'
    BY <1>1, <1>3, <1>4, <1>5, <2>1
       DEF CallInv, Observed, EntitledTo, PoliciesOf, RoleKnown, RoleRead
  <2>3. Scoped(c)'
    BY <1>1, <1>3, <1>6, <1>9, <2>1 DEF Scoped, SameWorkspace
  <2>4. (TargetKnown(c) /\ Progressed(c) /\ VerdictKnown(c) /\ ListKnown(c)
          /\ LinksKnown(c) /\ Answered(c))'
    BY <1>1, <1>3, <1>5, <2>1
       DEF TargetKnown, Progressed, VerdictKnown, ListKnown, LinksKnown, Answered
  <2> QED
    BY <1>1, <1>3, <2>2, <2>3, <2>4, OneCallActs DEF CallInv
<1> QED
  BY <1>7, <1>8, <1>9

(* A resource the list query did not find is one the user lacks now. *)
LEMMA ReadResourcesIInv == ASSUME IInv, NEW c \in Calls, ReadResources(c) PROVE IInv'
<1> DEFINE found == {x \in resources : SameWorkspace(x, call[c].user)}
           q == IF call[c].seen = "admin" THEN [call[c] EXCEPT !.shown = found, !.pc = "ok"]
                ELSE IF found = {} THEN [call[c] EXCEPT !.pc = "ok"]
                ELSE [call[c] EXCEPT !.pending = found, !.pc = "decide"]
<1>1. /\ Reads /\ call[c].pc = "resource" /\ call[c].op = "list"
      /\ call' = [call EXCEPT ![c] = q]
      /\ CallInv(c) /\ call[c] \in CallState /\ StoreTypeOK
  BY DEF ReadResources, IInv, TypeOK
<1>2. found \subseteq Resources
  BY <1>1 DEF StoreTypeOK
<1>3. q \in CallState /\ call'[c] = q /\ q.user = call[c].user
  BY <1>1, <1>2 DEF IInv, TypeOK, CallState, Open, Closed
<1>4. call[c].pc \in Open
  BY <1>1 DEF Open
<1>5. /\ had'[c] = had[c] /\ lacked'[c] = lacked[c] /\ moved'[c] = moved[c]
      /\ missed[c] => missed'[c]
      /\ Missing(call[c].target, call[c].user)' => missed'[c]
      /\ role' = role /\ resources' = resources /\ links' = links
      /\ policies' = policies /\ born' = born /\ written' = written
      /\ EntitledTo(call[c].user)' = EntitledTo(call[c].user)
  BY <1>1, <1>3, <1>4, ReadKeepsHistory
<1>6. /\ call[c].pending = {} /\ call[c].shown = {} /\ call[c].withheld = {}
      /\ call[c].user = call[c].caller
  BY <1>1 DEF CallInv, Progressed, Scoped
<1>7. Resources \ found \subseteq lacked[c]
  BY <1>1, <1>4 DEF CallInv, Observed, EntitledTo
<1>8. /\ q.op = "list" /\ q.caller = call[c].caller /\ q.seen = call[c].seen
      /\ q.withheld = {} /\ q.shown \cup q.pending = found
      /\ \/ q.pc = "ok" /\ q.pending = {} /\ (call[c].seen # "admin" => q.shown = {})
         \/ q.pc = "decide" /\ q.seen = "user" /\ q.shown = {}
      /\ q.shown \subseteq found
  BY <1>1, <1>6 DEF CallState, Roles
<1>9. call[c].seen = "admin" /\ ~moved[c] => found \subseteq had[c]
  <2> SUFFICES ASSUME call[c].seen = "admin", ~moved[c], NEW x \in found
               PROVE  x \in had[c]
    OBVIOUS
  <2>1. role[call[c].user] = "admin"
    BY <1>1 DEF CallInv, RoleKnown, RoleRead
  <2>2. x \in EntitledTo(call[c].user)
    BY <2>1 DEF EntitledTo, Entitles, UserRow
  <2> QED
    BY <1>1, <1>4, <2>2 DEF CallInv, Observed
<1>10. Observed(c)' /\ RoleKnown(c)'
  BY <1>1, <1>3, <1>4, <1>5, <1>8 DEF CallInv, Observed, EntitledTo, PoliciesOf, RoleKnown, RoleRead
<1>11. Scoped(c)'
  BY <1>3, <1>6, <1>8 DEF Scoped, SameWorkspace
<1>12. (TargetKnown(c) /\ Progressed(c) /\ VerdictKnown(c) /\ LinksKnown(c) /\ Answered(c))'
  BY <1>3, <1>5, <1>8, <1>9 DEF TargetKnown, Progressed, VerdictKnown, LinksKnown, Answered
<1>13. ListKnown(c)'
  BY <1>3, <1>5, <1>7, <1>8 DEF ListKnown
<1> QED
  BY <1>1, <1>3, <1>10, <1>11, <1>12, <1>13, OneCallActs DEF CallInv

(* The links read are those of one moment of the call, and the role read   *)
(* is that moment's unless it has changed: the winner among them is what   *)
(* the subject is entitled by.                                             *)
LEMMA ReadLinksIInv == ASSUME IInv, NEW c \in Calls, ReadLinks(c) PROVE IInv'
<1>0. PICK x \in call[c].pending : \E s \in Listings(PoliciesOf(x)) :
        call' = [call EXCEPT ![c].pc = "load", ![c].target = x, ![c].list = s]
  BY DEF ReadLinks
<1>1. PICK s \in Listings(PoliciesOf(x)) :
        call' = [call EXCEPT ![c].pc = "load", ![c].target = x, ![c].list = s]
  BY <1>0
<1> DEFINE S == PoliciesOf(x)
           q == [call[c] EXCEPT !.pc = "load", !.target = x, !.list = s]
<1>2. /\ Reads /\ call[c].pc = "decide" /\ call' = [call EXCEPT ![c] = q]
      /\ CallInv(c) /\ call[c] \in CallState /\ StoreTypeOK /\ LinksIntact
  BY <1>1 DEF ReadLinks, IInv, TypeOK
<1>3. x \in Resources
  BY <1>2 DEF CallState
<1>4. S \subseteq written /\ S \subseteq Catalogue
  BY <1>2 DEF PoliciesOf, StoreTypeOK
<1>5. s \in Seq(Catalogue) /\ \A i \in DOMAIN s : s[i] \in S
  <2>1. IsFiniteSet(S)
    BY <1>4, CatalogueAssumption, FS_Subset
  <2>2. Cardinality(S) \in Nat
    BY <2>1, FS_CardinalityType
  <2>3. s \in [1 .. Cardinality(S) -> S]
    BY DEF Listings
  <2> QED
    BY <1>4, <2>2, <2>3
<1>6. q \in CallState /\ call'[c] = q /\ q.user = call[c].user
  BY <1>2, <1>3, <1>5 DEF IInv, TypeOK, CallState, Open
<1>7. call[c].pc \in Open
  BY <1>2 DEF Open
<1>8. /\ had'[c] = had[c] /\ lacked'[c] = lacked[c] /\ moved'[c] = moved[c]
      /\ missed[c] => missed'[c]
      /\ Missing(call[c].target, call[c].user)' => missed'[c]
      /\ role' = role /\ resources' = resources /\ links' = links
      /\ policies' = policies /\ born' = born /\ written' = written
      /\ EntitledTo(call[c].user)' = EntitledTo(call[c].user)
  BY <1>2, <1>6, <1>7, ReadKeepsHistory
<1>9. /\ q.pc = "load" /\ q.op = call[c].op /\ q.caller = call[c].caller
      /\ q.seen = "user" /\ call[c].seen = "user" /\ q.target = x /\ q.list = s
      /\ q.pending = call[c].pending /\ q.shown = call[c].shown
      /\ q.withheld = call[c].withheld
  BY <1>2 DEF CallState, CallInv, Progressed
<1> HIDE DEF q
<1>10. SameWorkspace(x, call[c].user)
  BY <1>2 DEF CallInv, Scoped
<1>11. moved[c] \/ role[call[c].user] = "user"
  BY <1>2, <1>9 DEF CallInv, RoleKnown, RoleRead
<1>12. Deserves(S, c) => x \in had[c]
  <2> SUFFICES ASSUME Deserves(S, c) PROVE x \in had[c]
    OBVIOUS
  <2>1. PICK p \in S : Wins(p, S, UserRow(call[c].user, "user")) /\ p.effect = "allow"
    BY <1>9 DEF Deserves
  <2>2. x \in resources
    BY <1>2 DEF PoliciesOf, LinksIntact
  <2>3. role[call[c].user] \in {"admin", "user"}
    BY <1>2 DEF StoreTypeOK, CallState, Roles
  <2>4. Entitles(S, UserRow(call[c].user, role[call[c].user]))
    <3>1. CASE role[call[c].user] = "admin"
      BY <3>1 DEF Entitles, UserRow
    <3>2. CASE role[call[c].user] = "user"
      BY <3>2, <2>1 DEF Entitles
    <3> QED
      BY <2>3, <3>1, <3>2
  <2>5. x \in EntitledTo(call[c].user)
    BY <1>10, <2>2, <2>4 DEF EntitledTo
  <2> QED
    BY <1>2, <1>7, <2>5 DEF CallInv, Observed
<1>13. ~Deserves(S, c) => moved[c] \/ x \in lacked[c]
  <2> SUFFICES ASSUME ~Deserves(S, c), role[call[c].user] = "user" PROVE x \in lacked[c]
    BY <1>11
  <2>1. ~Entitles(S, UserRow(call[c].user, "user"))
    BY <1>9 DEF Deserves, Entitles, UserRow
  <2>2. x \notin EntitledTo(call[c].user)
    BY <2>1 DEF EntitledTo
  <2> QED
    BY <1>2, <1>3, <1>7, <2>2 DEF CallInv, Observed
<1>14. VerdictKnown(c)'
  <2>1. Deserves(S, c) <=> \E p \in S :
          Wins(p, S, UserRow(call[c].user, call[c].seen)) /\ p.effect = "allow"
    BY DEF Deserves
  <2> DEFINE D == \E p \in S :
                    Wins(p, S, UserRow(call'[c].user, call'[c].seen)) /\ p.effect = "allow"
  <2>2. Deserves(S, c) <=> D
    BY <1>6, <1>9, <2>1
  <2>3. (D => x \in had'[c]) /\ (~D => moved'[c] \/ x \in lacked'[c])
    BY <1>8, <1>12, <1>13, <2>2
  <2>4. S \in SUBSET Catalogue /\ call'[c].list \in Listings(S) /\ call'[c].target = x
    BY <1>4, <1>6, <1>9
  <2> HIDE DEF S
  <2> QED
    BY <2>3, <2>4 DEF VerdictKnown, Deserves
<1>15. Observed(c)' /\ RoleKnown(c)'
  BY <1>2, <1>6, <1>7, <1>8, <1>9
     DEF CallInv, Observed, EntitledTo, PoliciesOf, RoleKnown, RoleRead
<1>16. Scoped(c)'
  BY <1>2, <1>6, <1>9 DEF CallInv, Scoped, RoleRead, SameWorkspace
<1>17. ListKnown(c)'
  BY <1>2, <1>6, <1>8, <1>9 DEF CallInv, ListKnown
<1>18. (TargetKnown(c) /\ Progressed(c) /\ LinksKnown(c))'
  BY <1>4, <1>5, <1>6, <1>8, <1>9 DEF TargetKnown, Progressed, LinksKnown
<1>19. Answered(c)'
  BY <1>2, <1>6, <1>8, <1>9 DEF CallInv, Answered
<1> QED
  BY <1>2, <1>6, <1>14, <1>15, <1>16, <1>17, <1>18, <1>19, OneCallActs DEF CallInv

(* Whatever rows the second SELECT still finds, the loop stops at the      *)
(* winner among the links, or does not stop, or fails on a missing row.    *)
LEMMA Decision ==
  ASSUME IInv, NEW c \in Calls, call[c].pc = "load",
         NEW outcome,
         outcome = policy_eval(Loaded(call[c].target, call[c].list),
                               UserRow(call[c].user, call[c].seen))
  PROVE  /\ outcome \in {"granted", "denied", "error"}
         /\ outcome = "granted" => call[c].target \in had[c]
         /\ outcome = "denied" => moved[c] \/ call[c].target \in lacked[c]
         /\ outcome = "error" =>
              \E i \in DOMAIN call[c].list : <<call[c].target, call[c].list[i]>> \notin links
<1> DEFINE t == call[c].target
           s == call[c].list
           list == Loaded(t, s)
           user == UserRow(call[c].user, call[c].seen)
<1>1. CallInv(c) /\ call[c] \in CallState
  BY DEF IInv, TypeOK
<1>2. PICK S \in SUBSET Catalogue :
        /\ s \in Listings(S)
        /\ Deserves(S, c) => t \in had[c]
        /\ ~Deserves(S, c) => moved[c] \/ t \in lacked[c]
  BY <1>1 DEF CallInv, VerdictKnown
<1>3. S \in SUBSET PolicyRows /\ user \in UserRows /\ \A p, r \in S : p.id = r.id => p = r
  BY <1>1, CatalogueAssumption DEF UserRow, UserRows, CallState
<1>4. DOMAIN list = DOMAIN s /\ \A i \in DOMAIN s :
        list[i] = IF <<t, s[i]>> \in links THEN s[i] ELSE NoPolicy
  BY DEF Loaded
<1>5. outcome \in {"granted", "denied", "error"}
  BY DEF policy_eval
<1>6. Deserves(S, c) <=> \E p \in S : Wins(p, S, user) /\ p.effect = "allow"
  BY DEF Deserves
<1>7. ASSUME outcome = "error"
      PROVE  \E i \in DOMAIN s : <<t, s[i]>> \notin links
  <2>1. PICK i \in StopsAt(list, user) : list[i] = NoPolicy
    BY <1>7 DEF policy_eval
  <2>2. i \in DOMAIN s
    BY <1>4, <2>1 DEF StopsAt
  <2>3. s[i] # NoPolicy
    BY <1>2, <1>3, <2>2, ListingPositions
  <2> QED
    BY <1>4, <2>1, <2>2, <2>3
<1> HIDE DEF s, list, user, t
<1>8. outcome = policy_eval(list, user)
  BY DEF s, list, user, t
<1>9. \A i \in DOMAIN s : list[i] \in {s[i], NoPolicy}
  BY <1>4
<1>10. outcome = "granted" => Deserves(S, c)
  BY <1>2, <1>3, <1>4, <1>6, <1>8, <1>9, GrantHasWinner
<1>11. outcome = "denied" => ~Deserves(S, c)
  BY <1>2, <1>3, <1>4, <1>6, <1>8, <1>9, DenialHasNoWinner
<1> QED
  BY <1>2, <1>5, <1>7, <1>10, <1>11 DEF s, t

LEMMA LoadAndDecideIInv == ASSUME IInv, NEW c \in Calls, LoadAndDecide(c) PROVE IInv'
<1> DEFINE t == call[c].target
           outcome == policy_eval(Loaded(t, call[c].list), UserRow(call[c].user, call[c].seen))
           left == call[c].pending \ {t}
           closing == Closing(call[c].op, outcome, left)
           list == IF outcome = "error" THEN call[c].list ELSE <<>>
           shown == IF outcome = "granted" THEN call[c].shown \cup {t} ELSE call[c].shown
           withheld == IF outcome = "denied" THEN call[c].withheld \cup {t}
                                             ELSE call[c].withheld
           q == [call[c] EXCEPT !.pc = closing, !.pending = left, !.list = list,
                                !.shown = shown, !.withheld = withheld]
<1>1. /\ Reads /\ call[c].pc = "load" /\ call' = [call EXCEPT ![c] = q]
      /\ CallInv(c) /\ call[c] \in CallState
  BY DEF LoadAndDecide, IInv, TypeOK
<1>2. /\ outcome \in {"granted", "denied", "error"}
      /\ outcome = "granted" => t \in had[c]
      /\ outcome = "denied" => moved[c] \/ t \in lacked[c]
      /\ outcome = "error" =>
           \E i \in DOMAIN call[c].list : <<t, call[c].list[i]>> \notin links
  BY <1>1, Decision
<1> HIDE DEF outcome
<1>3. t \in call[c].pending /\ t \in Resources /\ call[c].seen = "user"
  BY <1>1 DEF CallInv, Progressed, CallState
<1>4. /\ closing \in {"failed", "policies", "forbidden", "ok", "decide"}
      /\ closing = "failed" => outcome = "error"
      /\ closing = "ok" => left = {}
      /\ closing = "policies" => call[c].op # "list"
      /\ call[c].op = "list" /\ closing \in {"ok", "decide"} => outcome # "error"
  BY <1>2 DEF Closing
<1> HIDE DEF closing
<1>5. list \in Seq(Catalogue) /\ left \subseteq Resources
      /\ shown \subseteq Resources /\ withheld \subseteq Resources
  <2>1. <<>> \in Seq(Catalogue)
    OBVIOUS
  <2> QED
    BY <1>1, <1>3, <2>1 DEF CallState
<1>6. q \in CallState /\ call'[c] = q /\ q.user = call[c].user
  BY <1>1, <1>4, <1>5 DEF IInv, TypeOK, CallState, Open, Closed
<1>7. call[c].pc \in Open
  BY <1>1 DEF Open
<1>8. /\ had'[c] = had[c] /\ lacked'[c] = lacked[c] /\ moved'[c] = moved[c]
      /\ missed[c] => missed'[c]
      /\ Missing(call[c].target, call[c].user)' => missed'[c]
      /\ role' = role /\ resources' = resources /\ links' = links
      /\ policies' = policies /\ born' = born /\ written' = written
      /\ EntitledTo(call[c].user)' = EntitledTo(call[c].user)
  BY <1>1, <1>6, <1>7, ReadKeepsHistory
<1>9. /\ q.pc = closing /\ q.op = call[c].op /\ q.caller = call[c].caller
      /\ q.seen = "user" /\ q.target = t /\ q.list = list
      /\ q.pending = left /\ q.shown = shown /\ q.withheld = withheld
  BY <1>1, <1>3 DEF CallState
<1> HIDE DEF q
<1>10. Observed(c)' /\ RoleKnown(c)'
  BY <1>1, <1>3, <1>6, <1>7, <1>8, <1>9
     DEF CallInv, Observed, EntitledTo, PoliciesOf, RoleKnown, RoleRead
<1>11. Scoped(c)'
  <2>1. left \cup shown \cup withheld \subseteq call[c].pending \cup call[c].shown \cup call[c].withheld
    BY <1>3
  <2> HIDE DEF left, shown, withheld
  <2> QED
    BY <1>1, <1>6, <1>9, <2>1 DEF CallInv, Scoped, RoleRead, SameWorkspace
<1>12. Progressed(c)' /\ TargetKnown(c)' /\ VerdictKnown(c)'
  BY <1>4, <1>6, <1>9 DEF Progressed, TargetKnown, VerdictKnown
<1>13. LinksKnown(c)'
  BY <1>1, <1>2, <1>4, <1>6, <1>8, <1>9 DEF CallInv, LinksKnown
<1>14. ListKnown(c)'
  <2> SUFFICES ASSUME call[c].op = "list", closing \in {"decide", "ok"}, ~moved[c]
               PROVE  Resources \ (shown \cup left) \subseteq lacked[c]
    BY <1>4, <1>6, <1>8, <1>9 DEF ListKnown
  <2>1. Resources \ (call[c].shown \cup call[c].pending) \subseteq lacked[c]
    BY <1>1 DEF CallInv, ListKnown
  <2>2. outcome = "granted" \/ t \in lacked[c]
    BY <1>2, <1>4
  <2> QED
    BY <2>1, <2>2
<1>15. Answered(c)'
  <2>1. call[c].shown \subseteq had[c] /\ (moved[c] \/ call[c].withheld \subseteq lacked[c])
    BY <1>1, <1>3 DEF CallInv, Answered
  <2>2. shown \subseteq had[c] /\ (moved[c] \/ withheld \subseteq lacked[c])
    BY <1>2, <2>1
  <2>3. q.pc # "not_found"
    BY <1>4, <1>9
  <2> QED
    BY <1>6, <1>8, <1>9, <2>2, <2>3 DEF Answered
<1> QED
  BY <1>1, <1>6, <1>10, <1>11, <1>12, <1>13, <1>14, <1>15, OneCallActs DEF CallInv

LEMMA ReadPoliciesIInv == ASSUME IInv, NEW c \in Calls, ReadPolicies(c) PROVE IInv'
<1> DEFINE q == [call[c] EXCEPT !.pc = "ok"]
<1>1. /\ Reads /\ call[c].pc = "policies" /\ call' = [call EXCEPT ![c] = q]
      /\ CallInv(c) /\ call[c] \in CallState
  BY DEF ReadPolicies, IInv, TypeOK
<1>2. q \in CallState /\ call'[c] = q /\ q.user = call[c].user /\ call[c].pc \in Open
  BY <1>1 DEF IInv, TypeOK, CallState, Open, Closed
<1>3. had'[c] = had[c] /\ lacked'[c] = lacked[c] /\ moved'[c] = moved[c]
  BY <1>1, <1>2, ReadKeepsHistory
<1>4. /\ q.pc = "ok" /\ q.op = call[c].op /\ q.op # "list" /\ q.caller = call[c].caller
      /\ q.seen = call[c].seen /\ q.target = call[c].target /\ q.pending = call[c].pending
      /\ q.shown = call[c].shown /\ q.withheld = call[c].withheld
  BY <1>1 DEF CallState, CallInv, Progressed
<1> HIDE DEF q
<1>5. Scoped(c)' /\ Answered(c)'
  BY <1>1, <1>2, <1>3, <1>4 DEF CallInv, Scoped, RoleRead, SameWorkspace, Answered
<1>6. (Observed(c) /\ RoleKnown(c) /\ TargetKnown(c) /\ Progressed(c) /\ VerdictKnown(c)
        /\ ListKnown(c) /\ LinksKnown(c))'
  BY <1>2, <1>4 DEF Observed, RoleKnown, RoleRead, TargetKnown, Progressed, VerdictKnown,
                    ListKnown, LinksKnown, Open
<1> QED
  BY <1>1, <1>2, <1>5, <1>6, OneCallActs DEF CallInv

LEMMA AbandonIInv == ASSUME IInv, NEW c \in Calls, Abandon(c) PROVE IInv'
<1> DEFINE q == [call[c] EXCEPT !.pc = "idle", !.shown = {}, !.withheld = {}]
<1>1. /\ Reads /\ call[c].pc \in Open /\ call' = [call EXCEPT ![c] = q]
      /\ CallInv(c) /\ call[c] \in CallState
  BY DEF Abandon, IInv, TypeOK
<1>2. q \in CallState /\ call'[c] = q
  BY <1>1 DEF IInv, TypeOK, CallState, Open, Closed
<1>3. /\ q.pc = "idle" /\ q.op = call[c].op /\ q.caller = call[c].caller
      /\ q.user = call[c].user /\ q.pending = call[c].pending
      /\ q.shown = {} /\ q.withheld = {}
  BY <1>1 DEF CallState
<1> HIDE DEF q
<1>4. Scoped(c)'
  BY <1>1, <1>2, <1>3 DEF CallInv, Scoped, RoleRead, SameWorkspace
<1>5. (Observed(c) /\ RoleKnown(c) /\ TargetKnown(c) /\ Progressed(c) /\ VerdictKnown(c)
        /\ ListKnown(c) /\ LinksKnown(c) /\ Answered(c))'
  BY <1>2, <1>3 DEF Observed, RoleKnown, RoleRead, TargetKnown, Progressed, VerdictKnown,
                    ListKnown, LinksKnown, Answered, Open
<1> QED
  BY <1>1, <1>2, <1>4, <1>5, OneCallActs DEF CallInv

LEMMA ArriveIInv == ASSUME IInv, NEW c \in Calls, Arrive(c) PROVE IInv'
<1>1. born \subseteq Resources
  BY DEF IInv, TypeOK, StoreTypeOK
<1>2. ASSUME NEW u \in Users, NEW w \in Workspaces, BeginList(c, u, w) PROVE IInv'
  BY <1>2, BeginIInv DEF BeginList
<1>3. ASSUME NEW u \in Users, NEW w \in Workspaces, NEW x \in born, BeginDetails(c, u, w, x)
      PROVE  IInv'
  BY <1>1, <1>3, BeginIInv DEF BeginDetails
<1>4. ASSUME NEW u \in Users, NEW w \in Workspaces, NEW subject \in Users, NEW x \in born,
             BeginCheck(c, u, w, subject, x)
      PROVE  IInv'
  <2>1. \/ Begin(c, "check", u, subject, x, "user")
        \/ Begin(c, "check", u, subject, x, "forbidden")
    BY <1>4 DEF BeginCheck
  <2> QED
    BY <1>1, <2>1, BeginIInv
<1> QED
  BY <1>2, <1>3, <1>4 DEF Arrive

(* A write commits, or nothing happens: the calls stand still. *)
LEMMA CommitIInv == ASSUME IInv, Commit PROVE IInv'
<1>1. StoreMoves
  BY WriteMoves DEF Commit, IInv, TypeOK
<1>2. StoreTypeOK' /\ LinksIntact'
  BY <1>1 DEF StoreMoves
<1>3. TypeOK'
  BY <1>2, HistoryType DEF Commit, IInv, TypeOK
<1>4. ASSUME NEW c \in Calls PROVE CallInv(c)'
  BY <1>1, OtherCalls DEF Commit
<1> QED
  BY <1>2, <1>3, <1>4 DEF IInv

LEMMA StutterIInv == ASSUME IInv, UNCHANGED vars PROVE IInv'
<1>1. /\ role' = role /\ resources' = resources /\ links' = links /\ policies' = policies
      /\ born' = born /\ written' = written /\ call' = call
      /\ had' = had /\ lacked' = lacked /\ missed' = missed /\ moved' = moved
  BY DEF vars, store, history
<1>2. TypeOK' /\ LinksIntact'
  BY <1>1 DEF IInv, TypeOK, StoreTypeOK, LinksIntact
<1>3. ASSUME NEW c \in Calls PROVE CallInv(c)'
  <2>1. CallInv(c)
    BY DEF IInv
  <2>2. (Observed(c) /\ RoleKnown(c) /\ Scoped(c) /\ TargetKnown(c) /\ Progressed(c))'
    BY <1>1, <2>1 DEF CallInv, Observed, EntitledTo, PoliciesOf, RoleKnown, RoleRead, Scoped,
                      SameWorkspace, TargetKnown, Progressed, Missing
  <2>3. (VerdictKnown(c) /\ ListKnown(c) /\ LinksKnown(c) /\ Answered(c))'
    BY <1>1, <2>1 DEF CallInv, VerdictKnown, Deserves, ListKnown, LinksKnown, Answered
  <2> QED
    BY <2>2, <2>3 DEF CallInv
<1> QED
  BY <1>2, <1>3 DEF IInv

LEMMA NextIInv == ASSUME IInv, [Next]_vars PROVE IInv'
<1>1. ASSUME NEW c \in Calls, Answer(c) PROVE IInv'
  BY <1>1, ReadUserIInv, ReadResourceIInv, ReadResourcesIInv, ReadLinksIInv,
     LoadAndDecideIInv, ReadPoliciesIInv DEF Answer
<1> QED
  BY <1>1, ArriveIInv, AbandonIInv, CommitIInv, StutterIInv DEF Next

LEMMA InvariantHolds == Spec => []IInv
<1> QED
  BY InitIInv, NextIInv, PTL DEF Spec

(* A step that changes what a call does is a step of that call. *)
LEMMA OneCallMoves ==
  ASSUME IInv, [Next]_vars, NEW c \in Calls
  PROVE  call'[c] = call[c] \/ Arrive(c) \/ Answer(c) \/ Abandon(c)
<1>1. CASE Commit \/ UNCHANGED vars
  BY <1>1 DEF Commit, vars
<1>2. ASSUME NEW d \in Calls, d # c, Arrive(d) \/ Answer(d) \/ Abandon(d)
      PROVE  call'[c] = call[c]
  <2>1. CASE Arrive(d)
    BY <1>2, <2>1 DEF Arrive, BeginList, BeginDetails, BeginCheck, Begin, IInv, TypeOK
  <2>2. CASE Answer(d)
    BY <1>2, <2>2 DEF Answer, ReadUser, ReadResource, ReadResources, ReadLinks, LoadAndDecide,
                      ReadPolicies, IInv, TypeOK
  <2>3. CASE Abandon(d)
    BY <1>2, <2>3 DEF Abandon, IInv, TypeOK
  <2> QED
    BY <1>2, <2>1, <2>2, <2>3
<1> QED
  BY <1>1, <1>2 DEF Next

(* How the single SELECTs of a call leave it *)
LEMMA UserRead ==
  ASSUME IInv, NEW c \in Calls, ReadUser(c)
  PROVE  call[c].pc = "user" /\ call'[c].pc \in {"resource", "not_found"}
<1>1. call[c] \in CallState /\ call[c].pc = "user"
      /\ call'[c] = IF WorkspaceOf[call[c].user] = WorkspaceOf[call[c].caller]
                      THEN [call[c] EXCEPT !.pc = "resource", !.seen = role[call[c].user]]
                      ELSE [call[c] EXCEPT !.pc = "not_found"]
  BY DEF ReadUser, IInv, TypeOK
<1>2. CASE WorkspaceOf[call[c].user] = WorkspaceOf[call[c].caller]
  BY <1>1, <1>2 DEF CallState
<1>3. CASE WorkspaceOf[call[c].user] # WorkspaceOf[call[c].caller]
  BY <1>1, <1>3 DEF CallState
<1> QED
  BY <1>1, <1>2, <1>3

LEMMA ResourceRead ==
  ASSUME IInv, NEW c \in Calls, ReadResource(c) \/ ReadResources(c)
  PROVE  /\ call[c].pc = "resource"
         /\ call'[c].pc \in {"not_found", "ok", "policies", "decide"}
         /\ call'[c].pc = "decide" => call'[c].pending # {}
<1>0. call \in [Calls -> CallState] /\ call[c] \in CallState
  BY DEF IInv, TypeOK
<1>1. CASE ReadResource(c)
  <2> DEFINE t == call[c].target
             missing == t \notin resources \/ ~SameWorkspace(t, call[c].caller)
             pc == IF call[c].op = "check" THEN "ok" ELSE "policies"
  <2>1. call[c].pc = "resource" /\ call'[c] =
          IF missing THEN [call[c] EXCEPT !.pc = "not_found"]
          ELSE IF call[c].seen = "admin" THEN [call[c] EXCEPT !.shown = {t}, !.pc = pc]
          ELSE [call[c] EXCEPT !.pending = {t}, !.pc = "decide"]
    BY <1>0, <1>1 DEF ReadResource
  <2>2. pc \in {"ok", "policies"}
    OBVIOUS
  <2> HIDE DEF missing, pc
  <2>3. CASE missing
    BY <1>0, <2>1, <2>3 DEF CallState
  <2>4. CASE ~missing /\ call[c].seen = "admin"
    BY <1>0, <2>1, <2>2, <2>4 DEF CallState
  <2>5. CASE ~missing /\ call[c].seen # "admin"
    BY <1>0, <2>1, <2>5 DEF CallState
  <2> QED
    BY <2>3, <2>4, <2>5
<1>2. CASE ReadResources(c)
  <2> DEFINE found == {x \in resources : SameWorkspace(x, call[c].user)}
  <2>1. call[c].pc = "resource" /\ call'[c] =
          IF call[c].seen = "admin" THEN [call[c] EXCEPT !.shown = found, !.pc = "ok"]
          ELSE IF found = {} THEN [call[c] EXCEPT !.pc = "ok"]
          ELSE [call[c] EXCEPT !.pending = found, !.pc = "decide"]
    BY <1>0, <1>2 DEF ReadResources
  <2> HIDE DEF found
  <2>2. CASE call[c].seen = "admin" \/ found = {}
    BY <1>0, <2>1, <2>2 DEF CallState
  <2>3. CASE call[c].seen # "admin" /\ found # {}
    BY <1>0, <2>1, <2>3 DEF CallState
  <2> QED
    BY <2>2, <2>3
<1> QED
  BY <1>1, <1>2

-----------------------------------------------------------------------------
(* The tables, calls and history keep their types. *)
THEOREM TypeCorrect == Spec => []TypeOK
<1>1. IInv => TypeOK
  BY DEF IInv
<1> QED
  BY <1>1, InvariantHolds, PTL

(* check_access, get_resource_details and list_resources: what is granted  *)
(* was due at a moment of the call, but for what list_resources shows an   *)
(* admin whose role changed under way.                                     *)
THEOREM GrantsAreJustified == Spec => []GrantJustified
<1>1. IInv => GrantJustified
  BY DEF IInv, CallInv, Answered, GrantJustified
<1> QED
  BY <1>1, InvariantHolds, PTL

(* ListedOnlyEntitled, which the run stale_list sees broken by a change of *)
(* role, holds while no role changes: list_resources reads role and rows   *)
(* at different moments, and nothing but the role makes them disagree.     *)
THEOREM StableRolesListRightly ==
  Spec /\ [][UNCHANGED role]_vars => []ListedOnlyEntitled
<1> DEFINE Still == \A c \in Calls : ~moved[c]
<1>1. Init => Still
  BY DEF Init
<1>2. Still /\ [Next]_vars /\ [UNCHANGED role]_vars => Still'
  <2> SUFFICES ASSUME Still, [Next]_vars, UNCHANGED role, NEW c \in Calls
               PROVE  ~moved'[c]
    BY DEF vars, store
  <2>1. CASE Observe
    BY <2>1 DEF Observe
  <2>2. CASE UNCHANGED vars
    BY <2>2 DEF vars, history
  <2>3. ASSUME NEW d \in Calls, Arrive(d) PROVE Observe
    BY <2>3 DEF Arrive, BeginList, BeginDetails, BeginCheck, Begin, Reads
  <2>4. ASSUME NEW d \in Calls, Answer(d) PROVE Observe
    BY <2>4 DEF Answer, ReadUser, ReadResource, ReadResources, ReadLinks, LoadAndDecide,
                ReadPolicies, Reads
  <2>5. ASSUME NEW d \in Calls, Abandon(d) PROVE Observe
    BY <2>5 DEF Abandon, Reads
  <2> QED
    BY <2>1, <2>2, <2>3, <2>4, <2>5 DEF Next, Commit
<1>3. IInv /\ Still => ListedOnlyEntitled
  BY DEF IInv, CallInv, Answered, ListedOnlyEntitled
<1> HIDE DEF Still
<1> QED
  BY <1>1, <1>2, <1>3, InvariantHolds, PTL DEF Spec

(* What is denied was not due at a moment of the call, or the subject's    *)
(* role changed under way.                                                 *)
THEOREM DenialsAreJustified == Spec => []DenialJustified
<1>1. IInv => DenialJustified
  BY DEF IInv, CallInv, Answered, DenialJustified
<1> QED
  BY <1>1, InvariantHolds, PTL

(* What list_resources leaves out was not due at a moment of the call, or  *)
(* the reader's role changed under way.                                    *)
THEOREM ListsAreComplete == Spec => []ListComplete
<1>1. IInv => ListComplete
  BY DEF IInv, CallInv, ListKnown, ListComplete
<1> QED
  BY <1>1, InvariantHolds, PTL

(* get_resource_details and check_access answer 404 for what was deleted   *)
(* or of another workspace at a moment of the call, never for a resource   *)
(* that was there throughout and is denied.                                *)
THEOREM NotFoundsAreJustified == Spec => []NotFoundJustified
<1>1. IInv => NotFoundJustified
  BY DEF IInv, CallInv, Answered, NotFoundJustified
<1> QED
  BY <1>1, InvariantHolds, PTL

(* No decision involves two workspaces. *)
THEOREM DecisionsStayInside == Spec => []NothingForeign
<1>1. IInv => NothingForeign
  BY DEF IInv, CallInv, Scoped, NothingForeign
<1> QED
  BY <1>1, InvariantHolds, PTL

(* A call fails only over a link that is gone. *)
THEOREM FailuresFollowUnlinks == Spec => []FailsOnlyAfterUnlink
<1>1. IInv => FailsOnlyAfterUnlink
  BY DEF IInv, CallInv, LinksKnown, FailsOnlyAfterUnlink
<1> QED
  BY <1>1, InvariantHolds, PTL

(* The composite foreign keys hold whatever creates and deletes commit. *)
THEOREM LinksStayIntact == Spec => []LinksIntact
<1>1. IInv => LinksIntact
  BY DEF IInv
<1> QED
  BY <1>1, InvariantHolds, PTL

(* NeverServerError, which the run server_error sees broken, holds while   *)
(* no link is deleted: nothing else makes selectinload come back without a *)
(* policy.                                                                 *)
THEOREM StableLinksNeverFail ==
  Spec /\ [][links \subseteq links']_vars => []NeverServerError
<1> DEFINE Intact(c) ==
             /\ call[c].pc # "failed"
             /\ call[c].pc = "load" =>
                  \A i \in DOMAIN call[c].list : <<call[c].target, call[c].list[i]>> \in links
           AllIntact == \A c \in Calls : Intact(c)
<1>1. Init => AllIntact
  BY DEF Init
<1>2. IInv /\ AllIntact /\ [Next]_vars /\ [links \subseteq links']_vars => AllIntact'
  <2> SUFFICES ASSUME IInv, AllIntact, [Next]_vars, links \subseteq links', NEW c \in Calls
               PROVE  Intact(c)'
    BY DEF vars, store
  <2>0. call \in [Calls -> CallState]
    BY DEF IInv, TypeOK
  <2>1. CASE call'[c] = call[c]
    BY <2>1
  <2>2. CASE Arrive(c) \/ Abandon(c)
    <3>1. call'[c].pc \in {"user", "forbidden", "idle"}
      BY <2>0, <2>2 DEF Arrive, BeginList, BeginDetails, BeginCheck, Begin, Abandon, CallState
    <3> QED
      BY <3>1
  <2>3. CASE ReadUser(c) \/ ReadResource(c) \/ ReadResources(c) \/ ReadPolicies(c)
    <3>1. call'[c].pc \in {"resource", "not_found", "ok", "policies", "decide"}
      BY <2>0, <2>3, UserRead, ResourceRead DEF ReadPolicies, CallState
    <3> QED
      BY <3>1
  <2>4. CASE ReadLinks(c)
    <3>1. PICK x \in call[c].pending : \E t \in Listings(PoliciesOf(x)) :
            call' = [call EXCEPT ![c].pc = "load", ![c].target = x, ![c].list = t]
      BY <2>4 DEF ReadLinks
    <3>2. PICK t \in Listings(PoliciesOf(x)) :
            call' = [call EXCEPT ![c].pc = "load", ![c].target = x, ![c].list = t]
      BY <3>1
    <3>3. call'[c].pc = "load" /\ call'[c].target = x /\ call'[c].list = t
      BY <2>0, <3>2 DEF CallState
    <3>4. \A i \in DOMAIN t : t[i] \in PoliciesOf(x)
      BY DEF Listings
    <3> QED
      BY <3>3, <3>4 DEF PoliciesOf
  <2>5. CASE LoadAndDecide(c)
    <3> DEFINE outcome == policy_eval(Loaded(call[c].target, call[c].list),
                                      UserRow(call[c].user, call[c].seen))
    <3>1. outcome # "error"
      <4> HIDE DEF outcome
      <4>1. outcome = policy_eval(Loaded(call[c].target, call[c].list),
                                  UserRow(call[c].user, call[c].seen))
        BY DEF outcome
      <4>2. call[c].pc = "load"
        BY <2>5 DEF LoadAndDecide
      <4> QED
        BY <4>1, <4>2, Decision
    <3>2. call'[c].pc = Closing(call[c].op, outcome, call[c].pending \ {call[c].target})
      BY <2>0, <2>5 DEF LoadAndDecide, CallState
    <3>3. call'[c].pc \in {"ok", "decide", "policies", "forbidden"}
      BY <3>1, <3>2 DEF Closing
    <3> QED
      BY <3>3
  <2> QED
    BY <2>1, <2>2, <2>3, <2>4, <2>5, OneCallMoves DEF Answer
<1>3. AllIntact => NeverServerError
  BY DEF NeverServerError
<1> HIDE DEF AllIntact
<1> QED
  BY <1>1, <1>2, <1>3, InvariantHolds, PTL DEF Spec

-----------------------------------------------------------------------------
(* EveryCallAnswered rests on fairness, but its substance does not: a call *)
(* under way always has a next step, and a number falls with each of its   *)
(* steps, whatever other calls and writes do.                              *)

(* The steps a call has left at most: two per resource it has found. *)
StepsLeft(q) ==
  LET n == Cardinality(q.pending) IN
  CASE q.pc = "user" -> 2 * Cardinality(Resources) + 3
    [] q.pc = "resource" -> 2 * Cardinality(Resources) + 2
    [] q.pc = "decide" -> 2 * n + 1
    [] q.pc = "load" -> 2 * n
    [] q.pc = "policies" -> 1
    [] OTHER -> 0

LEMMA PendingCounted ==
  ASSUME IsFiniteSet(Resources), TypeOK, NEW c \in Calls
  PROVE  /\ Cardinality(Resources) \in Nat
         /\ IsFiniteSet(call[c].pending) /\ Cardinality(call[c].pending) \in Nat
         /\ Cardinality(call[c].pending) <= Cardinality(Resources)
<1>1. call[c].pending \in SUBSET Resources
  BY DEF TypeOK, CallState
<1> QED
  BY <1>1, FS_Subset, FS_CardinalityType

(* list_resources: each decision takes a resource off the list it has read *)
(* once, so the endpoint ends however many are created meanwhile.          *)
LEMMA StepShrinks ==
  ASSUME IsFiniteSet(Resources), IInv, TypeOK', NEW c \in Calls, Answer(c) \/ Abandon(c)
  PROVE  StepsLeft(call'[c]) < StepsLeft(call[c])
<1> DEFINE n == Cardinality(call[c].pending)
           m == Cardinality(call'[c].pending)
           r == Cardinality(Resources)
<1>1. call \in [Calls -> CallState] /\ Progressed(c)
  BY DEF IInv, TypeOK, CallInv
<1>2. n \in Nat /\ r \in Nat /\ n <= r /\ IsFiniteSet(call[c].pending)
  BY PendingCounted DEF IInv
<1>3. m \in Nat /\ m <= r
  <2>1. call'[c].pending \in SUBSET Resources
    BY DEF TypeOK, CallState
  <2> QED
    BY <2>1, FS_Subset, FS_CardinalityType
<1>4. call[c].pc = "load" => n > 0
  BY <1>1, <1>2, FS_EmptySet DEF Progressed
<1> HIDE DEF n, m, r
<1>5. CASE ReadUser(c)
  <2>1. call[c].pc = "user" /\ call'[c].pc \in {"resource", "not_found"}
    BY <1>5, UserRead
  <2> QED
    BY <1>2, <2>1 DEF StepsLeft, r
<1>6. CASE ReadResource(c) \/ ReadResources(c)
  <2>1. call[c].pc = "resource" /\ call'[c].pc \in {"not_found", "ok", "policies", "decide"}
    BY <1>6, ResourceRead
  <2> QED
    BY <1>2, <1>3, <2>1 DEF StepsLeft, r, m
<1>7. CASE ReadLinks(c)
  <2>1. call[c].pc = "decide" /\ call'[c].pc = "load" /\ call'[c].pending = call[c].pending
    BY <1>1, <1>7 DEF ReadLinks, CallState
  <2> QED
    BY <1>2, <2>1 DEF StepsLeft, n
<1>8. CASE LoadAndDecide(c)
  <2>1. /\ call[c].pc = "load" /\ call'[c].pending = call[c].pending \ {call[c].target}
        /\ call'[c].pc \in {"failed", "policies", "forbidden", "ok", "decide"}
    BY <1>1, <1>8 DEF LoadAndDecide, Closing, CallState
  <2>2. m = n - 1
    BY <1>1, <1>2, <2>1, FS_RemoveElement DEF Progressed, m, n
  <2> QED
    BY <1>2, <1>3, <1>4, <2>1, <2>2 DEF StepsLeft, m, n
<1>9. CASE ReadPolicies(c)
  <2>1. call[c].pc = "policies" /\ call'[c].pc = "ok"
    BY <1>1, <1>9 DEF ReadPolicies, CallState
  <2> QED
    BY <2>1 DEF StepsLeft
<1>10. CASE Abandon(c)
  <2>1. call[c].pc \in Open /\ call'[c].pc = "idle"
    BY <1>1, <1>10 DEF Abandon, CallState
  <2> QED
    BY <1>2, <1>4, <2>1 DEF StepsLeft, n, r, Open
<1> QED
  BY <1>5, <1>6, <1>7, <1>8, <1>9, <1>10 DEF Answer

(* check_access, get_resource_details and list_resources take at most two  *)
(* SELECTs per resource and three more.                                    *)
THEOREM EveryStepBringsTheAnswerNearer ==
  ASSUME IsFiniteSet(Resources)
  PROVE  Spec => [][\A c \in Calls :
                      call[c].pc \in Open /\ call'[c] # call[c] =>
                        StepsLeft(call'[c]) < StepsLeft(call[c])]_vars
<1> DEFINE Nearer == \A c \in Calls : call[c].pc \in Open /\ call'[c] # call[c] =>
                                        StepsLeft(call'[c]) < StepsLeft(call[c])
<1>1. IInv /\ [Next]_vars => [Nearer]_vars
  <2> SUFFICES ASSUME IInv, Next, NEW c \in Calls, call[c].pc \in Open, call'[c] # call[c]
               PROVE  StepsLeft(call'[c]) < StepsLeft(call[c])
    OBVIOUS
  <2>1. TypeOK'
    BY NextIInv DEF IInv
  <2>2. ~Arrive(c)
    BY DEF Arrive, BeginList, BeginDetails, BeginCheck, Begin, Open, Closed
  <2> QED
    BY <2>1, <2>2, OneCallMoves, StepShrinks
<1> HIDE DEF Nearer
<1>2. Spec => [][Nearer]_vars
  BY <1>1, InvariantHolds, PTL DEF Spec
<1> QED
  BY <1>2 DEF Nearer

(* A call that is to decide has a resource left to decide, and the query   *)
(* for its policies an order to return them in; all other steps of a call  *)
(* ask for nothing but their turn.                                         *)
NeverStuck ==
  \A c \in Calls :
    call[c].pc = "decide" =>
      \E x \in call[c].pending : Listings(PoliciesOf(x)) # {}

(* list_resources and its like have a next step at every moment. *)
THEOREM CallsNeverStick == Spec => []NeverStuck
<1> DEFINE Waiting == \A c \in Calls : call[c].pc = "decide" => call[c].pending # {}
<1>1. Init => Waiting
  BY DEF Init
<1>2. IInv /\ Waiting /\ [Next]_vars => Waiting'
  <2> SUFFICES ASSUME IInv, Waiting, [Next]_vars, NEW c \in Calls, call'[c].pc = "decide"
               PROVE  call'[c].pending # {}
    OBVIOUS
  <2>0. call \in [Calls -> CallState]
    BY DEF IInv, TypeOK
  <2>1. CASE call'[c] = call[c]
    BY <2>1
  <2>2. CASE Arrive(c) \/ Abandon(c)
    BY <2>0, <2>2 DEF Arrive, BeginList, BeginDetails, BeginCheck, Begin, Abandon, CallState
  <2>3. CASE ReadUser(c) \/ ReadLinks(c) \/ ReadPolicies(c)
    <3>1. call'[c].pc \in {"resource", "not_found", "load", "ok"}
      BY <2>0, <2>3, UserRead DEF ReadLinks, ReadPolicies, CallState
    <3> QED
      BY <3>1
  <2>4. CASE ReadResource(c) \/ ReadResources(c)
    BY <2>4, ResourceRead
  <2>5. CASE LoadAndDecide(c)
    BY <2>0, <2>5 DEF LoadAndDecide, Closing, CallState
  <2> QED
    BY <2>1, <2>2, <2>3, <2>4, <2>5, OneCallMoves DEF Answer
<1>3. IInv /\ Waiting => NeverStuck
  <2> SUFFICES ASSUME IInv, Waiting, NEW c \in Calls, call[c].pc = "decide"
               PROVE  \E x \in call[c].pending : Listings(PoliciesOf(x)) # {}
    BY DEF NeverStuck
  <2>1. PICK x : x \in call[c].pending
    OBVIOUS
  <2>2. PoliciesOf(x) \in SUBSET Catalogue
    BY DEF PoliciesOf, IInv, TypeOK, StoreTypeOK
  <2>3. Table(PoliciesOf(x))
    BY <2>2, CatalogueAssumption, FS_Subset DEF Table
  <2> QED
    BY <2>1, <2>3, OneOrder
<1> HIDE DEF Waiting
<1> QED
  BY <1>1, <1>2, <1>3, InvariantHolds, PTL DEF Spec
=============================================================================
