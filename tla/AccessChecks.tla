---------------------------- MODULE AccessChecks ----------------------------
(***************************************************************************)
(* The three endpoints that decide about access: POST /access-check/, GET  *)
(* /workspaces/{w}/resources/{x} and GET /workspaces/{w}/resources.  Each  *)
(* decides from several SELECTs.  The isolation level is READ COMMITTED,   *)
(* so every SELECT sees the tables of its own moment, and writers commit   *)
(* in between.  SELECTs lock nothing: calls only meet through the tables.  *)
(*                                                                         *)
(* Not shown: SELECTs of the workspace row, which no endpoint removes once *)
(* its users exist.                                                        *)
(***************************************************************************)
EXTENDS Store

CONSTANTS Calls, NoResource

ASSUME NoResourceAssumption == NoResource \notin Resources

VARIABLE call    \* what each call is doing

(* History, read by properties only, from a call's first SELECT to its     *)
(* answer; "the subject" is the user whose access is decided.              *)
VARIABLES
  had,     \* the resources the subject was entitled to at some moment
  lacked,  \* the resources the subject was not entitled to at some moment
  missed,  \* whether the resource asked for was not in the subject's workspace
           \* at some moment (a list asks for none)
  moved    \* whether the subject's role changed

history == <<had, lacked, missed, moved>>
vars == <<store, call, history>>

Open == {"user", "resource", "decide", "load", "policies"}
Closed == {"idle", "ok", "forbidden", "not_found", "failed"}

CallState ==
  [pc : Open \cup Closed,
   op : {"check", "details", "list"},
   caller : Users,                      \* whose token it is
   user : Users,                        \* the subject
   target : Resources \cup {NoResource},
   seen : Roles,                        \* the subject's role, as read
   pending : SUBSET Resources,          \* found, not yet decided
   list : Seq(Catalogue),               \* the links being evaluated
   shown : SUBSET Resources,            \* decided: granted
   withheld : SUBSET Resources]         \* decided: denied

SameWorkspace(x, u) == WorkspaceOf[x] = WorkspaceOf[u]

UserRow(u, r) == [id |-> u, role |-> r]

EntitledTo(u) ==
  {x \in resources : /\ SameWorkspace(x, u)
                     /\ Entitles(PoliciesOf(x), UserRow(u, role[u]))}

Missing(x, u) == x \notin resources \/ ~SameWorkspace(x, u)

Init ==
  /\ StoreInit
  /\ \E u \in Users :
       call = [c \in Calls |->
                 [pc |-> "idle", op |-> "check", caller |-> u, user |-> u,
                  target |-> NoResource, seen |-> "user", pending |-> {},
                  list |-> <<>>, shown |-> {}, withheld |-> {}]]
  /\ had = [c \in Calls |-> {}]
  /\ lacked = [c \in Calls |-> {}]
  /\ missed = [c \in Calls |-> FALSE]
  /\ moved = [c \in Calls |-> FALSE]

(* Every step of a call only reads the tables, and updates the history. *)
Begins(c) == call[c].pc \in Closed /\ call'[c].pc \in Open
During(c) == call[c].pc \in Open

Observe ==
  /\ had' = [c \in Calls |->
       IF Begins(c) THEN EntitledTo(call'[c].user)
       ELSE IF During(c) THEN had[c] \cup EntitledTo(call[c].user)'
       ELSE had[c]]
  /\ lacked' = [c \in Calls |->
       IF Begins(c) THEN Resources \ EntitledTo(call'[c].user)
       ELSE IF During(c) THEN lacked[c] \cup (Resources \ EntitledTo(call[c].user)')
       ELSE lacked[c]]
  /\ missed' = [c \in Calls |->
       IF Begins(c) \/ During(c)
         THEN (During(c) /\ missed[c]) \/ Missing(call[c].target, call[c].user)'
         ELSE missed[c]]
  /\ moved' = [c \in Calls |->
       ~Begins(c) /\ (moved[c] \/ (During(c) /\ role'[call[c].user] # role[call[c].user]))]

Reads == UNCHANGED store /\ Observe

-----------------------------------------------------------------------------
Begin(c, op, caller, u, x, pc) ==
  /\ call[c].pc \in Closed
  /\ call' = [call EXCEPT ![c] =
                [pc |-> pc, op |-> op, caller |-> caller, user |-> u, target |-> x,
                 seen |-> "user", pending |-> {}, list |-> <<>>,
                 shown |-> {}, withheld |-> {}]]
  /\ Reads

(* get_current_user (SELECT of the caller's row), then authorize_access_check *)
BeginCheck(c, caller, w, u, x) ==
  IF WorkspaceOf[caller] = w /\ (role[caller] = "admin" \/ caller = u)
    THEN Begin(c, "check", caller, u, x, "user")
    ELSE Begin(c, "check", caller, u, x, "forbidden")

(* get_current_user, then get_current_user_for_workspace *)
BeginDetails(c, u, w, x) ==
  Begin(c, "details", u, u, x, IF WorkspaceOf[u] = w THEN "user" ELSE "forbidden")

BeginList(c, u, w) ==
  Begin(c, "list", u, u, NoResource, IF WorkspaceOf[u] = w THEN "user" ELSE "forbidden")

(* Mutant: the user is looked up by id alone. *)
ReadUserAnywhere(c) ==
  /\ call[c].pc = "user"
  /\ call' = [call EXCEPT ![c].pc = "resource", ![c].seen = role[call[c].user]]
  /\ Reads

(* SELECT the subject's row.  The workspace in the call is the caller's.   *)
ReadUser(c) ==
  LET q == call[c] IN
  /\ q.pc = "user"
  /\ call' = [call EXCEPT ![c] =
       IF WorkspaceOf[q.user] = WorkspaceOf[q.caller]
         THEN [q EXCEPT !.pc = "resource", !.seen = role[q.user]]
         ELSE [q EXCEPT !.pc = "not_found"]]
  /\ Reads

(* Mutant: admins are subject to policies as well. *)
ReadResourceWithoutBypass(c) ==
  LET q == call[c] IN
  /\ q.pc = "resource" /\ q.op # "list"
  /\ call' = [call EXCEPT ![c] =
       IF q.target \notin resources \/ ~SameWorkspace(q.target, q.caller)
         THEN [q EXCEPT !.pc = "not_found"]
         ELSE [q EXCEPT !.pending = {q.target}, !.pc = "decide"]]
  /\ Reads

(* SELECT the resource of the path or payload, in the caller's workspace.  *)
(* An admin is granted without policies.                                   *)
ReadResource(c) ==
  LET q == call[c] IN
  /\ q.pc = "resource" /\ q.op # "list"
  /\ call' = [call EXCEPT ![c] =
       IF q.target \notin resources \/ ~SameWorkspace(q.target, q.caller)
         THEN [q EXCEPT !.pc = "not_found"]
         ELSE IF q.seen = "admin"
           THEN [q EXCEPT !.shown = {q.target},
                          !.pc = IF q.op = "check" THEN "ok" ELSE "policies"]
           ELSE [q EXCEPT !.pending = {q.target}, !.pc = "decide"]]
  /\ Reads

(* Mutant: nobody's list is filtered. *)
ReadResourcesUnfiltered(c) ==
  /\ call[c].pc = "resource" /\ call[c].op = "list"
  /\ call' = [call EXCEPT ![c].pc = "ok",
                          ![c].shown = {x \in resources : SameWorkspace(x, call[c].user)}]
  /\ Reads

(* SELECT the resources of the workspace: an admin is shown all of them.   *)
ReadResources(c) ==
  LET q == call[c]
      found == {x \in resources : SameWorkspace(x, q.user)} IN
  /\ q.pc = "resource" /\ q.op = "list"
  /\ call' = [call EXCEPT ![c] =
       IF q.seen = "admin" THEN [q EXCEPT !.shown = found, !.pc = "ok"]
       ELSE IF found = {} THEN [q EXCEPT !.pc = "ok"]
       ELSE [q EXCEPT !.pending = found, !.pc = "decide"]]
  /\ Reads

(* list_effective_for_resource, first SELECT: the links in policy order.   *)
(* The loop of list_resources takes the resources by creation time and     *)
(* name, which are not modelled: any order.                                *)
ReadLinks(c) ==
  /\ call[c].pc = "decide"
  /\ \E x \in call[c].pending : \E s \in Listings(PoliciesOf(x)) :
       call' = [call EXCEPT ![c].pc = "load", ![c].target = x, ![c].list = s]
  /\ Reads

(* Its second SELECT, of selectinload: the policy behind each link, None   *)
(* when the link is gone by now.                                           *)
Loaded(x, s) ==
  [i \in DOMAIN s |-> IF <<x, s[i]>> \in links THEN s[i] ELSE NoPolicy]

(* Mutants: a 404 hides a denial; the loop ends at the first denial; the   *)
(* read is repeated until the row is there.                                *)
HidesDenial(op, outcome, left) ==
  CASE outcome = "error" -> "failed"
    [] op = "details" -> IF outcome = "granted" THEN "policies" ELSE "not_found"
    [] OTHER -> IF left = {} THEN "ok" ELSE "decide"

StopsAtDenial(op, outcome, left) ==
  CASE outcome = "error" -> "failed"
    [] op = "details" -> IF outcome = "granted" THEN "policies" ELSE "forbidden"
    [] OTHER -> IF left = {} \/ outcome = "denied" THEN "ok" ELSE "decide"

RetriesRead(op, outcome, left) ==
  CASE outcome = "error" -> "load"
    [] op = "details" -> IF outcome = "granted" THEN "policies" ELSE "forbidden"
    [] OTHER -> IF left = {} THEN "ok" ELSE "decide"

(* How a call goes on after a decision, with the resources left to decide. *)
(* Reading an attribute of None raises AttributeError, which is answered   *)
(* 500.                                                                    *)
Closing(op, outcome, left) ==
  CASE outcome = "error" -> "failed"
    [] op = "details" -> IF outcome = "granted" THEN "policies" ELSE "forbidden"
    [] OTHER -> IF left = {} THEN "ok" ELSE "decide"

(* ... and policy_eval on the result. *)
LoadAndDecide(c) ==
  LET q == call[c]
      outcome == policy_eval(Loaded(q.target, q.list), UserRow(q.user, q.seen))
      left == q.pending \ {q.target} IN
  /\ q.pc = "load"
  /\ call' = [call EXCEPT ![c] =
       [q EXCEPT !.pc = Closing(q.op, outcome, left), !.pending = left,
                 !.list = IF outcome = "error" THEN q.list ELSE <<>>,
                 !.shown = IF outcome = "granted" THEN q.shown \cup {q.target} ELSE q.shown,
                 !.withheld = IF outcome = "denied" THEN q.withheld \cup {q.target}
                                                    ELSE q.withheld]]
  /\ Reads

(* list_for_resource: the policies a granted details call also returns     *)
ReadPolicies(c) ==
  /\ call[c].pc = "policies"
  /\ call' = [call EXCEPT ![c].pc = "ok"]
  /\ Reads

(* The client, the worker or the connection goes away. *)
Abandon(c) ==
  /\ call[c].pc \in Open
  /\ call' = [call EXCEPT ![c].pc = "idle", ![c].shown = {}, ![c].withheld = {}]
  /\ Reads

-----------------------------------------------------------------------------
(* A resource id comes from an earlier answer, so it has been inserted.    *)
Arrive(c) ==
  \E u \in Users, w \in Workspaces :
    \/ BeginList(c, u, w)
    \/ \E x \in born :
         \/ BeginDetails(c, u, w, x)
         \/ \E subject \in Users : BeginCheck(c, u, w, subject, x)

Answer(c) ==
  \/ ReadUser(c) \/ ReadResource(c) \/ ReadResources(c)
  \/ ReadLinks(c) \/ LoadAndDecide(c) \/ ReadPolicies(c)

(* A write of another request commits. *)
Commit == Write /\ UNCHANGED call /\ Observe

Next == Commit \/ \E c \in Calls : Arrive(c) \/ Answer(c) \/ Abandon(c)

Spec == Init /\ [][Next]_vars
(* Every handler that waits for the event loop and the database gets its   *)
(* turn: no SELECT here waits for a lock.                                  *)
FairSpec == Spec /\ \A c \in Calls : WF_vars(Answer(c))

-----------------------------------------------------------------------------
TypeOK ==
  /\ StoreTypeOK
  /\ call \in [Calls -> CallState]
  /\ had \in [Calls -> SUBSET Resources]
  /\ lacked \in [Calls -> SUBSET Resources]
  /\ missed \in [Calls -> BOOLEAN]
  /\ moved \in [Calls -> BOOLEAN]

(* check_access, get_resource_details and list_resources read role, links  *)
(* and policies at different moments.  Whatever commits in between, what   *)
(* they grant the subject was entitled to at one moment of the call; only  *)
(* the list of an admin whose role changed during the call is excepted.    *)
GrantJustified ==
  \A c \in Calls :
    ~(call[c].op = "list" /\ call[c].seen = "admin" /\ moved[c]) =>
      call[c].shown \subseteq had[c]

(* And what they deny the subject was not entitled to at one moment of the *)
(* call, unless the subject's role changed under way: a check that reads   *)
(* the old role and the new policies may deny what both states grant.      *)
DenialJustified ==
  \A c \in Calls : moved[c] \/ call[c].withheld \subseteq lacked[c]

(* list_resources leaves out a resource only if the user was not entitled  *)
(* to it at some moment of the call, or the user's role changed.           *)
ListComplete ==
  \A c \in Calls :
    call[c].op = "list" /\ call[c].pc = "ok" =>
      moved[c] \/ Resources \ call[c].shown \subseteq lacked[c]

(* get_resource_details and check_access answer 404 only for a resource    *)
(* that was deleted or of another workspace at some moment of the call,    *)
(* check_access also for a user of another workspace: never for one that   *)
(* was there all along and is merely denied.                               *)
NotFoundJustified ==
  \A c \in Calls :
    call[c].pc = "not_found" =>
      \/ WorkspaceOf[call[c].user] # WorkspaceOf[call[c].caller]
      \/ missed[c]

(* Decisions stay inside one workspace: that of the caller, of the subject *)
(* and of every resource decided about (authorize_access_check, the        *)
(* workspace filters of the repositories).                                 *)
NothingForeign ==
  \A c \in Calls :
    \A x \in call[c].shown \cup call[c].withheld :
      SameWorkspace(x, call[c].caller) /\ SameWorkspace(x, call[c].user)

(* A 500 comes from a link that was deleted between the two SELECTs of     *)
(* list_effective_for_resource, and from nothing else.                     *)
FailsOnlyAfterUnlink ==
  \A c \in Calls :
    call[c].pc = "failed" =>
      \E i \in DOMAIN call[c].list : <<call[c].target, call[c].list[i]>> \notin links

(* Every call that is not abandoned is answered; list_resources ends       *)
(* although resources come and go while it decides one after another.      *)
EveryCallAnswered == \A c \in Calls : []<>(call[c].pc \in Closed)

-----------------------------------------------------------------------------
(* tests/api/test_schemathesis.py:27-35 asserts that a documented endpoint *)
(* answers as documented, and none documents a 500.                        *)
NeverServerError == \A c \in Calls : call[c].pc # "failed"

(* DESIGN.md:187 (default deny) and tests/api/v1/test_resource_api.py:160  *)
(* ("lists only accessible resources"): who is not an admin is listed what *)
(* policies allow.  The list an admin gets is read after the role and may  *)
(* hold a resource created when its reader was not an admin any more.      *)
ListedOnlyEntitled ==
  \A c \in Calls : call[c].op = "list" => call[c].shown \subseteq had[c]

(* DESIGN.md:29: "A policy is associated with one or more resources        *)
(* through effective_policies".  Deleting a resource leaves its policies.  *)
EveryPolicyLinked == \A p \in policies : \E x \in resources : <<x, p>> \in links
=============================================================================
