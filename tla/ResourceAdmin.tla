--------------------------- MODULE ResourceAdmin ---------------------------
(***************************************************************************)
(* The endpoints that change resources and policies (admins only), one     *)
(* action per SQL statement, each call in a transaction of its own.  A row *)
(* that is deleted but not committed is locked: a second deleter of it     *)
(* waits.  A statement and the COMMIT right after it are one action, as    *)
(* nothing can come between that the commit would show differently; what   *)
(* a transaction wrote before is visible to itself only.                   *)
(*                                                                         *)
(* Store is what these calls promise: Spec implements StoreSpec.           *)
(***************************************************************************)
EXTENDS Store

CONSTANTS Calls, NoResource,
          MaxPriority   \* largest value of the int4 column policies.priority

Fits(p) == p.priority <= MaxPriority

ASSUME NoResourceAssumption == NoResource \notin Resources
ASSUME PriorityAssumption == \A l \in SeedLinks : Fits(l[2])

VARIABLE call

(* History, read by properties only. *)
VARIABLES
  cascaded,   \* the policies that lost a link to the deletion of a resource
  overlapped  \* the policies kept by a call that finished while another
              \* call had deleted a link of the same policy, uncommitted

history == <<cascaded, overlapped>>
vars == <<store, call, history>>

Ops == {"create_resource", "update_resource", "delete_resource",
        "create_policy", "delete_policy"}
Open == {"authorized", "write", "link", "find", "unlink", "check", "commit", "reread"}
Closed == {"idle", "ok", "forbidden", "not_found", "conflict", "failed"}

(* What the schemas let through.  "null": an update that sets name, type   *)
(* or status to null, which the schema allows and NOT NULL does not;       *)
(* "unstorable": a text with a NUL character, which no column of           *)
(* PostgreSQL takes.                                                       *)
Bodies == {"valid", "null", "unstorable"}

CallState ==
  [pc : Open \cup Closed,
   op : Ops,
   caller : Users,
   target : Resources \cup {NoResource},
   policy : Catalogue \cup {NoPolicy},
   body : Bodies,
   kept : BOOLEAN]                       \* has_remaining_links, as read

(* No column refuses a value of the call for what it is.                   *)
Storable(q) == q.body # "unstorable" /\ (q.op = "create_policy" => Fits(q.policy))

SameWorkspace(x, u) == WorkspaceOf[x] = WorkspaceOf[u]

Init ==
  /\ StoreInit
  /\ \E u \in Users :
       call = [c \in Calls |-> [pc |-> "idle", op |-> "update_resource", caller |-> u,
                                target |-> NoResource, policy |-> NoPolicy, body |-> "valid",
                                kept |-> FALSE]]
  /\ cascaded = {} /\ overlapped = {}

Goto(c, pc) == call' = [call EXCEPT ![c].pc = pc]
Keeps(c, pc) == Goto(c, pc) /\ UNCHANGED <<store, history>>

-----------------------------------------------------------------------------
(* get_current_admin_for_workspace: the role is read once, here.           *)
Begin(c, op, u, w, x, p, body) ==
  /\ call[c].pc \in Closed
  /\ call' = [call EXCEPT ![c] =
       [pc |-> IF WorkspaceOf[u] = w /\ role[u] = "admin" THEN "authorized" ELSE "forbidden",
        op |-> op, caller |-> u, target |-> x, policy |-> p, body |-> body,
        kept |-> FALSE]]
  /\ UNCHANGED <<store, history>>

(* Mutant: the resource is looked up by id alone. *)
FindResourceAnywhere(c) ==
  /\ call[c].pc = "authorized"
  /\ Keeps(c, IF call[c].op # "create_resource" /\ call[c].target \notin resources
                THEN "not_found"
              ELSE IF call[c].op = "delete_policy" THEN "find" ELSE "write")

(* SELECT of the resource in the path, in the workspace of the path, which *)
(* is the caller's by now.  create_resource has none.                      *)
FindResource(c) ==
  LET q == call[c] IN
  /\ q.pc = "authorized"
  /\ Keeps(c, IF q.op = "create_resource" THEN "write"
              ELSE IF q.target \notin resources \/ ~SameWorkspace(q.target, q.caller)
                THEN "not_found"
              ELSE IF q.op = "delete_policy" THEN "find" ELSE "write")

(* ResourceRepository.create: INSERT and COMMIT.  A value that the driver  *)
(* or the database refuses is no IntegrityError: 500.                      *)
InsertResource(c) ==
  /\ call[c].pc = "write" /\ call[c].op = "create_resource"
  /\ IF Storable(call[c])
       THEN CreateResource(call[c].target) /\ Goto(c, "reread")
       ELSE UNCHANGED store /\ Goto(c, "failed")
  /\ UNCHANGED history

(* ResourceRepository.update: UPDATE and COMMIT.  When the row is gone the *)
(* UPDATE matches none and the ORM raises StaleDataError: 500.  When it is *)
(* there, NOT NULL refuses a null, an IntegrityError: rolled back and 409. *)
UpdateResource(c) ==
  LET q == call[c] IN
  /\ q.pc = "write" /\ q.op = "update_resource"
  /\ Keeps(c, IF ~Storable(q) \/ q.target \notin resources THEN "failed"
              ELSE IF q.body = "null" THEN "conflict" ELSE "reread")

(* Mutant: the lock is taken, shared, when the link is found. *)
SharesLink(d, x, p) ==
  /\ call[d].pc \in {"unlink", "check", "commit"}
  /\ call[d].target = x /\ call[d].policy = p
  /\ <<x, p>> \in links

(* A delete_policy call that has deleted its link, and not committed yet,  *)
(* holds the lock of that link's row.                                      *)
HoldsLink(d, x, p) ==
  /\ call[d].pc \in {"check", "commit"}
  /\ call[d].target = x /\ call[d].policy = p
  /\ <<x, p>> \in links

(* DELETE of the resource, and COMMIT.  The cascade waits for every link.  *)
(* When another call was faster there is no row to delete: 204 as well.    *)
RemoveResource(c) ==
  LET x == call[c].target IN
  /\ call[c].pc = "write" /\ call[c].op = "delete_resource"
  /\ \A d \in Calls, p \in Catalogue : ~HoldsLink(d, x, p)
  /\ IF x \in resources THEN DeleteResource(x) ELSE UNCHANGED store
  /\ cascaded' = cascaded \cup PoliciesOf(x)
  /\ Goto(c, "ok")
  /\ UNCHANGED overlapped

(* PolicyRepository.create_for_resource: INSERT of the policy, which       *)
(* nobody else sees before the COMMIT; 500 when the priority, which the    *)
(* schema only wants above 0, exceeds its column, no IntegrityError (a NUL *)
(* in the name fails alike) ...                                            *)
InsertPolicy(c) ==
  /\ call[c].pc = "write" /\ call[c].op = "create_policy"
  /\ Keeps(c, IF Storable(call[c]) THEN "link" ELSE "failed")

(* Mutant: the policy alone is committed first. *)
LinkRefusedLate(c) ==
  LET x == call[c].target IN
  /\ call[c].pc = "link"
  /\ policies' = policies \cup {call[c].policy} /\ written' = written \cup {call[c].policy}
  /\ UNCHANGED <<role, resources, born, history>>
  /\ IF x \in resources
       THEN links' = links \cup {<<x, call[c].policy>>} /\ Goto(c, "reread")
       ELSE UNCHANGED links /\ Goto(c, "conflict")

(* ... then INSERT of the link, and COMMIT.  When the resource is gone the *)
(* foreign key refuses the link, and the policy is rolled back: 409.       *)
InsertLink(c) ==
  LET x == call[c].target IN
  /\ call[c].pc = "link"
  /\ IF x \in resources
       THEN CreatePolicy(call[c].policy, x) /\ Goto(c, "reread")
       ELSE UNCHANGED store /\ Goto(c, "conflict")
  /\ UNCHANGED history

(* Mutant: the resource is read again, whatever was written. *)
RereadResource(c) ==
  /\ call[c].pc = "reread"
  /\ Keeps(c, IF call[c].target \in resources THEN "ok" ELSE "failed")

(* session.refresh of what was written raises when the row is gone: 500.   *)
Reread(c) ==
  LET q == call[c]
      found == IF q.op = "create_policy" THEN q.policy \in policies
                                         ELSE q.target \in resources IN
  /\ q.pc = "reread"
  /\ Keeps(c, IF found THEN "ok" ELSE "failed")

(* PolicyRepository.get_for_resource *)
FindPolicy(c) ==
  /\ call[c].pc = "find"
  /\ Keeps(c, IF <<call[c].target, call[c].policy>> \in links THEN "unlink" ELSE "not_found")

(* PolicyRepository.delete_for_resource: DELETE of the link ... *)
Unlink(c) ==
  /\ call[c].pc = "unlink"
  /\ \A d \in Calls : ~HoldsLink(d, call[c].target, call[c].policy)
  /\ Keeps(c, "check")

(* Mutant: the test is made before the delete, and finds the own link. *)
CheckBeforeUnlink(c) ==
  /\ call[c].pc = "check"
  /\ call' = [call EXCEPT ![c].pc = "commit", ![c].kept =
       \E y \in Resources : <<y, call[c].policy>> \in links]
  /\ UNCHANGED <<store, history>>

(* ... then the test for other links, where this call's is gone and the    *)
(* uncommitted deletes of other calls are not seen ...                     *)
CheckLinks(c) ==
  /\ call[c].pc = "check"
  /\ call' = [call EXCEPT ![c].pc = "commit", ![c].kept =
       \E y \in Resources \ {call[c].target} : <<y, call[c].policy>> \in links]
  /\ UNCHANGED <<store, history>>

(* Mutant: the call answers without a COMMIT. *)
FinishUncommitted(c) ==
  call[c].pc = "commit" /\ Keeps(c, "ok")

(* ... then DELETE of the policy if there were none, and COMMIT.           *)
FinishDelete(c) ==
  LET x == call[c].target
      p == call[c].policy IN
  /\ call[c].pc = "commit"
  /\ links' = links \ {<<x, p>>}
  /\ policies' = IF call[c].kept THEN policies ELSE policies \ {p}
  /\ UNCHANGED <<role, resources, born, written>>
  /\ overlapped' = overlapped \cup
       {r \in {p} : call[c].kept /\ \E d \in Calls \ {c}, y \in Resources : HoldsLink(d, y, r)}
  /\ Goto(c, "ok")
  /\ UNCHANGED cascaded

(* The client, the worker or the connection goes away: rolled back.        *)
Abandon(c) ==
  /\ call[c].pc \in Open
  /\ Keeps(c, "idle")

-----------------------------------------------------------------------------
(* The ids in a path come from earlier answers.  The id of a row to be     *)
(* inserted, which gen_random_uuid() makes at the INSERT, is chosen here;  *)
(* no other call has it.                                                   *)
Fresh(c, op, id) ==
  \A d \in Calls \ {c} :
    call[d].pc \in Open \cup {"failed"} /\ call[d].op = op =>
      id \notin {call[d].target, call[d].policy}

Arrive(c) ==
  \E u \in Users, w \in Workspaces :
    \/ \E x \in Resources \ born, body \in Bodies \ {"null"} :
         WorkspaceOf[x] = w /\ Fresh(c, "create_resource", x)
           /\ Begin(c, "create_resource", u, w, x, NoPolicy, body)
    \/ \E x \in born :
         \/ \E body \in Bodies : Begin(c, "update_resource", u, w, x, NoPolicy, body)
         \/ Begin(c, "delete_resource", u, w, x, NoPolicy, "valid")
         \/ \E p \in Catalogue \ written :
              Fresh(c, "create_policy", p) /\ Begin(c, "create_policy", u, w, x, p, "valid")
         \/ \E p \in written : Begin(c, "delete_policy", u, w, x, p, "valid")

Proceed(c) ==
  \/ FindResource(c) \/ InsertResource(c) \/ UpdateResource(c) \/ RemoveResource(c)
  \/ InsertPolicy(c) \/ InsertLink(c) \/ Reread(c)
  \/ FindPolicy(c) \/ Unlink(c) \/ CheckLinks(c) \/ FinishDelete(c)

(* UserRepository.update_role, by the endpoint for users' roles.           *)
RoleChanges == (\E u \in Users, r \in Roles : ChangeRole(u, r)) /\ UNCHANGED <<call, history>>

Next == RoleChanges \/ \E c \in Calls : Arrive(c) \/ Proceed(c) \/ Abandon(c)

Spec == Init /\ [][Next]_vars
(* The event loop and the database serve every call.  Whoever waits for a  *)
(* row lock is queued for it, so those who come later cannot pass for ever *)
(* (strong fairness), however many holders give up.                        *)
FairSpec ==
  /\ Spec
  /\ \A c \in Calls : /\ WF_vars(Proceed(c))
                      /\ SF_vars(Unlink(c)) /\ SF_vars(RemoveResource(c))

-----------------------------------------------------------------------------
TypeOK ==
  /\ StoreTypeOK /\ \A p \in written : Fits(p)
  /\ call \in [Calls -> CallState]
  /\ cascaded \in SUBSET Catalogue /\ overlapped \in SUBSET Catalogue

(* A 204 stays true: what delete_resource or delete_resource_policy says   *)
(* is gone has no row any more, whatever other calls were doing and do     *)
(* later.                                                                  *)
DeletesStick ==
  \A c \in Calls :
    call[c].pc = "ok" =>
      /\ call[c].op = "delete_resource" => call[c].target \notin resources
      /\ call[c].op = "delete_policy" => <<call[c].target, call[c].policy>> \notin links

(* An error is answered for a reason that stands.  404: what was asked for *)
(* is not in this workspace.  409: the resource of a policy is gone, or an *)
(* update has put a null into a column that takes none.  500: somebody has *)
(* deleted the row, or no column takes the value; of a create no row is    *)
(* there then.                                                             *)
ErrorsFounded ==
  \A c \in Calls :
    LET q == call[c]
        absent == q.target \notin resources \/ ~SameWorkspace(q.target, q.caller)
        refused == ~Storable(q) IN
    /\ q.pc = "not_found" => absent \/ (q.op = "delete_policy" /\ <<q.target, q.policy>> \notin links)
    /\ q.pc = "conflict" => \/ q.op = "update_resource" /\ q.body = "null"
                            \/ q.op = "create_policy" /\ q.target \notin resources
    /\ q.pc = "failed" =>
         CASE q.op = "create_resource" -> q.target \notin resources /\ (refused \/ q.target \in born)
           [] q.op = "create_policy" -> q.policy \notin policies /\ (refused \/ q.policy \in written)
           [] q.op = "update_resource" -> refused \/ q.target \in born \ resources
           [] OTHER -> FALSE

(* No call inserts or deletes a resource, or a link of one, in another     *)
(* workspace than its caller's, be it by a cascade.                        *)
WritesStayHome ==
  [][\A x \in Resources :
       \/ (x \in resources) # (x \in resources')
       \/ {l \in links : l[1] = x} # {l \in links' : l[1] = x}
       => \E c \in Calls : call[c].pc \in Open /\ call'[c].pc # call[c].pc
                            /\ SameWorkspace(x, call[c].caller)]_vars

(* delete_for_resource removes a policy with its last link (DESIGN.md:203) *)
(* but the deletion of a resource leaves it behind, and so may two         *)
(* overlapping deletions of links of the same policy.  There is no other   *)
(* way to a policy without links.                                          *)
OrphansExplained ==
  \A p \in policies :
    (\A x \in Resources : <<x, p>> \notin links) => p \in cascaded \cup overlapped

(* No call waits for ever for a row lock: delete_resource waits for        *)
(* delete_resource_policy, which waits for nobody but its like.            *)
EveryWriteAnswered == \A c \in Calls : call[c].pc \in Open ~> call[c].pc \in Closed

=============================================================================
