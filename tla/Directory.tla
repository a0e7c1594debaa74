----------------------------- MODULE Directory -----------------------------
(***************************************************************************)
(* The endpoints of workspaces and users, one action per SQL statement,    *)
(* each call in a transaction of its own at READ COMMITTED.                *)
(*                                                                         *)
(* Rows are inserted and their role changes; no endpoint deletes a         *)
(* workspace or a user, renames one or changes an address.  So a row is    *)
(* its id, and name, workspace and address are functions of the id, which  *)
(* gen_random_uuid() never makes twice.                                    *)
(*                                                                         *)
(* A unique key that another transaction has inserted and not committed    *)
(* makes an INSERT of the same key wait for that transaction's end.  The   *)
(* UPDATE of a role and the COMMIT right after it are one action.          *)
(***************************************************************************)
CONSTANTS Workspaces, Users,   \* ids of rows
          Names, NameOf,       \* workspaces.name of a workspace
          Emails, EmailOf,     \* users.email of a user
          Home,                \* users.workspace_id of a user
          SeedWorkspaces, SeedUsers,   \* what the tables hold at the start
          Calls, NoUser

Roles == {"admin", "user"}
Key(u) == <<Home[u], EmailOf[u]>>

ASSUME ColumnAssumption ==
  /\ NameOf \in [Workspaces -> Names]
  /\ EmailOf \in [Users -> Emails]
  /\ Home \in [Users -> Workspaces]
ASSUME RowAssumption == NoUser \notin Users /\ Workspaces # {}
(* Workspaces as create_workspace leaves them, each with its first admin.  *)
ASSUME SeedAssumption ==
  /\ SeedWorkspaces \subseteq Workspaces /\ SeedUsers \subseteq Users
  /\ SeedWorkspaces = {Home[u] : u \in SeedUsers}
  /\ \A v, w \in SeedWorkspaces : NameOf[v] = NameOf[w] => v = w
  /\ \A u, v \in SeedUsers : Home[u] = Home[v] => u = v

VARIABLES
  workspaces,  \* the rows of workspaces, as committed
  users,       \* the rows of users, as committed
  role,        \* users.role
  call,        \* what each call is doing
  met          \* history: whether the user in a call's path has had the role
               \* asked for at some moment of the call

tables == <<workspaces, users, role>>
vars == <<tables, call, met>>

Open == {"insert_workspace", "authorized", "insert_user", "commit", "reread",
         "find", "update", "reread_role", "list"}
Closed == {"idle", "ok", "forbidden", "no_workspace", "not_found", "conflict", "failed"}
Ops == {"create_workspace", "get_workspace", "create_user", "list_users", "update_role"}

CallState ==
  [pc : Open \cup Closed,
   op : Ops,
   caller : Users \cup {NoUser},     \* create_workspace has none
   workspace : Workspaces,
   user : Users \cup {NoUser},       \* the row to insert, or the one in the path
   asked : Roles,                    \* the role in the payload
   seen : Roles]                     \* user.role, as FindUser has read it

(* What is left of a call that was answered *)
Answered(pc) ==
  [pc |-> pc, op |-> "get_workspace", caller |-> NoUser,
   workspace |-> CHOOSE w \in Workspaces : TRUE,
   user |-> NoUser, asked |-> "user", seen |-> "user"]

Init ==
  /\ workspaces = SeedWorkspaces /\ users = SeedUsers
  /\ role = [u \in Users |-> IF u \in SeedUsers THEN "admin" ELSE "user"]
  /\ call = [c \in Calls |-> Answered("idle")]
  /\ met = [c \in Calls |-> FALSE]

Answer(c, pc) ==
  /\ call' = [call EXCEPT ![c] = Answered(pc)]
  /\ met' = [met EXCEPT ![c] = FALSE]
  /\ UNCHANGED tables

Goto(c, pc) ==
  /\ call' = [call EXCEPT ![c].pc = pc]
  /\ UNCHANGED <<tables, met>>

-----------------------------------------------------------------------------
(* The id of a row to be inserted is made at the INSERT; it is chosen when *)
(* the call begins, and no other call has it.                              *)
FreshUser(u) ==
  u \notin users /\ \A d \in Calls : call[d].pc \in Open => call[d].user # u

FreshWorkspace(w) ==
  /\ w \notin workspaces
  /\ \A d \in Calls :
       ~(call[d].pc \in Open /\ call[d].op = "create_workspace" /\ call[d].workspace = w)

FoundingWithoutAdmin(c, w, u) ==  \* mutant: User(...) without role=UserRole.ADMIN
  /\ call[c].pc \in Closed
  /\ Home[u] = w /\ FreshUser(u) /\ FreshWorkspace(w)
  /\ call' = [call EXCEPT ![c] =
       [pc |-> "insert_workspace", op |-> "create_workspace", caller |-> NoUser,
        workspace |-> w, user |-> u, asked |-> "user", seen |-> "user"]]
  /\ UNCHANGED <<tables, met>>

(* WorkspaceService.create_workspace up to the flush; needs no token.      *)
BeginFounding(c, w, u) ==
  /\ call[c].pc \in Closed
  /\ Home[u] = w /\ FreshUser(u) /\ FreshWorkspace(w)
  /\ call' = [call EXCEPT ![c] =
       [pc |-> "insert_workspace", op |-> "create_workspace", caller |-> NoUser,
        workspace |-> w, user |-> u, asked |-> "admin", seen |-> "admin"]]
  /\ UNCHANGED <<tables, met>>

(* get_current_admin_for_workspace: the caller's row is read once, here.   *)
Begin(c, op, caller, w, u, r) ==
  /\ call[c].pc \in Closed
  /\ IF Home[caller] = w /\ role[caller] = "admin"
       THEN /\ call' = [call EXCEPT ![c] =
                 [pc |-> "authorized", op |-> op, caller |-> caller, workspace |-> w,
                  user |-> u, asked |-> r, seen |-> r]]
            /\ met' = [met EXCEPT ![c] = op = "update_role" /\ role[u] = r]
            /\ UNCHANGED tables
       ELSE Answer(c, "forbidden")

(* _ensure_workspace_exists, or the SELECT of get_workspace_details        *)
FindWorkspace(c) ==
  LET q == call[c] IN
  /\ q.pc = "authorized"
  /\ IF q.workspace \notin workspaces
       THEN Answer(c, "no_workspace")
       ELSE \/ q.op = "get_workspace" /\ Answer(c, "ok")
            \/ q.op = "create_user" /\ Goto(c, "insert_user")
            \/ q.op = "update_role" /\ Goto(c, "find")
            \/ q.op = "list_users" /\ Goto(c, "list")

(* UserRepository.list_by_workspace_id: one SELECT, one moment             *)
ListUsers(c) == call[c].pc = "list" /\ Answer(c, "ok")

-----------------------------------------------------------------------------
(* The INSERT of the flush in create_with_admin: unique (name).            *)

HoldsName(d, n) ==
  /\ call[d].op = "create_workspace"
  /\ call[d].pc \in {"insert_user", "commit"}
  /\ NameOf[call[d].workspace] = n

NameTaken(n) == \E w \in workspaces : NameOf[w] = n

WorkspaceCommittedFirst(c) ==  \* mutant: a COMMIT between the two INSERTs
  LET w == call[c].workspace IN
  /\ call[c].pc = "insert_workspace"
  /\ \A d \in Calls : ~HoldsName(d, NameOf[w])
  /\ IF NameTaken(NameOf[w])
       THEN Answer(c, "conflict")
       ELSE /\ workspaces' = workspaces \cup {w}
            /\ call' = [call EXCEPT ![c].pc = "insert_user"]
            /\ UNCHANGED <<users, role, met>>

InsertWorkspace(c) ==
  LET n == NameOf[call[c].workspace] IN
  /\ call[c].pc = "insert_workspace"
  /\ \A d \in Calls : ~HoldsName(d, n)
  /\ IF NameTaken(n) THEN Answer(c, "conflict") ELSE Goto(c, "insert_user")

(* The INSERT of the user, in the same flush or in that of create: unique  *)
(* (workspace_id, email).  IntegrityError, a rollback and 409 otherwise.   *)

HoldsKey(d, k) == call[d].pc = "commit" /\ Key(call[d].user) = k
KeyTaken(k) == \E u \in users : Key(u) = k

InsertUserUnlocked(c) ==  \* mutant: a look at the committed rows, no unique key
  LET k == Key(call[c].user) IN
  /\ call[c].pc = "insert_user"
  /\ IF KeyTaken(k) THEN Answer(c, "conflict") ELSE Goto(c, "commit")

InsertUserImpatient(c) ==  \* mutant: refuses instead of waiting
  LET k == Key(call[c].user) IN
  /\ call[c].pc = "insert_user"
  /\ IF KeyTaken(k) \/ \E d \in Calls : HoldsKey(d, k)
       THEN Answer(c, "conflict") ELSE Goto(c, "commit")

InsertUser(c) ==
  LET k == Key(call[c].user) IN
  /\ call[c].pc = "insert_user"
  /\ \A d \in Calls : ~HoldsKey(d, k)
  /\ IF KeyTaken(k) THEN Answer(c, "conflict") ELSE Goto(c, "commit")

CommitUserOnly(c) ==  \* mutant: the workspace is not added to the session
  LET q == call[c] IN
  /\ q.pc = "commit"
  /\ users' = users \cup {q.user}
  /\ role' = [role EXCEPT ![q.user] = q.asked]
  /\ call' = [call EXCEPT ![c].pc = "reread"]
  /\ UNCHANGED <<workspaces, met>>

CommitCaller(c) ==  \* mutant: the wrong one of two users
  LET q == call[c] IN
  /\ q.pc = "commit"
  /\ workspaces' = workspaces \cup {q.workspace}
  /\ users' = users \cup {q.caller}
  /\ call' = [call EXCEPT ![c].pc = "reread"]
  /\ UNCHANGED <<role, met>>

Commit(c) ==
  LET q == call[c] IN
  /\ q.pc = "commit"
  /\ workspaces' = workspaces \cup (IF q.op = "create_workspace" THEN {q.workspace} ELSE {})
  /\ users' = users \cup {q.user}
  /\ role' = [role EXCEPT ![q.user] = q.asked]
  /\ call' = [call EXCEPT ![c].pc = "reread"]
  /\ UNCHANGED met

(* session.refresh of what was inserted, in a transaction of its own       *)
Reread(c) ==
  LET q == call[c] IN
  /\ q.pc = "reread"
  /\ Answer(c, IF q.workspace \in workspaces /\ q.user \in users THEN "ok" ELSE "failed")

-----------------------------------------------------------------------------
FindUserById(c) ==  \* mutant: no condition on workspace_id
  LET q == call[c] IN
  /\ q.pc = "find"
  /\ IF q.user \in users
       THEN /\ call' = [call EXCEPT ![c].pc = "update", ![c].seen = role[q.user]]
            /\ UNCHANGED <<tables, met>>
       ELSE Answer(c, "not_found")

(* get_by_workspace_id_and_user_id *)
FindUser(c) ==
  LET q == call[c] IN
  /\ q.pc = "find"
  /\ IF q.user \in users /\ Home[q.user] = q.workspace
       THEN /\ call' = [call EXCEPT ![c].pc = "update", ![c].seen = role[q.user]]
            /\ UNCHANGED <<tables, met>>
       ELSE Answer(c, "not_found")

UpdateUncommitted(c) ==  \* mutant: refresh without a COMMIT
  call[c].pc = "update" /\ Goto(c, "reread_role")

(* UserRepository.update_role.  The ORM writes the role only if it differs *)
(* from the one it has read.                                               *)
UpdateRole(c) ==
  LET q == call[c] IN
  /\ q.pc = "update"
  /\ role' = [role EXCEPT ![q.user] = IF q.asked # q.seen THEN q.asked ELSE @]
  /\ met' = [d \in Calls |->
       \/ met[d]
       \/ call[d].pc \in Open /\ call[d].op = "update_role"
            /\ call[d].user = q.user /\ call[d].asked = role'[q.user]]
  /\ call' = [call EXCEPT ![c].pc = "reread_role"]
  /\ UNCHANGED <<workspaces, users>>

(* session.refresh *)
RereadRole(c) ==
  /\ call[c].pc = "reread_role"
  /\ Answer(c, IF call[c].user \in users THEN "ok" ELSE "failed")

-----------------------------------------------------------------------------
(* The client, the worker or the connection goes away: rolled back, unless *)
(* the COMMIT is done.                                                     *)
Abandon(c) == call[c].pc \in Open /\ Answer(c, "idle")

(* A token is of a user who has logged in; an id in a path is one that an  *)
(* answer held.                                                            *)
Arrive(c) ==
  \/ \E w \in Workspaces, u \in Users : BeginFounding(c, w, u)
  \/ \E caller \in users, w \in workspaces :
       \/ \E op \in {"get_workspace", "list_users"} : Begin(c, op, caller, w, NoUser, "user")
       \/ \E u \in Users, r \in Roles :
            \/ Home[u] = w /\ FreshUser(u) /\ Begin(c, "create_user", caller, w, u, r)
            \/ u \in users /\ Begin(c, "update_role", caller, w, u, r)

Proceed(c) ==
  \/ FindWorkspace(c) \/ ListUsers(c) \/ InsertWorkspace(c) \/ InsertUser(c)
  \/ Commit(c) \/ Reread(c) \/ FindUser(c) \/ UpdateRole(c) \/ RereadRole(c)

Next == \E c \in Calls : Arrive(c) \/ Proceed(c) \/ Abandon(c)

Spec == Init /\ [][Next]_vars

-----------------------------------------------------------------------------
TypeOK ==
  /\ workspaces \subseteq Workspaces
  /\ users \subseteq Users
  /\ role \in [Users -> Roles]
  /\ call \in [Calls -> CallState]
  /\ met \in [Calls -> BOOLEAN]

(* However inserts of one name or one address overlap, one of them stays:  *)
(* nothing but the unique keys sees to it, the services look up nothing    *)
(* before they insert.                                                     *)
KeysUnique ==
  /\ \A v, w \in workspaces : NameOf[v] = NameOf[w] => v = w
  /\ \A u, v \in users : Key(u) = Key(v) => u = v

(* What a caller was authorized for is still there when it is looked up,   *)
(* and what was committed when it is read again: get_workspace_details and *)
(* _ensure_workspace_exists never answer 404, refresh never fails.         *)
NeverLost == \A c \in Calls : call[c].pc \notin {"no_workspace", "failed"}

(* A call is answered 409 only for a name or an address that a committed   *)
(* row has, not for one that is rolled back after all.                     *)
ConflictFounded ==
  [][\A c \in Calls :
       call[c].pc # "conflict" /\ call'[c].pc = "conflict" =>
         IF call[c].pc = "insert_workspace" THEN NameTaken(NameOf[call[c].workspace])
                                            ELSE KeyTaken(Key(call[c].user))]_vars

HasAdmin(w) == \E u \in users : Home[u] = w /\ role[u] = "admin"

(* A workspace is left without an admin only by an admin who demotes       *)
(* himself, or by one who was demoted after his role had been read: the    *)
(* admins of a workspace may demote each other.                            *)
AdminlessExplained ==
  [][\A w \in workspaces' :
       ~HasAdmin(w)' =>
         \/ w \in workspaces /\ ~HasAdmin(w)
         \/ \E c \in Calls :
              /\ call[c].pc = "update" /\ call'[c].pc = "reread_role"
              /\ call[c].workspace = w /\ call[c].asked = "user"
              /\ call[c].caller = call[c].user \/ role[call[c].caller] # "admin"]_vars

(* A role change that is answered was in force during the call, although   *)
(* the ORM writes nothing when the role it has read is the one asked for.  *)
RoleUpdateTookEffect ==
  [][\A c \in Calls :
       call[c].pc = "reread_role" /\ call'[c].pc = "ok" => met[c]]_vars

(* A user appears or changes only by a call on the own workspace, whose    *)
(* caller is of that workspace; an id in a path reaches no further.        *)
StaysHome ==
  [][\A u \in Users :
       (u \in users' \ users \/ role'[u] # role[u]) =>
         \E c \in Calls :
           /\ call'[c] # call[c]
           /\ call[c].workspace = Home[u]
           /\ \/ call[c].op = "create_workspace" /\ Home[u] \notin workspaces
              \/ call[c].caller \in users /\ Home[call[c].caller] = Home[u]]_vars

-----------------------------------------------------------------------------
(* The tables are a registry of names and members.  Every call is one step *)
(* of it or none, a refused one too.                                       *)
R == INSTANCE Registry WITH
       holders <- {<<NameOf[w], w>> : w \in workspaces},
       members <- {[workspace |-> Home[u], email |-> EmailOf[u],
                    user |-> u, role |-> role[u]] : u \in users}
RegistrySpec == R!Spec
=============================================================================
