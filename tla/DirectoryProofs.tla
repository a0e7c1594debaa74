-------------------------- MODULE DirectoryProofs --------------------------
(***************************************************************************)
(* Directory keeps its promises, and does what Registry says, for every    *)
(* number of overlapping calls, workspaces and users.                      *)
(***************************************************************************)
EXTENDS Directory, Naturals, TLAPS

(* A call with a user to insert; with a workspace to insert; with one that *)
(* it has inserted and not committed.                                      *)
Creating(c) ==
  /\ call[c].op \in {"create_workspace", "create_user"}
  /\ call[c].pc \in {"insert_workspace", "authorized", "insert_user", "commit"}
Founding(c) == Creating(c) /\ call[c].op = "create_workspace"
Founded(c) == Founding(c) /\ call[c].pc \in {"insert_user", "commit"}

Path(c) ==
  LET q == call[c] IN
  /\ q.pc \notin {"no_workspace", "failed"}
  /\ q.pc = "insert_workspace" => q.op = "create_workspace"
  /\ q.pc \in {"insert_user", "commit", "reread"} => q.op \in {"create_workspace", "create_user"}
  /\ q.pc \in {"find", "update", "reread_role"} => q.op = "update_role"
  /\ q.pc = "authorized" => q.op # "create_workspace"
  /\ q.op = "create_workspace" /\ q.pc \in Open => q.asked = "admin"

(* What a call knows of the rows *)
RowsKnown(c) ==
  LET q == call[c] IN
  /\ q.pc \in Open /\ q.op # "create_workspace" =>
       q.caller \in users /\ Home[q.caller] = q.workspace
  /\ Creating(c) => q.user \in Users \ users /\ Home[q.user] = q.workspace
  /\ Founding(c) => q.workspace \notin workspaces
  /\ Founded(c) => ~NameTaken(NameOf[q.workspace])
  /\ q.pc = "commit" => ~KeyTaken(Key(q.user))
  /\ q.pc = "reread" => q.user \in users /\ q.workspace \in workspaces

(* ... and of the role it is to change *)
RoleKnown(c) ==
  LET q == call[c] IN
  /\ q.pc \in Open /\ q.op = "update_role" =>
       q.user \in users /\ (role[q.user] = q.asked => met[c])
  /\ q.pc \in {"update", "reread_role"} => Home[q.user] = q.workspace
  /\ q.pc = "update" /\ q.seen = q.asked => met[c]
  /\ q.pc = "reread_role" => met[c]

Known(c) == Path(c) /\ RowsKnown(c) /\ RoleKnown(c)

(* No two calls insert one row, one name or one address. *)
Apart(c, d) ==
  /\ Creating(c) /\ Creating(d) => call[c].user # call[d].user
  /\ Founding(c) /\ Founding(d) => call[c].workspace # call[d].workspace
  /\ Founded(c) /\ Founded(d) => NameOf[call[c].workspace] # NameOf[call[d].workspace]
  /\ call[c].pc = "commit" /\ call[d].pc = "commit" => Key(call[c].user) # Key(call[d].user)

HomesExist == \A u \in users : Home[u] \in workspaces

IInv ==
  /\ TypeOK /\ KeysUnique /\ HomesExist
  /\ \A c \in Calls : Known(c)
  /\ \A c, d \in Calls : c # d => Apart(c, d)

USE ColumnAssumption, RowAssumption

-----------------------------------------------------------------------------
LEMMA AnsweredType ==
  ASSUME NEW pc \in Closed
  PROVE  Answered(pc) \in CallState
<1>1. (CHOOSE w \in Workspaces : TRUE) \in Workspaces
  OBVIOUS
<1>2. QED
  BY <1>1 DEF Answered, CallState, Ops, Roles

LEMMA InitInv == Init => IInv
<1>1. SUFFICES ASSUME Init PROVE IInv
  OBVIOUS
<1>2. Answered("idle") \in CallState
  BY AnsweredType DEF Closed
<1>3. TypeOK
  BY <1>1, <1>2, SeedAssumption DEF Init, TypeOK, Roles
<1>4. KeysUnique /\ HomesExist
  BY <1>1, SeedAssumption DEF Init, KeysUnique, HomesExist, Key
<1>5. \A c \in Calls : call[c].pc = "idle"
  BY <1>1 DEF Init, Answered
<1>6. QED
  BY <1>3, <1>4, <1>5 DEF IInv, Known, Path, RowsKnown, RoleKnown, Apart,
     Creating, Founding, Founded, Open

(* A step of one call that leaves the tables alone preserves the invariant *)
(* if it does so for that call.                                            *)
LEMMA OneCall ==
  ASSUME IInv, NEW c \in Calls, UNCHANGED tables, TypeOK',
         \A d \in Calls \ {c} : call'[d] = call[d] /\ met'[d] = met[d],
         Known(c)', \A d \in Calls \ {c} : Apart(c, d)'
  PROVE  IInv'
<1>1. (KeysUnique /\ HomesExist)'
  BY DEF IInv, KeysUnique, HomesExist, tables
<1>2. ASSUME NEW d \in Calls \ {c} PROVE Known(d)'
  <2>1. Known(d) /\ call'[d] = call[d] /\ met'[d] = met[d]
    BY <1>2 DEF IInv
  <2>2. QED
    BY <2>1 DEF tables, Known, Path, RowsKnown, RoleKnown, Creating, Founding, Founded,
       NameTaken, KeyTaken
<1>3. ASSUME NEW d \in Calls, NEW e \in Calls, d # e PROVE Apart(d, e)'
  <2>1. CASE d = c
    BY <1>3, <2>1
  <2>2. CASE e = c
    <3>1. Apart(c, d)'
      BY <1>3, <2>2
    <3>2. QED
      BY <2>2, <3>1 DEF Apart
  <2>3. CASE d # c /\ e # c
    <3>1. Apart(d, e) /\ call'[d] = call[d] /\ call'[e] = call[e]
      BY <1>3, <2>3 DEF IInv
    <3>2. QED
      BY <3>1 DEF Apart, Creating, Founding, Founded
  <2>4. QED
    BY <2>1, <2>2, <2>3
<1>4. QED
  BY <1>1, <1>2, <1>3 DEF IInv

LEMMA AnswerKeeps ==
  ASSUME IInv, NEW c \in Calls, NEW pc \in Closed \ {"no_workspace", "failed"}, Answer(c, pc)
  PROVE  IInv'
<1>1. call \in [Calls -> CallState] /\ met \in [Calls -> BOOLEAN]
  BY DEF IInv, TypeOK
<1>2. /\ call'[c] = Answered(pc) /\ call'[c].pc = pc
      /\ \A d \in Calls \ {c} : call'[d] = call[d] /\ met'[d] = met[d]
  BY <1>1 DEF Answer, Answered
<1>3. TypeOK'
  BY <1>1, AnsweredType DEF IInv, TypeOK, Answer, tables
<1>4. Known(c)' /\ \A d \in Calls \ {c} : Apart(c, d)'
  BY <1>2 DEF Known, Path, RowsKnown, RoleKnown, Apart, Creating, Founding, Founded,
     Open, Closed
<1>5. QED
  BY <1>2, <1>3, <1>4, OneCall DEF Answer

LEMMA FoundingBegins ==
  ASSUME IInv, NEW c \in Calls, NEW w \in Workspaces, NEW u \in Users, BeginFounding(c, w, u)
  PROVE  IInv'
<1>1. call \in [Calls -> CallState]
  BY DEF IInv, TypeOK
<1>2. /\ call'[c].pc = "insert_workspace" /\ call'[c].op = "create_workspace"
      /\ call'[c].workspace = w /\ call'[c].user = u /\ call'[c].asked = "admin"
      /\ \A d \in Calls \ {c} : call'[d] = call[d] /\ met'[d] = met[d]
      /\ UNCHANGED tables
  BY <1>1 DEF BeginFounding
<1>3. TypeOK'
  BY <1>1 DEF IInv, TypeOK, BeginFounding, CallState, Open, Ops, Roles, tables
<1>4. Known(c)'
  BY <1>2 DEF Known, Path, RowsKnown, RoleKnown, Creating, Founding, Founded, Open,
     BeginFounding, FreshUser, FreshWorkspace, tables
<1>5. ASSUME NEW d \in Calls \ {c} PROVE Apart(c, d)'
  <2>1. call[d].pc \in Open => call[d].user # u
    BY DEF BeginFounding, FreshUser
  <2>2. call[d].pc \in Open /\ call[d].op = "create_workspace" => call[d].workspace # w
    BY DEF BeginFounding, FreshWorkspace
  <2>3. QED
    BY <1>2, <2>1, <2>2 DEF Apart, Creating, Founding, Founded, Open
<1>6. QED
  BY <1>2, <1>3, <1>4, <1>5, OneCall

(* What Arrive asks of the user in the path, or of the one to be created. *)
Admissible(op, w, u) ==
  \/ op \in {"get_workspace", "list_users"} /\ u = NoUser
  \/ op = "create_user" /\ u \in Users /\ Home[u] = w /\ FreshUser(u)
  \/ op = "update_role" /\ u \in users

LEMMA CallBegins ==
  ASSUME IInv, NEW c \in Calls, NEW op, NEW caller \in users, NEW w \in Workspaces,
         NEW u \in Users \cup {NoUser}, NEW r \in Roles,
         Admissible(op, w, u), Begin(c, op, caller, w, u, r)
  PROVE  IInv'
<1>0. call \in [Calls -> CallState] /\ met \in [Calls -> BOOLEAN] /\ users \subseteq Users
  BY DEF IInv, TypeOK
<1>1. CASE ~(Home[caller] = w /\ role[caller] = "admin")
  BY <1>1, AnswerKeeps DEF Begin, Closed
<1>2. CASE Home[caller] = w /\ role[caller] = "admin"
  <2>1. /\ call'[c].pc = "authorized" /\ call'[c].op = op /\ call'[c].caller = caller
        /\ call'[c].workspace = w /\ call'[c].user = u /\ call'[c].asked = r
        /\ met'[c] = (op = "update_role" /\ role[u] = r)
        /\ \A d \in Calls \ {c} : call'[d] = call[d] /\ met'[d] = met[d]
        /\ UNCHANGED tables
    BY <1>0, <1>2 DEF Begin
  <2>2. op \in Ops \ {"create_workspace"}
    BY DEF Admissible, Ops
  <2>3. TypeOK'
    <3>1. call' \in [Calls -> CallState]
      BY <1>0, <1>2, <2>2 DEF Begin, CallState, Open
    <3>2. met' \in [Calls -> BOOLEAN]
      BY <1>0, <1>2 DEF Begin
    <3>3. QED
      BY <2>1, <3>1, <3>2 DEF IInv, TypeOK, tables
  <2>4. Known(c)'
    <3>1. Path(c)'
      BY <2>1, <2>2 DEF Path
    <3>2. RowsKnown(c)'
      BY <1>0, <1>2, <2>1 DEF RowsKnown, Creating, Founding, Founded, Admissible, FreshUser, tables
    <3>3. RoleKnown(c)'
      BY <2>1 DEF RoleKnown, Admissible, tables
    <3>4. QED
      BY <3>1, <3>2, <3>3 DEF Known
  <2>5. ASSUME NEW d \in Calls \ {c} PROVE Apart(c, d)'
    <3>1. op = "create_user" /\ call[d].pc \in Open => call[d].user # u
      BY DEF Admissible, FreshUser
    <3>2. QED
      BY <2>1, <2>2, <3>1 DEF Apart, Creating, Founding, Founded, Open, Admissible
  <2>6. QED
    BY <2>1, <2>3, <2>4, <2>5, OneCall
<1>3. QED
  BY <1>1, <1>2

LEMMA ArriveKeeps == ASSUME IInv, NEW c \in Calls, Arrive(c) PROVE IInv'
<1>0. users \subseteq Users /\ workspaces \subseteq Workspaces
  BY DEF IInv, TypeOK
<1>1. ASSUME NEW w \in Workspaces, NEW u \in Users, BeginFounding(c, w, u) PROVE IInv'
  BY <1>1, FoundingBegins
<1>2. ASSUME NEW caller \in users, NEW w \in workspaces,
             NEW op \in {"get_workspace", "list_users"}, Begin(c, op, caller, w, NoUser, "user")
      PROVE IInv'
  <2>1. Admissible(op, w, NoUser) /\ "user" \in Roles /\ w \in Workspaces
    BY <1>0 DEF Admissible, Roles
  <2>2. QED
    BY <1>2, <2>1, CallBegins
<1>3. ASSUME NEW caller \in users, NEW w \in workspaces, NEW u \in Users, NEW r \in Roles,
             Home[u] = w, FreshUser(u), Begin(c, "create_user", caller, w, u, r)
      PROVE IInv'
  <2>1. Admissible("create_user", w, u) /\ w \in Workspaces
    BY <1>0, <1>3 DEF Admissible
  <2>2. QED
    BY <1>3, <2>1, CallBegins
<1>4. ASSUME NEW caller \in users, NEW w \in workspaces, NEW u \in users, NEW r \in Roles,
             Begin(c, "update_role", caller, w, u, r)
      PROVE IInv'
  <2>1. Admissible("update_role", w, u) /\ w \in Workspaces /\ u \in Users
    BY <1>0, <1>4 DEF Admissible
  <2>2. QED
    BY <1>4, <2>1, CallBegins
<1>5. QED
  BY <1>1, <1>2, <1>3, <1>4 DEF Arrive

-----------------------------------------------------------------------------
LEMMA Moved ==
  ASSUME IInv, NEW c \in Calls, NEW pc \in Open, Goto(c, pc)
  PROVE  /\ TypeOK' /\ UNCHANGED tables /\ met' = met
         /\ call'[c].pc = pc /\ call'[c].op = call[c].op /\ call'[c].caller = call[c].caller
         /\ call'[c].workspace = call[c].workspace /\ call'[c].user = call[c].user
         /\ call'[c].asked = call[c].asked /\ call'[c].seen = call[c].seen
         /\ \A d \in Calls \ {c} : call'[d] = call[d] /\ met'[d] = met[d]
<1>1. call \in [Calls -> CallState]
  BY DEF IInv, TypeOK
<1>2. call' \in [Calls -> CallState]
  BY <1>1 DEF Goto, CallState
<1>3. QED
  BY <1>1, <1>2 DEF IInv, TypeOK, Goto, tables, CallState

LEMMA FindWorkspaceKeeps == ASSUME IInv, NEW c \in Calls, FindWorkspace(c) PROVE IInv'
<1>0. Known(c) /\ HomesExist
  BY DEF IInv
<1>1. call[c].workspace \in workspaces
  BY <1>0 DEF FindWorkspace, Known, Path, RowsKnown, HomesExist, Open
<1>2. CASE Answer(c, "ok")
  BY <1>2, AnswerKeeps DEF Closed
<1>3. CASE \/ call[c].op = "create_user" /\ Goto(c, "insert_user")
           \/ call[c].op = "update_role" /\ Goto(c, "find")
           \/ call[c].op = "list_users" /\ Goto(c, "list")
  <2>1. PICK pc \in {"insert_user", "find", "list"} :
          /\ Goto(c, pc)
          /\ pc = "insert_user" => call[c].op = "create_user"
          /\ pc = "find" => call[c].op = "update_role"
          /\ pc = "list" => call[c].op = "list_users"
    BY <1>3
  <2>2. pc \in Open
    BY DEF Open
  <2>3. Known(c)'
    BY <1>0, <2>1, <2>2, Moved DEF FindWorkspace, Known, Path, RowsKnown, RoleKnown,
       Creating, Founding, Founded, Open, tables
  <2>4. ASSUME NEW d \in Calls \ {c} PROVE Apart(c, d)'
    <3>1. Apart(c, d)
      BY DEF IInv
    <3>2. QED
      BY <2>1, <2>2, <3>1, Moved DEF FindWorkspace, Apart, Creating, Founding, Founded
  <2>5. QED
    BY <2>1, <2>2, <2>3, <2>4, Moved, OneCall
<1>4. QED
  BY <1>1, <1>2, <1>3 DEF FindWorkspace

LEMMA ListUsersKeeps == ASSUME IInv, NEW c \in Calls, ListUsers(c) PROVE IInv'
  BY AnswerKeeps DEF ListUsers, Closed

LEMMA InsertWorkspaceKeeps == ASSUME IInv, NEW c \in Calls, InsertWorkspace(c) PROVE IInv'
<1>0. Known(c)
  BY DEF IInv
<1>1. CASE Answer(c, "conflict")
  BY <1>1, AnswerKeeps DEF Closed
<1>2. CASE ~NameTaken(NameOf[call[c].workspace]) /\ Goto(c, "insert_user")
  <2>1. "insert_user" \in Open /\ call[c].op = "create_workspace"
    BY <1>0 DEF Open, Known, Path, InsertWorkspace
  <2>2. Known(c)'
    BY <1>0, <1>2, <2>1, Moved DEF InsertWorkspace, Known, Path, RowsKnown, RoleKnown,
       Creating, Founding, Founded, Open, tables, NameTaken
  <2>3. ASSUME NEW d \in Calls \ {c} PROVE Apart(c, d)'
    <3>1. Apart(c, d)
      BY DEF IInv
    <3>2. Founded(d) => NameOf[call[d].workspace] # NameOf[call[c].workspace]
      BY DEF InsertWorkspace, HoldsName, Founded, Founding
    <3>3. QED
      BY <1>2, <2>1, <3>1, <3>2, Moved DEF InsertWorkspace, Apart, Creating, Founding, Founded
  <2>4. QED
    BY <1>2, <2>1, <2>2, <2>3, Moved, OneCall
<1>3. QED
  BY <1>1, <1>2 DEF InsertWorkspace

LEMMA InsertUserKeeps == ASSUME IInv, NEW c \in Calls, InsertUser(c) PROVE IInv'
<1>0. Known(c)
  BY DEF IInv
<1>1. CASE Answer(c, "conflict")
  BY <1>1, AnswerKeeps DEF Closed
<1>2. CASE ~KeyTaken(Key(call[c].user)) /\ Goto(c, "commit")
  <2>1. "commit" \in Open
    BY DEF Open
  <2>2. Known(c)'
    BY <1>0, <1>2, <2>1, Moved DEF InsertUser, Known, Path, RowsKnown, RoleKnown,
       Creating, Founding, Founded, Open, tables, NameTaken, KeyTaken
  <2>3. ASSUME NEW d \in Calls \ {c} PROVE Apart(c, d)'
    <3>1. Apart(c, d)
      BY DEF IInv
    <3>2. call[d].pc = "commit" => Key(call[d].user) # Key(call[c].user)
      BY DEF InsertUser, HoldsKey
    <3>3. QED
      BY <1>2, <2>1, <3>1, <3>2, Moved DEF InsertUser, Apart, Creating, Founding, Founded
  <2>4. QED
    BY <1>2, <2>1, <2>2, <2>3, Moved, OneCall
<1>3. QED
  BY <1>1, <1>2 DEF InsertUser

LEMMA RereadKeeps == ASSUME IInv, NEW c \in Calls, Reread(c) PROVE IInv'
<1>1. Answer(c, "ok")
  BY DEF IInv, Known, RowsKnown, Reread
<1>2. QED
  BY <1>1, AnswerKeeps DEF Closed

LEMMA FindUserKeeps == ASSUME IInv, NEW c \in Calls, FindUser(c) PROVE IInv'
<1>0. Known(c) /\ call \in [Calls -> CallState] /\ role \in [Users -> Roles] /\ users \subseteq Users
  BY DEF IInv, TypeOK
<1>1. CASE Answer(c, "not_found")
  BY <1>1, AnswerKeeps DEF Closed
<1>2. CASE call[c].user \in users /\ Home[call[c].user] = call[c].workspace
  <2>1. /\ call'[c].pc = "update" /\ call'[c].seen = role[call[c].user]
        /\ call'[c].op = call[c].op /\ call'[c].caller = call[c].caller
        /\ call'[c].workspace = call[c].workspace /\ call'[c].user = call[c].user
        /\ call'[c].asked = call[c].asked
        /\ UNCHANGED tables /\ met' = met
        /\ \A d \in Calls \ {c} : call'[d] = call[d] /\ met'[d] = met[d]
    BY <1>0, <1>2 DEF FindUser, CallState
  <2>2. TypeOK'
    <3>1. call' \in [Calls -> CallState]
      BY <1>0, <1>2 DEF FindUser, CallState, Open
    <3>2. QED
      BY <2>1, <3>1 DEF IInv, TypeOK, tables
  <2>3. Known(c)'
    BY <1>0, <1>2, <2>1 DEF FindUser, Known, Path, RowsKnown, RoleKnown,
       Creating, Founding, Founded, Open, tables
  <2>4. \A d \in Calls \ {c} : Apart(c, d)'
    BY <2>1 DEF Apart, Creating, Founding, Founded
  <2>5. QED
    BY <2>1, <2>2, <2>3, <2>4, OneCall
<1>3. QED
  BY <1>1, <1>2 DEF FindUser

LEMMA RereadRoleKeeps == ASSUME IInv, NEW c \in Calls, RereadRole(c) PROVE IInv'
<1>1. Known(c)
  BY DEF IInv
<1>2. Answer(c, "ok")
  BY <1>1 DEF Known, Path, RoleKnown, RereadRole, Open
<1>3. QED
  BY <1>2, AnswerKeeps DEF Closed

LEMMA AbandonKeeps == ASSUME IInv, NEW c \in Calls, Abandon(c) PROVE IInv'
  BY AnswerKeeps DEF Abandon, Closed

-----------------------------------------------------------------------------
LEMMA CommitEffect ==
  ASSUME IInv, NEW c \in Calls, Commit(c)
  PROVE  LET q == call[c] IN
         /\ Creating(c) /\ Known(c)
         /\ q.user \in Users \ users /\ q.workspace \in Workspaces /\ q.asked \in Roles
         /\ users' = users \cup {q.user}
         /\ workspaces' = workspaces \cup (IF Founding(c) THEN {q.workspace} ELSE {})
         /\ q.workspace \in workspaces'
         /\ role'[q.user] = q.asked
         /\ \A v \in Users \ {q.user} : role'[v] = role[v]
         /\ role' \in [Users -> Roles]
         /\ call'[c].pc = "reread" /\ call'[c].op = q.op /\ call'[c].caller = q.caller
         /\ call'[c].user = q.user /\ call'[c].workspace = q.workspace
         /\ call'[c].asked = q.asked
         /\ call' \in [Calls -> CallState]
         /\ \A d \in Calls \ {c} : call'[d] = call[d]
         /\ met' = met
<1>1. Known(c) /\ call \in [Calls -> CallState] /\ role \in [Users -> Roles]
      /\ users \subseteq Users /\ HomesExist
  BY DEF IInv, TypeOK
<1>2. Creating(c)
  BY <1>1 DEF Commit, Known, Path, Creating
<1>3. call[c].user \in Users \ users /\ call[c].workspace \in Workspaces /\ call[c].asked \in Roles
  BY <1>1, <1>2 DEF Known, RowsKnown, CallState
<1>4. Founding(c) <=> call[c].op = "create_workspace"
  BY <1>2 DEF Founding
<1>5. ~Founding(c) => call[c].workspace \in workspaces
  BY <1>1, <1>4 DEF Commit, Known, RowsKnown, HomesExist, Open
<1>6. call' \in [Calls -> CallState]
  BY <1>1 DEF Commit, CallState, Open
<1>7. /\ call'[c].pc = "reread" /\ call'[c].op = call[c].op /\ call'[c].caller = call[c].caller
      /\ call'[c].user = call[c].user /\ call'[c].workspace = call[c].workspace
      /\ call'[c].asked = call[c].asked
      /\ \A d \in Calls \ {c} : call'[d] = call[d]
  BY <1>1 DEF Commit, CallState
<1>8. /\ role'[call[c].user] = call[c].asked /\ role' \in [Users -> Roles]
      /\ \A v \in Users \ {call[c].user} : role'[v] = role[v]
  BY <1>1, <1>3 DEF Commit
<1>9. QED
  BY <1>1, <1>2, <1>3, <1>4, <1>5, <1>6, <1>7, <1>8 DEF Commit

LEMMA CommitKeeps == ASSUME IInv, NEW c \in Calls, Commit(c) PROVE IInv'
<1> DEFINE q == call[c]
<1>1. /\ TypeOK /\ KeysUnique /\ HomesExist /\ Known(c)
      /\ \A d \in Calls : Known(d)
      /\ \A d \in Calls \ {c} : Apart(c, d)
  BY DEF IInv
<1>2. TypeOK'
  BY <1>1, CommitEffect DEF TypeOK
<1>3. KeysUnique'
  <2>1. ASSUME NEW v \in workspaces', NEW w \in workspaces', NameOf[v] = NameOf[w] PROVE v = w
    <3>1. Founding(c) => ~NameTaken(NameOf[q.workspace])
      BY <1>1 DEF Commit, Known, RowsKnown, Founded
    <3>2. QED
      BY <1>1, <2>1, <3>1, CommitEffect DEF KeysUnique, NameTaken
  <2>2. ASSUME NEW u \in users', NEW v \in users', Key(u) = Key(v) PROVE u = v
    <3>1. ~KeyTaken(Key(q.user))
      BY <1>1 DEF Commit, Known, RowsKnown
    <3>2. QED
      BY <1>1, <2>2, <3>1, CommitEffect DEF KeysUnique, KeyTaken
  <2>3. QED
    BY <2>1, <2>2 DEF KeysUnique, Key
<1>4. HomesExist'
  <2>1. Home[q.user] = q.workspace
    BY <1>1, CommitEffect DEF Known, RowsKnown
  <2>2. QED
    BY <1>1, <2>1, CommitEffect DEF HomesExist
<1>5. Known(c)'
  <2>1. q.pc = "commit" /\ Path(c) /\ RowsKnown(c)
    BY <1>1 DEF Commit, Known
  <2>2. /\ call'[c].pc = "reread" /\ call'[c].op = q.op /\ call'[c].caller = q.caller
        /\ call'[c].user = q.user /\ call'[c].workspace = q.workspace
        /\ call'[c].asked = q.asked
        /\ q.user \in users' /\ users \subseteq users' /\ q.workspace \in workspaces'
    BY CommitEffect
  <2>3. Path(c)'
    BY <2>1, <2>2 DEF Path, Open
  <2>4. RowsKnown(c)'
    BY <2>1, <2>2 DEF RowsKnown, Creating, Founding, Founded, Open
  <2>5. RoleKnown(c)'
    BY <2>1, <2>2 DEF Path, RoleKnown, Open
  <2>6. QED
    BY <2>3, <2>4, <2>5 DEF Known
<1>6. ASSUME NEW d \in Calls \ {c} PROVE Known(d)'
  <2>1. Known(d) /\ Apart(c, d) /\ call'[d] = call[d] /\ met'[d] = met[d]
    BY <1>1, CommitEffect
  <2>2. Path(d)'
    BY <2>1 DEF Known, Path
  <2>3. RowsKnown(d)'
    <3>1. Creating(d) => call[d].user # q.user
      BY <2>1, CommitEffect DEF Apart
    <3>2. Founding(d) /\ Founding(c) => call[d].workspace # q.workspace
      BY <2>1 DEF Apart
    <3>3. Founded(d) => ~NameTaken(NameOf[call[d].workspace])'
      <4>1. SUFFICES ASSUME Founded(d), NEW w \in workspaces',
                            NameOf[w] = NameOf[call[d].workspace]
                     PROVE  FALSE
        BY <2>1 DEF NameTaken
      <4>2. w \notin workspaces
        BY <2>1, <4>1 DEF Known, RowsKnown, NameTaken
      <4>3. Founding(c) /\ w = q.workspace
        BY <4>2, CommitEffect
      <4>4. Founded(c)
        BY <4>3 DEF Commit, Founded
      <4>5. QED
        BY <2>1, <4>1, <4>3, <4>4 DEF Apart
    <3>4. call[d].pc = "commit" => ~KeyTaken(Key(call[d].user))'
      <4>1. SUFFICES ASSUME call[d].pc = "commit", NEW u \in users', Key(u) = Key(call[d].user)
                     PROVE  FALSE
        BY <2>1 DEF KeyTaken, Key
      <4>2. u \notin users
        BY <2>1, <4>1 DEF Known, RowsKnown, KeyTaken
      <4>3. u = q.user
        BY <4>2, CommitEffect
      <4>4. QED
        BY <2>1, <4>1, <4>3 DEF Commit, Apart
    <3>5. /\ Creating(d)' <=> Creating(d)
          /\ Founding(d)' <=> Founding(d)
          /\ Founded(d)' <=> Founded(d)
      BY <2>1 DEF Creating, Founding, Founded
    <3>6. workspaces \subseteq workspaces' /\ users' = users \cup {q.user}
          /\ workspaces' = workspaces \cup (IF Founding(c) THEN {q.workspace} ELSE {})
      BY CommitEffect
    <3>7. Creating(d)' => call'[d].user \in Users \ users' /\ Home[call'[d].user] = call'[d].workspace
      BY <2>1, <3>1, <3>5, <3>6 DEF Known, RowsKnown
    <3>8. Founding(d)' => call'[d].workspace \notin workspaces'
      BY <2>1, <3>2, <3>5, <3>6 DEF Known, RowsKnown
    <3>9. QED
      BY <2>1, <3>3, <3>4, <3>5, <3>6, <3>7, <3>8 DEF Known, RowsKnown, Key
  <2>4. RoleKnown(d)'
    <3>1. users \subseteq Users
      BY <1>1 DEF TypeOK
    <3>2. QED
      BY <2>1, <3>1, CommitEffect DEF Known, RoleKnown
  <2>5. QED
    BY <2>2, <2>3, <2>4 DEF Known
<1>7. ASSUME NEW d \in Calls, NEW e \in Calls, d # e PROVE Apart(d, e)'
  <2>1. Apart(d, e)
    BY <1>7 DEF IInv
  <2>2. ~Creating(c)' /\ call'[c].pc # "commit"
    BY CommitEffect DEF Creating
  <2>3. QED
    BY <2>1, <2>2, CommitEffect DEF Apart, Creating, Founding, Founded, Key
<1>8. QED
  BY <1>2, <1>3, <1>4, <1>5, <1>6, <1>7 DEF IInv

LEMMA UpdateEffect ==
  ASSUME IInv, NEW c \in Calls, UpdateRole(c)
  PROVE  LET q == call[c] IN
         /\ Known(c) /\ q.op = "update_role" /\ q.pc = "update"
         /\ q.user \in users /\ Home[q.user] = q.workspace
         /\ q.caller \in users /\ Home[q.caller] = q.workspace
         /\ role'[q.user] = IF q.asked # q.seen THEN q.asked ELSE role[q.user]
         /\ \A v \in Users \ {q.user} : role'[v] = role[v]
         /\ UNCHANGED <<workspaces, users>>
         /\ TypeOK'
         /\ \A d \in Calls :
              /\ met[d] => met'[d]
              /\ /\ call[d].pc \in Open /\ call[d].op = "update_role"
                 /\ call[d].user = q.user /\ call[d].asked = role'[q.user]
                 => met'[d]
         /\ call'[c].pc = "reread_role" /\ call'[c].op = q.op /\ call'[c].caller = q.caller
         /\ call'[c].workspace = q.workspace /\ call'[c].user = q.user
         /\ call'[c].asked = q.asked
         /\ \A d \in Calls \ {c} : call'[d] = call[d]
<1>1. Known(c) /\ TypeOK
  BY DEF IInv
<1>2. call[c].op = "update_role" /\ call[c].pc = "update"
  BY <1>1 DEF UpdateRole, Known, Path
<1>3. /\ call[c].user \in users /\ Home[call[c].user] = call[c].workspace
      /\ call[c].caller \in users /\ Home[call[c].caller] = call[c].workspace
  BY <1>1, <1>2 DEF Known, RowsKnown, RoleKnown, Open
<1>4. call[c] \in CallState /\ users \subseteq Users
  BY <1>1 DEF TypeOK
<1>5. /\ role' \in [Users -> Roles]
      /\ role'[call[c].user] = IF call[c].asked # call[c].seen THEN call[c].asked
                                                               ELSE role[call[c].user]
      /\ \A v \in Users \ {call[c].user} : role'[v] = role[v]
  BY <1>1, <1>3, <1>4 DEF UpdateRole, TypeOK, CallState
<1>6. /\ call' \in [Calls -> CallState]
      /\ call'[c].pc = "reread_role" /\ call'[c].op = call[c].op
      /\ call'[c].caller = call[c].caller
      /\ call'[c].workspace = call[c].workspace /\ call'[c].user = call[c].user
      /\ call'[c].asked = call[c].asked
      /\ \A d \in Calls \ {c} : call'[d] = call[d]
  <2>1. call \in [Calls -> CallState] /\ call' = [call EXCEPT ![c].pc = "reread_role"]
    BY <1>1 DEF UpdateRole, TypeOK
  <2>2. QED
    BY <2>1 DEF CallState, Open
<1>7. /\ met' \in [Calls -> BOOLEAN]
      /\ \A d \in Calls :
           /\ met[d] => met'[d]
           /\ /\ call[d].pc \in Open /\ call[d].op = "update_role"
              /\ call[d].user = call[c].user /\ call[d].asked = role'[call[c].user]
              => met'[d]
  BY Zenon DEF UpdateRole
<1>8. UNCHANGED <<workspaces, users>>
  BY DEF UpdateRole
<1>9. TypeOK'
  BY <1>1, <1>5, <1>6, <1>7, <1>8 DEF TypeOK
<1>10. QED
  BY <1>1, <1>2, <1>3, <1>5, <1>6, <1>7, <1>8, <1>9

LEMMA UpdateRoleKeeps == ASSUME IInv, NEW c \in Calls, UpdateRole(c) PROVE IInv'
<1>1. (TypeOK /\ KeysUnique /\ HomesExist)'
  <2>1. TypeOK' /\ UNCHANGED <<workspaces, users>>
    BY UpdateEffect
  <2>2. QED
    BY <2>1 DEF IInv, KeysUnique, HomesExist, Key
<1>2. ASSUME NEW d \in Calls PROVE Known(d)'
  <2>1. Known(d) /\ users \subseteq Users
    BY DEF IInv, TypeOK
  <2>2. CASE d = c
    <3>1. Path(c)' /\ RowsKnown(c)'
      BY <2>1, <2>2, UpdateEffect DEF Known, Path, RowsKnown, Creating, Founding, Founded, Open
    <3>2. call[c].seen = call[c].asked => met[c]
      BY <2>1, <2>2, UpdateEffect DEF Known, RoleKnown
    <3>3. call[c].asked # call[c].seen => role'[call[c].user] = call[c].asked
      BY UpdateEffect
    <3>4. met'[c]
      BY <3>2, <3>3, UpdateEffect DEF Open
    <3>5. RoleKnown(c)'
      BY <3>4, UpdateEffect DEF RoleKnown, Open
    <3>6. QED
      BY <2>2, <3>1, <3>5 DEF Known
  <2>3. CASE d # c
    <3>1. call'[d] = call[d]
      BY <2>3, UpdateEffect
    <3>2. Path(d)' /\ RowsKnown(d)'
      BY <2>1, <3>1, UpdateEffect DEF Known, Path, RowsKnown, Creating, Founding, Founded,
         NameTaken, KeyTaken, Key
    <3>3. met[d] => met'[d]
      BY UpdateEffect
    <3>4. ASSUME call[d].pc \in Open, call[d].op = "update_role", role'[call[d].user] = call[d].asked
          PROVE  met'[d]
      BY <2>1, <3>3, <3>4, UpdateEffect DEF Known, RoleKnown
    <3>5. RoleKnown(d)'
      BY <2>1, <3>1, <3>3, <3>4, UpdateEffect DEF Known, RoleKnown
    <3>6. QED
      BY <3>2, <3>5 DEF Known
  <2>4. QED
    BY <2>2, <2>3
<1>3. ASSUME NEW d \in Calls, NEW e \in Calls, d # e PROVE Apart(d, e)'
  <2>1. Apart(d, e)
    BY <1>3 DEF IInv
  <2>2. ~Creating(c)' /\ call'[c].pc # "commit"
    BY UpdateEffect DEF Creating
  <2>3. QED
    BY <2>1, <2>2, UpdateEffect DEF Apart, Creating, Founding, Founded, Key
<1>4. QED
  BY <1>1, <1>2, <1>3 DEF IInv

LEMMA StepKeeps == IInv /\ [Next]_vars => IInv'
<1>1. ASSUME IInv, NEW c \in Calls, Arrive(c) \/ Proceed(c) \/ Abandon(c) PROVE IInv'
  BY <1>1, ArriveKeeps, AbandonKeeps, FindWorkspaceKeeps, ListUsersKeeps, InsertWorkspaceKeeps,
     InsertUserKeeps, CommitKeeps, RereadKeeps, FindUserKeeps, UpdateRoleKeeps, RereadRoleKeeps
     DEF Proceed
<1>2. ASSUME IInv, UNCHANGED vars PROVE IInv'
  BY <1>2 DEF IInv, vars, tables, TypeOK, KeysUnique, HomesExist, Known, Path, RowsKnown,
     RoleKnown, Apart, Creating, Founding, Founded, NameTaken, KeyTaken, Key
<1>3. QED
  BY <1>1, <1>2 DEF Next

LEMMA Invariance == Spec => []IInv
  BY InitInv, StepKeeps, PTL DEF Spec

(* Every variable keeps its type, for any number of calls. *)
THEOREM TypeCorrect == Spec => []TypeOK
<1>1. IInv => TypeOK
  BY DEF IInv
<1>2. QED
  BY <1>1, Invariance, PTL

(* A name belongs to one workspace, an address in a workspace to one user, *)
(* however many inserts of it overlap.                                     *)
THEOREM KeysStayUnique == Spec => []KeysUnique
<1>1. IInv => KeysUnique
  BY DEF IInv
<1>2. QED
  BY <1>1, Invariance, PTL

(* No call answers "Workspace not found" once its caller is authorized,    *)
(* and no refresh after a COMMIT misses its row.                           *)
THEOREM NothingLost == Spec => []NeverLost
<1>1. IInv => NeverLost
  BY DEF IInv, Known, Path, NeverLost
<1>2. QED
  BY <1>1, Invariance, PTL

-----------------------------------------------------------------------------
(* The tables change by Commit and UpdateRole only, and a step is of one   *)
(* call.                                                                   *)
LEMMA OneAtATime ==
  ASSUME IInv, NEW c \in Calls, Arrive(c) \/ Proceed(c) \/ Abandon(c)
  PROVE  /\ \A d \in Calls \ {c} : call'[d] = call[d]
         /\ Commit(c) \/ UpdateRole(c) \/ UNCHANGED tables
<1>1. call \in [Calls -> CallState]
  BY DEF IInv, TypeOK
<1>2. CASE Arrive(c)
  BY <1>1, <1>2 DEF Arrive, BeginFounding, Begin, Answer
<1>3. CASE Proceed(c)
  BY <1>1, <1>3 DEF Proceed, FindWorkspace, ListUsers, InsertWorkspace, InsertUser, Commit,
     Reread, FindUser, UpdateRole, RereadRole, Answer, Goto
<1>4. CASE Abandon(c)
  BY <1>1, <1>4 DEF Abandon, Answer
<1>5. QED
  BY <1>2, <1>3, <1>4

(* Who is answered 409 and by which statement. *)
LEMMA ConflictOf ==
  ASSUME IInv, NEW c \in Calls, Arrive(c) \/ Proceed(c) \/ Abandon(c),
         call[c].pc # "conflict", call'[c].pc = "conflict"
  PROVE  InsertWorkspace(c) \/ InsertUser(c)
<1>1. call \in [Calls -> CallState]
  BY DEF IInv, TypeOK
<1>2. ASSUME NEW pc, Answer(c, pc) PROVE pc = "conflict"
  BY <1>1, <1>2 DEF Answer, Answered
<1>3. ASSUME NEW pc, Goto(c, pc) PROVE pc = "conflict"
  BY <1>1, <1>3 DEF Goto, CallState
<1>4. ~Arrive(c)
  BY <1>1, <1>2 DEF Arrive, BeginFounding, Begin
<1>5. ~Abandon(c)
  BY <1>2 DEF Abandon
<1>6. ~FindWorkspace(c) /\ ~ListUsers(c) /\ ~Reread(c) /\ ~RereadRole(c)
  BY <1>2, <1>3 DEF FindWorkspace, ListUsers, Reread, RereadRole
<1>7. ~Commit(c) /\ ~UpdateRole(c) /\ ~FindUser(c)
  BY <1>1, <1>2 DEF Commit, UpdateRole, FindUser, CallState
<1>8. QED
  BY <1>4, <1>5, <1>6, <1>7 DEF Proceed

(* A 409 is answered for a committed name or address only.                 *)
THEOREM ConflictsAreFounded == Spec => ConflictFounded
<1> DEFINE Founded409(c) ==
      call[c].pc # "conflict" /\ call'[c].pc = "conflict" =>
         IF call[c].pc = "insert_workspace" THEN NameTaken(NameOf[call[c].workspace])
                                            ELSE KeyTaken(Key(call[c].user))
<1>1. ASSUME IInv, Next, NEW d \in Calls PROVE Founded409(d)
  <2>1. PICK c \in Calls : Arrive(c) \/ Proceed(c) \/ Abandon(c)
    BY <1>1 DEF Next
  <2>2. CASE d # c
    BY <1>1, <2>1, <2>2, OneAtATime
  <2>3. CASE d = c
    <3>1. SUFFICES ASSUME call[c].pc # "conflict", call'[c].pc = "conflict"
                   PROVE  Founded409(c)
      BY <2>3
    <3>2. call \in [Calls -> CallState]
      BY <1>1 DEF IInv, TypeOK
    <3>3. InsertWorkspace(c) => Founded409(c)
      BY <3>1, <3>2 DEF InsertWorkspace, Goto, CallState
    <3>4. InsertUser(c) => Founded409(c)
      BY <3>1, <3>2 DEF InsertUser, Goto, CallState
    <3>5. QED
      BY <1>1, <2>1, <3>1, <3>3, <3>4, ConflictOf
  <2>4. QED
    BY <2>2, <2>3
<1>2. IInv /\ [Next]_vars => [\A c \in Calls : Founded409(c)]_vars
  BY <1>1
<1>3. QED
  BY <1>2, Invariance, PTL DEF Spec, ConflictFounded

(* A workspace loses its last admin only by an admin who demotes himself,  *)
(* or by one who had been demoted himself when he wrote.                   *)
THEOREM AdminlessIsExplained == Spec => AdminlessExplained
<1> DEFINE Explained(w) ==
      ~HasAdmin(w)' =>
         \/ w \in workspaces /\ ~HasAdmin(w)
         \/ \E c \in Calls :
              /\ call[c].pc = "update" /\ call'[c].pc = "reread_role"
              /\ call[c].workspace = w /\ call[c].asked = "user"
              /\ call[c].caller = call[c].user \/ role[call[c].caller] # "admin"
<1>1. ASSUME IInv, Next, NEW w \in workspaces' PROVE Explained(w)
  <2>1. PICK c \in Calls : Arrive(c) \/ Proceed(c) \/ Abandon(c)
    BY <1>1 DEF Next
  <2>2. users \subseteq Users /\ role \in [Users -> Roles]
    BY <1>1 DEF IInv, TypeOK
  <2>3. CASE UNCHANGED tables
    BY <1>1, <2>3 DEF tables, HasAdmin
  <2>4. CASE Commit(c)
    <3>1. HasAdmin(w) => HasAdmin(w)'
      <4>1. SUFFICES ASSUME NEW u \in users, Home[u] = w, role[u] = "admin"
                     PROVE  u \in users' /\ role'[u] = "admin"
        BY DEF HasAdmin
      <4>2. QED
        BY <1>1, <2>2, <2>4, <4>1, CommitEffect
    <3>2. CASE w \in workspaces
      BY <3>1, <3>2
    <3>3. CASE w \notin workspaces
      <4>1. Founding(c) /\ w = call[c].workspace
        BY <1>1, <2>4, <3>3, CommitEffect
      <4>2. call[c].asked = "admin" /\ Home[call[c].user] = w
        BY <1>1, <2>4, <4>1, CommitEffect DEF Known, Path, RowsKnown, Founding, Commit, Open
      <4>3. QED
        BY <1>1, <2>4, <4>2, CommitEffect DEF HasAdmin
    <3>4. QED
      BY <3>2, <3>3
  <2>5. CASE UpdateRole(c)
    <3>1. SUFFICES ASSUME ~HasAdmin(w)', NEW a \in users, Home[a] = w, role[a] = "admin"
                   PROVE  Explained(w)
      BY <1>1, <2>5, UpdateEffect DEF HasAdmin
    <3>2. a = call[c].user /\ role'[a] # "admin"
      BY <1>1, <2>2, <2>5, <3>1, UpdateEffect DEF HasAdmin
    <3>3. call[c].asked = "user" /\ call[c].workspace = w
      <4>1. call[c].asked \in Roles
        BY <1>1 DEF IInv, TypeOK, CallState
      <4>2. QED
        BY <1>1, <2>5, <3>1, <3>2, <4>1, UpdateEffect DEF Roles
    <3>4. call[c].caller = call[c].user \/ role[call[c].caller] # "admin"
      BY <1>1, <2>2, <2>5, <3>1, <3>3, UpdateEffect DEF HasAdmin
    <3>5. QED
      BY <1>1, <2>5, <3>3, <3>4, UpdateEffect
  <2>6. QED
    BY <1>1, <2>1, <2>3, <2>4, <2>5, OneAtATime
<1>2. IInv /\ [Next]_vars => [\A w \in workspaces' : Explained(w)]_vars
  BY <1>1
<1>3. QED
  BY <1>2, Invariance, PTL DEF Spec, AdminlessExplained

(* A role change that is answered 200 was in force during the call.        *)
THEOREM RoleUpdatesTakeEffect == Spec => RoleUpdateTookEffect
<1> DEFINE TookEffect == \A c \in Calls :
      call[c].pc = "reread_role" /\ call'[c].pc = "ok" => met[c]
<1>1. IInv => TookEffect
  BY DEF IInv, Known, RoleKnown
<1>2. IInv /\ [Next]_vars => [TookEffect]_vars
  BY <1>1
<1>3. QED
  BY <1>2, Invariance, PTL DEF Spec, RoleUpdateTookEffect

(* Users appear and change by calls of their own workspace only.           *)
THEOREM ChangesStayHome == Spec => StaysHome
<1> DEFINE AtHome(u) ==
      (u \in users' \ users \/ role'[u] # role[u]) =>
         \E c \in Calls :
           /\ call'[c] # call[c]
           /\ call[c].workspace = Home[u]
           /\ \/ call[c].op = "create_workspace" /\ Home[u] \notin workspaces
              \/ call[c].caller \in users /\ Home[call[c].caller] = Home[u]
<1>1. ASSUME IInv, Next, NEW u \in Users PROVE AtHome(u)
  <2>1. PICK c \in Calls : Arrive(c) \/ Proceed(c) \/ Abandon(c)
    BY <1>1 DEF Next
  <2>2. SUFFICES ASSUME u \in users' \ users \/ role'[u] # role[u] PROVE AtHome(u)
    OBVIOUS
  <2>3. CASE Commit(c)
    <3>1. u = call[c].user /\ Home[u] = call[c].workspace
      BY <1>1, <2>2, <2>3, CommitEffect DEF Known, RowsKnown
    <3>2. call[c].op = "create_workspace" => Home[u] \notin workspaces
      BY <1>1, <2>3, <3>1, CommitEffect DEF Known, RowsKnown, Founding
    <3>3. call[c].op # "create_workspace" => call[c].caller \in users /\ Home[call[c].caller] = Home[u]
      BY <1>1, <2>3, <3>1, CommitEffect DEF Known, RowsKnown, Commit, Open
    <3>4. call'[c] # call[c]
      BY <1>1, <2>3, CommitEffect DEF Commit
    <3>5. QED
      BY <3>1, <3>2, <3>3, <3>4
  <2>4. CASE UpdateRole(c)
    <3>1. u = call[c].user
      BY <1>1, <2>2, <2>4, UpdateEffect
    <3>2. call'[c] # call[c]
      BY <1>1, <2>4, UpdateEffect
    <3>3. call[c].caller \in users /\ Home[call[c].caller] = Home[u] /\ call[c].workspace = Home[u]
      BY <1>1, <2>4, <3>1, UpdateEffect
    <3>4. QED
      BY <3>2, <3>3
  <2>5. QED
    BY <1>1, <2>1, <2>2, <2>3, <2>4, OneAtATime DEF tables
<1>2. IInv /\ [Next]_vars => [\A u \in Users : AtHome(u)]_vars
  BY <1>1
<1>3. QED
  BY <1>2, Invariance, PTL DEF Spec, StaysHome

-----------------------------------------------------------------------------
Row(u, r) == [workspace |-> Home[u], email |-> EmailOf[u], user |-> u, role |-> r]
Holders == {<<NameOf[w], w>> : w \in workspaces}
Members == {Row(u, role[u]) : u \in users}

LEMMA InitMaps == Init => R!Init
<1>1. SUFFICES ASSUME Init PROVE Holders \subseteq Names \X Workspaces /\ Members \subseteq R!Member
  BY DEF R!Init, Holders, Members, Row
<1>2. workspaces \subseteq Workspaces /\ users \subseteq Users /\ role \in [Users -> Roles]
  BY <1>1, SeedAssumption DEF Init, Roles
<1>3. QED
  BY <1>2 DEF Holders, Members, Row, R!Member

LEMMA CommitMaps ==
  ASSUME IInv, NEW c \in Calls, Commit(c)
  PROVE  R!Next
<1> DEFINE q == call[c]
<1>0. PICK m : m = Row(q.user, q.asked)
  OBVIOUS
<1>1. /\ users \subseteq Users /\ workspaces \subseteq Workspaces /\ role \in [Users -> Roles]
      /\ HomesExist
  BY DEF IInv, TypeOK
<1>2. Known(c) /\ Creating(c) /\ Home[q.user] = q.workspace /\ q.user \in Users \ users
  BY CommitEffect DEF Known, RowsKnown
<1>3. m \in R!Member
  BY <1>0, <1>2, CommitEffect DEF R!Member, Row
<1>4. Members' = Members \cup {m}
  <2>1. \A u \in users : role'[u] = role[u]
    BY <1>1, <1>2, CommitEffect
  <2>2. role'[q.user] = q.asked
    BY CommitEffect
  <2>3. users' = users \cup {q.user}
    BY CommitEffect
  <2>4. QED
    BY <1>0, <2>1, <2>2, <2>3 DEF Members
<1>5. m \notin Members
  BY <1>0, <1>2 DEF Members, Row
<1>6. CASE Founding(c)
  <2>1. workspaces' = workspaces \cup {q.workspace} /\ q.workspace \notin workspaces
    BY <1>2, <1>6, CommitEffect DEF Known, RowsKnown
  <2>2. Holders' = Holders \cup {<<NameOf[q.workspace], q.workspace>>}
    BY <2>1 DEF Holders
  <2>3. ~NameTaken(NameOf[q.workspace]) /\ q.asked = "admin"
    BY <1>2, <1>6 DEF Commit, Known, Path, RowsKnown, Founding, Founded, Open
  <2>4. ~R!Known(m.workspace)
    BY <1>0, <1>2, <2>1 DEF R!Known, Row
  <2>5. R!Free(NameOf[q.workspace])
    BY <2>3 DEF R!Free, NameTaken
  <2>6. NameOf[q.workspace] \in Names
    BY CommitEffect
  <2>7. R!Found(m)
    <3>1. m.workspace = q.workspace /\ m.role = "admin"
      BY <1>0, <1>2, <2>3 DEF Row
    <3>2. \E n \in Names : R!Free(n) /\ Holders' = Holders \cup {<<n, m.workspace>>}
      BY <2>2, <2>5, <2>6, <3>1
    <3>3. QED
      BY <1>4, <2>4, <3>1, <3>2 DEF R!Found, Holders, Members, Row
  <2>8. QED
    <3>1. m \in R!Member \cap (Members' \ Members)
      BY <1>3, <1>4, <1>5
    <3>2. \E x \in R!Member \cap (Members' \ Members) : R!Found(x) \/ R!Enroll(x)
      BY <3>1, <2>7
    <3>3. QED
      BY <3>2 DEF R!Next, Members, Row
<1>7. CASE ~Founding(c)
  <2>1. workspaces' = workspaces
    BY <1>7, CommitEffect
  <2>2. q.workspace \in workspaces
    BY <2>1, CommitEffect
  <2>3. R!Known(m.workspace)
    <3>1. <<NameOf[q.workspace], q.workspace>> \in Holders
      BY <2>2 DEF Holders
    <3>2. m.workspace = q.workspace /\ <<NameOf[q.workspace], q.workspace>>[2] = q.workspace
      BY <1>0, <1>2 DEF Row
    <3>3. QED
      BY <3>1, <3>2 DEF R!Known, Holders
  <2>4. ~KeyTaken(Key(q.user))
    BY <1>2 DEF Commit, Known, RowsKnown
  <2>5. R!Unlisted(m.workspace, m.email)
    BY <1>0, <1>2, <2>4 DEF R!Unlisted, KeyTaken, Key, Row
  <2>6. R!Enroll(m)
    BY <1>4, <2>1, <2>3, <2>5 DEF R!Enroll, Members, Row
  <2>7. QED
    <3>1. m \in R!Member \cap (Members' \ Members)
      BY <1>3, <1>4, <1>5
    <3>2. \E x \in R!Member \cap (Members' \ Members) : R!Found(x) \/ R!Enroll(x)
      BY <3>1, <2>6
    <3>3. QED
      BY <3>2 DEF R!Next, Members, Row
<1>8. QED
  BY <1>6, <1>7

LEMMA UpdateMaps ==
  ASSUME IInv, NEW c \in Calls, UpdateRole(c)
  PROVE  R!Next \/ UNCHANGED R!registry
<1>0. PICK u, m, r : u = call[c].user /\ m = Row(u, role[u]) /\ r = role'[u]
  OBVIOUS
<1>1. users \subseteq Users /\ role \in [Users -> Roles] /\ u \in users /\ TypeOK'
  BY <1>0, UpdateEffect DEF IInv, TypeOK
<1>2. UNCHANGED <<workspaces, users>> /\ \A v \in users \ {u} : role'[v] = role[v]
  BY <1>0, <1>1, UpdateEffect
<1>3. r \in Roles
  BY <1>0, <1>1, <1>2 DEF TypeOK
<1>4. Row(u, r) = [m EXCEPT !.role = r]
  BY <1>0 DEF Row
<1>5. Members' = (Members \ {m}) \cup {[m EXCEPT !.role = r]}
  <2>1. \A v \in users \ {u} : Row(v, role[v]) # m
    BY <1>0 DEF Row
  <2>2. Members' = {Row(v, role[v]) : v \in users \ {u}} \cup {Row(u, r)}
    BY <1>0, <1>1, <1>2 DEF Members
  <2>3. Members \ {m} = {Row(v, role[v]) : v \in users \ {u}}
    BY <1>0, <1>1, <2>1 DEF Members
  <2>4. QED
    BY <1>4, <2>2, <2>3
<1>6. R!Appoint(m, r)
  BY <1>2, <1>5 DEF R!Appoint, Members, Row
<1>7. m \in Members
  BY <1>0, <1>1 DEF Members
<1>8. \E x \in Members, y \in Roles : R!Appoint(x, y)
  BY <1>3, <1>6, <1>7
<1>9. QED
  BY <1>8 DEF R!Next, Members, Row

(* Every step of every call is a step of the registry, or none.            *)
THEOREM ImplementsRegistry == Spec => RegistrySpec
<1>1. ASSUME IInv, [Next]_vars PROVE [R!Next]_R!registry
  <2>1. CASE UNCHANGED tables
    BY <2>1 DEF tables, R!registry
  <2>2. CASE \E c \in Calls : Commit(c) \/ UpdateRole(c)
    BY <1>1, <2>2, CommitMaps, UpdateMaps
  <2>3. QED
    BY <1>1, <2>1, <2>2, OneAtATime DEF Next, vars, tables
<1>2. QED
  BY <1>1, InitMaps, Invariance, PTL DEF Spec, RegistrySpec, R!Spec

-----------------------------------------------------------------------------
(* Store lets any role change at any moment, and knows the users there are *)
(* and will be.  These endpoints change its tables in no other way; the    *)
(* ones of resources and policies are not in this module.                  *)
Tables == INSTANCE Store WITH
            NoPolicy <- NoUser, WorkspaceOf <- Home,
            Resources <- {}, Catalogue <- {}, SeedResources <- {}, SeedLinks <- {},
            resources <- {}, policies <- {}, links <- {}, born <- {}, written <- {}

(* A new user's role, and an update of one, each is one ChangeRole.        *)
THEOREM ImplementsRoleChanges == Spec => Tables!StoreSpec
<1>1. Init => Tables!StoreInit
  BY DEF Init, Tables!StoreInit, Roles, Tables!Roles
<1>2. ASSUME IInv, [Next]_vars PROVE [Tables!Write]_(Tables!store)
  <2>1. CASE UNCHANGED tables
    BY <2>1 DEF tables, Tables!store
  <2>2. ASSUME NEW u \in Users, NEW r \in Roles, role' = [role EXCEPT ![u] = r]
        PROVE  Tables!Write
    <3>1. Tables!ChangeRole(u, r)
      BY <2>2 DEF Tables!ChangeRole
    <3>2. r \in Tables!Roles
      BY DEF Roles, Tables!Roles
    <3> QED
      BY <3>1, <3>2 DEF Tables!Write
  <2>3. ASSUME NEW c \in Calls, Commit(c) PROVE Tables!Write
    <3>1. call[c].user \in Users /\ call[c].asked \in Roles
      BY <1>2, <2>3, CommitEffect DEF IInv, TypeOK, CallState, Known, RowsKnown
    <3> QED
      BY <2>2, <2>3, <3>1 DEF Commit
  <2>4. ASSUME NEW c \in Calls, UpdateRole(c) PROVE Tables!Write \/ UNCHANGED tables
    <3>1. call[c].user \in Users /\ call[c].asked \in Roles /\ role \in [Users -> Roles]
      BY <1>2, <2>4, UpdateEffect DEF IInv, TypeOK, CallState
    <3>2. CASE call[c].asked # call[c].seen
      BY <2>2, <2>4, <3>1, <3>2 DEF UpdateRole
    <3>3. CASE call[c].asked = call[c].seen
      BY <2>4, <3>1, <3>3 DEF UpdateRole, tables
    <3> QED
      BY <3>2, <3>3
  <2> QED
    BY <1>2, <2>1, <2>3, <2>4, OneAtATime DEF Next, vars, tables, Tables!store
<1> QED
  BY <1>1, <1>2, Invariance, PTL DEF Spec, Tables!StoreSpec

-----------------------------------------------------------------------------
(* A call that waits for the end of another's transaction                  *)
WaitsFor(c, d) ==
  \/ call[c].pc = "insert_workspace" /\ HoldsName(d, NameOf[call[c].workspace])
  \/ call[c].pc = "insert_user" /\ HoldsKey(d, Key(call[c].user))

(* No call waits for one that waits itself. *)
NoChains == \A c, d, e \in Calls : WaitsFor(c, d) => ~WaitsFor(d, e)

(* create_with_admin inserts two unique keys in one flush, and so holds    *)
(* the first when it asks for the second.  Two overlapping calls still     *)
(* cannot wait for each other: the second key is within the workspace just *)
(* inserted, where nobody else can insert.                                 *)
THEOREM NobodyWaitsForAWaiter == Spec => []NoChains
<1>1. IInv => NoChains
  <2>1. SUFFICES ASSUME IInv, NEW c \in Calls, NEW d \in Calls, NEW e \in Calls,
                        WaitsFor(c, d), WaitsFor(d, e)
                 PROVE  FALSE
    BY DEF NoChains
  <2>2. call[d].op = "create_workspace" /\ call[d].pc = "insert_user"
        /\ call[e].pc = "commit" /\ Key(call[e].user) = Key(call[d].user)
    BY <2>1 DEF WaitsFor, HoldsName, HoldsKey
  <2>3. Founded(d) /\ Creating(e) /\ d # e
    <3>1. Path(e)
      BY <2>1 DEF IInv, Known
    <3>2. QED
      BY <2>2, <3>1 DEF Founded, Founding, Creating, Path
  <2>4. /\ Home[call[d].user] = call[d].workspace
        /\ Home[call[e].user] = call[e].workspace
        /\ call[d].workspace \notin workspaces
    <3>1. RowsKnown(d) /\ RowsKnown(e)
      BY <2>1 DEF IInv, Known
    <3>2. QED
      BY <2>3, <3>1 DEF RowsKnown, Founded, Founding
  <2>5. call[e].workspace = call[d].workspace
    BY <2>2, <2>4 DEF Key
  <2>6. CASE call[e].op = "create_workspace"
    <3>1. Apart(d, e)
      BY <2>1, <2>3 DEF IInv
    <3>2. QED
      BY <2>3, <2>5, <2>6, <3>1 DEF Apart, Founded, Founding
  <2>7. CASE call[e].op # "create_workspace"
    <3>1. call[e].workspace \in workspaces
      BY <2>1, <2>2, <2>7 DEF IInv, Known, RowsKnown, HomesExist, Open
    <3>2. QED
      BY <2>4, <2>5, <3>1
  <2>8. QED
    BY <2>6, <2>7
<1>2. QED
  BY <1>1, Invariance, PTL

(* The statements a call has left at most. *)
StepsLeft(pc) ==
  CASE pc \in {"insert_workspace", "authorized"} -> 4
    [] pc \in {"insert_user", "find"} -> 3
    [] pc \in {"commit", "update"} -> 2
    [] pc \in {"reread", "reread_role", "list"} -> 1
    [] OTHER -> 0

LEMMA StepShrinks ==
  ASSUME IInv, NEW c \in Calls, Proceed(c) \/ Abandon(c)
  PROVE  StepsLeft(call'[c].pc) < StepsLeft(call[c].pc)
<1>1. call \in [Calls -> CallState]
  BY DEF IInv, TypeOK
<1>2. ASSUME NEW pc, Goto(c, pc) PROVE call'[c].pc = pc
  BY <1>1, <1>2 DEF Goto, CallState
<1>3. ASSUME NEW pc \in Closed, Answer(c, pc), call[c].pc \in Open
      PROVE  StepsLeft(call'[c].pc) < StepsLeft(call[c].pc)
  <2>1. call'[c].pc = pc
    BY <1>1, <1>3 DEF Answer, Answered
  <2>2. StepsLeft(pc) = 0 /\ StepsLeft(call[c].pc) \in 1..4
    BY <1>3 DEF StepsLeft, Open, Closed
  <2>3. QED
    BY <2>1, <2>2
<1>4. CASE FindWorkspace(c)
  <2>1. call[c].pc = "authorized" /\ call[c].pc \in Open
    BY <1>4 DEF FindWorkspace, Open
  <2>2. CASE \E pc \in Closed : Answer(c, pc)
    BY <1>3, <2>1, <2>2
  <2>3. CASE \E pc \in {"insert_user", "find", "list"} : Goto(c, pc)
    BY <1>2, <2>1, <2>3 DEF StepsLeft
  <2>4. QED
    BY <1>4, <2>2, <2>3 DEF FindWorkspace, Closed
<1>5. CASE ListUsers(c) \/ Reread(c) \/ RereadRole(c) \/ Abandon(c)
  <2>1. call[c].pc \in Open /\ \E pc \in Closed : Answer(c, pc)
    BY <1>5 DEF ListUsers, Reread, RereadRole, Abandon, Open, Closed
  <2>2. QED
    BY <1>3, <2>1
<1>6. CASE InsertWorkspace(c)
  <2>1. call[c].pc = "insert_workspace" /\ call[c].pc \in Open
    BY <1>6 DEF InsertWorkspace, Open
  <2>2. CASE Goto(c, "insert_user")
    BY <1>2, <2>1, <2>2 DEF StepsLeft
  <2>3. QED
    BY <1>3, <1>6, <2>1, <2>2 DEF InsertWorkspace, Closed
<1>7. CASE InsertUser(c)
  <2>1. call[c].pc = "insert_user" /\ call[c].pc \in Open
    BY <1>7 DEF InsertUser, Open
  <2>2. CASE Goto(c, "commit")
    BY <1>2, <2>1, <2>2 DEF StepsLeft
  <2>3. QED
    BY <1>3, <1>7, <2>1, <2>2 DEF InsertUser, Closed
<1>8. CASE Commit(c)
  <2>1. call[c].pc = "commit" /\ call'[c].pc = "reread"
    BY <1>1, <1>8 DEF Commit, CallState
  <2>2. QED
    BY <2>1 DEF StepsLeft
<1>9. CASE FindUser(c)
  <2>1. call[c].pc = "find" /\ call[c].pc \in Open
    BY <1>9 DEF FindUser, Open
  <2>2. CASE Answer(c, "not_found")
    BY <1>3, <2>1, <2>2 DEF Closed
  <2>3. CASE ~Answer(c, "not_found")
    <3>1. call'[c].pc = "update"
      BY <1>1, <1>9, <2>3 DEF FindUser, CallState
    <3>2. QED
      BY <2>1, <3>1 DEF StepsLeft
  <2>4. QED
    BY <2>2, <2>3
<1>10. CASE UpdateRole(c)
  <2>1. call[c].pc = "update" /\ call'[c].pc = "reread_role"
    BY <1>1, <1>10 DEF UpdateRole, CallState
  <2>2. QED
    BY <2>1 DEF StepsLeft
<1>11. QED
  BY <1>4, <1>5, <1>6, <1>7, <1>8, <1>9, <1>10 DEF Proceed

(* The services of workspaces and users retry nothing: a call is answered  *)
(* after four statements at most, whatever other calls do meanwhile.       *)
THEOREM EveryStepBringsTheAnswerNearer ==
  Spec => [][\A c \in Calls :
               call[c].pc \in Open /\ call'[c] # call[c] =>
                 StepsLeft(call'[c].pc) < StepsLeft(call[c].pc)]_vars
<1> DEFINE Nearer(c) == call[c].pc \in Open /\ call'[c] # call[c] =>
                          StepsLeft(call'[c].pc) < StepsLeft(call[c].pc)
<1>1. ASSUME IInv, Next, NEW c \in Calls PROVE Nearer(c)
  <2>1. SUFFICES ASSUME call[c].pc \in Open, call'[c] # call[c] PROVE Nearer(c)
    OBVIOUS
  <2>2. Proceed(c) \/ Abandon(c)
    <3>1. ~Arrive(c)
      BY <2>1 DEF Arrive, BeginFounding, Begin, Open, Closed
    <3>2. Arrive(c) \/ Proceed(c) \/ Abandon(c)
      BY <1>1, <2>1, OneAtATime DEF Next
    <3>3. QED
      BY <3>1, <3>2
  <2>3. QED
    BY <1>1, <2>2, StepShrinks
<1>2. IInv /\ [Next]_vars => [\A c \in Calls : Nearer(c)]_vars
  BY <1>1
<1>3. QED
  BY <1>2, Invariance, PTL DEF Spec
=============================================================================
