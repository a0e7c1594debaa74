------------------------------ MODULE Registry ------------------------------
(***************************************************************************)
(* What the endpoints of workspaces and users promise, without tables,     *)
(* transactions or overlapping calls: a name is given to one workspace, an *)
(* email address of a workspace to one user, a workspace comes with its    *)
(* first admin, nobody is ever struck off.                                 *)
(***************************************************************************)
CONSTANTS Names, Emails, Workspaces, Users, Roles

VARIABLES
  holders,  \* <<name, workspace>>: who has which name
  members   \* the users

registry == <<holders, members>>

Member == [workspace : Workspaces, email : Emails, user : Users, role : Roles]

(* Whatever is in it at the start *)
Init == holders \subseteq Names \X Workspaces /\ members \subseteq Member

Free(n) == \A h \in holders : h[1] # n
Unlisted(w, e) == \A m \in members : ~(m.workspace = w /\ m.email = e)
Known(w) == \E h \in holders : h[2] = w

(* POST /workspaces/ *)
Found(m) ==
  /\ ~Known(m.workspace) /\ m.role = "admin"
  /\ \E n \in Names : Free(n) /\ holders' = holders \cup {<<n, m.workspace>>}
  /\ members' = members \cup {m}

(* POST /workspaces/{workspace_id}/users/ *)
Enroll(m) ==
  /\ Known(m.workspace) /\ Unlisted(m.workspace, m.email)
  /\ members' = members \cup {m}
  /\ UNCHANGED holders

(* PATCH /workspaces/{workspace_id}/users/{user_id}/ *)
Appoint(m, r) ==
  /\ members' = (members \ {m}) \cup {[m EXCEPT !.role = r]}
  /\ UNCHANGED holders

Next ==
  \/ \E m \in Member \cap (members' \ members) : Found(m) \/ Enroll(m)
  \/ \E m \in members, r \in Roles : Appoint(m, r)

Spec == Init /\ [][Next]_registry
=============================================================================
