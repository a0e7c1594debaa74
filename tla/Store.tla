------------------------------- MODULE Store -------------------------------
(***************************************************************************)
(* The committed contents of the tables the access decision reads, and the *)
(* committed effect of every endpoint that writes them.  Each write is one *)
(* transaction and one action; ResourceAdmin shows, statement by           *)
(* statement, that the endpoints do no more than these actions.            *)
(*                                                                         *)
(* Left out because no decision reads it: names, descriptions, statuses.   *)
(* A policy row never changes once inserted (no endpoint updates one), so  *)
(* a policy is its row.  Primary keys come from gen_random_uuid(): a row's *)
(* id is never used again.                                                 *)
(***************************************************************************)
EXTENDS PolicyEngine

CONSTANTS Resources,   \* resource ids
          Catalogue,   \* the policy rows clients may ask for
          Workspaces,
          WorkspaceOf, \* the workspace of a user or a resource
          SeedResources, SeedLinks   \* what the tables hold at the start

ASSUME CatalogueAssumption ==
  /\ Catalogue \subseteq PolicyRows /\ IsFiniteSet(Catalogue)
  /\ \A p, q \in Catalogue : p.id = q.id => p = q
ASSUME WorkspaceAssumption == WorkspaceOf \in [Users \cup Resources -> Workspaces]
ASSUME SeedAssumption ==
  /\ SeedResources \subseteq Resources
  /\ SeedLinks \subseteq SeedResources \X Catalogue
  /\ \A l, m \in SeedLinks : l[2] = m[2] => WorkspaceOf[l[1]] = WorkspaceOf[m[1]]

VARIABLES
  role,        \* users.role
  resources,   \* the rows of resources
  policies,    \* the rows of policies
  links,       \* the rows of effective_policies, as <<resource, policy>>
  born,        \* the resource ids ever inserted
  written      \* the policy rows ever inserted

store == <<role, resources, policies, links, born, written>>

PoliciesOf(x) == {p \in policies : <<x, p>> \in links}

StoreTypeOK ==
  /\ role \in [Users -> Roles]
  /\ resources \in SUBSET born /\ born \in SUBSET Resources
  /\ policies \in SUBSET written /\ written \in SUBSET Catalogue
  /\ links \in SUBSET (Resources \X Catalogue)

(* The tables may hold rows before the first request, a policy linked to   *)
(* several resources included: the schema allows it (a junction table),    *)
(* though no endpoint links a policy to a second resource.                 *)
StoreInit ==
  /\ role \in [Users -> Roles]
  /\ resources = SeedResources /\ born = SeedResources
  /\ policies = {l[2] : l \in SeedLinks} /\ written = policies
  /\ links = SeedLinks

-----------------------------------------------------------------------------
(* ResourceRepository.create *)
CreateResource(x) ==
  /\ x \notin born
  /\ resources' = resources \cup {x}
  /\ born' = born \cup {x}
  /\ UNCHANGED <<role, policies, links, written>>

(* Mutant: the foreign key does not cascade. *)
DeleteWithoutCascade(x) ==
  /\ x \in resources
  /\ resources' = resources \ {x}
  /\ UNCHANGED <<role, policies, links, born, written>>

(* ResourceRepository.delete_by_workspace_id_and_resource_id: the foreign  *)
(* key of effective_policies cascades; policies is not touched.            *)
DeleteResource(x) ==
  /\ x \in resources
  /\ resources' = resources \ {x}
  /\ links' = {l \in links : l[1] # x}
  /\ UNCHANGED <<role, policies, born, written>>

(* Mutant: the columns of the link are swapped. *)
CreateSwapped(p, x) ==
  /\ p \notin written
  /\ x \in resources
  /\ policies' = policies \cup {p}
  /\ written' = written \cup {p}
  /\ links' = links \cup {<<p, x>>}
  /\ UNCHANGED <<role, resources, born>>

(* PolicyRepository.create_for_resource: the row and its first link        *)
CreatePolicy(p, x) ==
  /\ p \notin written
  /\ x \in resources
  /\ policies' = policies \cup {p}
  /\ written' = written \cup {p}
  /\ links' = links \cup {<<x, p>>}
  /\ UNCHANGED <<role, resources, born>>

(* PolicyRepository.delete_for_resource: the link goes, and the policy     *)
(* with its last link.  The test for other links is made before the        *)
(* commit, so a link that a concurrent delete is about to remove may save  *)
(* the policy.                                                             *)
DeletePolicy(p, x) ==
  /\ links' = links \ {<<x, p>>}
  /\ \/ policies' = policies
     \/ /\ \A y \in Resources : <<y, p>> \notin links'
        /\ policies' = policies \ {p}
  /\ UNCHANGED <<role, resources, born, written>>

(* UserRepository.update_role *)
ChangeRole(u, r) ==
  /\ role' = [role EXCEPT ![u] = r]
  /\ UNCHANGED <<resources, policies, links, born, written>>

Write ==
  \/ \E x \in Resources :
       \/ CreateResource(x) \/ DeleteResource(x)
       \/ \E p \in Catalogue : CreatePolicy(p, x) \/ DeletePolicy(p, x)
  \/ \E u \in Users, r \in Roles : ChangeRole(u, r)

StoreSpec == StoreInit /\ [][Write]_store

-----------------------------------------------------------------------------
(* The composite foreign keys: a policy's links stay in one workspace, and *)
(* a link's rows exist, however deletes and creates interleave.            *)
LinksIntact ==
  /\ \A l \in links : l[1] \in resources /\ l[2] \in policies
  /\ \A l, m \in links : l[2] = m[2] => WorkspaceOf[l[1]] = WorkspaceOf[m[1]]
=============================================================================
