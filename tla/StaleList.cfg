SPECIFICATION Spec
CONSTANTS
  u1 = u1
  u2 = u2
  u3 = u3
  r1 = r1
  r2 = r2
  w1 = w1
  w2 = w2
  Users = {u1}
  Resources = {r1, r2}
  Workspaces = {w1}
  Calls = {c1}
  NoPolicy = NoPolicy
  NoResource = NoResource
  Catalogue <- OnePolicy
  WorkspaceOf <- OneWorkspace
  SeedResources <- NoSeeds
  SeedLinks <- NoSeeds
INVARIANT ListedOnlyEntitled
