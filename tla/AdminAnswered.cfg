SPECIFICATION FairSpec
CONSTANTS
  u1 = u1
  u2 = u2
  r1 = r1
  r2 = r2
  w1 = w1
  w2 = w2
  Users = {u1, u2}
  Resources = {r1}
  Workspaces = {w1, w2}
  Calls = {c1, c2}
  NoPolicy = NoPolicy
  NoResource = NoResource
  MaxPriority = 1
  Catalogue <- OnePolicy
  WorkspaceOf <- TwoWorkspaces
  SeedResources <- NoSeeds
  SeedLinks <- NoSeeds
PROPERTIES
  EveryWriteAnswered
  WritesStayHome
