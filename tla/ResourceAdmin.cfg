SPECIFICATION Spec
CONSTANTS
  u1 = u1
  u2 = u2
  r1 = r1
  r2 = r2
  w1 = w1
  w2 = w2
  Users = {u1}
  Resources = {r1, r2}
  Workspaces = {w1}
  Calls = {c1, c2}
  NoPolicy = NoPolicy
  NoResource = NoResource
  MaxPriority = 1
  Catalogue <- OneOversized
  WorkspaceOf <- OneWorkspace
  SeedResources <- AllResources
  SeedLinks <- SharedLinks
SYMMETRY Symmetry
INVARIANTS
  TypeOK
  DeletesStick
  ErrorsFounded
  OrphansExplained
  LinksIntact
PROPERTY StoreSpec
