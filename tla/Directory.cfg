SPECIFICATION Spec
CONSTANTS
  w1 = w1
  w2 = w2
  w3 = w3
  u1 = u1
  u2 = u2
  u3 = u3
  u4 = u4
  u5 = u5
  Workspaces = {w1, w2, w3}
  Users = {u1, u2, u3, u4, u5}
  Names = {"n1", "n2"}
  Emails = {"e1", "e2"}
  NameOf <- NameOfRow
  EmailOf <- EmailOfRow
  Home <- HomeOfRow
  SeedWorkspaces = {w1}
  SeedUsers = {u1}
  Calls = {c1, c2}
  NoUser = NoUser
SYMMETRY Symmetry
INVARIANTS
  TypeOK
  KeysUnique
  NeverLost
PROPERTIES
  ConflictFounded
  AdminlessExplained
  RoleUpdateTookEffect
  StaysHome
  RegistrySpec
