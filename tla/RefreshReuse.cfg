SPECIFICATION Spec
CONSTANTS
  Users = {u1}
  Calls = {c1, c2}
  MaxVersion = 2
  NoToken = NoToken
INVARIANT RefreshTokenSpentOnce
