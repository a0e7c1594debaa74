SPECIFICATION Spec
CONSTANTS
  u1 = u1
  u2 = u2
  Users = {u1, u2}
  NoPolicy = NoPolicy
  Catalogue <- FiveRows
INVARIANTS
  OneListing
  DecidesAsMeant
PROPERTY OnlyTheWinnerMatters
