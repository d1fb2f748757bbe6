\* An operation on a slot racing with the removal of the last reference.
CONSTANTS
  Clients <- MC2
  n1 = n1
  n2 = n2
  Names <- MCNames
  SlotCap = 1
  MaxInv = 1
  MaxMoves = 0
  NoInv = NoInv
  NoPlayer = NoPlayer
  NoClient = NoClient
SPECIFICATION Spec
VIEW StateView
SYMMETRY NameSymmetry
INVARIANT NoUseAfterFree
CHECK_DEADLOCK FALSE
