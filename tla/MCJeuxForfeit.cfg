\* A disconnection racing with an INVITE or ACCEPT involving the client.
CONSTANTS
  Clients <- MC2
  n1 = n1
  n2 = n2
  Names <- MCNames
  SlotCap = 1
  MaxInv = 1
  MaxMoves = 0
  NoInv = NoInv
  NoPlayer = NoPlayer
  NoClient = NoClient
SPECIFICATION Spec
VIEW StateView
SYMMETRY NameSymmetry
INVARIANT DisconnectForfeits
CHECK_DEADLOCK FALSE
