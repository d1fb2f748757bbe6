\* Two clients, two player names, one-slot tables, two invitations in a
\* behaviour, games of up to five moves (the first move that can win).
CONSTANTS
  Clients <- MC2
  n1 = n1
  n2 = n2
  Names <- MCNames
  SlotCap = 1
  MaxInv = 2
  MaxMoves = 5
  NoInv = NoInv
  NoPlayer = NoPlayer
  NoClient = NoClient
SPECIFICATION Spec
VIEW StateView
SYMMETRY NameSymmetry
INVARIANT TypeOK
INVARIANT SlotPairing
INVARIANT RefCountsMatch
INVARIANT LiveGameReachable
PROPERTY InvitationMachine
CHECK_DEADLOCK FALSE
