\* Two clients, each logging in under a name of its own, each posting one
\* result in either role against the other, one LOGIN ACK allowed to fail:
\* are rating updates kept, does every post return, and does every
\* PLAYER's ref_count cover the references held on it?
CONSTANTS
  c1 = c1
  c2 = c2
  c3 = c3
  a = a
  b = b
  d = d
  Clients <- MCTwo
  Names <- MCTwoNames
  LoginNames <- MCTwoOwnNames
  MaxPosts = 1
  MaxAckFailures = 1
SPECIFICATION Spec
VIEW StateView
INVARIANT TypeOK
INVARIANT RatingUpdatesNotLost
INVARIANT PlayerRefsCover
PROPERTY PostsComplete
