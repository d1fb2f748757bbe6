\* Two clients that both log in under one name, then post a result for a
\* game between them.
CONSTANTS
  c1 = c1
  c2 = c2
  c3 = c3
  a = a
  b = b
  d = d
  Clients <- MCPair
  Names <- MCOneName
  LoginNames <- MCPairOneName
  MaxPosts = 1
  MaxAckFailures = 0
SPECIFICATION Spec
PROPERTY PostsComplete
CHECK_DEADLOCK FALSE
