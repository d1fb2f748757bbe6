\* Two server threads sending to one client (a RESIGNED/ENDED pair and a
\* MOVED with a payload), the client sending two packets with payloads in
\* chunks of any size, one SIGHUP, the client closing and the server
\* shutting the reading side at any point.
CONSTANTS
  t1 = t1
  t2 = t2
  RESIGNED = RESIGNED
  ENDED = ENDED
  MOVED = MOVED
  LOGIN = LOGIN
  INVITE = INVITE
  Senders <- MCSenders
  Script <- MCScript
  PeerPkts <- MCPeerPkts
  PayloadSize <- MCPayloadSize
  HDR = 2
  MaxSignals = 1
SPECIFICATION Spec
INVARIANT TypeOK
INVARIANT WireFramed
INVARIANT RecvIntact
INVARIANT RecvEndsAtEOF
PROPERTY SendsReturn
CHECK_DEADLOCK FALSE
