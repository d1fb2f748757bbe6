\* Two connections, one SIGHUP: does the server exit after SIGHUP?
CONSTANTS
  Conns <- MC2
  MAX_CLIENTS = 2
  SigTargets <- BothTargets
  MaxSignals = 1
SPECIFICATION Spec
PROPERTY ShutdownCompletes
\* The server idles in accept once no client connects, and stops at exit().
CHECK_DEADLOCK FALSE
