\* Three connections, a registry of two, one SIGHUP that may land on the
\* main thread or on a service thread: does the main thread always leave
\* the accept loop?
CONSTANTS
  Conns <- MC3
  MAX_CLIENTS = 2
  SigTargets <- BothTargets
  MaxSignals = 1
SPECIFICATION Spec
INVARIANT TypeOK
PROPERTY SignalStopsAccepting
PROPERTY ShutdownReachesRegistered
\* The server idles in accept once no client connects, and stops at exit().
CHECK_DEADLOCK FALSE
