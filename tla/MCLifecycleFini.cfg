\* Two connections, one SIGHUP: are the registries freed only after the service threads are done?
CONSTANTS
  Conns <- MC2
  MAX_CLIENTS = 2
  SigTargets <- BothTargets
  MaxSignals = 1
SPECIFICATION Spec
INVARIANT FiniAfterDrain
\* The server idles in accept once no client connects, and stops at exit().
CHECK_DEADLOCK FALSE
