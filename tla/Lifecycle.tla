------------------------------ MODULE Lifecycle ------------------------------
(***************************************************************************)
(* The life of the Jeux server process (main.c) and of its client registry *)
(* (client_registry.c): the accept loop of run_server, the SIGHUP handler, *)
(* a service thread per accepted connection that registers its client,    *)
(* serves it until end of stream and unregisters it, and the shutdown of   *)
(* terminate(): creg_shutdown_all, creg_wait_for_empty, creg_fini and      *)
(* preg_fini, exit.                                                        *)
(*                                                                         *)
(* What a service thread does between registering and reading end of       *)
(* stream is modelled in Jeux; here it only waits for its socket to give   *)
(* end of stream, because the peer closed it or creg_shutdown_all shut its *)
(* reading side.  The registry's count_sem starts at 1, is taken when the  *)
(* registry becomes non-empty and given back when it becomes empty.        *)
(***************************************************************************)
EXTENDS Integers, FiniteSets

CONSTANTS
  Conns,        \* the connections clients may open
  MAX_CLIENTS,  \* the registry's capacity (jeux_globals.h)
  SigTargets,   \* the threads the kernel may deliver SIGHUP to: "main", "thread"
  MaxSignals    \* how many SIGHUPs the administrator sends

VARIABLES
  mpc,          \* the main thread's program counter
  flag,         \* terminate_flag
  listenOpen,   \* listenfd is open
  killPending,  \* a SIGHUP sent to the main thread by pthread_kill
  signals,      \* SIGHUPs sent so far
  connected,    \* connections a client has opened
  backlog,      \* connections waiting to be accepted
  lAcc,         \* *newfd: the connection accept returned, or NONE
  tpc,          \* each connection's service thread
  fd,           \* each connection's socket on the server side
  hup,          \* connections whose peer has closed its end
  reg,          \* the connections registered in the client registry
  sem           \* count_sem

vars == <<mpc, flag, listenOpen, killPending, signals, connected, backlog,
          lAcc, tpc, fd, hup, reg, sem>>

NONE == 0   \* accept's -1

\* After exit() no thread runs.
Alive == mpc # "exited"

-----------------------------------------------------------------------------
\* creg_init, then run_server with the socket listening.
Init ==
  /\ mpc = "loop"
  /\ flag = 0
  /\ listenOpen = TRUE
  /\ killPending = FALSE
  /\ signals = 0
  /\ connected = {}
  /\ backlog = {}
  /\ lAcc = NONE
  /\ tpc = [k \in Conns |-> "none"]
  /\ fd = [k \in Conns |-> "none"]
  /\ hup = {}
  /\ reg = {}
  /\ sem = 1

(* The main thread.                                                        *)
\* Line 78: the loop stops when terminate_flag is set.
MainLoop ==
  /\ mpc = "loop"
  /\ mpc' = IF flag = 1 THEN "shutdown" ELSE "accept"
  /\ UNCHANGED <<flag, listenOpen, killPending, signals, connected, backlog, lAcc, tpc, fd, hup, reg, sem>>

\* accept blocks until a connection is waiting; on a closed listenfd it
\* fails at once.
MainAccept ==
  /\ mpc = "accept"
  /\ \/ /\ listenOpen
        /\ \E k \in backlog :
             /\ lAcc' = k
             /\ backlog' = backlog \ {k}
             /\ fd' = [fd EXCEPT ![k] = "open"]
     \/ /\ ~listenOpen
        /\ lAcc' = NONE
        /\ UNCHANGED <<backlog, fd>>
  /\ mpc' = "check"
  /\ UNCHANGED <<flag, listenOpen, killPending, signals, connected, tpc, hup, reg, sem>>

\* Line 83: a connection accepted after SIGHUP is closed.
MainCheck ==
  /\ mpc = "check"
  /\ IF flag = 1
       THEN /\ fd' = IF lAcc # NONE THEN [fd EXCEPT ![lAcc] = "closed"] ELSE fd
            /\ mpc' = "shutdown"
       ELSE /\ mpc' = "create"
            /\ UNCHANGED fd
  /\ UNCHANGED <<flag, listenOpen, killPending, signals, connected, backlog, lAcc, tpc, hup, reg, sem>>

\* Line 90: pthread_create, then the loop condition of line 91.
MainCreate ==
  /\ mpc = "create"
  /\ tpc' = [tpc EXCEPT ![lAcc] = "start"]
  /\ mpc' = IF flag = 1 THEN "shutdown" ELSE "loop"
  /\ UNCHANGED <<flag, listenOpen, killPending, signals, connected, backlog, lAcc, fd, hup, reg, sem>>

\* Mutant: shutdown(fd, SHUT_WR), which leaves a blocked read waiting.
MainShutdownAllWrongSide ==
  /\ mpc = "shutdown"
  /\ mpc' = "wait"
  /\ UNCHANGED <<flag, listenOpen, killPending, signals, connected, backlog, lAcc, tpc, fd, hup, reg, sem>>

\* creg_shutdown_all: shutdown(fd, SHUT_RD) on every registered client.
MainShutdownAll ==
  /\ mpc = "shutdown"
  /\ fd' = [k \in Conns |-> IF k \in reg /\ fd[k] = "open" THEN "shut" ELSE fd[k]]
  /\ mpc' = "wait"
  /\ UNCHANGED <<flag, listenOpen, killPending, signals, connected, backlog, lAcc, tpc, hup, reg, sem>>

\* creg_wait_for_empty: sem_wait blocks until the registry has emptied ...
MainWait ==
  /\ mpc = "wait" /\ sem > 0
  /\ sem' = sem - 1
  /\ mpc' = "post"
  /\ UNCHANGED <<flag, listenOpen, killPending, signals, connected, backlog, lAcc, tpc, fd, hup, reg>>

\* ... and sem_post gives the token back.
MainPost ==
  /\ mpc = "post"
  /\ sem' = sem + 1
  /\ mpc' = "fini"
  /\ UNCHANGED <<flag, listenOpen, killPending, signals, connected, backlog, lAcc, tpc, fd, hup, reg>>

\* creg_fini and preg_fini free the registries.
MainFini ==
  /\ mpc = "fini"
  /\ mpc' = "exit"
  /\ UNCHANGED <<flag, listenOpen, killPending, signals, connected, backlog, lAcc, tpc, fd, hup, reg, sem>>

MainExit ==
  /\ mpc = "exit"
  /\ mpc' = "exited"
  /\ UNCHANGED <<flag, listenOpen, killPending, signals, connected, backlog, lAcc, tpc, fd, hup, reg, sem>>

MainStep == MainLoop \/ MainAccept \/ MainCheck \/ MainCreate \/ MainShutdownAll
              \/ MainWait \/ MainPost \/ MainFini \/ MainExit
-----------------------------------------------------------------------------
(* SIGHUP.  sighup_handler sets terminate_flag; on the main thread it      *)
(* closes listenfd, elsewhere it sends SIGHUP to the main thread.  The     *)
(* handler is installed without SA_RESTART, so a blocking accept or        *)
(* sem_wait on the main thread fails with EINTR when the handler runs      *)
(* during it; the signal may also land just before the call, which then    *)
(* runs as usual.                                                          *)
\* Mutant: the handler leaves listenfd open.
HandleOnMainNoClose ==
  /\ flag' = 1
  /\ UNCHANGED listenOpen
  /\ \E interrupted \in BOOLEAN :
       IF interrupted /\ mpc \in {"accept", "wait"}
         THEN /\ mpc' = IF mpc = "accept" THEN "check" ELSE "post"
              /\ lAcc' = IF mpc = "accept" THEN NONE ELSE lAcc
         ELSE UNCHANGED <<mpc, lAcc>>

HandleOnMain ==
  /\ flag' = 1
  /\ listenOpen' = FALSE
  /\ \E interrupted \in BOOLEAN :
       IF interrupted /\ mpc \in {"accept", "wait"}
         THEN /\ mpc' = IF mpc = "accept" THEN "check" ELSE "post"
              /\ lAcc' = IF mpc = "accept" THEN NONE ELSE lAcc
         ELSE UNCHANGED <<mpc, lAcc>>

\* The administrator's SIGHUP, delivered to the main thread.
SighupMain ==
  /\ Alive /\ signals < MaxSignals /\ "main" \in SigTargets
  /\ signals' = signals + 1
  /\ HandleOnMain
  /\ UNCHANGED <<killPending, connected, backlog, tpc, fd, hup, reg, sem>>

\* The administrator's SIGHUP, delivered to a service thread.
SighupThread ==
  /\ Alive /\ signals < MaxSignals /\ "thread" \in SigTargets
  /\ \E k \in Conns : tpc[k] \in {"start", "serving", "unreg"}
  /\ signals' = signals + 1
  /\ flag' = 1
  /\ killPending' = TRUE
  /\ UNCHANGED <<mpc, listenOpen, connected, backlog, lAcc, tpc, fd, hup, reg, sem>>

\* pthread_kill's SIGHUP reaches the main thread.
DeliverKill ==
  /\ Alive /\ killPending
  /\ killPending' = FALSE
  /\ HandleOnMain
  /\ UNCHANGED <<signals, connected, backlog, tpc, fd, hup, reg, sem>>

-----------------------------------------------------------------------------
(* Clients and service threads.                                            *)
\* A client connects; the connection waits in the listen backlog.
Connect(k) ==
  /\ Alive /\ listenOpen /\ k \notin connected
  /\ connected' = connected \cup {k}
  /\ backlog' = backlog \cup {k}
  /\ UNCHANGED <<mpc, flag, listenOpen, killPending, signals, lAcc, tpc, fd, hup, reg, sem>>

\* The client closes its end of the connection.
Hangup(k) ==
  /\ Alive /\ k \in connected /\ k \notin hup
  /\ hup' = hup \cup {k}
  /\ UNCHANGED <<mpc, flag, listenOpen, killPending, signals, connected, backlog, lAcc, tpc, fd, reg, sem>>

\* Mutant: the search for a free entry runs one past the capacity.
RegisterPastCap(k) ==
  /\ Alive /\ tpc[k] = "start"
  /\ Cardinality(reg) <= MAX_CLIENTS
  /\ reg = {} => sem > 0
  /\ reg' = reg \cup {k}
  /\ sem' = IF reg = {} THEN sem - 1 ELSE sem
  /\ tpc' = [tpc EXCEPT ![k] = "serving"]
  /\ UNCHANGED <<mpc, flag, listenOpen, killPending, signals, connected, backlog, lAcc, fd, hup>>

(* creg_register finds a free entry and adds the client; the first client  *)
(* of an empty registry takes count_sem, blocking with the registry's      *)
(* mutex held while creg_wait_for_empty holds the token.                   *)
Register(k) ==
  /\ Alive /\ tpc[k] = "start"
  /\ Cardinality(reg) < MAX_CLIENTS
  /\ reg = {} => sem > 0
  /\ reg' = reg \cup {k}
  /\ sem' = IF reg = {} THEN sem - 1 ELSE sem
  /\ tpc' = [tpc EXCEPT ![k] = "serving"]
  /\ UNCHANGED <<mpc, flag, listenOpen, killPending, signals, connected, backlog, lAcc, fd, hup>>

\* The registry is full: creg_register returns NULL and the service thread
\* returns without closing its socket.
RegisterFull(k) ==
  /\ Alive /\ tpc[k] = "start"
  /\ Cardinality(reg) = MAX_CLIENTS
  /\ tpc' = [tpc EXCEPT ![k] = "exited"]
  /\ UNCHANGED <<mpc, flag, listenOpen, killPending, signals, connected, backlog, lAcc, fd, hup, reg, sem>>

\* proto_recv_packet reads end of stream: the peer closed, or the reading
\* side was shut down.
ReadEOF(k) ==
  /\ Alive /\ tpc[k] = "serving"
  /\ k \in hup \/ fd[k] = "shut"
  /\ tpc' = [tpc EXCEPT ![k] = "unreg"]
  /\ UNCHANGED <<mpc, flag, listenOpen, killPending, signals, connected, backlog, lAcc, fd, hup, reg, sem>>

\* creg_unregister closes the socket and removes the client; the last one
\* gives count_sem back.
Unregister(k) ==
  /\ Alive /\ tpc[k] = "unreg"
  /\ reg' = reg \ {k}
  /\ fd' = [fd EXCEPT ![k] = "closed"]
  /\ sem' = IF reg' = {} THEN sem + 1 ELSE sem
  /\ tpc' = [tpc EXCEPT ![k] = "exited"]
  /\ UNCHANGED <<mpc, flag, listenOpen, killPending, signals, connected, backlog, lAcc, hup>>

ThreadStep(k) == Register(k) \/ RegisterFull(k) \/ ReadEOF(k) \/ Unregister(k)

Next ==
  \/ MainStep
  \/ SighupMain \/ SighupThread \/ DeliverKill
  \/ \E k \in Conns : Connect(k) \/ Hangup(k) \/ ThreadStep(k)

(* The main thread and the service threads run whenever they can; a       *)
(* pending signal is delivered.  Clients, and the administrator, act when  *)
(* they please.                                                            *)
Fairness ==
  /\ WF_vars(MainStep)
  /\ WF_vars(DeliverKill)
  /\ \A k \in Conns : WF_vars(ThreadStep(k))

Spec == Init /\ [][Next]_vars /\ Fairness

-----------------------------------------------------------------------------
(* Properties.                                                             *)

TypeOK ==
  /\ mpc \in {"loop", "accept", "check", "create", "shutdown", "wait", "post",
              "fini", "exit", "exited"}
  /\ flag \in {0, 1} /\ listenOpen \in BOOLEAN /\ killPending \in BOOLEAN
  /\ connected \subseteq Conns /\ backlog \subseteq connected /\ hup \subseteq connected
  /\ lAcc \in Conns \cup {NONE}
  /\ tpc \in [Conns -> {"none", "start", "serving", "unreg", "exited"}]
  /\ fd \in [Conns -> {"none", "open", "shut", "closed"}]
  /\ reg \subseteq Conns /\ Cardinality(reg) <= MAX_CLIENTS
  /\ sem \in 0 .. 2

(* After SIGHUP the main thread leaves the accept loop, even when the      *)
(* signal arrives just before accept blocks or on another thread.          *)
SignalStopsAccepting ==
  flag = 1 ~> mpc \in {"shutdown", "wait", "post", "fini", "exit", "exited"}

(* Every client registered when terminate() reaches creg_shutdown_all is  *)
(* drained, though its peer stays silent: SHUT_RD makes its blocked        *)
(* proto_recv_packet read end of stream and the thread unregisters, unless *)
(* the process has exited first.                                           *)
ShutdownReachesRegistered ==
  \A k \in Conns : (mpc = "shutdown" /\ k \in reg) ~> (k \notin reg \/ mpc = "exited")

(* After SIGHUP the server exits: every service thread drains and          *)
(* terminate() runs to its end (spec.md, Lifecycle).                       *)
ShutdownCompletes == flag = 1 ~> mpc = "exited"

(* The registries are freed only after every service thread has finished  *)
(* with them: when creg_fini runs, no service thread is registered or     *)
(* about to register (spec.md: existing workers drain, then global state  *)
(* is finalized).                                                          *)
FiniAfterDrain ==
  mpc \in {"exit", "exited"} => \A k \in Conns : tpc[k] \in {"none", "exited"}
====
