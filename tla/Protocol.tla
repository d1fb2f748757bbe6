------------------------------ MODULE Protocol ------------------------------
(***************************************************************************)
(* One client connection of the Jeux server at the level of the bytes on   *)
(* its socket (protocol.c, client_send_packet in client.c, and the read    *)
(* loop of jeux_client_service in server.c).                               *)
(*                                                                         *)
(* Server to client: several server threads send packets to the client,   *)
(* each through client_send_packet, which holds the client's fd_mutex      *)
(* around proto_send_packet: the header, then the payload, each by fd_op,  *)
(* which loops until every byte is written.  A write may be short, may be  *)
(* interrupted by SIGHUP before it writes anything (EINTR: fd_op retries)  *)
(* and fails (EPIPE; SIGPIPE is ignored) once the client has closed.       *)
(*                                                                         *)
(* Client to server: the client writes its packets in chunks of any size;  *)
(* the service thread reads them with proto_recv_packet: the header, then  *)
(* the payload, each by fd_op, which loops on short reads and EINTR and    *)
(* fails on end of stream (the client closed, or creg_shutdown_all shut    *)
(* the reading side).                                                      *)
(*                                                                         *)
(* A byte is <<p, i>>: the i-th byte of packet p.  The header has HDR      *)
(* bytes; the payload size is the packet's size field.                     *)
(***************************************************************************)
EXTENDS Integers, Sequences, SequencesExt

CONSTANTS
  Senders,       \* the server threads that send to this client
  Script,        \* Script[t]: the packets thread t sends, one call each
  PeerPkts,      \* the packets the client sends, in order
  PayloadSize,   \* PayloadSize[p]: the size field of packet p
  HDR,           \* bytes in a header (sizeof(JEUX_PACKET_HEADER))
  MaxSignals     \* SIGHUPs that may interrupt a read or a write

VARIABLES
  spc,           \* each sender's place in client_send_packet
  cur,           \* the packet a sender is sending
  off,           \* bytes of it fd_op has written so far
  next,          \* the index in Script[t] of the next call
  fdLock,        \* the holder of the client's fd_mutex, or NONE
  wire,          \* bytes written to the client, in order
  peerOpen,      \* the client has not closed its socket
  shutRd,        \* creg_shutdown_all has shut the reading side
  peerOff,       \* bytes of its stream the client has written
  readOff,       \* bytes of that stream the service thread has read
  rpc,           \* the service thread's place in proto_recv_packet
  rbuf,          \* the bytes of the packet being read
  got,           \* packets proto_recv_packet returned, as their bytes
  signals        \* SIGHUPs delivered so far

vars == <<spc, cur, off, next, fdLock, wire, peerOpen, shutRd, peerOff, readOff,
          rpc, rbuf, got, signals>>

NONE == "none"   \* no thread

Size(p)  == HDR + PayloadSize[p]
Bytes(p) == [i \in 1 .. Size(p) |-> <<p, i>>]

\* The bytes the client writes: its packets back to back.
PeerStream == FlattenSeq([k \in 1 .. Len(PeerPkts) |-> Bytes(PeerPkts[k])])

\* Where the fd_op call under way ends: the header, or the whole packet.
PhaseEnd(t) == IF spc[t] = "hdr" THEN HDR ELSE Size(cur[t])

\* The bytes of the client's first k packets.
SentWhole(k) == Len(FlattenSeq([j \in 1 .. k |-> Bytes(PeerPkts[j])]))

\* After the last packet of t's script, the thread is done.
AfterCall(t) == IF next[t] <= Len(Script[t]) THEN "lock" ELSE "done"

-----------------------------------------------------------------------------
Init ==
  /\ spc = [t \in Senders |-> IF Script[t] = <<>> THEN "done" ELSE "lock"]
  /\ cur = [t \in Senders |-> NONE]
  /\ off = [t \in Senders |-> 0]
  /\ next = [t \in Senders |-> 1]
  /\ fdLock = NONE
  /\ wire = <<>>
  /\ peerOpen = TRUE
  /\ shutRd = FALSE
  /\ peerOff = 0
  /\ readOff = 0
  /\ rpc = "hdr"
  /\ rbuf = <<>>
  /\ got = <<>>
  /\ signals = 0

RecvVars == <<shutRd, peerOff, readOff, rpc, rbuf, got>>
SendVars == <<spc, cur, off, next, fdLock, wire>>

(* client_send_packet: pthread_mutex_lock(&player->fd_mutex), then        *)
(* proto_send_packet starts on the header.                                 *)
\* Mutant: the packet is written without taking fd_mutex.
SendLockNoMutex(t) ==
  /\ spc[t] = "lock"
  /\ cur' = [cur EXCEPT ![t] = Script[t][next[t]]]
  /\ next' = [next EXCEPT ![t] = @ + 1]
  /\ off' = [off EXCEPT ![t] = 0]
  /\ spc' = [spc EXCEPT ![t] = "hdr"]
  /\ UNCHANGED <<fdLock, wire, peerOpen, signals>> /\ UNCHANGED RecvVars

SendLock(t) ==
  /\ spc[t] = "lock"
  /\ fdLock = NONE
  /\ fdLock' = t
  /\ cur' = [cur EXCEPT ![t] = Script[t][next[t]]]
  /\ next' = [next EXCEPT ![t] = @ + 1]
  /\ off' = [off EXCEPT ![t] = 0]
  /\ spc' = [spc EXCEPT ![t] = "hdr"]
  /\ UNCHANGED <<wire, peerOpen, signals>> /\ UNCHANGED RecvVars

(* One write() of fd_op: n of the bytes still to go reach the socket.     *)
(* When the header is done the payload follows if the size field is not  *)
(* zero; when the packet is done, client_send_packet unlocks.              *)
SendWrite(t) ==
  /\ spc[t] \in {"hdr", "payload"} /\ peerOpen
  /\ \E n \in 1 .. PhaseEnd(t) - off[t] :
       /\ wire' = wire \o [i \in 1 .. n |-> <<cur[t], off[t] + i>>]
       /\ off' = [off EXCEPT ![t] = @ + n]
       /\ spc' = [spc EXCEPT ![t] =
                    IF off[t] + n < PhaseEnd(t) THEN spc[t]
                    ELSE IF off[t] + n < Size(cur[t]) THEN "payload"
                    ELSE "unlock"]
  /\ UNCHANGED <<cur, next, fdLock, peerOpen, signals>> /\ UNCHANGED RecvVars

\* write() is interrupted before it writes anything: EINTR, and fd_op
\* tries again.
SendInterrupted(t) ==
  /\ spc[t] \in {"hdr", "payload"} /\ peerOpen
  /\ signals < MaxSignals
  /\ signals' = signals + 1
  /\ UNCHANGED SendVars /\ UNCHANGED <<peerOpen>> /\ UNCHANGED RecvVars

\* Mutant: the failing call returns without unlocking fd_mutex.
SendFailKeepsLock(t) ==
  /\ spc[t] \in {"hdr", "payload"} /\ ~peerOpen
  /\ spc' = [spc EXCEPT ![t] = AfterCall(t)]
  /\ UNCHANGED <<cur, off, next, fdLock, wire, peerOpen, signals>> /\ UNCHANGED RecvVars

(* The client has closed: write() fails with EPIPE, fd_op and             *)
(* proto_send_packet return -1 and client_send_packet unlocks and returns  *)
(* the failure, which the senders do not act on.                           *)
SendFail(t) ==
  /\ spc[t] \in {"hdr", "payload"} /\ ~peerOpen
  /\ fdLock' = NONE
  /\ spc' = [spc EXCEPT ![t] = AfterCall(t)]
  /\ UNCHANGED <<cur, off, next, wire, peerOpen, signals>> /\ UNCHANGED RecvVars

SendUnlock(t) ==
  /\ spc[t] = "unlock"
  /\ fdLock' = NONE
  /\ spc' = [spc EXCEPT ![t] = AfterCall(t)]
  /\ UNCHANGED <<cur, off, next, wire, peerOpen, signals>> /\ UNCHANGED RecvVars

-----------------------------------------------------------------------------
(* The client writes the next n bytes of its stream, or closes.           *)
PeerWrite ==
  /\ peerOpen /\ peerOff < Len(PeerStream)
  /\ \E n \in 1 .. Len(PeerStream) - peerOff : peerOff' = peerOff + n
  /\ UNCHANGED <<readOff, rpc, rbuf, got, shutRd, peerOpen, signals>> /\ UNCHANGED SendVars

PeerClose ==
  /\ peerOpen
  /\ peerOpen' = FALSE
  /\ UNCHANGED <<signals>> /\ UNCHANGED RecvVars /\ UNCHANGED SendVars

\* creg_shutdown_all: shutdown(fd, SHUT_RD).
ShutdownRead ==
  /\ ~shutRd
  /\ shutRd' = TRUE
  /\ UNCHANGED <<peerOpen, signals, peerOff, readOff, rpc, rbuf, got>> /\ UNCHANGED SendVars

\* The bytes proto_recv_packet still needs for the header, or for the
\* packet whose header it has.
Needed == IF rpc = "hdr" THEN HDR - Len(rbuf) ELSE Size(rbuf[1][1]) - Len(rbuf)

\* Mutant: fd_op counts the bytes it asked for, not the bytes read() got.
RecvReadWholeRequest ==
  /\ rpc \in {"hdr", "payload"}
  /\ LET n == Needed
         b == rbuf \o SubSeq(PeerStream, readOff + 1, readOff + n) IN
     /\ IF Len(b) < HDR \/ Len(b) < Size(b[1][1])
          THEN /\ rbuf' = b
               /\ rpc' = IF Len(b) < HDR THEN "hdr" ELSE "payload"
               /\ UNCHANGED got
          ELSE /\ got' = Append(got, b)
               /\ rbuf' = <<>>
               /\ rpc' = "hdr"
     /\ readOff' = readOff + n
  /\ UNCHANGED <<shutRd, peerOff, peerOpen, signals>> /\ UNCHANGED SendVars

\* Mutant: proto_recv_packet returns after the header, ignoring its size.
RecvReadNoPayload ==
  /\ rpc \in {"hdr", "payload"}
  /\ \E n \in 1 .. Needed :
       /\ readOff + n <= peerOff
       /\ LET b == rbuf \o SubSeq(PeerStream, readOff + 1, readOff + n) IN
          IF Len(b) < HDR
            THEN /\ rbuf' = b
                 /\ rpc' = "hdr"
                 /\ UNCHANGED got
            ELSE /\ got' = Append(got, b)
                 /\ rbuf' = <<>>
                 /\ rpc' = "hdr"
       /\ readOff' = readOff + n
  /\ UNCHANGED <<shutRd, peerOff, peerOpen, signals>> /\ UNCHANGED SendVars

(* One read() of fd_op: n of the bytes the client has written and the     *)
(* thread has not read.  A complete header without payload, or a complete *)
(* payload, ends proto_recv_packet with 0; the service loop handles the    *)
(* packet and calls it again.                                              *)
RecvRead ==
  /\ rpc \in {"hdr", "payload"}
  /\ \E n \in 1 .. Needed :
       /\ readOff + n <= peerOff
       /\ LET b == rbuf \o SubSeq(PeerStream, readOff + 1, readOff + n) IN
          IF Len(b) < HDR \/ Len(b) < Size(b[1][1])
            THEN /\ rbuf' = b
                 /\ rpc' = IF Len(b) < HDR THEN "hdr" ELSE "payload"
                 /\ UNCHANGED got
            ELSE /\ got' = Append(got, b)
                 /\ rbuf' = <<>>
                 /\ rpc' = "hdr"
       /\ readOff' = readOff + n
  /\ UNCHANGED <<shutRd, peerOff, peerOpen, signals>> /\ UNCHANGED SendVars

\* Mutant: fd_op treats EINTR as a failure.
RecvInterruptedFails ==
  /\ rpc \in {"hdr", "payload"}
  /\ signals < MaxSignals
  /\ signals' = signals + 1
  /\ rpc' = "done"
  /\ UNCHANGED <<shutRd, peerOff, readOff, rbuf, got, peerOpen>> /\ UNCHANGED SendVars

\* read() interrupted by SIGHUP: EINTR, and fd_op reads again.
RecvInterrupted ==
  /\ rpc \in {"hdr", "payload"}
  /\ signals < MaxSignals
  /\ signals' = signals + 1
  /\ UNCHANGED <<peerOpen>> /\ UNCHANGED RecvVars /\ UNCHANGED SendVars

(* read() returns 0: the client has closed and everything it wrote has    *)
(* been read, or the reading side has been shut down.  fd_op returns -1,  *)
(* so does proto_recv_packet (a partial packet is dropped), and the        *)
(* service loop logs out and unregisters.                                  *)
RecvEOF ==
  /\ rpc \in {"hdr", "payload"}
  /\ (~peerOpen /\ readOff = peerOff) \/ shutRd
  /\ rpc' = "done"
  /\ rbuf' = <<>>
  /\ UNCHANGED <<shutRd, peerOff, readOff, got, peerOpen, signals>> /\ UNCHANGED SendVars

-----------------------------------------------------------------------------
SenderStep(t) ==
  \/ SendLock(t) \/ SendWrite(t) \/ SendInterrupted(t) \/ SendFail(t) \/ SendUnlock(t)

ReceiverStep == RecvRead \/ RecvInterrupted \/ RecvEOF

Next ==
  \/ \E t \in Senders : SenderStep(t)
  \/ ReceiverStep
  \/ PeerWrite \/ PeerClose \/ ShutdownRead

(* The threads never wait on anything but fd_mutex and the socket, so     *)
(* their steps are weakly fair; the client and the SIGHUPs are not.       *)
Fairness ==
  /\ \A t \in Senders : WF_vars(SendLock(t) \/ SendWrite(t) \/ SendFail(t) \/ SendUnlock(t))
  /\ WF_vars(RecvRead \/ RecvEOF)

Spec == Init /\ [][Next]_vars /\ Fairness

-----------------------------------------------------------------------------
(* Properties.                                                             *)

TypeOK ==
  /\ spc \in [Senders -> {"lock", "hdr", "payload", "unlock", "done"}]
  /\ fdLock \in Senders \cup {NONE}
  /\ rpc \in {"hdr", "payload", "done"}
  /\ readOff \in 0 .. peerOff /\ peerOff \in 0 .. Len(PeerStream)

(* The bytes on the client's socket are whole packets back to back: every *)
(* byte but a packet's first follows the byte before it in that packet.    *)
(* Threads of different games send to one client at once, and fd_op may   *)
(* write a packet in several short writes; fd_mutex, held from the header  *)
(* to the end of the payload, keeps other senders out in between.          *)
WireFramed ==
  \A i \in 1 .. Len(wire) :
    wire[i][2] > 1 => i > 1 /\ wire[i - 1] = <<wire[i][1], wire[i][2] - 1>>

(* Every packet proto_recv_packet returns is, byte for byte, the next      *)
(* packet the client sent, whatever the chunks the client wrote and the    *)
(* reads returned, and although SIGHUPs interrupt the reads.               *)
RecvIntact ==
  \A k \in 1 .. Len(got) : got[k] = Bytes(PeerPkts[k])

(* The service thread ends its session only at end of stream: when         *)
(* proto_recv_packet fails, the client has closed and every packet it      *)
(* wrote whole has been returned, or the server is shutting down.  A       *)
(* SIGHUP handled on the service thread does not end the session.          *)
RecvEndsAtEOF ==
  rpc = "done" =>
    \/ shutRd
    \/ /\ ~peerOpen
       /\ \A k \in 1 .. Len(PeerPkts) : SentWhole(k) <= peerOff => Len(got) >= k

(* Every call of client_send_packet returns: fd_mutex is released on the  *)
(* failure path too, so no sender waits for it forever.                    *)
SendsReturn == <>(\A t \in Senders : spc[t] = "done")
=============================================================================
