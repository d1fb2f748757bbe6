----------------------------- MODULE MCProtocol -----------------------------
(* Model-checking instance of Protocol: the packets of one connection.     *)
EXTENDS Protocol, TLC

CONSTANTS t1, t2, RESIGNED, ENDED, MOVED, LOGIN, INVITE

\* A resigner sends RESIGNED then ENDED to its opponent; the opponent's
\* other game sends it MOVED, with a payload (the board).
MCSenders == {t1, t2}
MCScript  == (t1 :> <<RESIGNED, ENDED>>) @@ (t2 :> <<MOVED>>)
\* The client logs in and invites: both packets carry a payload.
MCPeerPkts == <<LOGIN, INVITE>>
MCPayloadSize == (RESIGNED :> 0) @@ (ENDED :> 0) @@ (MOVED :> 1)
                 @@ (LOGIN :> 1) @@ (INVITE :> 1)
=============================================================================
