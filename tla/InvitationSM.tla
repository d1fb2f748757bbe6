---------------------------- MODULE InvitationSM ----------------------------
(***************************************************************************)
(* What an invitation promises (spec.md 3, Invitation): it is created      *)
(* OPEN with no game; accept moves an OPEN invitation to ACCEPTED with a   *)
(* new running game; revoke or decline close an OPEN one, which never had  *)
(* a game; a resignation, or the last move of its game, closes an ACCEPTED *)
(* one and leaves its game terminated.  CLOSED is terminal.               *)
(***************************************************************************)
CONSTANTS Ids

VARIABLES state, game

States     == {"unused", "open", "accepted", "closed"}
GameStates == {"none", "running", "over"}

Init ==
  /\ state = [i \in Ids |-> "unused"]
  /\ game  = [i \in Ids |-> "none"]

Create(i) ==
  /\ state[i] = "unused"
  /\ state' = [state EXCEPT ![i] = "open"]
  /\ UNCHANGED game

Accept(i) ==
  /\ state[i] = "open"
  /\ state' = [state EXCEPT ![i] = "accepted"]
  /\ game' = [game EXCEPT ![i] = "running"]

\* close(NULL_ROLE): revoke or decline.
Withdraw(i) ==
  /\ state[i] = "open"
  /\ state' = [state EXCEPT ![i] = "closed"]
  /\ UNCHANGED game

\* close(role), or the game's last legal move.
EndGame(i) ==
  /\ state[i] = "accepted"
  /\ state' = [state EXCEPT ![i] = "closed"]
  /\ game' = [game EXCEPT ![i] = "over"]

Next == \E i \in Ids : Create(i) \/ Accept(i) \/ Withdraw(i) \/ EndGame(i)

Spec == Init /\ [][Next]_<<state, game>>
=============================================================================
