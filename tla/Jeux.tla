-------------------------------- MODULE Jeux --------------------------------
(***************************************************************************)
(* The Jeux game server's shared session state: one service thread per     *)
(* connected client (server.c jeux_client_service), the CLIENT objects     *)
(* with their logged-in player and invitation slot table (client.c), the   *)
(* reference-counted INVITATIONs (invitation.c) and the games they carry.  *)
(*                                                                         *)
(* Every client operation is split into the steps between which the code   *)
(* releases a lock, so that the threads of different clients interleave    *)
(* exactly where the C code lets them.  A step is one critical section (or *)
(* a run of lock-free reads of immutable fields next to one).              *)
(*                                                                         *)
(* The game is abstracted to what the invitation logic can observe: whose  *)
(* turn it is, how many marks are on the board, whether it is over and the *)
(* winner.  A move may complete a line only once the mover has three marks *)
(* (the 5th move or later) and the 9th move always ends the game.          *)
(***************************************************************************)
EXTENDS Integers, FiniteSets, FiniteSetsExt

CONSTANTS
  Clients,     \* the connections' CLIENT objects, in registry-array order
  Names,       \* player names a LOGIN or INVITE packet may carry
  SlotCap,     \* capacity of a client's invitation table (MAX_CLIENTS*128)
  MaxInv,      \* bound: invitations created in one behaviour
  MaxMoves,    \* bound: marks placed in one game (9 plays games out)
  NoInv,       \* an empty slot (NULL INVITATION pointer)
  NoPlayer,    \* a client with no logged-in PLAYER
  NoClient     \* creg_lookup found no client

ASSUME Clients \subseteq Nat /\ Clients # {}
ASSUME SlotCap \in Nat \ {0} /\ MaxInv \in Nat \ {0} /\ MaxMoves \in 0 .. 9

Slots  == 0 .. SlotCap - 1
InvIds == 1 .. MaxInv

\* GAME_ROLE values of game.h / the wire protocol.
NULL_ROLE == 0
FIRST_PLAYER_ROLE == 1
SECOND_PLAYER_ROLE == 2
Roles == {FIRST_PLAYER_ROLE, SECOND_PLAYER_ROLE}
OtherRole(r) == IF r = FIRST_PLAYER_ROLE THEN SECOND_PLAYER_ROLE ELSE FIRST_PLAYER_ROLE
FULL == 33   \* apply_and_verify_safe: the board is full

VARIABLES
  player,     \* client->player: the PLAYER a client is logged in as
  session,    \* new_player in jeux_client_service: the login the thread knows of
  registered, \* the client is in the client registry's array
  conn,       \* "open", "hup" (peer closed: EOF, writes may fail), "closed" (fd closed)
  slots,      \* client->invs.lst
  inv,        \* the invitation objects, by allocation order
  iref,       \* inv->ref_count
  freed,      \* inv_unref has freed the invitation
  posted,     \* history: player_post_result calls made for each invitation's game
  ratingHeld, \* players whose rating_mutex a blocked thread holds forever
  resp,       \* the last ACK/NACK the thread sent on its own connection
  pc, lOp, lInv, lId, lPeer, lName, lRole, lRet,   \* service thread locals
  inLogout, lIdx                             \* client_logout loop state

sessionVars == <<player, session, registered, conn, ratingHeld>>
tableVars   == <<slots, inv, iref, freed, posted>>
localVars   == <<pc, lOp, lInv, lId, lPeer, lName, lRole, lRet, inLogout, lIdx>>
vars        == <<sessionVars, tableVars, resp, localVars>>

InvStates == {"unused", "open", "accepted", "closed"}
SlotOps   == {"revoke", "decline", "accept", "resign", "move"}
Pcs == {"idle", "login_set", "inv_add_src", "inv_add_tgt", "inv_notify",
        "ref", "main", "rm_own", "rm_peer", "acc_notify",
        "mv_apply", "mv_result", "mv_opp", "mv_end", "post_blocked",
        "lo_fetch", "lo_end", "unregister", "done"}

\* A fresh invitation record, as inv_create leaves it; game fields model GAME.
NewInv(s, t, sr) ==
  [state |-> "open", src |-> s, tgt |-> t, srcRole |-> sr,
   hasGame |-> FALSE, turn |-> FIRST_PLAYER_ROLE, moves |-> 0,
   lines |-> {}, over |-> FALSE, winner |-> NULL_ROLE]

UnusedInv == [NewInv(CHOOSE c \in Clients : TRUE, CHOOSE c \in Clients : TRUE,
                     FIRST_PLAYER_ROLE) EXCEPT !.state = "unused"]

RoleOf(i, c) == IF inv[i].src = c THEN inv[i].srcRole ELSE OtherRole(inv[i].srcRole)
PeerOf(i, c) == IF inv[i].src = c THEN inv[i].tgt ELSE inv[i].src

InTable(c, i)   == \E k \in Slots : slots[c][k] = i
SlotOf(c, i)    == Min({k \in Slots : slots[c][k] = i})
LowestFree(c)   == Min({k \in Slots : slots[c][k] = NoInv})
TableFull(c)    == \A k \in Slots : slots[c][k] # NoInv

\* creg_lookup: the first registered client logged in under name n.
Lookup(n) == LET found == {d \in Clients : registered[d] /\ player[d] = n}
             IN  IF found = {} THEN NoClient ELSE Min(found)

\* What a write to client t's socket can return.
SendResults(t) == CASE conn[t] = "open" -> {TRUE}
                    [] conn[t] = "hup"  -> {TRUE, FALSE}
                    [] OTHER            -> {FALSE}

\* inv_unref, from the count to the freeing of the object.
Unref(i) == /\ iref' = [iref EXCEPT ![i] = @ - 1]
            /\ freed' = IF iref[i] = 1 THEN [freed EXCEPT ![i] = TRUE] ELSE freed

\* remove_from_inv_lst on client c: clears the slot and drops its reference.
RemoveSlot(c, i) == /\ slots' = [slots EXCEPT ![c][SlotOf(c, i)] = NoInv]
                    /\ Unref(i)

Goto(c, p) == pc' = [pc EXCEPT ![c] = p]

Return(c, ok, id) ==
  IF inLogout[c]
  THEN /\ IF ok \/ lOp[c] = "decline"
          THEN /\ lIdx' = [lIdx EXCEPT ![c] = @ + 1]
               /\ lOp' = [lOp EXCEPT ![c] = "resign"]
          ELSE /\ lOp' = [lOp EXCEPT ![c] = IF @ = "resign" THEN "revoke" ELSE "decline"]
               /\ UNCHANGED lIdx
       /\ Goto(c, "lo_fetch")
       /\ UNCHANGED resp
  ELSE /\ resp' = [resp EXCEPT ![c] = [ack |-> ok, id |-> id]]
       /\ Goto(c, "idle")
       /\ UNCHANGED <<lOp, lIdx>>

-----------------------------------------------------------------------------
Init ==
  /\ player = [c \in Clients |-> NoPlayer]
  /\ session = [c \in Clients |-> NoPlayer]
  /\ registered = [c \in Clients |-> TRUE]
  /\ conn = [c \in Clients |-> "open"]
  /\ ratingHeld = {}
  /\ slots = [c \in Clients |-> [k \in Slots |-> NoInv]]
  /\ inv = [i \in InvIds |-> UnusedInv]
  /\ iref = [i \in InvIds |-> 0]
  /\ freed = [i \in InvIds |-> FALSE]
  /\ posted = [i \in InvIds |-> 0]
  /\ resp = [c \in Clients |-> [ack |-> TRUE, id |-> 0]]
  /\ pc = [c \in Clients |-> "idle"]
  /\ lOp = [c \in Clients |-> "resign"]
  /\ lInv = [c \in Clients |-> NoInv]
  /\ lId = [c \in Clients |-> 0]
  /\ lPeer = [c \in Clients |-> CHOOSE d \in Clients : TRUE]
  /\ lName = [c \in Clients |-> NoPlayer]
  /\ lRole = [c \in Clients |-> FIRST_PLAYER_ROLE]
  /\ lRet = [c \in Clients |-> NULL_ROLE]
  /\ inLogout = [c \in Clients |-> FALSE]
  /\ lIdx = [c \in Clients |-> 0]

-----------------------------------------------------------------------------
(* LOGIN.  login_handler registers the name with the player registry and   *)
(* calls client_login, which fails if the client already has a player or   *)
(* creg_lookup finds another client logged in under the name; the lookup   *)
(* releases the registry lock before the player is stored.                 *)
Login(c, n) ==
  /\ pc[c] = "idle" /\ conn[c] = "open"
  /\ IF session[c] = NoPlayer /\ player[c] = NoPlayer /\ Lookup(n) = NoClient
     THEN /\ lName' = [lName EXCEPT ![c] = n]
          /\ Goto(c, "login_set")
          /\ UNCHANGED resp
     ELSE /\ resp' = [resp EXCEPT ![c] = [ack |-> FALSE, id |-> 0]]
          /\ UNCHANGED <<pc, lName>>
  /\ UNCHANGED <<sessionVars, tableVars, lOp, lInv, lId, lPeer, lRole, lRet, inLogout, lIdx>>

\* client_set_player_safe, then the ACK; if the ACK cannot be written the
\* service loop keeps new_player NULL although the client is logged in.
LoginSet(c) ==
  /\ pc[c] = "login_set"
  /\ player' = [player EXCEPT ![c] = lName[c]]
  /\ \E sent \in SendResults(c) :
       /\ session' = [session EXCEPT ![c] = IF sent THEN lName[c] ELSE NoPlayer]
       /\ resp' = [resp EXCEPT ![c] = [ack |-> sent, id |-> 0]]
  /\ Goto(c, "idle")
  /\ UNCHANGED <<registered, conn, ratingHeld, tableVars, lOp, lInv, lId, lPeer, lName, lRole, lRet, inLogout, lIdx>>

\* Any request but LOGIN before login is answered with NACK; USERS after
\* login only reads the registry (creg_all_players) and is answered with ACK.
Unauthorized(c) ==
  /\ pc[c] = "idle" /\ conn[c] = "open"
  /\ resp' = [resp EXCEPT ![c] = [ack |-> session[c] # NoPlayer, id |-> 0]]
  /\ UNCHANGED <<sessionVars, tableVars, localVars>>

-----------------------------------------------------------------------------
(* INVITE.  invite_handler looks the target up by name, then               *)
(* client_make_invitation creates the invitation and adds it to the        *)
(* source's table and then to the target's, each under that table's lock.  *)
Invite(c, n, r) ==
  /\ pc[c] = "idle" /\ conn[c] = "open" /\ session[c] # NoPlayer
  /\ Cardinality({j \in InvIds : inv[j].state = "unused"})
       > Cardinality({d \in Clients : pc[d] = "inv_add_src"})   \* bound MaxInv
  /\ IF Lookup(n) = NoClient \/ Lookup(n) = c
     THEN /\ resp' = [resp EXCEPT ![c] = [ack |-> FALSE, id |-> 0]]
          /\ UNCHANGED <<pc, lPeer, lRole>>
     ELSE /\ lPeer' = [lPeer EXCEPT ![c] = Lookup(n)]
          /\ lRole' = [lRole EXCEPT ![c] = r]
          /\ Goto(c, "inv_add_src")
          /\ UNCHANGED resp
  /\ UNCHANGED <<sessionVars, tableVars, lOp, lInv, lId, lName, lRet, inLogout, lIdx>>

\* inv_create (reference 1) and client_add_invitation on the source; a full
\* table makes the invitation's only reference go away.
InviteAddSource(c) ==
  LET i == CHOOSE j \in InvIds : inv[j].state = "unused" /\ \A h \in 1 .. j - 1 : inv[h].state # "unused"
  IN
  /\ pc[c] = "inv_add_src"
  /\ inv' = [inv EXCEPT ![i] = NewInv(c, lPeer[c], OtherRole(lRole[c]))]
  /\ lInv' = [lInv EXCEPT ![c] = i]
  /\ IF TableFull(c)
     THEN /\ iref' = [iref EXCEPT ![i] = 0]
          /\ freed' = [freed EXCEPT ![i] = TRUE]
          /\ resp' = [resp EXCEPT ![c] = [ack |-> FALSE, id |-> 0]]
          /\ Goto(c, "idle")
          /\ UNCHANGED <<slots, lId>>
     ELSE /\ slots' = [slots EXCEPT ![c][LowestFree(c)] = i]
          /\ iref' = [iref EXCEPT ![i] = 2]
          /\ lId' = [lId EXCEPT ![c] = LowestFree(c)]
          /\ Goto(c, "inv_add_tgt")
          /\ UNCHANGED <<freed, resp>>
  /\ UNCHANGED <<sessionVars, posted, lOp, lPeer, lName, lRole, lRet, inLogout, lIdx>>

\* client_add_invitation on the target.  When the target's table is full the
\* code drops the creation reference and removes the source's entry, and
\* returns what client_remove_invitation returned: the source slot index.
\* Otherwise it drops the creation reference, after which the thread holds
\* no reference of its own.
InviteAddTarget(c) ==
  LET i == lInv[c]  t == lPeer[c]
  IN
  /\ pc[c] = "inv_add_tgt"
  /\ IF TableFull(t)
     THEN /\ slots' = [slots EXCEPT ![c][SlotOf(c, i)] = NoInv]
          /\ iref' = [iref EXCEPT ![i] = 0]
          /\ freed' = [freed EXCEPT ![i] = TRUE]
          /\ resp' = [resp EXCEPT ![c] = [ack |-> TRUE, id |-> SlotOf(c, i)]]
          /\ Goto(c, "idle")
     ELSE /\ slots' = [slots EXCEPT ![t][LowestFree(t)] = i]
          /\ Goto(c, "inv_notify")
          /\ UNCHANGED <<iref, freed, resp>>
  /\ UNCHANGED <<sessionVars, inv, posted, lOp, lInv, lId, lPeer, lName, lRole, lRet, inLogout, lIdx>>

\* INVITED to the target, with inv_get_target_role read from the invitation
\* the thread no longer holds; if the write fails the request is answered
\* NACK although both tables hold the invitation.
InviteNotify(c) ==
  /\ pc[c] = "inv_notify"
  /\ \E sent \in SendResults(lPeer[c]) :
       resp' = [resp EXCEPT ![c] = [ack |-> sent, id |-> lId[c]]]
  /\ Goto(c, "idle")
  /\ UNCHANGED <<sessionVars, tableVars, lOp, lInv, lId, lPeer, lName, lRole, lRet, inLogout, lIdx>>

-----------------------------------------------------------------------------
(* REVOKE, DECLINE, ACCEPT, RESIGN and MOVE name a slot of the acting       *)
(* client.  Each handler reads the slot under the table lock, releases it, *)
(* and only then takes its own reference with inv_ref: the invitation may  *)
(* be freed in between by the other participant's thread.                  *)
SlotRequest(c, op, k) ==
  /\ pc[c] = "idle" /\ conn[c] = "open" /\ session[c] # NoPlayer
  /\ lInv' = [lInv EXCEPT ![c] = slots[c][k]]
  /\ lId' = [lId EXCEPT ![c] = k]
  /\ IF slots[c][k] = NoInv
     THEN /\ resp' = [resp EXCEPT ![c] = [ack |-> FALSE, id |-> 0]]
          /\ UNCHANGED <<pc, lOp>>
     ELSE /\ lOp' = [lOp EXCEPT ![c] = op]
          /\ Goto(c, "ref")
          /\ UNCHANGED resp
  /\ UNCHANGED <<sessionVars, tableVars, lPeer, lName, lRole, lRet, inLogout, lIdx>>

\* inv_ref on the pointer read from the slot.
Ref(c) ==
  /\ pc[c] = "ref"
  /\ iref' = [iref EXCEPT ![lInv[c]] = @ + 1]
  /\ Goto(c, "main")
  /\ UNCHANGED <<sessionVars, slots, inv, freed, posted, resp, lOp, lInv, lId, lPeer, lName, lRole, lRet, inLogout, lIdx>>

\* The failure return of every step that holds the thread's reference.
Fail(c) == /\ Unref(lInv[c])
           /\ Return(c, FALSE, 0)

\* Frame of a step that changes only the invitation tables and the locals.
StepFrame == UNCHANGED <<sessionVars, posted, lInv, lId, lPeer, lName, lRole, lRet, inLogout>>

\* Mutant: inv_close(NULL_ROLE) closes an invitation whatever its game.
RevokeCloseWithGame(c) ==
  LET i == lInv[c] IN
  /\ pc[c] = "main" /\ lOp[c] = "revoke"
  /\ IF c = inv[i].src /\ inv[i].state \in {"open", "accepted"}
     THEN /\ inv' = [inv EXCEPT ![i].state = "closed"]
          /\ Goto(c, "rm_own")
          /\ UNCHANGED <<iref, freed, resp, lOp, lIdx>>
     ELSE /\ Fail(c) /\ UNCHANGED inv
  /\ UNCHANGED slots /\ StepFrame

\* client_revoke_invitation: the client must be the source, then
\* inv_close(NULL_ROLE), which succeeds only on an invitation without a game.
RevokeClose(c) ==
  LET i == lInv[c] IN
  /\ pc[c] = "main" /\ lOp[c] = "revoke"
  /\ IF c = inv[i].src /\ inv[i].state \in {"open", "accepted"} /\ ~inv[i].hasGame
     THEN /\ inv' = [inv EXCEPT ![i].state = "closed"]
          /\ Goto(c, "rm_own")
          /\ UNCHANGED <<iref, freed, resp, lOp, lIdx>>
     ELSE /\ Fail(c) /\ UNCHANGED inv
  /\ UNCHANGED slots /\ StepFrame

\* client_decline_invitation: the same with the client as the target.
DeclineClose(c) ==
  LET i == lInv[c] IN
  /\ pc[c] = "main" /\ lOp[c] = "decline"
  /\ IF c = inv[i].tgt /\ inv[i].state \in {"open", "accepted"} /\ ~inv[i].hasGame
     THEN /\ inv' = [inv EXCEPT ![i].state = "closed"]
          /\ Goto(c, "rm_own")
          /\ UNCHANGED <<iref, freed, resp, lOp, lIdx>>
     ELSE /\ Fail(c) /\ UNCHANGED inv
  /\ UNCHANGED slots /\ StepFrame

\* client_resign_game: inv_close with the client's role, which resigns the
\* game (game_resign fails on a missing or finished game) and closes.
ResignClose(c) ==
  LET i == lInv[c] IN
  /\ pc[c] = "main" /\ lOp[c] = "resign"
  /\ IF /\ c \in {inv[i].src, inv[i].tgt}
        /\ inv[i].state \in {"open", "accepted"}
        /\ inv[i].hasGame /\ ~inv[i].over
     THEN /\ inv' = [inv EXCEPT ![i].state = "closed", ![i].over = TRUE,
                                ![i].winner = OtherRole(RoleOf(i, c))]
          /\ Goto(c, "rm_own")
          /\ UNCHANGED <<iref, freed, resp, lOp, lIdx>>
     ELSE /\ Fail(c) /\ UNCHANGED inv
  /\ UNCHANGED slots /\ StepFrame

\* client_remove_invitation on the acting client's own table.
RemoveOwn(c) ==
  /\ pc[c] = "rm_own"
  /\ IF InTable(c, lInv[c])
     THEN /\ RemoveSlot(c, lInv[c])
          /\ Goto(c, "rm_peer")
          /\ UNCHANGED <<resp, lOp, lIdx>>
     ELSE /\ Fail(c) /\ UNCHANGED slots
  /\ UNCHANGED inv /\ StepFrame

\* inv_unref of n references at once, from the count to the freeing.
UnrefN(i, n) == /\ iref' = [iref EXCEPT ![i] = @ - n]
                /\ freed' = IF iref[i] = n THEN [freed EXCEPT ![i] = TRUE] ELSE freed

(* player_post_result(p1, p2) does nothing when either player is NULL.     *)
(* Otherwise it locks the two rating mutexes, the lower id first, and     *)
(* never returns when both are the same PLAYER (two clients logged in     *)
(* under one name: the second lock of the non-recursive mutex blocks) or  *)
(* when a thread blocked that way holds one of them.  The blocked thread   *)
(* keeps what it holds: its own player's mutex, or the one it took first  *)
(* (which of the two depends on the players' ids).                        *)
PostBlocks(a, b) == a # NoPlayer /\ b # NoPlayer /\ (a = b \/ {a, b} \cap ratingHeld # {})

Block(c, a, b) ==
  /\ Goto(c, "post_blocked")
  /\ \E h \in IF a = b THEN {{a}} ELSE {{}, {a, b} \ ratingHeld} :
       ratingHeld' = ratingHeld \cup h

\* Mutant: the failure path also drops the reference of the peer's slot.
RemovePeerOverUnref(c) ==
  LET i == lInv[c]  p == PeerOf(i, c)
      a == player[inv[i].src]  b == player[inv[i].tgt]
      posts == lOp[c] = "resign" /\ a # NoPlayer /\ b # NoPlayer
  IN
  /\ pc[c] = "rm_peer"
  /\ IF InTable(p, i)
     THEN /\ slots' = [slots EXCEPT ![p][SlotOf(p, i)] = NoInv]
          /\ IF posts /\ PostBlocks(a, b)
             THEN /\ Unref(i) /\ Block(c, a, b)
                  /\ UNCHANGED <<posted, resp, lOp, lIdx>>
             ELSE /\ UnrefN(i, 2)
                  /\ posted' = IF posts THEN [posted EXCEPT ![i] = @ + 1] ELSE posted
                  /\ \E sent \in SendResults(p) : Return(c, sent, 0)
                  /\ UNCHANGED ratingHeld
     ELSE /\ UnrefN(i, 2) /\ Return(c, FALSE, 0) /\ UNCHANGED <<slots, posted, ratingHeld>>
  /\ UNCHANGED <<player, session, registered, conn, inv, lInv, lId, lPeer, lName, lRole, lRet, inLogout>>

\* client_remove_invitation on the other participant's table, then the end
\* of the operation.  Revoke and decline drop their reference and send
\* REVOKED or DECLINED; resign sends RESIGNED and ENDED and calls
\* player_post_result for the two clients' current players before dropping
\* its reference.  The last write's status is the operation's result.
RemovePeer(c) ==
  LET i == lInv[c]  p == PeerOf(i, c)
      a == player[inv[i].src]  b == player[inv[i].tgt]
      posts == lOp[c] = "resign" /\ a # NoPlayer /\ b # NoPlayer
  IN
  /\ pc[c] = "rm_peer"
  /\ IF InTable(p, i)
     THEN /\ slots' = [slots EXCEPT ![p][SlotOf(p, i)] = NoInv]
          /\ IF posts /\ PostBlocks(a, b)
             THEN /\ Unref(i) /\ Block(c, a, b)
                  /\ UNCHANGED <<posted, resp, lOp, lIdx>>
             ELSE /\ UnrefN(i, 2)
                  /\ posted' = IF posts THEN [posted EXCEPT ![i] = @ + 1] ELSE posted
                  /\ \E sent \in SendResults(p) : Return(c, sent, 0)
                  /\ UNCHANGED ratingHeld
     ELSE /\ Fail(c) /\ UNCHANGED <<slots, posted, ratingHeld>>
  /\ UNCHANGED <<player, session, registered, conn, inv, lInv, lId, lPeer, lName, lRole, lRet, inLogout>>

\* client_accept_invitation: the client must be the target; inv_accept
\* moves an OPEN invitation to ACCEPTED and creates its game.
AcceptMain(c) ==
  LET i == lInv[c] IN
  /\ pc[c] = "main" /\ lOp[c] = "accept"
  /\ IF c = inv[i].tgt /\ inv[i].state = "open"
     THEN /\ inv' = [inv EXCEPT ![i].state = "accepted", ![i].hasGame = TRUE]
          /\ Goto(c, "acc_notify")
          /\ UNCHANGED <<iref, freed, resp, lOp, lIdx>>
     ELSE /\ Fail(c) /\ UNCHANGED inv
  /\ UNCHANGED slots /\ StepFrame

\* Mutant: the ACCEPTED notification path keeps the thread's reference.
AcceptNotifyLeak(c) ==
  LET s == inv[lInv[c]].src IN
  /\ pc[c] = "acc_notify"
  /\ UNCHANGED <<iref, freed>>
  /\ IF InTable(s, lInv[c])
     THEN \E sent \in SendResults(s) : Return(c, sent, 0)
     ELSE Return(c, FALSE, 0)
  /\ UNCHANGED <<slots, inv>> /\ StepFrame

\* Find the source's slot id (search_inv_lst_safe), drop the reference and
\* send ACCEPTED to the source.
AcceptNotify(c) ==
  LET s == inv[lInv[c]].src IN
  /\ pc[c] = "acc_notify"
  /\ Unref(lInv[c])
  /\ IF InTable(s, lInv[c])
     THEN \E sent \in SendResults(s) : Return(c, sent, 0)
     ELSE Return(c, FALSE, 0)
  /\ UNCHANGED <<slots, inv>> /\ StepFrame

-----------------------------------------------------------------------------
(* MOVE.  client_make_move parses the move for the client's role           *)
(* (game_parse_move fails when it is not that role's turn or the text is   *)
(* malformed), then game_apply_move fails on a finished game or a taken    *)
(* cell.  Only the mover's own thread changes the turn and the board       *)
(* between these checks, so they are one step; the board update           *)
(* (apply_and_verify_safe and the status) comes after game_is_over has     *)
(* been read, so a resignation can finish the game between them.          *)
MoveParse(c) ==
  LET i == lInv[c] IN
  /\ pc[c] = "main" /\ lOp[c] = "move"
  /\ \E legal \in IF inv[i].moves < MaxMoves THEN BOOLEAN ELSE {FALSE} :  \* bound MaxMoves
       IF inv[i].hasGame /\ RoleOf(i, c) = inv[i].turn /\ ~inv[i].over /\ legal
       THEN /\ Goto(c, "mv_apply")
            /\ UNCHANGED <<iref, freed, resp, lOp, lIdx>>
       ELSE Fail(c)
  /\ UNCHANGED <<slots, inv>> /\ StepFrame

\* apply_and_verify_safe places the mark and verify_board reports a complete
\* line: the mover's new one, or one already on the board (the scan order
\* decides which when both players have one), else the full board at the
\* 9th mark.  set_game_move then passes the turn, before the status is set.
MoveApply(c) ==
  LET i == lInv[c]  r == RoleOf(i, c)  m == inv[i].moves + 1 IN
  /\ pc[c] = "mv_apply"
  /\ \E win \in IF m >= 5 THEN BOOLEAN ELSE {FALSE} :
       LET lines == inv[i].lines \cup (IF win THEN {r} ELSE {}) IN
       /\ inv' = [inv EXCEPT ![i].moves = m, ![i].turn = OtherRole(r),
                              ![i].lines = lines]
       /\ \E ret \in IF lines # {} THEN lines ELSE {IF m = 9 THEN FULL ELSE NULL_ROLE} :
            lRet' = [lRet EXCEPT ![c] = ret]
  /\ Goto(c, "mv_result")
  /\ UNCHANGED <<sessionVars, slots, iref, freed, posted, resp, lOp, lInv, lId, lPeer, lName, lRole, inLogout, lIdx>>

\* set_game_status and set_winner for what verify_board returned; a full
\* board leaves the winner as it is.
MoveSetResult(c) ==
  LET i == lInv[c] IN
  /\ pc[c] = "mv_result"
  /\ inv' = IF lRet[c] = NULL_ROLE THEN inv
            ELSE [inv EXCEPT ![i].over = TRUE,
                             ![i].winner = IF lRet[c] \in Roles THEN lRet[c] ELSE @]
  /\ Goto(c, "mv_opp")
  /\ UNCHANGED <<sessionVars, slots, iref, freed, posted, resp, lOp, lInv, lId, lPeer, lName, lRole, lRet, inLogout, lIdx>>

\* Mutant: every move, not only a game-ending one, takes the ENDED path.
MoveNotifyAlwaysEnds(c) ==
  LET i == lInv[c]  p == PeerOf(lInv[c], c) IN
  /\ pc[c] = "mv_opp"
  /\ IF InTable(p, i)
     THEN /\ Goto(c, "mv_end")
          /\ UNCHANGED <<iref, freed, resp, lOp, lIdx>>
     ELSE /\ Unref(i)
          /\ Return(c, InTable(p, i), 0)
  /\ UNCHANGED <<slots, inv>> /\ StepFrame

\* Find the opponent's slot id and send MOVED; a move that did not end the
\* game is done.  A missing opponent slot fails the request after the move.
MoveNotify(c) ==
  LET i == lInv[c]  p == PeerOf(lInv[c], c) IN
  /\ pc[c] = "mv_opp"
  /\ IF InTable(p, i) /\ inv[i].over
     THEN /\ Goto(c, "mv_end")
          /\ UNCHANGED <<iref, freed, resp, lOp, lIdx>>
     ELSE /\ Unref(i)
          /\ Return(c, InTable(p, i), 0)
  /\ UNCHANGED <<slots, inv>> /\ StepFrame

\* Mutant: the game's end removes the invitation from the mover's table only.
MoveEndOwnTableOnly(c) ==
  LET i == lInv[c]  p == PeerOf(i, c)
      holders == {d \in {c} : InTable(d, i)}
  IN
  /\ pc[c] = "mv_end"
  /\ slots' = [d \in Clients |-> IF d \in holders
                                 THEN [slots[d] EXCEPT ![SlotOf(d, i)] = NoInv]
                                 ELSE slots[d]]
  /\ IF PostBlocks(player[c], player[p])
     THEN /\ UnrefN(i, Cardinality(holders)) /\ Block(c, player[c], player[p])
          /\ UNCHANGED <<posted, resp, lOp, lIdx>>
     ELSE /\ UnrefN(i, Cardinality(holders) + 1)
          /\ posted' = IF player[c] # NoPlayer /\ player[p] # NoPlayer
                       THEN [posted EXCEPT ![i] = @ + 1] ELSE posted
          /\ Return(c, TRUE, 0)
          /\ UNCHANGED ratingHeld
  /\ UNCHANGED <<player, session, registered, conn, inv, lInv, lId, lPeer, lName, lRole, lRet, inLogout>>

\* The game is over: ENDED to both, removal from the mover's and then the
\* opponent's table (results ignored), player_post_result for the mover's
\* and the opponent's current players, and the last inv_unref.
MoveEnd(c) ==
  LET i == lInv[c]  p == PeerOf(i, c)
      holders == {d \in {c, p} : InTable(d, i)}
  IN
  /\ pc[c] = "mv_end"
  /\ slots' = [d \in Clients |-> IF d \in holders
                                 THEN [slots[d] EXCEPT ![SlotOf(d, i)] = NoInv]
                                 ELSE slots[d]]
  /\ IF PostBlocks(player[c], player[p])
     THEN /\ UnrefN(i, Cardinality(holders)) /\ Block(c, player[c], player[p])
          /\ UNCHANGED <<posted, resp, lOp, lIdx>>
     ELSE /\ UnrefN(i, Cardinality(holders) + 1)
          /\ posted' = IF player[c] # NoPlayer /\ player[p] # NoPlayer
                       THEN [posted EXCEPT ![i] = @ + 1] ELSE posted
          /\ Return(c, TRUE, 0)
          /\ UNCHANGED ratingHeld
  /\ UNCHANGED <<player, session, registered, conn, inv, lInv, lId, lPeer, lName, lRole, lRet, inLogout>>

-----------------------------------------------------------------------------
(* Disconnection.  The peer may close its end at any time; the service     *)
(* thread then reads end-of-stream, logs the client out if it knows of a   *)
(* login, and unregisters it, which closes the socket.                     *)
Hangup(c) ==
  /\ conn[c] = "open"
  /\ conn' = [conn EXCEPT ![c] = "hup"]
  /\ UNCHANGED <<player, session, registered, ratingHeld, tableVars, resp, localVars>>

Disconnect(c) ==
  /\ pc[c] = "idle" /\ conn[c] = "hup"
  /\ IF session[c] # NoPlayer /\ player[c] # NoPlayer
     THEN /\ inLogout' = [inLogout EXCEPT ![c] = TRUE]
          /\ lIdx' = [lIdx EXCEPT ![c] = 0]
          /\ lOp' = [lOp EXCEPT ![c] = "resign"]
          /\ Goto(c, "lo_fetch")
     ELSE /\ Goto(c, "unregister")
          /\ UNCHANGED <<inLogout, lIdx, lOp>>
  /\ UNCHANGED <<sessionVars, tableVars, resp, lInv, lId, lPeer, lName, lRole, lRet>>

\* client_logout's loop: for every slot, resign, else revoke, else decline;
\* each attempt reads the slot afresh.  After the last slot the player is
\* released.
LogoutFetch(c) ==
  /\ pc[c] = "lo_fetch"
  /\ IF lIdx[c] = SlotCap
     THEN /\ player' = [player EXCEPT ![c] = NoPlayer]
          /\ inLogout' = [inLogout EXCEPT ![c] = FALSE]
          /\ Goto(c, "unregister")
          /\ UNCHANGED <<lInv, lId, lOp, lIdx>>
     ELSE /\ lInv' = [lInv EXCEPT ![c] = slots[c][lIdx[c]]]
          /\ lId' = [lId EXCEPT ![c] = lIdx[c]]
          /\ IF slots[c][lIdx[c]] = NoInv
             THEN Return(c, FALSE, 0)
             ELSE Goto(c, "ref") /\ UNCHANGED <<lOp, lIdx>>
          /\ UNCHANGED <<player, inLogout>>
  /\ UNCHANGED <<session, registered, conn, ratingHeld, tableVars, resp, lPeer, lName, lRole, lRet>>

\* creg_unregister: close the socket and clear the registry entry.
Unregister(c) ==
  /\ pc[c] = "unregister"
  /\ registered' = [registered EXCEPT ![c] = FALSE]
  /\ conn' = [conn EXCEPT ![c] = "closed"]
  /\ Goto(c, "done")
  /\ UNCHANGED <<player, session, ratingHeld, tableVars, resp, lOp, lInv, lId, lPeer, lName, lRole, lRet, inLogout, lIdx>>

-----------------------------------------------------------------------------
ThreadStep(c) ==
  \/ LoginSet(c)
  \/ InviteAddSource(c) \/ InviteAddTarget(c) \/ InviteNotify(c)
  \/ Ref(c)
  \/ RevokeClose(c) \/ DeclineClose(c) \/ ResignClose(c)
  \/ RemoveOwn(c) \/ RemovePeer(c)
  \/ AcceptMain(c) \/ AcceptNotify(c)
  \/ MoveParse(c) \/ MoveApply(c) \/ MoveSetResult(c) \/ MoveNotify(c) \/ MoveEnd(c)
  \/ Disconnect(c) \/ LogoutFetch(c) \/ Unregister(c)

Request(c) ==
  \/ \E n \in Names : Login(c, n)
  \/ Unauthorized(c)
  \/ \E n \in Names, r \in Roles : Invite(c, n, r)
  \/ \E op \in SlotOps, k \in Slots : SlotRequest(c, op, k)

Next == \E c \in Clients : Request(c) \/ ThreadStep(c) \/ Hangup(c)

\* A service thread that has work never stops; clients need not send
\* anything or hang up.
Fairness == \A c \in Clients : WF_vars(ThreadStep(c))

Spec == Init /\ [][Next]_vars /\ Fairness

\* The thread locals are dead while a thread is idle or done; states that
\* differ only in them (or in the ACK history) behave alike.
LiveLocals(c) ==
  LET loop == IF inLogout[c] THEN <<lOp[c], lIdx[c]>> ELSE <<>> IN
  CASE pc[c] \in {"idle", "done", "unregister"} -> <<pc[c]>>
    [] pc[c] = "login_set"   -> <<pc[c], lName[c]>>
    [] pc[c] = "inv_add_src" -> <<pc[c], lPeer[c], lRole[c]>>
    [] pc[c] \in {"inv_add_tgt", "inv_notify"} -> <<pc[c], lPeer[c], lInv[c], lId[c]>>
    [] pc[c] = "lo_fetch"    -> <<pc[c], loop>>
    [] pc[c] = "mv_result"   -> <<pc[c], lOp[c], lInv[c], lRet[c], loop>>
    [] OTHER                 -> <<pc[c], lOp[c], lInv[c], loop>>
\* A freed invitation that no slot and no thread points to can never be
\* touched again; only the number of results posted for it is kept.
Dead(i) == freed[i] /\ ~\E c \in Clients : InTable(c, i) \/ (lInv[c] = i /\ pc[c] \notin {"idle", "done"})
InvView(i) == IF Dead(i) THEN <<"dead", posted[i]>> ELSE <<inv[i], iref[i], freed[i], posted[i]>>
StateView == <<sessionVars, slots, [i \in InvIds |-> InvView(i)], [c \in Clients |-> LiveLocals(c)]>>

-----------------------------------------------------------------------------
(* Properties.                                                             *)

TypeOK ==
  /\ player \in [Clients -> Names \cup {NoPlayer}]
  /\ session \in [Clients -> Names \cup {NoPlayer}]
  /\ registered \in [Clients -> BOOLEAN]
  /\ conn \in [Clients -> {"open", "hup", "closed"}]
  /\ ratingHeld \subseteq Names
  /\ slots \in [Clients -> [Slots -> InvIds \cup {NoInv}]]
  /\ \A i \in InvIds :
       /\ inv[i].state \in InvStates
       /\ {inv[i].src, inv[i].tgt} \subseteq Clients
       /\ inv[i].srcRole \in Roles /\ inv[i].turn \in Roles
       /\ inv[i].moves \in 0 .. 9
       /\ inv[i].winner \in Roles \cup {NULL_ROLE} /\ inv[i].lines \subseteq Roles
  /\ iref \in [InvIds -> Nat] /\ freed \in [InvIds -> BOOLEAN]
  /\ posted \in [InvIds -> Nat]
  /\ pc \in [Clients -> Pcs] /\ lOp \in [Clients -> SlotOps]
  /\ lRet \in [Clients -> Roles \cup {NULL_ROLE, FULL}]
  /\ lInv \in [Clients -> InvIds \cup {NoInv}] /\ lIdx \in [Clients -> 0 .. SlotCap]

\* No service thread is inside an operation it can still finish.
Quiescent == \A c \in Clients : pc[c] \in {"idle", "done", "post_blocked"}

(* Between operations an invitation is in no table or in exactly one slot *)
(* of its source's table and one of its target's: every path of revoke,   *)
(* decline, resign, a game-ending move and the invite rollback clears     *)
(* both sides, whichever thread gets to a slot first.                     *)
SlotPairing ==
  Quiescent =>
    \A i \in InvIds :
      LET holders == {<<c, k>> \in Clients \X Slots : slots[c][k] = i} IN
      \/ holders = {}
      \/ \E j, k \in Slots : holders = {<<inv[i].src, j>>, <<inv[i].tgt, k>>}


\* The steps at which a service thread holds its own inv_ref reference.
HoldingPcs == {"main", "rm_own", "rm_peer", "acc_notify", "mv_apply", "mv_result",
               "mv_opp", "mv_end", "post_blocked"}

SlotRefs(i)   == Cardinality({<<c, k>> \in Clients \X Slots : slots[c][k] = i})
ThreadRefs(i) == Cardinality({c \in Clients : lInv[c] = i /\ pc[c] \in HoldingPcs \cup {"inv_add_tgt"}})

(* The reference count of every live invitation is exactly the number of   *)
(* table slots holding it plus the references its threads hold (the       *)
(* creation reference of client_make_invitation, or an operation's         *)
(* inv_ref), and a freed invitation is in no table: every early return of *)
(* the five slot operations and of the logout loop gives back what it took. *)
RefCountsMatch ==
  \A i \in InvIds :
    /\ (inv[i].state # "unused" /\ ~freed[i]) => iref[i] = SlotRefs(i) + ThreadRefs(i)
    /\ freed[i] => SlotRefs(i) = 0

(* A game in progress stays in both players' tables: neither a revoke,     *)
(* decline, resignation, logout nor the other player's move removes an     *)
(* accepted invitation whose game is not over, so both players can always *)
(* name it by their slot id.                                               *)
LiveGameReachable ==
  \A i \in InvIds :
    (inv[i].state = "accepted" /\ ~inv[i].over)
      => InTable(inv[i].src, i) /\ InTable(inv[i].tgt, i)

\* An accepted invitation whose game has ended by a move stays ACCEPTED in
\* the code (client_make_move never calls inv_close); it is the CLOSED of
\* spec.md 3, since no operation tells the two apart.
InvAbsState == [i \in InvIds |->
                  IF inv[i].state = "accepted" /\ inv[i].over THEN "closed" ELSE inv[i].state]
InvAbsGame  == [i \in InvIds |->
                  IF ~inv[i].hasGame THEN "none" ELSE IF inv[i].over THEN "over" ELSE "running"]

SM == INSTANCE InvitationSM WITH Ids <- InvIds, state <- InvAbsState, game <- InvAbsGame

(* Every invitation follows the state machine of spec.md 3 (InvitationSM): *)
(* revoke, decline, accept, resign and the moves of concurrent threads,    *)
(* each deciding on the state it reads under the state lock, never accept *)
(* a closed invitation, withdraw one that has a game, or end a game twice. *)
InvitationMachine == SM!Spec

-----------------------------------------------------------------------------
(* What the specification (spec.md section 8) says and the code does not    *)
(* guarantee; each is checked by a run expected to find a violation.       *)

(* A thread never uses a freed invitation: neither one it holds (or has   *)
(* just incremented) nor the one client_make_invitation reads for the     *)
(* INVITED packet after dropping its creation reference.                  *)
NoUseAfterFree ==
  \A c \in Clients : pc[c] \in HoldingPcs \cup {"inv_notify"} => ~freed[lInv[c]]

(* Losing the connection forfeits every open invitation and game: once a   *)
(* client's service thread has finished, no open invitation or running     *)
(* game involves it.                                                       *)
DisconnectForfeits ==
  \A c \in Clients, i \in InvIds :
    (pc[c] = "done" /\ ~freed[i] /\ c \in {inv[i].src, inv[i].tgt})
      => \/ inv[i].state \in {"unused", "closed"}
         \/ inv[i].state = "accepted" /\ inv[i].over

=============================================================================
