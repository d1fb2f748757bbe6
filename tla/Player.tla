------------------------------- MODULE Player -------------------------------
(***************************************************************************)
(* The players of the Jeux server and their ratings (player.c,            *)
(* player_registry.c), driven by the service threads of the clients       *)
(* (server.c login_handler, client.c client_login and the calls of        *)
(* player_post_result at the end of a game).                               *)
(*                                                                         *)
(* A PLAYER is named by its id, the value of the global player_id counter *)
(* when player_create made it.  Its ref_count is modelled with every       *)
(* reference the code takes and drops: the registry's, login_handler's     *)
(* (kept by the service loop as new_player), the client's, and the two the *)
(* mover takes around player_post_result.  A rating is abstracted to the   *)
(* number of results applied to it: what matters is whether an update is  *)
(* lost, not the Elo arithmetic in doubles.                                *)
(***************************************************************************)
EXTENDS Integers, FiniteSets, FiniteSetsExt

CONSTANTS
  Clients,          \* the service threads, one per connected client
  Names,            \* the user names
  LoginNames,       \* LoginNames[c]: the names client c may send in a LOGIN
  MaxPosts,         \* bound on the results each thread posts
  MaxAckFailures    \* bound on the LOGIN ACKs that cannot be written

VARIABLES
  preg,        \* the player registry: preg[n] is the PLAYER named n, or NONE
  player_id,   \* the counter player_create draws ids from
  ref,         \* player->ref_count
  player,      \* client->player
  session,     \* jeux_client_service's new_player
  rating,      \* player->rating, as the number of results applied to it
  ratingLock,  \* the holder of each player's rating_mutex, or NONE
  pc,          \* each service thread's program counter
  lPlayer,     \* login_handler's new_player
  lFirst,      \* whether the mover's client has the FIRST role
  lP1, lP2,    \* player_post_result's player1 and player2
  lR1, lR2,    \* the ratings r1 and r2 it read
  posts,       \* results posted by each thread so far
  ackFailures, \* LOGIN ACKs that could not be written so far
  applied      \* history: results whose update of a player completed

vars == <<preg, player_id, ref, player, session, rating, ratingLock, pc, lPlayer,
          lFirst, lP1, lP2, lR1, lR2, posts, ackFailures, applied>>

NONE == -1
Ids  == 0 .. Cardinality(Names) - 1   \* at most one PLAYER per name

\* player_ref and player_unref, each under the PLAYER's mutex; both
\* return at once on a NULL player.
Ref(r, p)   == IF p = NONE THEN r ELSE [r EXCEPT ![p] = @ + 1]
Unref(r, p) == IF p = NONE THEN r ELSE [r EXCEPT ![p] = @ - 1]

-----------------------------------------------------------------------------
Init ==
  /\ preg = [n \in Names |-> NONE]
  /\ player_id = 0
  /\ ref = [p \in Ids |-> 0]
  /\ player = [c \in Clients |-> NONE]
  /\ session = [c \in Clients |-> NONE]
  /\ rating = [p \in Ids |-> 0]
  /\ ratingLock = [p \in Ids |-> NONE]
  /\ pc = [c \in Clients |-> "idle"]
  /\ lPlayer = [c \in Clients |-> NONE]
  /\ lFirst = [c \in Clients |-> TRUE]
  /\ lP1 = [c \in Clients |-> NONE]
  /\ lP2 = [c \in Clients |-> NONE]
  /\ lR1 = [c \in Clients |-> 0]
  /\ lR2 = [c \in Clients |-> 0]
  /\ posts = [c \in Clients |-> 0]
  /\ ackFailures = 0
  /\ applied = [p \in Ids |-> 0]

\* Mutant: a new PLAYER gets no reference for the registry.
preg_registerNoRegistryRef(c, n) ==
  /\ pc[c] = "idle" /\ session[c] = NONE
  /\ IF preg[n] # NONE
       THEN /\ lPlayer' = [lPlayer EXCEPT ![c] = preg[n]]
            /\ ref' = Ref(ref, preg[n])
            /\ UNCHANGED <<preg, player_id>>
       ELSE /\ preg' = [preg EXCEPT ![n] = player_id]
            /\ player_id' = player_id + 1
            /\ lPlayer' = [lPlayer EXCEPT ![c] = player_id]
            /\ ref' = [ref EXCEPT ![player_id] = 1]
  /\ pc' = [pc EXCEPT ![c] = "login_lookup"]
  /\ UNCHANGED <<player, session, rating, ratingLock, lFirst, lP1, lP2, lR1, lR2,
                 posts, ackFailures, applied>>

(* LOGIN on a connection whose service loop has no new_player:            *)
(* preg_register finds the PLAYER of the name and refs it for the caller, *)
(* or creates it with the next id (player_create's reference, returned to *)
(* the caller) and refs it again for the registry, under the registry's    *)
(* mutex.                                                                  *)
preg_register(c, n) ==
  /\ pc[c] = "idle" /\ session[c] = NONE
  /\ IF preg[n] # NONE
       THEN /\ lPlayer' = [lPlayer EXCEPT ![c] = preg[n]]
            /\ ref' = Ref(ref, preg[n])
            /\ UNCHANGED <<preg, player_id>>
       ELSE /\ preg' = [preg EXCEPT ![n] = player_id]
            /\ player_id' = player_id + 1
            /\ lPlayer' = [lPlayer EXCEPT ![c] = player_id]
            /\ ref' = [ref EXCEPT ![player_id] = 2]
  /\ pc' = [pc EXCEPT ![c] = "login_lookup"]
  /\ UNCHANGED <<player, session, rating, ratingLock, lFirst, lP1, lP2, lR1, lR2,
                 posts, ackFailures, applied>>

(* client_login: it fails if the client already has a player, or if       *)
(* creg_lookup finds another client logged in as the PLAYER; then          *)
(* login_handler drops its reference and NACKs.  Otherwise the player is   *)
(* stored after the lookup has released the registry's mutex.              *)
LoginLookup(c) ==
  /\ pc[c] = "login_lookup"
  /\ IF player[c] # NONE \/ \E d \in Clients : player[d] = lPlayer[c]
       THEN /\ pc' = [pc EXCEPT ![c] = "idle"]
            /\ ref' = Unref(ref, lPlayer[c])
            /\ lPlayer' = [lPlayer EXCEPT ![c] = NONE]
       ELSE /\ pc' = [pc EXCEPT ![c] = "login_set"]
            /\ UNCHANGED <<ref, lPlayer>>
  /\ UNCHANGED <<preg, player_id, player, session, rating, ratingLock, lFirst, lP1, lP2,
                 lR1, lR2, posts, ackFailures, applied>>

\* client_set_player_safe(client, player_ref(player, ...)).
LoginSet(c) ==
  /\ pc[c] = "login_set"
  /\ ref' = Ref(ref, lPlayer[c])
  /\ player' = [player EXCEPT ![c] = lPlayer[c]]
  /\ pc' = [pc EXCEPT ![c] = "login_ack"]
  /\ UNCHANGED <<preg, player_id, session, rating, ratingLock, lPlayer, lFirst, lP1, lP2,
                 lR1, lR2, posts, ackFailures, applied>>

\* The ACK is written and the service loop keeps new_player.
LoginAcked(c) ==
  /\ pc[c] = "login_ack"
  /\ session' = [session EXCEPT ![c] = lPlayer[c]]
  /\ lPlayer' = [lPlayer EXCEPT ![c] = NONE]
  /\ pc' = [pc EXCEPT ![c] = "idle"]
  /\ UNCHANGED <<preg, player_id, ref, player, rating, ratingLock, lFirst, lP1, lP2,
                 lR1, lR2, posts, ackFailures, applied>>

\* The peer has closed: client_send_ack fails and login_handler returns
\* NULL, so the service loop keeps no new_player although the client is
\* logged in and login_handler's reference is never dropped.
LoginAckFailed(c) ==
  /\ pc[c] = "login_ack"
  /\ ackFailures < MaxAckFailures
  /\ ackFailures' = ackFailures + 1
  /\ lPlayer' = [lPlayer EXCEPT ![c] = NONE]
  /\ pc' = [pc EXCEPT ![c] = "idle"]
  /\ UNCHANGED <<preg, player_id, ref, player, session, rating, ratingLock, lFirst,
                 lP1, lP2, lR1, lR2, posts, applied>>

(* End of stream in jeux_client_service.  With a new_player the thread    *)
(* drops its reference and calls client_logout.  Without one it only      *)
(* unregisters the client: a client logged in behind a failed ACK keeps   *)
(* its player, and the reference it holds is lost with the CLIENT.        *)
Hangup(c) ==
  /\ pc[c] = "idle"
  /\ \/ /\ session[c] # NONE
        /\ ref' = Unref(ref, session[c])
        /\ session' = [session EXCEPT ![c] = NONE]
        /\ pc' = [pc EXCEPT ![c] = "logout"]
        /\ UNCHANGED player
     \/ /\ session[c] = NONE /\ player[c] # NONE
        /\ player' = [player EXCEPT ![c] = NONE]
        /\ UNCHANGED <<ref, session, pc>>
  /\ UNCHANGED <<preg, player_id, rating, ratingLock, lPlayer, lFirst, lP1, lP2,
                 lR1, lR2, posts, ackFailures, applied>>

\* client_logout: player_unref(client_get_player(client)), then, in a
\* separate critical section, client_set_player_safe(client, NULL).
Logout(c) ==
  /\ pc[c] = "logout"
  /\ ref' = Unref(ref, player[c])
  /\ pc' = [pc EXCEPT ![c] = "logout_clear"]
  /\ UNCHANGED <<preg, player_id, player, session, rating, ratingLock, lPlayer, lFirst,
                 lP1, lP2, lR1, lR2, posts, ackFailures, applied>>

LogoutClear(c) ==
  /\ pc[c] = "logout_clear"
  /\ player' = [player EXCEPT ![c] = NONE]
  /\ pc' = [pc EXCEPT ![c] = "idle"]
  /\ UNCHANGED <<preg, player_id, ref, session, rating, ratingLock, lPlayer, lFirst,
                 lP1, lP2, lR1, lR2, posts, ackFailures, applied>>
-----------------------------------------------------------------------------
(* A game between client c and its opponent d ends on c's thread           *)
(* (client_make_move or client_resign_game).  The mover refs its client's *)
(* player, then reads the opponent client's player and, in a separate     *)
(* critical section, refs it; the opponent's thread may log out in        *)
(* between.  Its player is stored as player1 or player2 by role.          *)
PostResult(c, d, cFirst) ==
  /\ pc[c] = "idle" /\ c # d /\ session[c] # NONE
  /\ posts[c] < MaxPosts
  /\ posts' = [posts EXCEPT ![c] = @ + 1]
  /\ ref' = Ref(ref, player[c])
  /\ lFirst' = [lFirst EXCEPT ![c] = cFirst]
  /\ lP1' = [lP1 EXCEPT ![c] = IF cFirst THEN player[c] ELSE player[d]]
  /\ lP2' = [lP2 EXCEPT ![c] = IF cFirst THEN player[d] ELSE player[c]]
  /\ pc' = [pc EXCEPT ![c] = "ref_opp"]
  /\ UNCHANGED <<preg, player_id, player, session, rating, ratingLock, lPlayer,
                 lR1, lR2, ackFailures, applied>>

\* The opponent's player as the mover read it.
Opponent(c) == IF lFirst[c] THEN lP2[c] ELSE lP1[c]

\* Mutant: player_post_result without its NULL check.
RefOpponentNoNullCheck(c) ==
  /\ pc[c] = "ref_opp"
  /\ ref' = Ref(ref, Opponent(c))
  /\ pc' = [pc EXCEPT ![c] = "lock1"]
  /\ UNCHANGED <<preg, player_id, player, session, rating, ratingLock, lPlayer, lFirst,
                 lP1, lP2, lR1, lR2, posts, ackFailures, applied>>

(* player_ref on the opponent's player, then player_post_result, which     *)
(* returns at once if either player is NULL (the opponent had logged out). *)
RefOpponent(c) ==
  /\ pc[c] = "ref_opp"
  /\ ref' = Ref(ref, Opponent(c))
  /\ pc' = [pc EXCEPT ![c] = IF Opponent(c) = NONE THEN "unref" ELSE "lock1"]
  /\ UNCHANGED <<preg, player_id, player, session, rating, ratingLock, lPlayer, lFirst,
                 lP1, lP2, lR1, lR2, posts, ackFailures, applied>>

\* The rating mutexes in the order player_post_result takes them: the
\* lower id first.
LockOrder(c) == IF lP1[c] < lP2[c] THEN <<lP1[c], lP2[c]>> ELSE <<lP2[c], lP1[c]>>

\* Mutant: the lock's result is ignored, as with an unchecked trylock.
AcquireUnchecked(c, m, next) ==
  /\ ratingLock' = [ratingLock EXCEPT ![m] = c]
  /\ pc' = [pc EXCEPT ![c] = next]

\* pthread_mutex_lock blocks until the mutex is free; a thread that holds
\* a default mutex and locks it again blocks forever.
Acquire(c, m, next) ==
  /\ ratingLock[m] = NONE
  /\ ratingLock' = [ratingLock EXCEPT ![m] = c]
  /\ pc' = [pc EXCEPT ![c] = next]

LockFirst(c) ==
  /\ pc[c] = "lock1"
  /\ Acquire(c, LockOrder(c)[1], "lock2")
  /\ UNCHANGED <<preg, player_id, ref, player, session, rating, lPlayer, lFirst, lP1, lP2,
                 lR1, lR2, posts, ackFailures, applied>>

\* Mutant: only the first mutex is taken.
LockSecondSkipped(c) ==
  /\ pc[c] = "lock2"
  /\ pc' = [pc EXCEPT ![c] = "read"]
  /\ UNCHANGED <<preg, player_id, ref, player, session, rating, ratingLock, lPlayer, lFirst,
                 lP1, lP2, lR1, lR2, posts, ackFailures, applied>>

LockSecond(c) ==
  /\ pc[c] = "lock2"
  /\ Acquire(c, LockOrder(c)[2], "read")
  /\ UNCHANGED <<preg, player_id, ref, player, session, rating, lPlayer, lFirst, lP1, lP2,
                 lR1, lR2, posts, ackFailures, applied>>

\* r1 = player1->rating; r2 = player2->rating.
ReadRatings(c) ==
  /\ pc[c] = "read"
  /\ lR1' = [lR1 EXCEPT ![c] = rating[lP1[c]]]
  /\ lR2' = [lR2 EXCEPT ![c] = rating[lP2[c]]]
  /\ pc' = [pc EXCEPT ![c] = "write"]
  /\ UNCHANGED <<preg, player_id, ref, player, session, rating, ratingLock, lPlayer, lFirst,
                 lP1, lP2, posts, ackFailures, applied>>

\* player1->rating = ...; player2->rating = ...: each from what was read.
WriteRatings(c) ==
  /\ pc[c] = "write"
  /\ rating' = [rating EXCEPT ![lP1[c]] = lR1[c] + 1, ![lP2[c]] = lR2[c] + 1]
  /\ applied' = [applied EXCEPT ![lP1[c]] = @ + 1, ![lP2[c]] = @ + 1]
  /\ pc' = [pc EXCEPT ![c] = "unlock1"]
  /\ UNCHANGED <<preg, player_id, ref, player, session, ratingLock, lPlayer, lFirst, lP1, lP2,
                 lR1, lR2, posts, ackFailures>>

\* The two unlocks, player1's mutex first.
UnlockFirst(c) ==
  /\ pc[c] = "unlock1"
  /\ ratingLock' = [ratingLock EXCEPT ![lP1[c]] = NONE]
  /\ pc' = [pc EXCEPT ![c] = "unlock2"]
  /\ UNCHANGED <<preg, player_id, ref, player, session, rating, lPlayer, lFirst, lP1, lP2,
                 lR1, lR2, posts, ackFailures, applied>>

\* Mutant: the second mutex is never unlocked.
UnlockSecondMissing(c) ==
  /\ pc[c] = "unlock2"
  /\ pc' = [pc EXCEPT ![c] = "unref"]
  /\ UNCHANGED <<preg, player_id, ref, player, session, rating, ratingLock, lPlayer, lFirst,
                 lP1, lP2, lR1, lR2, posts, ackFailures, applied>>

UnlockSecond(c) ==
  /\ pc[c] = "unlock2"
  /\ ratingLock' = [ratingLock EXCEPT ![lP2[c]] = NONE]
  /\ pc' = [pc EXCEPT ![c] = "unref"]
  /\ UNCHANGED <<preg, player_id, ref, player, session, rating, lPlayer, lFirst, lP1, lP2,
                 lR1, lR2, posts, ackFailures, applied>>

\* Back in the mover: player_unref on both players.
ReleasePlayers(c) ==
  /\ pc[c] = "unref"
  /\ ref' = Unref(Unref(ref, lP1[c]), lP2[c])
  /\ pc' = [pc EXCEPT ![c] = "idle"]
  /\ UNCHANGED <<preg, player_id, player, session, rating, ratingLock, lPlayer, lFirst,
                 lP1, lP2, lR1, lR2, posts, ackFailures, applied>>

-----------------------------------------------------------------------------
\* The steps of a request already under way, which the thread takes
\* without waiting for its client.
ThreadStep(c) ==
  \/ LoginLookup(c) \/ LoginSet(c) \/ LoginAcked(c) \/ LoginAckFailed(c)
  \/ Logout(c) \/ LogoutClear(c)
  \/ RefOpponent(c) \/ LockFirst(c) \/ LockSecond(c) \/ ReadRatings(c)
  \/ WriteRatings(c) \/ UnlockFirst(c) \/ UnlockSecond(c) \/ ReleasePlayers(c)

Next ==
  \E c \in Clients :
    \/ \E n \in LoginNames[c] : preg_register(c, n)
    \/ Hangup(c)
    \/ \E d \in Clients, cFirst \in BOOLEAN : PostResult(c, d, cFirst)
    \/ ThreadStep(c)

Fairness == \A c \in Clients : WF_vars(ThreadStep(c))

Spec == Init /\ [][Next]_vars /\ Fairness

InPost(c) == pc[c] \in {"lock1", "lock2", "read", "write", "unlock1", "unlock2"}
InMover(c) == InPost(c) \/ pc[c] \in {"ref_opp", "unref"}
InLogin(c) == pc[c] \in {"login_lookup", "login_set", "login_ack"}

\* The state without the locals a thread no longer uses: the login locals
\* outside a login and the mover's locals outside the mover.
StateView ==
  <<preg, player_id, ref, player, session, rating, ratingLock, pc, posts,
    ackFailures, applied,
    [c \in Clients |-> IF InLogin(c) THEN lPlayer[c] ELSE NONE],
    [c \in Clients |-> IF InMover(c) THEN <<lFirst[c], lP1[c], lP2[c]>> ELSE <<>>],
    [c \in Clients |-> IF pc[c] \in {"write"} THEN <<lR1[c], lR2[c]>> ELSE <<>>]>>
-----------------------------------------------------------------------------
(* Properties.                                                             *)

(* Types, and: a thread inside player_post_result holds two real PLAYERs  *)
(* (the NULL check has sent every other call back).                       *)
TypeOK ==
  /\ preg \in [Names -> Ids \cup {NONE}] /\ player_id \in 0 .. Cardinality(Names)
  /\ ref \in [Ids -> Nat]
  /\ player \in [Clients -> Ids \cup {NONE}] /\ session \in [Clients -> Ids \cup {NONE}]
  /\ ratingLock \in [Ids -> Clients \cup {NONE}]
  /\ pc \in [Clients -> {"idle", "login_lookup", "login_set", "login_ack",
                         "logout", "logout_clear", "ref_opp", "lock1", "lock2",
                         "read", "write", "unlock1", "unlock2", "unref"}]
  /\ \A c \in Clients : InPost(c) => lP1[c] \in Ids /\ lP2[c] \in Ids

(* No rating update is lost: every result applied to a player by          *)
(* player_post_result is reflected in its rating, although threads of      *)
(* different games post results for the same player at once.  The two     *)
(* rating mutexes make each read-modify-write of player_post_result        *)
(* exclusive for both of its players.                                      *)
RatingUpdatesNotLost == \A p \in Ids : rating[p] = applied[p]

(* Every call of player_post_result that gets past its NULL check returns: *)
(* threads posting for games with the same players in opposite roles do   *)
(* not deadlock, because both take the lower id's mutex first.             *)
PostsComplete == \A c \in Clients : pc[c] = "lock1" ~> pc[c] = "idle"

\* The references client c's thread holds on PLAYER p: its client's,
\* its new_player, login_handler's while the LOGIN is under way, and the
\* mover's.  client_logout's reference is dropped before the client's
\* player is cleared.
HeldBy(c, p) ==
  LET Has(b) == IF b THEN 1 ELSE 0 IN
    Has(player[c] = p /\ pc[c] # "logout_clear")
  + Has(session[c] = p)
  + Has(InLogin(c) /\ lPlayer[c] = p)
  + Has(pc[c] = "ref_opp" /\ player[c] = p)
  + Has((InPost(c) \/ pc[c] = "unref") /\ lP1[c] = p)
  + Has((InPost(c) \/ pc[c] = "unref") /\ lP2[c] = p)

(* No PLAYER is freed while anything points to it: its ref_count is at    *)
(* least the references the registry and the threads hold on it (a        *)
(* failed LOGIN ACK leaks references, so it may be more), so it does not  *)
(* reach zero while the registry holds the PLAYER.  Logins, logouts       *)
(* and movers run at once on different threads, and the mover reads the    *)
(* opponent's player before refing it (client.c:779) while the opponent    *)
(* may be logging out; the registry's own reference is what keeps the      *)
(* PLAYER alive then.                                                      *)
PlayerRefsCover ==
  \A p \in 0 .. player_id - 1 :
    ref[p] >= 1 + MapThenSumSet(LAMBDA c : HeldBy(c, p), Clients)
====
