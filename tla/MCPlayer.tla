------------------------------ MODULE MCPlayer ------------------------------
(* Model-checking instance of Player: clients, names and who logs in as   *)
(* whom.                                                                   *)
EXTENDS Player, TLC

CONSTANTS c1, c2, c3, a, b, d
MCClients == {c1, c2, c3}
MCNames   == {a, b, d}
\* Each client logs in under a name of its own.
MCOwnNames == (c1 :> {a}) @@ (c2 :> {b}) @@ (c3 :> {d})
\* Two clients, each with a name of its own.
MCTwo == {c1, c2}
MCTwoNames == {a, b}
MCTwoOwnNames == (c1 :> {a}) @@ (c2 :> {b})
\* Two clients and one name: both log in as the same player.
MCPair == {c1, c2}
MCOneName == {a}
MCPairOneName == [c \in MCPair |-> MCOneName]
====
