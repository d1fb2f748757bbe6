------------------------------- MODULE MCJeux -------------------------------
(* Model-checking instance of Jeux: a few clients, two names, small tables. *)
EXTENDS Jeux, TLC

CONSTANTS n1, n2
MC2 == 1 .. 2
MC3 == 1 .. 3
MCNames == {n1, n2}
NameSymmetry == Permutations(MCNames)
=============================================================================
