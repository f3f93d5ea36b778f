------------------------------ MODULE MCLiveHub ------------------------------
(* LiveHub on small instances. *)
EXTENDS LiveHub, TLC

CONSTANTS c1, c2, s1

OneScope == [c \in Conns |-> s1]

One == [c \in Conns |-> 1]
Three == [c \in Conns |-> 3]
TwoThenOne == [c \in Conns |-> IF c = c1 THEN 2 ELSE 1]

Symmetry == Permutations(Conns)
=============================================================================
