---- MODULE MCForkServer ----
(* Small instances of ForkServer: one userid ends the other, so that a cut  *)
(* line is one of another user.                                             *)
EXTENDS ForkServer, TLC

UsersAB == {<<"a">>, <<"b", "a">>}

(* " 10.0.0.1 5001\n" *)
SameWidth == [c \in Conns |-> 15]

Symmetry == Permutations(Conns)
====
