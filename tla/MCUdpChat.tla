---- MODULE MCUdpChat ----
(* Small instances of UdpChat.                                              *)
EXTENDS UdpChat, TLC

Symmetry == {p @@ q : p \in Permutations(Addresses), q \in Permutations(Names)}
====
