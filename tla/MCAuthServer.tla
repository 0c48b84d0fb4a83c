---- MODULE MCAuthServer ----
(* Small instances of AuthServer: all accounts start active.               *)
EXTENDS AuthServer

AllActive == [u \in Users |-> "active"]
====
