---- MODULE MCSignalServer ----
(* Small instances of SignalServer.                                         *)
EXTENDS SignalServer
====
