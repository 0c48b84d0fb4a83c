---- MODULE MCSessionServer ----
(* Small instances of SessionServer.  Of the three lines, u1 is the name of *)
(* the account and a possible new password, u2 is its password at first.    *)
EXTENDS SessionServer, TLC

CONSTANTS u1, u2, bye

MCInitFiles ==
    {[u \in Users |-> [pass |-> u2, status |-> s]] : s \in {"active", "notready"}}
====
