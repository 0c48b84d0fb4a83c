---- MODULE ChatRoom ----
(***************************************************************************)
(* What the UDP chat server of HW6 promises: it knows one login name per   *)
(* address, for at most MAX_CLIENTS addresses at a time, and logs what an  *)
(* address sends in the file of the name it has then.                      *)
(***************************************************************************)
EXTENDS Naturals, FiniteSets

CONSTANTS Addresses, Names, None, MAX_CLIENTS

VARIABLES
    users,  \* <<address, login name>> of everybody logged in
    log     \* the last line: <<address, name of the file>>, None at first

Init == users = {} /\ log = None

(* A login, or a new name for an address. *)
Login(a, n) ==
    /\ users' = {u \in users : u[1] # a} \cup {<<a, n>>}
    /\ Cardinality(users') <= MAX_CLIENTS
    /\ log' = log

Write(u) == log' = u /\ users' = users

Restart == users' = {} /\ log' = log

Next ==
    \/ \E a \in Addresses, n \in Names : Login(a, n)
    \/ \E u \in users : Write(u)
    \/ Restart

Spec == Init /\ [][Next]_<<users, log>>
====
