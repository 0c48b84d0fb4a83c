---- MODULE SessionService ----
(***************************************************************************)
(* What the account servers of HW4 and HW5 promise a client, whoever else  *)
(* talks to them and over whatever transport: a session of its address, in *)
(* which it names an account, gives the password, and changes it or says   *)
(* bye.  MAX_ATTEMPTS wrong passwords within one session block the account *)
(* and nothing else does.  A session may be lost at any time, but a client *)
(* never acts in the session of another.  SessionServer implements it.     *)
(***************************************************************************)
EXTENDS SessionRules

VARIABLES
    accounts,  \* the accounts in memory
    saved,     \* what the next start of the server loads
    unsaved,   \* the last save failed
    sessions   \* the session of each client

vars == <<accounts, saved, unsaved, sessions>>

Init ==
    /\ saved \in InitFiles
    /\ accounts = saved
    /\ unsaved = FALSE
    /\ sessions = [c \in Clients |-> NewSession]

(* The session of c becomes s; sessions of others may be lost.             *)
Becomes(c, s) ==
    \E gone \in SUBSET (Clients \ {c}) :
        sessions' = [d \in Clients |->
                        IF d = c THEN s ELSE IF d \in gone THEN NewSession ELSE sessions[d]]

Save ==
    \/ saved' = accounts' /\ unsaved' = FALSE
    \/ saved' = saved /\ unsaved' = TRUE

Name(c, line) ==
    /\ sessions[c].stage = "username" /\ Admits(accounts, line)
    /\ Becomes(c, [stage |-> "password", user |-> line, fails |-> 0])
    /\ UNCHANGED <<accounts, saved, unsaved>>

Right(c, line) ==
    /\ sessions[c].stage = "password"
    /\ line = accounts[sessions[c].user].pass
    /\ accounts[sessions[c].user].status = "active"
    /\ Becomes(c, [sessions[c] EXCEPT !.stage = "loggedin"])
    /\ UNCHANGED <<accounts, saved, unsaved>>

Wrong(c, line) ==
    /\ sessions[c].stage = "password"
    /\ line # accounts[sessions[c].user].pass
    /\ sessions[c].fails + 1 < MAX_ATTEMPTS
    /\ Becomes(c, [sessions[c] EXCEPT !.fails = @ + 1])
    /\ UNCHANGED <<accounts, saved, unsaved>>

Block(c, line) ==
    /\ sessions[c].stage = "password"
    /\ line # accounts[sessions[c].user].pass
    /\ sessions[c].fails + 1 = MAX_ATTEMPTS
    /\ accounts' = [accounts EXCEPT ![sessions[c].user] = Blocked(@)]
    /\ Save
    /\ Becomes(c, NewSession)

Change(c, line) ==
    /\ sessions[c].stage = "loggedin" /\ line \in Passwords
    /\ accounts' = [accounts EXCEPT ![sessions[c].user].pass = line]
    /\ Save
    /\ Becomes(c, sessions[c])

(* bye, the end of a connection, a datagram of somebody else.              *)
Leave(c) ==
    /\ Becomes(c, NewSession)
    /\ UNCHANGED <<accounts, saved, unsaved>>

(* The server ends, perhaps in the middle of a save, and is started again. *)
Restart ==
    /\ saved' \in {saved, [u \in Users |-> NoAccount]}
    /\ accounts' = saved'
    /\ unsaved' = FALSE
    /\ sessions' = [c \in Clients |-> NewSession]

Next ==
    \/ \E c \in Clients, line \in Strings :
          Name(c, line) \/ Right(c, line) \/ Wrong(c, line) \/ Block(c, line) \/ Change(c, line)
    \/ \E c \in Clients : Leave(c)
    \/ Restart

Spec == Init /\ [][Next]_vars
====
