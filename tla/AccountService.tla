---- MODULE AccountService ----
(***************************************************************************)
(* What the account server of HW9 promises to each of its connections,     *)
(* whatever array, index or descriptor set it keeps them in: a connection  *)
(* names a user, gives the password, then changes the password or says     *)
(* bye; wrong passwords are counted per account and block it; the file     *)
(* is what a restart loads.  SelectServer implements it.            *)
(***************************************************************************)
EXTENDS AccountRules

CONSTANT Closed  \* "no session": not a session record

Session == [user : Strings, in : BOOLEAN]
NewSession == [user |-> Empty, in |-> FALSE]

VARIABLES
    accts,  \* the accounts in memory
    file,   \* the lines of the account file
    sess,   \* the session of each connection, Closed when there is none
    known   \* history: the encoding each client holds of its account's password

vars == <<accts, file, sess, known>>

Init ==
    /\ file = InitFile
    /\ accts = Load(InitFile)
    /\ sess = [f \in Fds |-> Closed]
    /\ known = [f \in Fds |-> Encoding[Empty]]

Open(f) ==
    /\ sess[f] = Closed
    /\ sess' = [sess EXCEPT ![f] = NewSession]
    /\ UNCHANGED <<accts, file, known>>

End(f) ==
    /\ sess[f] # Closed
    /\ sess' = [sess EXCEPT ![f] = Closed]
    /\ UNCHANGED <<accts, file, known>>

AwaitsName(f) == sess[f] # Closed /\ ~sess[f].in /\ sess[f].user = Empty
AwaitsPassword(f) == sess[f] # Closed /\ ~sess[f].in /\ sess[f].user # Empty
LoggedIn(f) == sess[f] # Closed /\ sess[f].in

Name(f, m) ==
    /\ AwaitsName(f)
    /\ sess' = [sess EXCEPT ![f].user = m]
    /\ UNCHANGED <<accts, file, known>>

(* A refused name is forgotten only if its account is blocked. *)
Refuse(f, p) ==
    /\ AwaitsPassword(f) /\ Refuses(Find(accts, sess[f].user), p)
    /\ sess' = IF Find(accts, sess[f].user).status = "blocked"
               THEN [sess EXCEPT ![f] = NewSession] ELSE sess
    /\ UNCHANGED <<accts, file, known>>

Login(f, p) ==
    /\ AwaitsPassword(f) /\ Accepts(Find(accts, sess[f].user), p)
    /\ sess' = [sess EXCEPT ![f].in = TRUE]
    /\ accts' = [accts EXCEPT ![sess[f].user].attempts = 0]
    /\ known' = [known EXCEPT ![f] = Encoding[p]]
    /\ UNCHANGED file

Wrong(f, p) ==
    /\ AwaitsPassword(f) /\ CountsAsWrong(Find(accts, sess[f].user), p)
    /\ accts[sess[f].user].attempts + 1 < MAX_ATTEMPTS
    /\ accts' = [accts EXCEPT ![sess[f].user].attempts = @ + 1]
    /\ UNCHANGED <<file, sess, known>>

Block(f, p) ==
    /\ AwaitsPassword(f) /\ CountsAsWrong(Find(accts, sess[f].user), p)
    /\ accts[sess[f].user].attempts + 1 >= MAX_ATTEMPTS
    /\ accts' = [accts EXCEPT ![sess[f].user] =
                    [pass |-> @.pass, status |-> "blocked", attempts |-> @.attempts + 1]]
    /\ file' \in Saved(file, accts')
    /\ sess' = [sess EXCEPT ![f] = NewSession]
    /\ UNCHANGED known

(* Everybody logged in to the account learns the new password. *)
Change(f, p) ==
    /\ LoggedIn(f) /\ p # Bye /\ p \in Valid
    /\ accts' = [accts EXCEPT ![sess[f].user].pass = p]
    /\ file' \in Saved(file, accts')
    /\ known' = [g \in Fds |->
                    IF LoggedIn(g) /\ sess[g].user = sess[f].user
                    THEN Encoding[p] ELSE known[g]]
    /\ UNCHANGED sess

SignOut(f) ==
    /\ LoggedIn(f)
    /\ sess' = [sess EXCEPT ![f] = NewSession]
    /\ UNCHANGED <<accts, file, known>>

(* The server is started again. *)
Restart ==
    /\ sess' = [f \in Fds |-> Closed]
    /\ accts' = Load(file)
    /\ known' = [f \in Fds |-> Encoding[Empty]]
    /\ UNCHANGED file

Next ==
    \/ \E f \in Fds : Open(f) \/ End(f) \/ SignOut(f)
    \/ \E f \in Fds, m \in Strings :
          Name(f, m) \/ Refuse(f, m) \/ Login(f, m) \/ Wrong(f, m) \/ Block(f, m) \/ Change(f, m)
    \/ Restart

Spec == Init /\ [][Next]_vars
====
