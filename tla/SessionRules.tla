---- MODULE SessionRules ----
(***************************************************************************)
(* The accounts and the stages of a session of the account servers of HW4  *)
(* (UDP) and HW5 (TCP), whose code is the same from loadAccounts to the    *)
(* chain of stages.                                                        *)
(*                                                                         *)
(* A client sends lines, here members of Strings; a line is read as a user *)
(* name, a password or a command, depending on the stage alone.  The names *)
(* and the passwords of the file are lines too.                            *)
(***************************************************************************)
EXTENDS Naturals

CONSTANTS
    Clients,      \* client programs, by the address they send from
    Strings,      \* lines, none of them empty
    Users,        \* user names of account.txt
    Passwords,    \* lines containsOnlyAlnum accepts, other than "bye" and "homepage"
    Bye,          \* "bye"
    None,         \* no user, no client
    InitFiles,    \* what account.txt may hold at first
    MAX_ATTEMPTS  \* wrong passwords that block an account (3 in the code)

Status == {"active", "notready", "blocked", "missing"}
Account == [pass : Strings, status : Status]

(* No line of the file names this user. *)
NoAccount == [pass |-> Bye, status |-> "missing"]

ASSUME SessionStrings ==
    /\ Users \subseteq Strings /\ Passwords \subseteq Strings
    /\ Bye \in Strings \ Passwords
    /\ None \notin Strings /\ None \notin Clients
ASSUME SessionFiles == InitFiles \subseteq [Users -> Account]
ASSUME SessionLimit == MAX_ATTEMPTS \in Nat \ {0}

Stage == {"username", "password", "loggedin"}
Session == [stage : Stage, user : Users \cup {None}, fails : 0..MAX_ATTEMPTS]

NewSession == [stage |-> "username", user |-> None, fails |-> 0]

(* findAccountByUsername *)
Known(accounts, line) == line \in Users /\ accounts[line].status # "missing"

(* STAGE_WAIT_USERNAME takes the names of accounts that are not blocked.   *)
Admits(accounts, line) == Known(accounts, line) /\ accounts[line].status # "blocked"

Blocked(a) == [a EXCEPT !.status = "blocked"]
====
