---- MODULE AccountRules ----
(***************************************************************************)
(* The accounts of HW9 (server.c) and what one line from a client does to  *)
(* them, shared by the abstract service and by the event loop.             *)
(*                                                                         *)
(* Everything a client sends is a line, here a member of Strings: it is    *)
(* read as a user name, a password, a new password or "bye", depending on  *)
(* the state of the session alone.                                         *)
(***************************************************************************)
EXTENDS Naturals

CONSTANTS
    Fds,          \* descriptors of accepted connections
    Strings,      \* lines a client may send, the stored passwords included
    Users,        \* user names of the account file
    Valid,        \* lines is_valid_password accepts: letters and digits only
    Empty, Bye,   \* the empty line and "bye"
    Encoding,     \* what encode_password makes of a line: its digits, its letters
    InitFile,     \* the account file the server is first started with
    MAX_ATTEMPTS  \* wrong passwords that block an account (3 in the code)

Status == {"active", "notready", "blocked", "missing"}
Line == [pass : Strings, status : Status]
Account == [pass : Strings, status : Status, attempts : 0..MAX_ATTEMPTS]

NoLine == [pass |-> Empty, status |-> "missing"]
NoAccount == [pass |-> Empty, status |-> "missing", attempts |-> 0]

ASSUME StringsAssumption ==
    /\ Users \subseteq Strings
    /\ Valid \subseteq Strings
    /\ Empty \in Valid /\ Bye \in Valid /\ Empty # Bye
    /\ Empty \notin Users
ASSUME FileAssumption == InitFile \in [Users -> Line]
ASSUME LimitAssumption == MAX_ATTEMPTS \in Nat \ {0}

(* load_accounts: a line whose password is empty has only two fields and   *)
(* is skipped.                                                             *)
Load(f) ==
    [u \in Users |->
        IF f[u].status = "missing" \/ f[u].pass = Empty
        THEN NoAccount
        ELSE [pass |-> f[u].pass, status |-> f[u].status, attempts |-> 0]]

(* What save_accounts means to write: a line for each account in memory.   *)
Save(a) == [u \in Users |-> [pass |-> a[u].pass, status |-> a[u].status]]

(* What save_accounts can leave in the file f.  A file that cannot be      *)
(* opened stays as it is.  One that was emptied and not fully written, by  *)
(* a full disk or a kill, has lost lines at its end, here any of them: the *)
(* order of the lines is not kept.  A cut line has lost its last field, of *)
(* one digit, and the next load skips it.                                  *)
Saved(f, a) ==
    {f} \cup {[u \in Users |-> IF u \in kept THEN Save(a)[u] ELSE NoLine] :
              kept \in SUBSET Users}

(* find_account *)
Find(a, name) == IF name \in Users THEN a[name] ELSE NoAccount

(* handle_login answers without counting: no such account, a blocked one,  *)
(* or the right password of one that is neither active nor blocked.        *)
Refuses(acc, p) ==
    \/ acc.status \in {"missing", "blocked"}
    \/ acc.status = "notready" /\ p = acc.pass
Accepts(acc, p) == acc.status = "active" /\ p = acc.pass
CountsAsWrong(acc, p) == acc.status \in {"active", "notready"} /\ p # acc.pass
====
