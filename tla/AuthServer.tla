---- MODULE AuthServer ----
(***************************************************************************)
(* The thread-per-connection authentication server of HW8 (server.c).      *)
(*                                                                         *)
(* Every connection is served by one detached thread running               *)
(* handle_client.  The threads share three text files; each function that  *)
(* reads or rewrites a file holds file_mutex for the whole call, so one    *)
(* call is one atomic step here.  What is NOT atomic is a handler: it      *)
(* calls several of these functions, and keeps what it read in arrays on   *)
(* its stack (snapshot, attempts, list) between the calls.                 *)
(*                                                                         *)
(* A client waits for the answer of its request before it sends the next   *)
(* one (client.c), so a thread handles one request at a time.  Requests    *)
(* that are answered without touching a file or the session (HELP, an      *)
(* unknown command, a malformed or a second LOGIN, LOGOUT without a        *)
(* session) are stuttering steps and have no action.  The log file, which  *)
(* has a mutex of its own and is only appended to, is left out.            *)
(***************************************************************************)
EXTENDS Naturals, Sequences, SequencesExt

CONSTANTS
    Conns,        \* client addresses (ip and port), at most one live connection each
    Users,        \* userids that occur in LOGIN requests
    None,         \* "no user": the empty current_user
    InitAccount,  \* the statuses account.txt starts with
    MAX_ATTEMPTS, \* wrong passwords that lock an account (3 in the code)
    MAX_LISTED,   \* entries add_logged_in_user stops at (100 in the code)
    MaxCrashes    \* bound on the number of crashes of the server

Status == {"active", "locked", "missing"}

ASSUME NoneAssumption == None \notin Users
ASSUME AccountAssumption == InitAccount \in [Users -> Status]
ASSUME BoundAssumption == /\ MAX_ATTEMPTS \in Nat \ {0}
                          /\ MAX_LISTED \in Nat
                          /\ MaxCrashes \in Nat

VARIABLES
    account,   \* account.txt: the status on the line of each user
    failed,    \* failed_attempts.txt: the count on the line of each user, 0 without a line
    listed,    \* logged_in.txt: a sequence of entries, one per line
    pc,        \* where the thread of a connection is; "free" when there is none
    user,      \* userid of the LOGIN being handled
    snapshot,  \* accounts[] of handle_login, as read_accounts returned it
    attempts,  \* failed of handle_login, the new count about to be written
    list,      \* users[] of add_logged_in_user and remove_logged_in_user
    session,   \* current_user while logged_in is set, None otherwise
    closing,   \* the running removal was started by the end of the connection
    wrong,     \* history: wrong passwords counted per user
    granted,   \* history: entries whose password check succeeded
    crashes    \* number of crashes so far

files == <<account, failed, listed>>
locals == <<user, snapshot, attempts, list, closing>>
history == <<wrong, granted, crashes>>
vars == <<account, failed, listed, pc, user, snapshot, attempts, list,
          session, closing, wrong, granted, crashes>>

(* A line of logged_in.txt: a user and the address it logged in from. *)
Entry == [user : Users, conn : Conns]
EntryOf(u, c) == [user |-> u, conn |-> c]

NoAccounts == [u \in Users |-> "missing"]

(* The code only compares the count with MAX_ATTEMPTS: larger counts are   *)
(* told apart by nothing and are kept at MAX_ATTEMPTS.                     *)
Capped(n) == IF n > MAX_ATTEMPTS THEN MAX_ATTEMPTS ELSE n

PCs == {"free", "recv", "accounts", "readfail", "writefail", "lock", "clear",
        "addread", "addwrite", "delread", "delwrite"}

Init ==
    /\ account = InitAccount
    /\ failed = [u \in Users |-> 0]
    /\ listed = <<>>
    /\ pc = [c \in Conns |-> "free"]
    /\ user = [c \in Conns |-> None]
    /\ snapshot = [c \in Conns |-> NoAccounts]
    /\ attempts = [c \in Conns |-> 0]
    /\ list = [c \in Conns |-> <<>>]
    /\ session = [c \in Conns |-> None]
    /\ closing = [c \in Conns |-> FALSE]
    /\ wrong = [u \in Users |-> 0]
    /\ granted = {}
    /\ crashes = 0

Goto(c, label) == pc' = [pc EXCEPT ![c] = label]

(* A login that changed nothing returns to recv; its stack goes with it.   *)
LoginReturns(c) ==
    /\ Goto(c, "recv")
    /\ user' = [user EXCEPT ![c] = None]

----
(* main accepts a connection and starts its thread. *)
Connect(c) ==
    /\ pc[c] = "free"
    /\ Goto(c, "recv")
    /\ UNCHANGED <<files, locals, session, history>>

(* recv returned a well-formed LOGIN and the thread has no session. *)
RecvLogin(c, u) ==
    /\ pc[c] = "recv" /\ session[c] = None
    /\ Goto(c, "accounts")
    /\ user' = [user EXCEPT ![c] = u]
    /\ UNCHANGED <<files, snapshot, attempts, list, session, closing, history>>

(* read_accounts, and the answers that need nothing else: not found, locked. *)
LoginRefused(c) ==
    /\ pc[c] = "accounts" /\ account[user[c]] # "active"
    /\ LoginReturns(c)
    /\ UNCHANGED <<files, snapshot, attempts, list, session, closing, history>>

(* Mutant: the result of strcmp is read the wrong way round. *)
LoginWrongAccepted(c) ==
    /\ pc[c] = "accounts" /\ account[user[c]] = "active"
    /\ Goto(c, "clear")
    /\ UNCHANGED <<files, locals, session, history>>

(* read_accounts found an active account with another password. *)
LoginWrong(c) ==
    /\ pc[c] = "accounts" /\ account[user[c]] = "active"
    /\ snapshot' = [snapshot EXCEPT ![c] = account]
    /\ Goto(c, "readfail")
    /\ UNCHANGED <<files, user, attempts, list, session, closing, history>>

(* read_accounts found an active account with this password. *)
LoginRight(c) ==
    /\ pc[c] = "accounts" /\ account[user[c]] = "active"
    /\ Goto(c, "clear")
    /\ granted' = granted \cup {EntryOf(user[c], c)}
    /\ UNCHANGED <<files, locals, session, wrong, crashes>>

(* Mutant: the count is written back as it was read. *)
ReadFailedNoIncrement(c) ==
    /\ pc[c] = "readfail"
    /\ attempts' = [attempts EXCEPT ![c] = failed[user[c]]]
    /\ wrong' = [wrong EXCEPT ![user[c]] = Capped(wrong[user[c]] + 1)]
    /\ Goto(c, "writefail")
    /\ UNCHANGED <<files, user, snapshot, list, session, closing, granted, crashes>>

(* failed = read_failed_attempts(userid) + 1 *)
ReadFailed(c) ==
    /\ pc[c] = "readfail"
    /\ attempts' = [attempts EXCEPT ![c] = Capped(failed[user[c]] + 1)]
    /\ wrong' = [wrong EXCEPT ![user[c]] = Capped(wrong[user[c]] + 1)]
    /\ Goto(c, "writefail")
    /\ UNCHANGED <<files, user, snapshot, list, session, closing, granted, crashes>>

(* write_failed_attempts(userid, failed), below the limit: the answer is wrong_password. *)
WriteFailed(c) ==
    /\ pc[c] = "writefail" /\ attempts[c] < MAX_ATTEMPTS
    /\ failed' = [failed EXCEPT ![user[c]] = attempts[c]]
    /\ LoginReturns(c)
    /\ snapshot' = [snapshot EXCEPT ![c] = NoAccounts]
    /\ attempts' = [attempts EXCEPT ![c] = 0]
    /\ UNCHANGED <<account, listed, list, session, closing, history>>

(* Mutant: locks one attempt too early. *)
WriteFailedTooEarly(c) ==
    /\ pc[c] = "writefail" /\ attempts[c] + 1 >= MAX_ATTEMPTS
    /\ failed' = [failed EXCEPT ![user[c]] = attempts[c]]
    /\ Goto(c, "lock")
    /\ UNCHANGED <<account, listed, locals, session, history>>

(* write_failed_attempts(userid, failed), at the limit: the account is to be locked. *)
WriteFailedAtLimit(c) ==
    /\ pc[c] = "writefail" /\ attempts[c] >= MAX_ATTEMPTS
    /\ failed' = [failed EXCEPT ![user[c]] = attempts[c]]
    /\ Goto(c, "lock")
    /\ UNCHANGED <<account, listed, locals, session, history>>

(* account->status = 0; write_accounts rewrites EVERY line from the thread's own copy. *)
LockAccount(c) ==
    /\ pc[c] = "lock"
    /\ account' = [snapshot[c] EXCEPT ![user[c]] = "locked"]
    /\ LoginReturns(c)
    /\ snapshot' = [snapshot EXCEPT ![c] = NoAccounts]
    /\ attempts' = [attempts EXCEPT ![c] = 0]
    /\ UNCHANGED <<failed, listed, list, session, closing, history>>

(* clear_failed_attempts drops the line of the user. *)
ClearFailed(c) ==
    /\ pc[c] = "clear"
    /\ failed' = [failed EXCEPT ![user[c]] = 0]
    /\ Goto(c, "addread")
    /\ UNCHANGED <<account, listed, locals, session, history>>

(* The end of a successful LOGIN: current_user and logged_in are set. *)
LoginSucceeds(c) ==
    /\ session' = [session EXCEPT ![c] = user[c]]
    /\ list' = [list EXCEPT ![c] = <<>>]
    /\ LoginReturns(c)

(* add_logged_in_user read the list: the entry is there, or the list is full. *)
AddNotNeeded(c) ==
    /\ pc[c] = "addread"
    /\ Contains(listed, EntryOf(user[c], c)) \/ Len(listed) >= MAX_LISTED
    /\ LoginSucceeds(c)
    /\ UNCHANGED <<files, snapshot, attempts, closing, history>>

(* Mutant: the search for an existing entry is dropped. *)
AddReadUnchecked(c) ==
    /\ pc[c] = "addread" /\ Len(listed) < MAX_LISTED
    /\ list' = [list EXCEPT ![c] = listed]
    /\ Goto(c, "addwrite")
    /\ UNCHANGED <<files, user, snapshot, attempts, session, closing, history>>

(* add_logged_in_user read the list and is going to append to its copy. *)
AddRead(c) ==
    /\ pc[c] = "addread"
    /\ ~Contains(listed, EntryOf(user[c], c)) /\ Len(listed) < MAX_LISTED
    /\ list' = [list EXCEPT ![c] = listed]
    /\ Goto(c, "addwrite")
    /\ UNCHANGED <<files, user, snapshot, attempts, session, closing, history>>

(* Mutant: appends current_user, which is set only afterwards. *)
AddWriteCurrentUser(c) ==
    /\ pc[c] = "addwrite"
    /\ listed' = Append(list[c], EntryOf(session[c], c))
    /\ LoginSucceeds(c)
    /\ UNCHANGED <<account, failed, snapshot, attempts, closing, history>>

(* write_logged_in_users with the thread's copy and the new entry. *)
AddWrite(c) ==
    /\ pc[c] = "addwrite"
    /\ listed' = Append(list[c], EntryOf(user[c], c))
    /\ LoginSucceeds(c)
    /\ UNCHANGED <<account, failed, snapshot, attempts, closing, history>>

(* LOGOUT, or the end of a connection that has a session. *)
StartRemoval(c, quit) ==
    /\ pc[c] = "recv" /\ session[c] # None
    /\ closing' = [closing EXCEPT ![c] = quit]
    /\ Goto(c, "delread")
    /\ UNCHANGED <<files, user, snapshot, attempts, list, session, history>>

RecvLogout(c) == StartRemoval(c, FALSE)
Disconnect(c) == StartRemoval(c, TRUE)

(* The end of a connection without a session: close and pthread_exit. *)
DisconnectIdle(c) ==
    /\ pc[c] = "recv" /\ session[c] = None
    /\ Goto(c, "free")
    /\ UNCHANGED <<files, locals, session, history>>

(* After remove_logged_in_user: logged_in = 0, and the thread ends or reads on. *)
RemovalReturns(c) ==
    /\ Goto(c, IF closing[c] THEN "free" ELSE "recv")
    /\ session' = [session EXCEPT ![c] = None]
    /\ closing' = [closing EXCEPT ![c] = FALSE]
    /\ list' = [list EXCEPT ![c] = <<>>]

(* remove_logged_in_user read a list without the entry of this session. *)
RemoveNotFound(c) ==
    /\ pc[c] = "delread" /\ ~Contains(listed, EntryOf(session[c], c))
    /\ RemovalReturns(c)
    /\ UNCHANGED <<files, user, snapshot, attempts, history>>

(* remove_logged_in_user read a list that has the entry. *)
RemoveRead(c) ==
    /\ pc[c] = "delread" /\ Contains(listed, EntryOf(session[c], c))
    /\ list' = [list EXCEPT ![c] = listed]
    /\ Goto(c, "delwrite")
    /\ UNCHANGED <<files, user, snapshot, attempts, session, closing, history>>

(* Mutant: drops the last entry of the copy instead of the matching one. *)
RemoveWriteLast(c) ==
    /\ pc[c] = "delwrite"
    /\ listed' = RemoveAt(list[c], Len(list[c]))
    /\ RemovalReturns(c)
    /\ UNCHANGED <<account, failed, user, snapshot, attempts, history>>

(* The first matching entry is closed up and the copy is written back. *)
RemoveWrite(c) ==
    /\ pc[c] = "delwrite"
    /\ \E i \in 1..Len(list[c]) :
          /\ list[c][i] = EntryOf(session[c], c)
          /\ \A j \in 1..(i - 1) : list[c][j] # EntryOf(session[c], c)
          /\ listed' = RemoveAt(list[c], i)
    /\ RemovalReturns(c)
    /\ UNCHANGED <<account, failed, user, snapshot, attempts, history>>

(* The process dies and is started again.  A thread inside a rewriting     *)
(* call has truncated its file and may not have flushed the new contents;  *)
(* file_mutex leaves at most one such thread.  The files are all that      *)
(* survives, logged_in.txt included: nothing empties it at start.          *)
Crash ==
    /\ crashes < MaxCrashes
    /\ crashes' = crashes + 1
    /\ \/ UNCHANGED files
       \/ /\ \E c \in Conns : pc[c] = "lock"
          /\ account' = NoAccounts /\ UNCHANGED <<failed, listed>>
       \/ /\ \E c \in Conns : pc[c] \in {"writefail", "clear"}
          /\ failed' = [u \in Users |-> 0] /\ UNCHANGED <<account, listed>>
       \/ /\ \E c \in Conns : pc[c] \in {"addwrite", "delwrite"}
          /\ listed' = <<>> /\ UNCHANGED <<account, failed>>
    /\ pc' = [c \in Conns |-> "free"]
    /\ user' = [c \in Conns |-> None]
    /\ snapshot' = [c \in Conns |-> NoAccounts]
    /\ attempts' = [c \in Conns |-> 0]
    /\ list' = [c \in Conns |-> <<>>]
    /\ session' = [c \in Conns |-> None]
    /\ closing' = [c \in Conns |-> FALSE]
    /\ UNCHANGED <<wrong, granted>>
----
(* What a client does: connect, send, end the connection. *)
Client(c) ==
    \/ Connect(c)
    \/ \E u \in Users : RecvLogin(c, u)
    \/ RecvLogout(c)
    \/ Disconnect(c)
    \/ DisconnectIdle(c)

(* What the thread does on its own until it is back in recv. *)
Thread(c) ==
    \/ LoginRefused(c)
    \/ LoginWrong(c)
    \/ LoginRight(c)
    \/ ReadFailed(c)
    \/ WriteFailed(c)
    \/ WriteFailedAtLimit(c)
    \/ LockAccount(c)
    \/ ClearFailed(c)
    \/ AddNotNeeded(c)
    \/ AddRead(c)
    \/ AddWrite(c)
    \/ RemoveNotFound(c)
    \/ RemoveRead(c)
    \/ RemoveWrite(c)

Next == (\E c \in Conns : Client(c) \/ Thread(c)) \/ Crash

Spec == Init /\ [][Next]_vars

(* The scheduler runs every thread and file_mutex is held for bounded      *)
(* calls only, so a thread that can continue does.  Clients owe nothing.   *)
FairSpec == Spec /\ \A c \in Conns : WF_vars(Thread(c))
----
TypeOK ==
    /\ account \in [Users -> Status]
    /\ failed \in [Users -> 0..MAX_ATTEMPTS]
    /\ listed \in Seq(Entry)
    /\ pc \in [Conns -> PCs]
    /\ user \in [Conns -> Users \cup {None}]
    /\ snapshot \in [Conns -> [Users -> Status]]
    /\ attempts \in [Conns -> 0..MAX_ATTEMPTS]
    /\ list \in [Conns -> Seq(Entry)]
    /\ session \in [Conns -> Users \cup {None}]
    /\ closing \in [Conns -> BOOLEAN]
    /\ wrong \in [Users -> 0..MAX_ATTEMPTS]
    /\ granted \subseteq Entry
    /\ crashes \in 0..MaxCrashes

(* No entry is twice in logged_in.txt or in a thread's copy of it, however *)
(* the read and the write of several add_logged_in_user and                *)
(* remove_logged_in_user interleave (server.c:268-309).                    *)
NoDuplicates == IsInjective(listed) /\ \A c \in Conns : IsInjective(list[c])

(* Whoever is listed, in the file or in a copy that may still be written   *)
(* back, and whoever has a session, gave the right password from that      *)
(* address: no interleaving invents an entry or moves one to another       *)
(* address.                                                                *)
AuthenticatedOnly ==
    /\ ToSet(listed) \subseteq granted
    /\ \A c \in Conns : ToSet(list[c]) \subseteq granted
    /\ \A c \in Conns : session[c] # None => EntryOf(session[c], c) \in granted

(* handle_login locks an account only for MAX_ATTEMPTS wrong passwords:    *)
(* neither a lost update of the count nor the write-back of an old copy of *)
(* the accounts locks one that got fewer (server.c:339-345).               *)
LockNeedsWrong ==
    \A u \in Users :
        account[u] = "locked" =>
            InitAccount[u] = "locked" \/ wrong[u] = MAX_ATTEMPTS

(* When remove_logged_in_user has written the list back, the entry of the  *)
(* session that ended is gone: closing up the first match is enough        *)
(* (server.c:292-309).                                                     *)
LogoutUnlists ==
    [][\A c \in Conns :
          (pc[c] = "delwrite" /\ pc'[c] # "delwrite" /\ crashes' = crashes) =>
              ~Contains(listed', EntryOf(session[c], c))]_vars

(* A user against whom wrong passwords keep arriving, and who does not log *)
(* in, is locked again and again: the lost updates of the count delay the  *)
(* lock but cannot put it off for ever (server.c:340-345).                 *)
GuessingEndsInLock ==
    \A u \in Users :
        ( /\ []<>(\E c \in Conns : pc[c] = "writefail" /\ user[c] = u)
          /\ <>[](\A c \in Conns : pc[c] = "clear" => user[c] # u) )
        => []<>(account[u] = "locked")

(* README.md:121 "the server uses mutexes to make access to the files      *)
(* thread-safe": the status a thread wrote is not undone by another one.   *)
(* There is no unlock in the code, only an administrator's edit.           *)
LockIsPermanent ==
    [][\A u \in Users : account[u] = "locked" => account'[u] # "active"]_vars
====
