---- MODULE UserMgmt ----
(***************************************************************************)
(* The user management program of HW1: a menu over a list of users and a   *)
(* list of sign-ins, each kept in a text file that is rewritten as a whole. *)
(*                                                                         *)
(* The list is a function from names, Absent for those that are not in it; *)
(* register_user keeps names unique.  Email and phone stand for nothing    *)
(* but the save that follows a change.  A choice that changes nothing (a   *)
(* wrong old password, a name that does not exist, one that is not a       *)
(* number) is a stuttering step; a first choice that is not a number is    *)
(* compared uninitialised, and may also end the loop, as Quit does.        *)
(***************************************************************************)
EXTENDS Naturals, Sequences

CONSTANTS
    Names,        \* user names
    Passwords,
    None, Dangling,  \* current_user: NULL, or a pointer to a freed element
    Absent,       \* no element of the list has the name
    InitFile,     \* what account.txt holds at first
    MAX_LOGIN_ATTEMPTS,
    UNLOCK_TIME,  \* UNLOCK_TIME_MINUTES, in ticks of the clock
    MAX_TIME,     \* bound: the clock
    MAX_LOGINS,   \* bound: successful sign-ins
    MAX_FAULTS    \* bound: saves and loads that fail, lines deleted by others

(* lock_time is 0 for an account that is active or was blocked by hand. *)
User == [pass : Passwords, status : {"active", "blocked"}, role : {"admin", "user"},
         lock_time : Nat]

ASSUME NamesAssumption ==
    /\ None \notin Names /\ Dangling \notin Names /\ None # Dangling
    /\ Absent \notin User
ASSUME InitFileAssumption == InitFile \in [Names -> User \cup {Absent}]
ASSUME BoundsAssumption ==
    /\ MAX_LOGIN_ATTEMPTS \in Nat \ {0} /\ UNLOCK_TIME \in Nat \ {0}
    /\ MAX_TIME \in Nat /\ MAX_LOGINS \in Nat /\ MAX_FAULTS \in Nat

VARIABLES
    pc,            \* "off", "menu", or "password": sign_in waits for a password
    user_list,
    history_list,  \* numbers of sign-ins, in the order of the list
    current_user,
    user,          \* local of sign_in: whose password is asked for
    attempts,      \* local of sign_in
    account_file, history_file,
    now,           \* time(NULL)
    logins,        \* history: successful sign-ins so far
    gone,          \* history: sign-ins no save of which succeeded before a death
    unsaved,       \* history: the list is not what the file holds
    linesLost,     \* history: a list was read or written without all its lines
    histUnsaved,   \* history: the last save of the sign-ins failed
    faults         \* history: how many faults there were

memory == <<user_list, history_list, current_user, user, attempts>>
accounts == <<user_list, account_file, unsaved, linesLost>>
signins == <<history_list, history_file, histUnsaved, logins, gone>>
prompt == <<pc, user, attempts>>
vars == <<pc, memory, account_file, history_file, now, logins, gone, unsaved, linesLost,
          histUnsaved, faults>>

Listed(u) == user_list[u] # Absent

Empty == [u \in Names |-> Absent]

Init ==
    /\ pc = "off" /\ user_list = Empty /\ history_list = <<>>
    /\ current_user = None /\ user = None /\ attempts = 0
    /\ account_file = InitFile /\ history_file = <<>>
    /\ now = 1 /\ logins = 0 /\ gone = {}
    /\ unsaved = FALSE /\ linesLost = FALSE /\ histUnsaved = FALSE /\ faults = 0

Tick == now < MAX_TIME /\ now' = now + 1
        /\ UNCHANGED <<pc, memory, account_file, history_file, logins, gone, unsaved, linesLost,
                      histUnsaved, faults>>

----
(* What is left of a line whose end is missing: nothing that is read back, *)
(* or the account with less of its role or of its lock time.               *)
Remains(a) ==
    {Absent} \cup
    IF a = Absent THEN {}
    ELSE {[a EXCEPT !.lock_time = n] : n \in 0..a.lock_time}
             \cup {[a EXCEPT !.role = "user", !.lock_time = 0]}

(* The list l written up to somewhere: some lines, the last maybe cut.     *)
Cuts(l) ==
    UNION {{[u \in Names |-> IF u \in whole THEN l[u] ELSE IF u = last THEN a ELSE Absent] :
               whole \in SUBSET Names, a \in Remains(l[last])} : last \in Names}

Prefixes(s) == {SubSeq(s, 1, n) : n \in 0..Len(s)}

(* save_users_to_file and save_history_to_file, after the list has been    *)
(* changed: the file is rewritten, or cannot be opened, or is not written  *)
(* to its end, which is not noticed.                                       *)
Fault == faults < MAX_FAULTS /\ faults' = faults + 1

SaveUsers ==
    \/ account_file' = user_list' /\ unsaved' = FALSE /\ UNCHANGED <<linesLost, faults>>
    \/ /\ Fault /\ unsaved' = TRUE
       /\ \/ UNCHANGED <<account_file, linesLost>>
          \/ account_file' \in Cuts(user_list') /\ linesLost' = TRUE

(* Mutant: the file is opened with "a". *)
SaveHistoryAppends ==
    /\ history_file' = history_file \o history_list' /\ histUnsaved' = FALSE
    /\ faults' = faults

SaveHistory ==
    \/ history_file' = history_list' /\ histUnsaved' = FALSE /\ faults' = faults
    \/ /\ Fault /\ histUnsaved' = TRUE
       /\ history_file' \in {history_file} \cup Prefixes(history_list')

(* load_users_from_file: each line that was saved has all its fields again *)
(* (one written by hand may have no lock time, and gets 0).                *)
LoadUsers == account_file

(* The file cannot be opened: there are no users, and the next save says   *)
(* so to the file.                                                         *)
LoadUsersFails ==
    /\ Fault /\ user_list' = Empty
    /\ unsaved' = TRUE /\ linesLost' = TRUE
    /\ UNCHANGED account_file

(* load_history_from_file puts each line before those read already.        *)
Reversed(s) == [i \in 1..Len(s) |-> s[Len(s) + 1 - i]]

(* Mutant: accounts blocked by hand, with lock_time 0, are unlocked too. *)
DueWithoutLockTime(a) ==
    a # Absent /\ a.status = "blocked" /\ now - a.lock_time >= UNLOCK_TIME

(* The lock of this account has run out.                                   *)
Due(a) ==
    /\ a # Absent /\ a.status = "blocked" /\ a.lock_time > 0
    /\ now - a.lock_time >= UNLOCK_TIME

Unlocked(a) == [a EXCEPT !.status = "active", !.lock_time = 0]

(* auto_unlock_accounts on the list l, saved if anything changed.          *)
AutoUnlockOf(l) ==
    /\ user_list' = [u \in Names |-> IF Due(l[u]) THEN Unlocked(l[u]) ELSE l[u]]
    /\ IF \E u \in Names : Due(l[u]) THEN SaveUsers
       ELSE UNCHANGED <<account_file, unsaved, linesLost, faults>>

----
(* main, up to the menu.                                                   *)
Start ==
    /\ pc = "off" /\ pc' = "menu"
    /\ AutoUnlockOf(LoadUsers) \/ LoadUsersFails
    /\ history_list' = Reversed(history_file)
    /\ current_user' = None
    /\ UNCHANGED <<user, attempts, history_file, histUnsaved, logins, gone, now>>

AtMenu == pc = "menu" /\ pc' = pc

(* What a choice that only concerns the users leaves alone.                *)
UsersOnly == UNCHANGED <<user, attempts, signins, now>>

RegisterUser(u, p) ==
    /\ AtMenu /\ ~Listed(u)
    /\ user_list' = [user_list EXCEPT ![u] =
          [pass |-> p, status |-> "active", role |-> "user", lock_time |-> 0]]
    /\ SaveUsers
    /\ UsersOnly /\ UNCHANGED current_user

(* sign_in up to the first password: an account that is blocked is refused *)
(* or, when its lock has run out, unlocked and saved at once.              *)
SignIn(u) ==
    /\ pc = "menu" /\ current_user = None /\ Listed(u)
    /\ \/ user_list[u].status = "active"
          /\ UNCHANGED <<accounts, faults>>
       \/ Due(user_list[u])
          /\ user_list' = [user_list EXCEPT ![u] = Unlocked(@)]
          /\ SaveUsers
    /\ pc' = "password" /\ user' = u /\ attempts' = 0
    /\ UNCHANGED <<current_user, signins, now>>

RightPassword(p) ==
    /\ pc = "password" /\ p = user_list[user].pass /\ logins < MAX_LOGINS
    /\ pc' = "menu" /\ current_user' = user /\ user' = None /\ attempts' = 0
    /\ logins' = logins + 1
    /\ history_list' = <<logins + 1>> \o history_list
    /\ SaveHistory
    /\ UNCHANGED <<accounts, gone, now>>

(* Mutant: one attempt too many. *)
WrongPasswordOneMore(p) ==
    /\ pc = "password" /\ p # user_list[user].pass /\ attempts < MAX_LOGIN_ATTEMPTS
    /\ attempts' = attempts + 1
    /\ UNCHANGED <<pc, user, current_user, accounts, signins, now, faults>>

WrongPassword(p) ==
    /\ pc = "password" /\ p # user_list[user].pass /\ attempts + 1 < MAX_LOGIN_ATTEMPTS
    /\ attempts' = attempts + 1
    /\ UNCHANGED <<pc, user, current_user, accounts, signins, now, faults>>

LockAccount(p) ==
    /\ pc = "password" /\ p # user_list[user].pass /\ attempts + 1 >= MAX_LOGIN_ATTEMPTS
    /\ pc' = "menu" /\ user' = None /\ attempts' = 0
    /\ user_list' = [user_list EXCEPT ![user].status = "blocked", ![user].lock_time = now]
    /\ SaveUsers
    /\ UNCHANGED <<current_user, signins, now>>

----
(* The choices of somebody who is logged in, who is the account that       *)
(* current_user points to.  Freed memory keeps what was there until malloc *)
(* gives it to an element read later, so that a pointer to it may then     *)
(* point to any account, or to none.                                       *)
LoggedIn == AtMenu /\ current_user # None

Is(u) == Listed(u) /\ current_user \in {u, Dangling}

SetPassword(u, p) ==
    /\ user_list' = [user_list EXCEPT ![u].pass = p]
    /\ SaveUsers
    /\ UsersOnly /\ UNCHANGED current_user

ChangePassword(u, p) == LoggedIn /\ Is(u) /\ SetPassword(u, p)

(* A new email address or phone number, or a password in freed memory.     *)
UpdateAccountInfo ==
    /\ LoggedIn
    /\ user_list' = user_list /\ SaveUsers
    /\ UsersOnly /\ UNCHANGED current_user

(* Whoever has the code, logged in or not.                                 *)
ResetPassword(u, p) == AtMenu /\ Listed(u) /\ SetPassword(u, p)

AutoUnlock ==
    /\ AtMenu
    /\ AutoUnlockOf(user_list)
    /\ UsersOnly /\ UNCHANGED current_user

SignOut ==
    /\ AtMenu /\ current_user # None
    /\ current_user' = None
    /\ UsersOnly /\ UNCHANGED <<accounts, faults>>

(* admin_functions: the role is read through current_user.                 *)
Admin ==
    /\ LoggedIn
    /\ current_user # Dangling => user_list[current_user].role = "admin"

(* reload_users_from_file: the list is freed and read again.               *)
Reload ==
    \/ /\ user_list' = LoadUsers /\ unsaved' = FALSE
       /\ UNCHANGED <<account_file, linesLost, faults>>
    \/ LoadUsersFails

(* Mutant: current_user is left as it was when the list is freed. *)
ViewAccountsDangling ==
    /\ Admin /\ Reload
    /\ current_user' = Dangling
    /\ UsersOnly

(* current_user is looked up in the new list by the name it has; if that   *)
(* is not there it stays as it is.                                         *)
ViewAccounts ==
    /\ Admin /\ Reload
    /\ \/ \E u \in Names : /\ current_user \in {u, Dangling} /\ user_list'[u] # Absent
                           /\ current_user' = u
       \/ /\ current_user # Dangling => user_list'[current_user] = Absent
          /\ current_user' = Dangling
    /\ UsersOnly

DeleteAccount(u) ==
    /\ Admin /\ u # current_user /\ Listed(u)
    /\ user_list' = [user_list EXCEPT ![u] = Absent]
    /\ SaveUsers
    /\ UsersOnly /\ UNCHANGED current_user

AdminResetPassword(u, p) == Admin /\ Listed(u) /\ SetPassword(u, p)

----
(* An administrator deletes u in another instance of the program.          *)
OtherInstance(u) ==
    /\ pc # "off" /\ Fault
    /\ account_file[u] # Absent
    /\ account_file' = [account_file EXCEPT ![u] = Absent]
    /\ unsaved' = TRUE /\ linesLost' = TRUE
    /\ UNCHANGED <<pc, memory, signins, now>>

(* The program ends, and with it what is in memory.                        *)
Ends ==
    /\ pc' = "off" /\ user_list' = Empty /\ history_list' = <<>>
    /\ current_user' = None /\ user' = None /\ attempts' = 0
    /\ unsaved' = FALSE /\ linesLost' = FALSE /\ histUnsaved' = FALSE
    /\ UNCHANGED <<now, logins>>

(* With the memory go the sign-ins that are not in the file.               *)
Lost == gone \cup ({history_list[i] : i \in DOMAIN history_list}
                       \ {history_file'[i] : i \in DOMAIN history_file'})

(* Another number ends the loop: both files are saved, or the disk fails   *)
(* for one of them or for both.                                            *)
Quit ==
    /\ pc = "menu"
    /\ \/ account_file' = user_list /\ history_file' = history_list /\ UNCHANGED faults
       \/ /\ Fault
          /\ account_file' \in {account_file} \cup Cuts(user_list)
          /\ history_file' \in {history_file} \cup Prefixes(history_list)
    /\ gone' = Lost
    /\ Ends

(* The process is killed, at the menu or at a prompt.  When it is killed   *)
(* while it saves, the save is cut off, and then this happens.             *)
Die ==
    /\ pc # "off"
    /\ UNCHANGED <<account_file, history_file, faults>>
    /\ gone' = Lost
    /\ Ends

----
Menu ==
    \/ \E u \in Names, p \in Passwords :
          RegisterUser(u, p) \/ ChangePassword(u, p) \/ ResetPassword(u, p) \/ AdminResetPassword(u, p)
    \/ \E u \in Names : SignIn(u) \/ DeleteAccount(u)
    \/ UpdateAccountInfo \/ AutoUnlock \/ ViewAccounts \/ SignOut \/ Quit

Prompt == \E p \in Passwords : RightPassword(p) \/ WrongPassword(p) \/ LockAccount(p)

Next == Start \/ Menu \/ Prompt \/ Die \/ (\E u \in Names : OtherInstance(u)) \/ Tick

Spec == Init /\ [][Next]_vars

----
TypeOK ==
    /\ pc \in {"off", "menu", "password"}
    /\ user_list \in [Names -> User \cup {Absent}]
    /\ account_file \in [Names -> User \cup {Absent}]
    /\ history_list \in Seq(1..MAX_LOGINS) /\ history_file \in Seq(1..MAX_LOGINS)
    /\ current_user \in Names \cup {None, Dangling}
    /\ IF pc = "password" THEN user \in Names /\ Listed(user) ELSE user = None
    /\ attempts \in 0..(MAX_LOGIN_ATTEMPTS - 1)
    /\ now \in Nat /\ logins \in 0..MAX_LOGINS /\ gone \subseteq 1..logins
    /\ unsaved \in BOOLEAN /\ linesLost \in BOOLEAN /\ histUnsaved \in BOOLEAN /\ faults \in 0..MAX_FAULTS

(* As long as no lines are lost, current_user never points to a freed      *)
(* element: deletions, reloads, and saves that could not open the file     *)
(* leave the one who is logged in in the list -- and, unless a save        *)
(* failed, not blocked.  Once they are, it may: a reload that does not     *)
(* find its name leaves it Dangling (user_management.c:177-202, 810-839).  *)
CurrentUserListed ==
    current_user # None /\ ~linesLost =>
        /\ current_user \in Names /\ Listed(current_user)
        /\ user_list[current_user].status = "active" \/ faults > 0

(* A lock in the file lasts UNLOCK_TIME, and one without a time for ever,  *)
(* across restarts, reloads and sign-ins; only a save or a load that       *)
(* failed before, or another instance, may bring another status later      *)
(* (user_management.c:463-489, 713-745).                                   *)
UnlocksOnlyInTime ==
    [][\A u \in Names :
          ( /\ account_file[u] # Absent /\ account_file[u].status = "blocked"
            /\ account_file'[u] # Absent /\ account_file'[u].status = "active" )
          => \/ unsaved
             \/ /\ account_file[u].lock_time > 0
                /\ now - account_file[u].lock_time >= UNLOCK_TIME]_vars

(* The history has every sign-in exactly once, although each load reverses *)
(* its order and each save rewrites the file; only those are missing that  *)
(* could not be saved before the program was killed                        *)
(* (user_management.c:205-256, 499-523).                                   *)
HistoryKept ==
    pc # "off" =>
        /\ {history_list[i] : i \in DOMAIN history_list} = 1..logins \ gone
        /\ \A i, j \in DOMAIN history_list : history_list[i] = history_list[j] => i = j
====
