---- MODULE ForkServer ----
(***************************************************************************)
(* The authentication server of HW7 (server.c): main forks a child for     *)
(* each connection, and the children share three files without any lock.   *)
(*                                                                         *)
(* A step is one system call on a file.  fopen("w") empties the file;      *)
(* fclose writes the new lines from its start, over what another child     *)
(* wrote there meanwhile.  A child reads until it finds nothing behind the *)
(* bytes it has; the lookups and limits that stop earlier find the same.   *)
(*                                                                         *)
(* Lines differ in length, so that a write, or a read of a file rewritten  *)
(* meanwhile, can start inside a line.  The rest of a line is a line: one  *)
(* that was cut inside the userid has all its fields, with another userid. *)
(* A line is a record: what is left of the userid, its other fields, and   *)
(* how many of the bytes behind the userid are left.                       *)
(*                                                                         *)
(* account.txt always gets as many bytes as it had, so that it is either   *)
(* whole or empty.  failed_attempts.txt and logged_in.txt exist, from an   *)
(* earlier run.  Assumed: no file is longer than a stdio buffer or than    *)
(* 100 lines, a count has one digit, and no userid is a number.  Requests  *)
(* that touch no file and the log are left out, as are killed children.    *)
(***************************************************************************)
EXTENDS Naturals, Sequences, SequencesExt, FiniteSets

CONSTANTS
    Conns,        \* client addresses (ip and port)
    Letters,      \* what userids are made of
    Users,        \* userids with a line in account.txt, as sequences of letters
    AddressWidth, \* bytes of " ip port\n" in a line of logged_in.txt
    None,         \* no user
    MAX_ATTEMPTS, \* wrong passwords that lock an account (3 in the code)
    MAX_LISTED,   \* entries add_logged_in_user stops at (100 in the code)
    MaxLogins     \* bound: LOGIN requests

ASSUME UsersAssumption == Users \subseteq Seq(Letters) /\ <<>> \notin Users /\ None \notin Users
ASSUME ConnsAssumption == IsFiniteSet(Conns)
ASSUME WidthAssumption == AddressWidth \in [Conns -> Nat \ {0}]
ASSUME LimitAssumption == MAX_ATTEMPTS \in Nat \ {0} /\ MAX_LISTED \in Nat /\ MaxLogins \in Nat

VARIABLES
    account,   \* account.txt: the status of each user
    file,      \* the lines of failed_attempts.txt and of logged_in.txt
    pc,        \* where the child of a connection is
    user,      \* userid of the LOGIN being handled
    snapshot,  \* accounts[] of handle_login
    attempts,  \* failed of handle_login
    buf,       \* the lines a child has read, or is going to write
    session,   \* current_user while logged_in is set
    closing,   \* the removal was started by the end of the connection
    logins,    \* LOGIN requests so far, for the bound
    wrong,     \* history: wrong passwords counted, for each end of a userid
    granted,   \* history: entries whose password check succeeded
    overlap    \* history: two children were busy at a time

files == <<account, file>>
locals == <<user, snapshot, attempts, buf, session, closing>>
history == <<logins, wrong, granted, overlap>>
vars == <<account, file, pc, user, snapshot, attempts, buf, session, closing,
          logins, wrong, granted, overlap>>

(* What can be left of a userid: its ends, the empty one among them.       *)
Ends(u) == {SubSeq(u, k, Len(u)) : k \in 1..(Len(u) + 1)}
Name == UNION {Ends(u) : u \in Users}

(* A line with a name has all the bytes behind it.                         *)
CountWidth == 3  \* " d\n"
Count == {x \in [user : Name, n : 0..MAX_ATTEMPTS, left : 1..CountWidth] :
             x.user # <<>> => x.left = CountWidth}
Entry == {x \in [user : Name, conn : Conns, left : Nat \ {0}] :
             /\ x.left <= AddressWidth[x.conn]
             /\ x.user # <<>> => x.left = AddressWidth[x.conn]}
CountOf(u, n) == [user |-> u, n |-> n, left |-> CountWidth]
EntryOf(u, c) == [user |-> u, conn |-> c, left |-> AddressWidth[c]]

Status == {"active", "locked", "missing"}
NoAccounts == [u \in Users |-> "missing"]

(* Counts above the limit are told apart by nothing. *)
Capped(n) == IF n > MAX_ATTEMPTS THEN MAX_ATTEMPTS ELSE n

Idle == {"free", "recv"}
ReadsFailed == {"count", "setread", "clearread"}
ReadsListed == {"addread", "delread"}
PCs == Idle \cup ReadsFailed \cup ReadsListed \cup
       {"accounts", "settrunc", "setflush", "locktrunc", "lockflush", "cleartrunc",
        "clearflush", "addtrunc", "addflush", "deltrunc", "delflush"}

Init ==
    /\ account = [u \in Users |-> "active"]
    /\ file = [failed |-> <<>>, listed |-> <<>>]
    /\ pc = [c \in Conns |-> "free"]
    /\ user = [c \in Conns |-> None]
    /\ snapshot = [c \in Conns |-> NoAccounts]
    /\ attempts = [c \in Conns |-> 0]
    /\ buf = [c \in Conns |-> <<>>]
    /\ session = [c \in Conns |-> None]
    /\ closing = [c \in Conns |-> FALSE]
    /\ logins = 0
    /\ wrong = [e \in Name |-> 0]
    /\ granted = {}
    /\ overlap = FALSE

Goto(c, label) == pc' = [pc EXCEPT ![c] = label]

Begin(c, label) ==
    /\ Goto(c, label)
    /\ overlap' = (overlap \/ \E d \in Conns \ {c} : pc[d] \notin Idle)

(* handle_login returns without a session.                                 *)
Fails(c) ==
    /\ Goto(c, "recv")
    /\ user' = [user EXCEPT ![c] = None]
    /\ snapshot' = [snapshot EXCEPT ![c] = NoAccounts]
    /\ attempts' = [attempts EXCEPT ![c] = 0]
    /\ buf' = [buf EXCEPT ![c] = <<>>]
    /\ UNCHANGED <<session, closing>>

(* handle_login sets current_user, and its caller logged_in.               *)
Succeeds(c) ==
    /\ Goto(c, "recv")
    /\ user' = [user EXCEPT ![c] = None]
    /\ buf' = [buf EXCEPT ![c] = <<>>]
    /\ session' = [session EXCEPT ![c] = user[c]]
    /\ UNCHANGED <<snapshot, attempts, closing>>

(* The session ends after remove_logged_in_user, and the child if its      *)
(* connection ended.                                                       *)
Leaves(c) ==
    /\ Goto(c, IF closing[c] THEN "free" ELSE "recv")
    /\ buf' = [buf EXCEPT ![c] = <<>>]
    /\ session' = [session EXCEPT ![c] = None]
    /\ closing' = [closing EXCEPT ![c] = FALSE]
    /\ UNCHANGED <<user, snapshot, attempts>>

----
(* The bytes of the first n lines, and a line without its first k bytes.   *)
Width(x) == Len(x.user) + x.left
Size(lines, n) == Cardinality(UNION {{i} \X (1..Width(lines[i])) : i \in 1..n})
Cut(x, k) ==
    IF k <= Len(x.user) THEN [x EXCEPT !.user = SubSeq(x.user, k + 1, Len(x.user))]
    ELSE [x EXCEPT !.user = <<>>, !.left = Width(x) - k]

(* What file t has behind as many bytes as s: a part of one line, and the  *)
(* lines after it.                                                         *)
Behind(s, t) ==
    LET from == Size(s, Len(s))
        beyond == {i \in DOMAIN t : Size(t, i) > from}
        hit == CHOOSE i \in beyond : \A j \in beyond : i <= j
    IN  IF beyond = {} THEN <<>>
        ELSE <<Cut(t[hit], from - Size(t, hit - 1))>> \o SubSeq(t, hit + 1, Len(t))

(* The lines at some positions, in their order.                            *)
Only(lines, S) ==
    [k \in 1..Cardinality(S) |->
        lines[CHOOSE i \in S : Cardinality({j \in S : j <= i}) = k]]

(* A read(2) that finds something.                                         *)
Read(c, f) ==
    /\ pc[c] \in (IF f = "failed" THEN ReadsFailed ELSE ReadsListed)
    /\ Behind(buf[c], file[f]) # <<>>
    /\ buf' = [buf EXCEPT ![c] = @ \o Behind(@, file[f])]
    /\ UNCHANGED <<files, pc, user, snapshot, attempts, session, closing, history>>

(* The next read(2) of child c finds nothing more.                         *)
AtEnd(c, f) == Behind(buf[c], file[f]) = <<>>

(* read_logged_in_users keeps the first MAX_LISTED lines of three fields.  *)
Listed(lines) ==
    LET named == Only(lines, {i \in DOMAIN lines : lines[i].user # <<>>})
    IN  SubSeq(named, 1, IF Len(named) < MAX_LISTED THEN Len(named) ELSE MAX_LISTED)

(* The reading is over; lines are what is to be written.                   *)
Prepare(c, from, lines, to) ==
    /\ pc[c] = from
    /\ buf' = [buf EXCEPT ![c] = lines]
    /\ Goto(c, to)
    /\ UNCHANGED <<files, user, snapshot, attempts, session, closing, history>>

(* fopen(f, "w") *)
Truncate(c, from, f, to) ==
    /\ pc[c] = from
    /\ file' = [file EXCEPT ![f] = <<>>]
    /\ Goto(c, to)
    /\ UNCHANGED <<account, locals, history>>

(* fclose writes the lines from the start of the file.                     *)
Flush(c, from, f) ==
    /\ pc[c] = from
    /\ file' = [file EXCEPT ![f] = buf[c] \o Behind(buf[c], @)]
    /\ UNCHANGED <<account, history>>

----
(* accept, fork *)
Connect(c) ==
    /\ pc[c] = "free"
    /\ Goto(c, "recv")
    /\ UNCHANGED <<files, locals, history>>

RecvLogin(c, u) ==
    /\ pc[c] = "recv" /\ session[c] = None
    /\ logins < MaxLogins /\ logins' = logins + 1
    /\ Begin(c, "accounts")
    /\ user' = [user EXCEPT ![c] = u]
    /\ UNCHANGED <<files, snapshot, attempts, buf, session, closing, wrong, granted>>

(* account_not_found, or account_locked *)
LoginRefused(c) ==
    /\ pc[c] = "accounts" /\ account[user[c]] # "active"
    /\ Fails(c)
    /\ UNCHANGED <<files, history>>

LoginWrong(c) ==
    /\ pc[c] = "accounts" /\ account[user[c]] = "active"
    /\ snapshot' = [snapshot EXCEPT ![c] = account]
    /\ Goto(c, "count")
    /\ UNCHANGED <<files, user, attempts, buf, session, closing, history>>

(* Mutant: any password opens any account. *)
LoginUnchecked(c) ==
    /\ pc[c] = "accounts" /\ account[user[c]] = "active"
    /\ Goto(c, "clearread")
    /\ UNCHANGED <<files, locals, history>>

LoginRight(c) ==
    /\ pc[c] = "accounts" /\ account[user[c]] = "active"
    /\ granted' = granted \cup {EntryOf(user[c], c)}
    /\ Goto(c, "clearread")
    /\ UNCHANGED <<files, locals, logins, wrong, overlap>>

(* Mutant: a user without a line has failed once. *)
FailedOfOne(u, lines) ==
    IF \E i \in DOMAIN lines : lines[i].user = u
    THEN lines[SelectInSeq(lines, LAMBDA x : x.user = u)].n
    ELSE 1

(* failed = read_failed_attempts(userid) + 1: the first line of the user   *)
(* counts.                                                                 *)
FailedOf(u, lines) ==
    IF \E i \in DOMAIN lines : lines[i].user = u
    THEN lines[SelectInSeq(lines, LAMBDA x : x.user = u)].n
    ELSE 0

(* Mutant: the count goes on without end. *)
CountFailedOn(c) ==
    /\ pc[c] = "count" /\ AtEnd(c, "failed")
    /\ attempts' = [attempts EXCEPT ![c] = FailedOf(user[c], buf[c]) + 2]
    /\ buf' = [buf EXCEPT ![c] = <<>>]
    /\ Goto(c, "setread")
    /\ UNCHANGED <<files, user, snapshot, session, closing, history>>

CountFailed(c) ==
    /\ pc[c] = "count" /\ AtEnd(c, "failed")
    /\ attempts' = [attempts EXCEPT ![c] = Capped(FailedOf(user[c], buf[c]) + 1)]
    /\ wrong' = [e \in Name |-> IF e \in Ends(user[c]) THEN Capped(wrong[e] + 1) ELSE wrong[e]]
    /\ buf' = [buf EXCEPT ![c] = <<>>]
    /\ Goto(c, "setread")
    /\ UNCHANGED <<files, user, snapshot, session, closing, logins, granted, overlap>>

(* The writers keep a line with any field: all but the rest "\n" of one.   *)
Fields(lines) == {i \in DOMAIN lines : Width(lines[i]) > 1}

(* write_failed_attempts: the lines of this user get the new count.        *)
WithCount(lines, u, n) ==
    LET kept == Only(lines, Fields(lines))
    IN  IF \E i \in DOMAIN kept : kept[i].user = u
        THEN [i \in DOMAIN kept |-> IF kept[i].user = u THEN CountOf(u, n) ELSE kept[i]]
        ELSE Append(kept, CountOf(u, n))

SetRead(c) ==
    /\ AtEnd(c, "failed")
    /\ Prepare(c, "setread", WithCount(buf[c], user[c], attempts[c]), "settrunc")

SetFlush(c) ==
    /\ Flush(c, "setflush", "failed")
    /\ IF attempts[c] >= MAX_ATTEMPTS
       THEN /\ Goto(c, "locktrunc")
            /\ buf' = [buf EXCEPT ![c] = <<>>]
            /\ UNCHANGED <<user, snapshot, attempts, session, closing>>
       ELSE Fails(c)

(* write_accounts rewrites all accounts from the copy of the child.        *)
LockTruncate(c) ==
    /\ pc[c] = "locktrunc"
    /\ account' = NoAccounts
    /\ Goto(c, "lockflush")
    /\ UNCHANGED <<file, locals, history>>

(* Mutant: only the locked account is written. *)
LockFlushOne(c) ==
    /\ pc[c] = "lockflush"
    /\ account' = [NoAccounts EXCEPT ![user[c]] = "locked"]
    /\ Fails(c)
    /\ UNCHANGED <<file, history>>

LockFlush(c) ==
    /\ pc[c] = "lockflush"
    /\ account' = [snapshot[c] EXCEPT ![user[c]] = "locked"]
    /\ Fails(c)
    /\ UNCHANGED <<file, history>>

(* clear_failed_attempts drops the lines of the user.                      *)
WithoutUser(lines, u) == Only(lines, {i \in Fields(lines) : lines[i].user # u})

ClearRead(c) ==
    /\ AtEnd(c, "failed")
    /\ Prepare(c, "clearread", WithoutUser(buf[c], user[c]), "cleartrunc")

ClearFlush(c) ==
    /\ Flush(c, "clearflush", "failed")
    /\ Goto(c, "addread")
    /\ buf' = [buf EXCEPT ![c] = <<>>]
    /\ UNCHANGED <<user, snapshot, attempts, session, closing>>

(* add_logged_in_user: the entry is there already, or there is no room.    *)
NeedsNoEntry(c, lines) ==
    Contains(lines, EntryOf(user[c], c)) \/ Len(lines) >= MAX_LISTED

AddNotNeeded(c) ==
    /\ pc[c] = "addread" /\ AtEnd(c, "listed")
    /\ NeedsNoEntry(c, Listed(buf[c]))
    /\ Succeeds(c)
    /\ UNCHANGED <<files, history>>

AddRead(c) ==
    /\ AtEnd(c, "listed") /\ ~NeedsNoEntry(c, Listed(buf[c]))
    /\ Prepare(c, "addread", Append(Listed(buf[c]), EntryOf(user[c], c)), "addtrunc")

AddFlush(c) == Flush(c, "addflush", "listed") /\ Succeeds(c)

(* LOGOUT, or the end of a connection with a session.                      *)
StartRemoval(c, quit) ==
    /\ pc[c] = "recv" /\ session[c] # None
    /\ Begin(c, "delread")
    /\ closing' = [closing EXCEPT ![c] = quit]
    /\ UNCHANGED <<files, user, snapshot, attempts, buf, session, logins, wrong, granted>>

DisconnectIdle(c) ==
    /\ pc[c] = "recv" /\ session[c] = None
    /\ Goto(c, "free")
    /\ UNCHANGED <<files, locals, history>>

(* remove_logged_in_user closes up the first entry of this session.        *)
RemoveNotFound(c) ==
    /\ pc[c] = "delread" /\ AtEnd(c, "listed")
    /\ ~Contains(Listed(buf[c]), EntryOf(session[c], c))
    /\ Leaves(c)
    /\ UNCHANGED <<files, history>>

(* Mutant: the last entry is lost when the list closes up. *)
RemoveReadShort(c) ==
    /\ AtEnd(c, "listed") /\ Contains(Listed(buf[c]), EntryOf(session[c], c))
    /\ Prepare(c, "delread", SubSeq(Listed(buf[c]), 1, Len(Listed(buf[c])) - 1), "deltrunc")

RemoveRead(c) ==
    /\ AtEnd(c, "listed") /\ Contains(Listed(buf[c]), EntryOf(session[c], c))
    /\ Prepare(c, "delread", RemoveFirst(Listed(buf[c]), EntryOf(session[c], c)), "deltrunc")

DelFlush(c) == Flush(c, "delflush", "listed") /\ Leaves(c)

Truncates(c) ==
    \/ Truncate(c, "settrunc", "failed", "setflush")
    \/ Truncate(c, "cleartrunc", "failed", "clearflush")
    \/ Truncate(c, "addtrunc", "listed", "addflush")
    \/ Truncate(c, "deltrunc", "listed", "delflush")

Client(c) ==
    \/ Connect(c) \/ DisconnectIdle(c)
    \/ \E u \in Users : RecvLogin(c, u)
    \/ \E quit \in BOOLEAN : StartRemoval(c, quit)

Child(c) ==
    \/ LoginRefused(c) \/ LoginWrong(c) \/ LoginRight(c)
    \/ Read(c, "failed") \/ Read(c, "listed")
    \/ CountFailed(c) \/ SetRead(c) \/ SetFlush(c)
    \/ LockTruncate(c) \/ LockFlush(c)
    \/ ClearRead(c) \/ ClearFlush(c)
    \/ AddNotNeeded(c) \/ AddRead(c) \/ AddFlush(c)
    \/ RemoveNotFound(c) \/ RemoveRead(c) \/ DelFlush(c)
    \/ Truncates(c)

Next == \E c \in Conns : Client(c) \/ Child(c)

Spec == Init /\ [][Next]_vars
----
TypeOK ==
    /\ account \in [Users -> Status]
    /\ file.failed \in Seq(Count) /\ file.listed \in Seq(Entry)
    /\ pc \in [Conns -> PCs]
    /\ user \in [Conns -> Users \cup {None}]
    /\ snapshot \in [Conns -> [Users -> Status]]
    /\ attempts \in [Conns -> 0..MAX_ATTEMPTS]
    /\ \A c \in Conns : buf[c] \in Seq(Count) \cup Seq(Entry)
    /\ session \in [Conns -> Users \cup {None}]
    /\ closing \in [Conns -> BOOLEAN]
    /\ logins \in 0..MaxLogins
    /\ wrong \in [Name -> 0..MAX_ATTEMPTS]
    /\ granted \subseteq Entry
    /\ overlap \in BOOLEAN

(* However the children overwrite and cut each other's lines, whoever is   *)
(* listed is what is left of a userid whose right password was given from  *)
(* that address (server.c:183-256, 304-305).                               *)
AuthenticatedOnly ==
    \A x \in ToSet(file.listed) :
        x.user # <<>> => \E g \in granted : g.conn = x.conn /\ x.user \in Ends(g.user)

(* No account is locked for fewer than MAX_ATTEMPTS wrong passwords of the *)
(* userids that end in its userid: counts get lost, and a cut line counts  *)
(* for a shorter userid, but none is invented (server.c:51-139, 287-292).  *)
LockNeedsWrong ==
    \A u \in Users : account[u] = "locked" => wrong[u] = MAX_ATTEMPTS

(* account.txt is empty only while a child is rewriting it: no child writes *)
(* back the empty file another one let it read (server.c:142-171, 289-294). *)
AccountsSurvive ==
    (\A c \in Conns : pc[c] # "lockflush") =>
        \A u \in Users : account[u] # "missing"

(* As long as no two children are busy at a time, and there is room, the   *)
(* list holds each session once, and nothing else (server.c:215-256).      *)
ListRightWhenAlone ==
    (~overlap /\ Cardinality(Conns) <= MAX_LISTED /\ \A c \in Conns : pc[c] \in Idle) =>
        /\ IsInjective(file.listed)
        /\ ToSet(file.listed) =
              {EntryOf(session[c], c) : c \in {d \in Conns : session[d] # None}}
====
