# LTM_HUST in TLA+

The repository is a collection of network programs in C, written along one
course: a file-backed account manager, account servers over UDP and TCP, a UDP
chat, and four ways of serving many clients at once (fork, threads, signals,
select).  This directory holds TLA+ modules for them, configurations for TLC,
and proofs for the TLA+ proof system.

## 1. Inventory

| Component | Source | State | Operations | Modelled in |
|---|---|---|---|---|
| Threaded authentication server | `src/HW8/server.c` | `account.txt`, `failed_attempts.txt`, `logged_in.txt`; per thread `current_user`, `logged_in` and copies of the files on its stack | connect, LOGIN, LOGOUT, WHO, HELP, end of connection | `AuthServer` |
| Select account server | `src/HW9/server.c` | `accounts[]`, `clients[]`, `master_fds`, `nguoidung.txt` | accept, recv, login, change password, `bye`, remove client | `AccountRules`, `AccountService`, `SelectServer` |
| Poll variant of it | `src/HW9/server.c:401-481` | the same, `fds[]` instead of `fd_set` | the same | not modelled: compiled out |
| Forking authentication server | `src/HW7/server.c` | the three files of HW8, no lock | as HW8 | `ForkServer` |
| UDP chat | `src/HW6` | sessions by address, chat log; client: socket with a timeout | LOGIN_REQ, MSG_DATA, LOGIN_ACK, ERROR | `ChatRoom`, `UdpChat` |
| Sequential account servers | `src/HW4` (UDP), `src/HW5` (TCP) | accounts, `account.txt`, the stage of the one session; client: its prompt | user name, password, new password, bye, accept, end of connection | `SessionRules`, `SessionService`, `SessionServer` |
| User management | `src/HW1` | linked lists of users and of history, `current_user`, `account.txt`, `history.txt` | register, sign in, change, reset, unlock, delete, view, sign out, quit | `UserMgmt` |
| Signal-driven server | `src/BaiTapTrenLop/23-12` | pending SIGIO, backlog, `server_running`, `user.txt` | SIGIO, SIGTERM, handler threads | `SignalServer` |
| Append servers | `src/BaiTapTrenLop/25-11`, `18-11` | `user.txt` | one record per connection | not modelled: the thread body is the one of 23-12 |
| UDP hello, DNS exercises, reports | `21-10`, `HW3`, `HW2` | none | one request, one answer | not modelled |

How they interact: no two of these programs talk to each other; inside each,
a server and its clients exchange messages over a socket, and the executions of
one server (threads, children, handlers, rounds of a loop) meet in its files and
arrays.  That is where the behaviours are that a test hardly reaches:

- **HW8**: each *file function* is atomic under `file_mutex`, but a *handler* is
  not; it reads a whole file into an array, releases the mutex, and writes the
  array back later.  Correct means: no login without a password, no lock
  without the wrong passwords, no entry listed twice, no session left in the
  list after a logout, and that guessing ends in a lock.
- **HW9**: one thread, but an array that is compacted under the loop that runs
  over it, descriptors the kernel reuses at once, a descriptor set copied before
  `accept` adds to it, and several connections on one account.  Correct means:
  the array, the set and the kernel agree, the thread never blocks in `recv`,
  each ready client is served once a round, everybody on an account learns its
  new password, and a restart brings back what was saved.
- **HW6**: datagrams lost, duplicated and overtaken; a client timeout that
  races a late answer; sessions that are never removed.
- **HW4, HW5**: a line means what the server's stage says, and the client goes by
  its prompt; only the answers keep the two together.  In HW4 any other sender
  resets the one session, and a lost datagram leaves a client waiting; in HW5
  one connection at a time is served.  Correct means: nobody acts in another's
  session, no line becomes a password that was not meant as one, prompts and
  stages agree (over TCP; over UDP another client may take the session at any time),
  and whoever waits is answered.
- **HW7**: the files of HW8 without a lock: files seen empty by other children, and
  lines cut where one child writes over another's.
- **23-12**: signals that coalesce, a lost wake-up between a test and `pause`.
- **HW1**: a pointer into a list that is freed and read again from a file that may
  be older, cut off or missing; locks with a time that two functions judge, across restarts; a history
  that each load reverses and each save rewrites.  Correct means: the one who is
  logged in stays in the list as long as the file keeps it, locks last their time, no
  sign-in is lost or doubled.

`PROJECT.json` lists each hazard at its line with the property that covers it.

## 2. Plan

Order of work, the most important behaviour first:

1. `AuthServer` (HW8) with runs and proofs -- done, and proved.
2. `AccountRules`, `AccountService`, `SelectServer` (HW9): the loop implements
   an abstract service -- done, and proved.
3. `SignalServer` (23-12): SIGIO, backlog, termination -- done, and proved.
4. `ChatRoom`, `UdpChat` (HW6): client and server over a lossy network; the
   sessions implement a map from addresses to names -- done, and proved.
5. `ForkServer` (HW7): the files of HW8 without a lock -- done, and proved.
6. `SessionRules`, `SessionService`, `SessionServer` (HW4 over UDP and HW5 over
   TCP): one set of stages, the transport chosen in `Init`; both implement one
   abstract service -- done, and proved.
7. `UserMgmt` (HW1): the list of users across reloads, `current_user`, locks,
   the history across restarts -- done, and proved.
8. The poll variant of HW9, a second loop over `AccountService` -- left out: it is
   compiled out.

Composition: `AccountRules` is shared by `AccountService` and `SelectServer`, and
`SessionRules` by `SessionService` and `SessionServer`.  `SelectServer`
instantiates `AccountService`, `UdpChat` `ChatRoom`, and `SessionServer`
`SessionService`, as what they implement.

## 3. The modules

A name in a module is the name in the code where there is one.  Definitions
under a comment "Mutant" are deliberate bugs: each is a wrong version of the
definition it stands before, used to show that a property can fail.

### AuthServer (HW8)

State: the three files (`account`, `failed`, `listed`) and, per connection, the
point its thread has reached (`pc`) and its locals: `user`, `snapshot`
(`accounts[]`), `attempts`, `list` (`users[]`), `session`.  Each file function
of `server.c` holds `file_mutex` from `fopen` to `fclose`, so one call is one
action: `LoginRefused`, `LoginWrong` and `LoginRight` are what follows
`read_accounts`, then `ReadFailed`, `WriteFailed`, `LockAccount`, or
`ClearFailed`, `AddRead`, `AddWrite`; `RemoveRead` and `RemoveWrite` are the
logout.  `Crash` ends the process anywhere, and may leave the file that was
being written empty (`account` is then `"missing"`).  `wrong` and `granted` are
history variables.

### AccountRules, AccountService, SelectServer (HW9)

`AccountRules` has what `handle_login` decides from an account and a line, and
what `save_accounts` and `load_accounts` do to an account: a line with an empty
field is dropped by the load, and a save may leave the file as it was or without some
of its lines (`Saved`).  `AccountService` is what the server promises each
connection, one action per answer, over a function from descriptors to
sessions.  `SelectServer` is `run_server_select` itself: `Select`,
`AcceptClient`/`AcceptRefused`/`NoArrival`, then the scan by index `i` with
`Skip`, `ClientGone` and `RecvLine`.  `clients` is the array, in the order of the
code, compacted by `remove_client` (`Without`); `ready` is `read_fds`,
`master` is `master_fds`; `inbox` is what the kernel holds for each descriptor,
and `LowestFree` is how it numbers a new one.  `HandleMessage` is
`handle_client_message` with every handler it calls and the save of the file,
which goes on when it fails.  `Crash` ends the process and starts it again; a crash
inside a save is a save that was cut off, and then a crash.
`Sessions` is the refinement mapping.

### SignalServer (23-12)

State: main's position, `server_running`, the pending signals, the connections
in the backlog and accepted, `file_mutex`, `user.txt`.  `sigio_handler` runs on main
only: the other threads are created inside it, where SIGIO is blocked, and inherit
that mask.  SIGIO is a flag and does not count; one that comes during the handler
stays pending.  `sigterm_handler` may interrupt anything, the other handler too.  `Test` and `Pause` are separate steps, as
`while (server_running) pause();` is.

### ChatRoom, UdpChat (HW6)

`UdpChat` has the server (`sessions`, the last line written to a log file) and the
clients (`client`, the name each one asked for) and a network that is a set of
datagrams: receiving one may leave it there (it was duplicated), any may be
taken next (reordering), and `Drop` loses one.  `Timeout` is the 5 s of
`SO_RCVTIMEO`.  `Restart` ends the server; the new one has no sessions and
appends to the same files.  `ChatRoom` is the promise: a map from addresses to
names, and lines that are written under the name of their sender.

### ForkServer (HW7)

The handlers of HW8, but a step is one system call on a file, since nothing
orders the children: `Read` for each read, `Truncate` for
`fopen("w")`, `Flush` for the write in `fclose`, which starts at offset 0 whatever is
in the file by then.  Lines differ in length, so a write, or a read that goes on in
a file rewritten meanwhile, may stop inside a line.  What is left of a cut line is a
line to `sscanf`: one that lost part of its userid has all its fields and names
another userid.  A line is therefore a record of what is left of the userid, of its
other fields, and of how many bytes are left behind the userid; `Size` counts bytes,
`Cut` takes some off the front, `Behind` gives what a read finds, or a write leaves,
behind given bytes.  `Listed` and `FailedOf` are what the reader makes of such
lines, and `Fields` which of them a writer keeps.

### SessionRules, SessionService, SessionServer (HW4, HW5)

The two servers share their code from `loadAccounts` to the chain of stages, and
the two clients theirs but for the transport; so does the model, with `transport`
fixed in `Init`.  `SessionServer` has the client program (`Start`, `Type`, `Stop`
for the empty line, `Quit`, `ReceiveAnswer` with `NextPrompt`), the lines and
answers under way, the backlog of HW5 with `Accept` and `HangUp`, and the server,
where `HandleLine` is one round of its loop: an action per answer, from
`RefuseName` to `NewPassword`.  `session` is the one session with the client it
belongs to; `Current` is the test of the sender's address in HW4.
`PersistAccounts` writes the file or, when it cannot be opened, does nothing;
`Crash` and `CrashInSave` end the server, the latter between `fopen("w")` and the
write.  Over UDP what was under way to the server dies with it (`Reboot`).  A new
client may get the address of an earlier one, of which no datagram is under way
any more (`Unused`), also while the session of HW4 is still of that address
(`reused`). Lines are members of `Strings`, and a line may be both a user name and
somebody's password, which is what makes a confusion of stages visible.
`SessionService` gives each client a session of its own that may be lost at any
time; `SessionOf` maps the one session to it.

### UserMgmt (HW1)

State: the two lists and their files, `current_user`, the clock, and the locals
of `sign_in`, which is the one choice that waits in the middle (`pc`): everything
else is one action per choice of the menu, the trailing save and the
`auto_unlock_accounts` of `main` included.  `user_list` is a function from names,
as `register_user` keeps them unique and no property is about their order;
`history_list` is a sequence of numbers, one per sign-in.  A save (`SaveUsers`,
`SaveHistory`) may leave the file as it was, or be cut off anywhere: then whole lines
are missing, and the last one may have lost the end of its role or of its lock time
(`Cuts`, `Remains`).  A load of the users may fail (`LoadUsersFails`).  `Die` kills the
program; a kill inside a save is a save that was cut off, and then this.
`OtherInstance` is another process on the same file that deletes an account.
`ViewAccounts` frees and reloads the list, and leaves `current_user` `Dangling` if its
name is not in the file.  What a dangling pointer shows is what is in that memory,
which may be the element of any user of the list (`Is`).

## 4. The runs

| Run | Instance | What it shows |
|---|---|---|
| `auth_server` | 2 connections, 1 user, 3 attempts, list of 2, 2 crashes | no entry twice, nobody listed without the password, no lock without the wrong passwords, no entry left by a logout; guessing that goes on ends in a lock, although counts get lost (`GuessingEndsInLock`) |
| `auth_relock` | 2 connections, 2 users, 2 attempts | *violation*: a lock is undone by the stale copy of another thread |
| `select_safety` | array of 2, 3 connections, 1 account, 3 lines, 2 faults (crashes, failed saves) | array, descriptor set and kernel agree; each ready client is served once; `recv` never blocks; a restart brings back what was saved, a saved block too; sessions of one account all know its password |
| `select_service` | array of 2, 2 connections, 1 attempt | the loop implements `AccountService`; every line is read and every connection accepted, however busy the others are |
| `select_overfull` | array of 1, 2 connections | *violation*: one connection too many stops the service for all |
| `signal_safety` | 3 clients, backlog of 2 | one line per accepted client, one writer at a time, a connection waits in the backlog only for a stated reason, an accepted client's line is written, repeated SIGTERM stops the server |
| `signal_missed` | 2 clients | *violation*: of two connections that raise one SIGIO the second waits |
| `udp_safety` | 3 addresses, 2 names, table of 2, 2 datagrams, 1 restart | one session per address, no acknowledgement without a session, errors only after a restart, implements `ChatRoom` |
| `udp_late_ack` | 1 address | *violation*: a client talks under a name the server does not know |
| `fork_safety` | 2 connections, userids `a` and `ba`, 2 attempts, list of 2, 5 logins | without any lock and with lines cut anywhere: nobody listed but ends of userids whose password was given, no lock without the wrong passwords, `account.txt` is never lost; a child that is alone keeps the list right |
| `session` | 2 clients, 1 account (ready or not), 3 lines, 2 attempts, 1 fault | with a lost datagram, a failed save or a crash: over TCP prompts and stages agree; over UDP and TCP no line becomes a password by accident, both implement `SessionService`, and whoever waits is answered, but for the named exceptions |
| `users` | 3 names, 2 passwords, 2 attempts, a lock of 2 ticks, a clock of 3, 3 sign-ins, 1 fault | `current_user` does not dangle until lines of the file are lost, locks last their time, the history has each sign-in once; with kills anywhere, failed loads, failed and cut-off saves |

Why the bounds are enough.  Two threads or children already give every
interleaving of two handlers.  `auth_server` has one user, since its invariants
are about one user each and are proved for any number; two users, of which one
handler overwrites what concerns the other's, are in `auth_relock` and
`fork_safety`.  A limit of 2 attempts is the smallest with a count below it, and 3
lets a lost count be lost and guessing go on; `select_service` blocks at once, as
counting is checked in `select_safety`, where the one name is also its first
password to keep the lines few; `select_service` has a name that is no valid
password.  Two faults let a restart follow a failed save.  The array of HW9 has
two places so that `remove_client` moves a client, and a third connection gives
descriptor reuse; with an array of one, a second connection is the one too many.
Three clients of 23-12 overfill a backlog of two. Two datagrams in flight suffice
for a late one to overtake a new one, three addresses overfill the table of two.
Two clients of HW4 reset each other's session and queue in HW5; of three lines one
is a name and a possible new password, so that one taken for the other shows.  One
account is enough for two clients to share; the proofs are for any number.  In HW7
the userid `a` ends the userid `ba`, so that a cut line names a real user; five
logins let two children fail, lock and log in while the other rewrites.  Three
names of HW1 are an administrator, a user blocked by hand, and one to register and
lock; a clock that goes from 1 to 3 lets a lock of two ticks run out, three
sign-ins make a reversed history differ, and one fault is enough for each single
kind of failure.  `MaxCrashes`, `MaxFaults`, `MaxConns`, `MAX_RESTARTS`,
`MAX_NET`, `MaxLogins`, `MAX_FAULTS`, `MAX_TIME` and `MAX_LOGINS` are bounds of
the models, in the guards of the actions they count (`MAX_NET` in `With`: a full
network loses the new datagram); all other constants are the code's, made small.
Counts of wrong passwords stop at the limit (`Capped`), as nothing tells larger
ones apart. Every property of a passing run has a mutant of the code it fails for.

`CHECK_DEADLOCK FALSE` is in the runs of `SignalServer`: the process ends.

### Fairness

- `AuthServer!FairSpec`: a thread that is inside a handler goes on.  The threads
  are the kernel's, and `file_mutex` is only held within one call.  Clients are
  not fair, and `GuessingEndsInLock` speaks of those that keep guessing.
- `SelectServer!FairSpec`: the one thread goes on while it can.  Clients are not
  fair; nothing is assumed on the order in which descriptors get ready.
- `SignalServer!FairSpec`: main, each worker and each handler go on, and a pending
  signal is delivered.
- `SessionServer!FairSpec`: the server accepts and reads while there is something,
  the kernel keeps the order of arrival so that no client's line waits for ever, and a
  client that waits reads the answer.  Users are not fair: one who stays connected to
  HW5 keeps the server, which is why `Answered` makes an exception for it.
  `Answered` has one `[]<>` per client, which is the same as leads-to for a client
  that waits.

The other modules have no liveness: a datagram may always be lost, and counts in
HW7 may always be overwritten.

## 5. What is proved

All theorems hold for every value of the constants that satisfies the ASSUMEs of
the module.  They state every safety invariant, every action property and the three
refinements that the passing runs check.  The invariants below were checked with TLC
on the instances of the runs before they were proved.

- `SequenceLemmas`: what `Append`, `Tail`, `RemoveAt`, `SubSeq` and `\o` do to the
  elements of a sequence and to one without duplicates; used by the proofs about
  `AuthServer`, `ForkServer` and `SignalServer`.
- `AuthServerProofs`: `TypeCorrect` (TypeOK needs that a thread inside a handler
  knows its user: `LocalsKnown`), `NoDuplicateEntries`, `OnlyAuthenticated`,
  `LockJustified`, `RemovalIsComplete`.  Each rests on an invariant of its own over
  `TypeInv`: `ListInv` adds that a list about to be written with a new entry does
  not have it yet; this needs that no other thread adds an entry of the same
  address.  `LockInv` bounds every count, in a file or in a local, by the wrong
  passwords given, and says that a locked account in any stale copy is excused.
  `GrantInv` says that whoever is past the password check was granted.
- `SelectServerProofs`: `LoopInv` relates array, `ready`, kernel and index during
  the scan: what lies above the index is already handled, what lies below is not,
  and a ready descriptor is handled or still in the array.  It is inductive because
  the scan runs downwards and `remove_client` moves clients down only.  From it
  `NobodyForgotten`, `NeverBlocks`, `ServedOnce`; from `TypeInv` `PasswordIsShared`;
  from `FileCurrent` (after a complete save the file has what memory has)
  `SavesComeBack` and `BlocksStay`; and `LoopImplementsService`: each step of the
  loop is a step of `AccountService` or a stutter.
- `UdpChatProofs`: `TableInv` (type and one session per address) gives `TypeCorrect`
  and `OneSession`; `ChatInv` adds that before a restart whatever bears witness
  to a session (an acknowledgement, a message on the way, a client that talks) has
  one, which gives `LoggedIn` and `ErrorsMeanRestart`; and `ServerImplementsRoom`.
- `SignalServerProofs`: `QueueInv` (no connection is twice in the backlog, and none
  there has a thread; who holds `file_mutex` is the one that writes) gives `TypeCorrect`;
  `FileInv` adds which thread states a line in the file allows, for `OneLinePerClient`.
  `BacklogIsExplained` compares the length of the backlog with
  the signals merged, pending or being handled; its invariant adds that a closed
  socket has no backlog.
- `UserMgmtProofs`: `UsersInv` gives `TypeCorrect` and `CurrentUserIsListed`.  It
  needs that the list equals its file unless a save failed, and that, until lines of the
  list are lost (`linesLost`), an administrator in memory has a line in the file: no
  choice of the menu gives that role, so a reload finds the administrator who asked for it.  `LocksLast` is proved from it step
  by step.  `HistoryInv` says which sign-ins the file has: all that were not given up,
  each once, except after a failed save; it gives `HistoryIsKept`, restarts included.
- `ForkServerProofs`: `TypeInv` says what each child has in its buffer at which step.
  `LockInv` bounds a count together with the children that have yet to add theirs by
  the wrong passwords given (`Explained`), so that lost updates only lower a count.  A
  cut line carries a count to a shorter userid; a wrong password therefore counts for
  each end of the userid it was given for (`wrong`), a longer userid never has more
  than its ends (`Monotone`), and what is explained stays so when cut: `LocksAreEarned`.  `AccountsInv`: `account.txt` is whole, or empty while a child
  rewrites it, and a child that writes it back read it whole: `NoAccountIsLost`.
  `GrantInv`, over a set of granted userids that is closed under cutting, gives
  `ListedAreGranted`.  `AloneInv` follows one child through the
  reading and rewriting of `logged_in.txt` while all others are idle; that the list
  fits into one read takes a pigeonhole argument over the finite set of connections:
  `AloneTheListIsRight`.  `Only` picks the k-th kept line rather than recursing
  over the file, so that the provers can reason about it.
- `SessionServerProofs`: `TypeInv` adds to `TypeOK` that who waits for a password has
  tries left and who gives a name has none (`SessionInv`).  `NetInv`: at most one line
  or one answer of a connected client is under way, and none unless it waits; so an
  answer that was lost or late is never taken for another.  From it `LoggedInInv`
  (who is logged in is, or comes to be, at the command prompt, but after an empty line
  or at a used address: `Excused`) gives `PasswordsAreMeant`, and `PromptInv` gives
  `PromptsAgree` for HW5, where no address is used twice (`Fitting` has the prompts that
  fit the session).  `ServersImplementService`: a line handled is a step
  of `SessionService` or a stutter, and everything outside the server is a stutter.

Only model-checked: the liveness properties (`GuessingEndsInLock`, `EveryLineIsRead`,
`EveryoneIsAccepted`, `AcceptedIsWritten`, `RepeatedTermStops`, `Answered`), since the prover knows neither
fairness nor ENABLED.  The properties of the runs that expect a violation are refuted
by TLC; there is nothing to prove about them.

## 6. Where the code and its documents disagree

- `auth_relock`: HW8 writes all accounts back from a copy: a lock set meanwhile
  by another thread is lost.
- `select_overfull`: HW9 closes the descriptor of a client there is no room for, and
  then puts it into `master_fds`; `select` fails from then on.
- `signal_missed`: 23-12 accepts one connection per SIGIO, and SIGIO does not queue.
- `udp_late_ack`: the client of HW6 takes any LOGIN_ACK for the answer to its last
  request.

`PROJECT.json` quotes the lines.

Other behaviour one may not expect, and for which the properties make an explicit
exception or do not promise more:

- HW8: an entry is added in two critical sections; of two users who log in at a time,
  WHO may not show one.  `NoDuplicates` and `AuthenticatedOnly` do not say that every
  session is listed.
- HW7: two children that rewrite `logged_in.txt` at a time may leave a line that begins
  inside a userid: the list shows a userid that never logged in (`Ends` in
  `AuthenticatedOnly`).
- HW9: the empty line is a valid new password; the load drops the line that the save
  makes of it, and the account is gone after a restart (`Empty` in `RestartBringsBack`).
- 23-12: main tests `server_running` and then pauses; a single SIGTERM or Ctrl+C between
  the two does not stop it (`RepeatedTermStops` speaks of repeated ones).
- 23-12: main empties `user.txt` after `listen`, when threads may already have written to
  it; such a line is lost (`AcceptedIsWritten` says that a line is written).
- HW1: the list is freed and read again; when the file cannot be opened, or has lost the
  line of the current user by a save that was cut off or by another instance,
  `current_user` is a freed element (`linesLost` in `CurrentUserListed`).
- HW4 and HW5: after an empty line at the command prompt the client asks for a user
  name again, but the server is not told; an alphanumeric name typed then becomes the
  new password (`stopped` in `NoStrayPassword` and `PromptAgrees`).
- HW4: a client is known by its address only; a new one at a used address goes on in the
  old session, and its user name may become the password (`reused` in `NoStrayPassword`).
- HW5: for an account that is neither active nor blocked, the right password is
  answered "account not ready"; the client goes back to the user name, the server
  goes on waiting for a password (`PromptAgrees`).
- HW9: a block that could not be saved is confirmed and gone after a restart (`saved`).
- HW4, HW5: a block or a new password that could not be saved is confirmed all the
  same (`unsaved`).
- HW1: each restart reverses the order of the history (`history.txt` of the repository
  shows it); `HistoryKept` is about its entries, not their order.
- HW1: deleting a user, or any other save, after a failed one brings the file up to
  date; a reload in between takes back what was not saved.

## 7. Not modelled, and why

- Text: parsing, formatting, terminal input and output, logs other than their
  effect on properties.  Passwords and names are model values; where the form of a
  string decides what happens (empty lines, valid names) the value carries it.
- TCP as a byte stream: one `recv` gets one line.  The clients send lines, and none
  of the servers reassembles parts.
- Failures of `malloc`, `fork` and `pthread_create`, and of the files of HW6, HW7, HW8
  and 23-12.  The failures that are modelled: in HW1 and HW9 a save that does nothing or
  is cut off, in HW4 and HW5 a save that does nothing (a full disk that cuts the file off
  is left out), in HW1 a load of the users.  A load of the history of HW1 does not fail.
- HW9: a save that is cut off loses any set of lines, since the order of the lines is
  not kept: more than the code can lose.  Lines that overrun their buffers are not.
- HW7: no file is longer than a buffer of the C library or than 100 lines, counts have one
  digit, no userid is a number, and no child is killed inside a handler.
- HW8: `wrong` never goes down, so `LockNeedsWrong` does not tell the wrong passwords
  before a login from those after it.
- HW6: of the chat log only the last line is kept, the one a step writes.
- What happens in the C library when a signal handler calls functions that are not
  async-signal-safe.
- Array overflows beyond 100 lines in HW7 and HW8 (`write_failed_attempts`).
- Datagrams of HW4 that the network repeats: `SessionServer` loses and reorders them
  only.  A user name repeated after the login would be taken for a new password.
- HW4 and HW5: a homepage whose text begins with `Goodbye` would end the client; the
  data of the accounts is taken not to.  A new program gets a used address only when no
  datagram of the old one is under way.
- HW4 and HW5: a client of HW4 is ended only at its prompt or after a loss; `listen`'s
  limit on the backlog is above the number of clients.  A save that falls back on
  `../account.txt` is a failed one, since the next start reads `account.txt`.
- HW1: the end of the input, at which `scanf` leaves `choice` as it was and the menu
  repeats; the email and phone texts; the dates in the history.  Another instance on the
  same file only deletes an account.
- The poll variant of HW9: compiled out (`USE_SELECT`).  25-11 and 18-11 append one
  record per connection, as the thread of `SignalServer` does.  The other programs keep
  no state.
