---- MODULE SelectServer ----
(***************************************************************************)
(* The event loop of HW9 (server.c, run_server_select): one thread, one    *)
(* array of clients that is compacted by moving the last element into the  *)
(* hole, one descriptor set that is copied before select and one pass over *)
(* the array, from its end to its start, that serves what was ready.       *)
(*                                                                         *)
(* The kernel gives an accepted connection the lowest free descriptor and  *)
(* holds what the client sent until recv takes it.  A client sends the     *)
(* next line only when the last one was taken, so that a recv is one line. *)
(* clients[].failed_attempts is written and never read, and is left out.   *)
(***************************************************************************)
EXTENDS AccountRules, Sequences, SequencesExt, FiniteSets

CONSTANTS
    MAX_CLIENTS,  \* size of the array of clients (100 in the code)
    MaxConns,     \* bound on connections, accepted or not, at a time
    MaxFaults,    \* bound on the number of crashes and of failed saves
    Shut, Quiet, Eof, \* a descriptor not in use, with nothing to read, at its end
    Closed        \* the abstract service's "no session"

ASSUME DescriptorAssumption ==
    /\ Fds = 1..(MAX_CLIENTS + 1)
    /\ MAX_CLIENTS \in Nat \ {0} /\ MaxConns \in Nat /\ MaxFaults \in Nat
ASSUME MarkAssumption ==
    /\ {Shut, Quiet, Eof} \cap Strings = {}
    /\ Shut # Quiet /\ Shut # Eof /\ Quiet # Eof
    /\ Closed \notin [user : Strings, in : BOOLEAN]

Listen == 0   \* the listening socket

VARIABLES
    accts,    \* accounts[] and account_count
    file,     \* nguoidung.txt
    saved,    \* history: the last save, if any since the start, wrote all it had to
    clients,  \* clients[0..client_count-1]; index i here is i-1 in the code
    master,   \* master_fds without the listening socket, which never leaves it
    ready,    \* read_fds as select returned it
    pc,       \* "select", "accept", or "scan" with the index i
    i,        \* the client the scan looks at next; 0 outside the scan
    inbox,    \* the kernel's side of every descriptor
    pending,  \* connections waiting for accept
    known,    \* history: the encoding each client holds of its account's password
    handled,  \* history: descriptors served in this round
    faults    \* number of crashes and failed saves so far

stored == <<file, saved, faults>>
accounts == <<accts, known, stored>>
loop == <<master, ready, pc, i, handled>>
vars == <<accts, file, saved, clients, master, ready, pc, i, inbox, pending, known,
          handled, faults>>

ClientInfo == [sock : Fds, user : Strings, in : BOOLEAN]
Socks == {clients[k].sock : k \in DOMAIN clients}
OpenFds == {f \in Fds : inbox[f] # Shut}

Init ==
    /\ file = InitFile /\ faults = 0
    /\ accts = Load(InitFile) /\ saved = TRUE
    /\ clients = <<>>
    /\ master = {} /\ ready = {} /\ handled = {}
    /\ pc = "select" /\ i = 0
    /\ inbox = [f \in Fds |-> Shut]
    /\ pending = 0
    /\ known = [f \in Fds |-> Encoding[Empty]]

----
(* A client connects; the kernel completes the connection. *)
Arrive ==
    /\ pending + Cardinality(OpenFds) < MaxConns
    /\ pending' = pending + 1
    /\ UNCHANGED <<accounts, clients, loop, inbox>>

(* A client whose last line was taken sends a line, or closes. *)
Send(f, m) ==
    /\ inbox[f] = Quiet
    /\ inbox' = [inbox EXCEPT ![f] = m]
    /\ UNCHANGED <<accounts, clients, loop, pending>>

----
(* Mutant: select(max_fd, ...) does not look at the highest descriptor. *)
SelectShort ==
    /\ pc = "select" /\ master \subseteq OpenFds
    /\ ready' = {f \in master : inbox[f] # Quiet /\ \E g \in master : f < g} \cup
                (IF pending > 0 THEN {Listen} ELSE {})
    /\ ready' # {}
    /\ pc' = "accept"
    /\ handled' = {}
    /\ UNCHANGED <<accounts, clients, master, i, inbox, pending>>

(* Mutant: the listening socket is looked at only when no client is ready. *)
SelectClientsFirst ==
    /\ pc = "select" /\ master \subseteq OpenFds
    /\ LET busy == {f \in master : inbox[f] # Quiet}
       IN  ready' = IF busy = {} /\ pending > 0 THEN {Listen} ELSE busy
    /\ ready' # {}
    /\ pc' = "accept"
    /\ handled' = {}
    /\ UNCHANGED <<accounts, clients, master, i, inbox, pending>>

(* read_fds = master_fds; select(...) returns what can be read. *)
Select ==
    /\ pc = "select" /\ master \subseteq OpenFds
    /\ ready' = {f \in master : inbox[f] # Quiet} \cup
                (IF pending > 0 THEN {Listen} ELSE {})
    /\ ready' # {}
    /\ pc' = "accept"
    /\ handled' = {}
    /\ UNCHANGED <<accounts, clients, master, i, inbox, pending>>

(* A closed descriptor in the set: EBADF, perror, continue. *)
SelectFails ==
    /\ pc = "select" /\ ~(master \subseteq OpenFds)
    /\ UNCHANGED vars

(* The scan starts at index n, or there is nobody to scan.  read_fds is    *)
(* overwritten before it is read again.                                    *)
ScanFrom(n) ==
    /\ i' = n
    /\ IF n = 0 THEN pc' = "select" /\ ready' = {}
                ELSE pc' = "scan" /\ ready' = ready

NoArrival ==
    /\ pc = "accept" /\ Listen \notin ready
    /\ ScanFrom(Len(clients))
    /\ UNCHANGED <<accounts, clients, master, inbox, pending, handled>>

(* The descriptor accept returns. *)
LowestFree(f) == f \notin OpenFds /\ \A g \in Fds \ OpenFds : f <= g

(* Mutant: the limit is off by one. *)
AcceptClientOffByOne(f) ==
    /\ pc = "accept" /\ Listen \in ready /\ Len(clients) <= MAX_CLIENTS
    /\ LowestFree(f)
    /\ pending' = pending - 1
    /\ clients' = Append(clients, [sock |-> f, user |-> Empty, in |-> FALSE])
    /\ inbox' = [inbox EXCEPT ![f] = Quiet]
    /\ master' = master \cup {f}
    /\ ScanFrom(Len(clients) + 1)
    /\ UNCHANGED <<accounts, handled>>

(* Mutant: FD_SET also marks the new client in read_fds. *)
AcceptClientReady(f) ==
    /\ pc = "accept" /\ Listen \in ready /\ Len(clients) < MAX_CLIENTS
    /\ LowestFree(f)
    /\ pending' = pending - 1
    /\ clients' = Append(clients, [sock |-> f, user |-> Empty, in |-> FALSE])
    /\ inbox' = [inbox EXCEPT ![f] = Quiet]
    /\ master' = master \cup {f}
    /\ ready' = ready \cup {f}
    /\ pc' = "scan" /\ i' = Len(clients) + 1
    /\ UNCHANGED <<accounts, handled>>

(* accept and add_client, which has room. *)
AcceptClient(f) ==
    /\ pc = "accept" /\ Listen \in ready /\ Len(clients) < MAX_CLIENTS
    /\ LowestFree(f)
    /\ pending' = pending - 1
    /\ clients' = Append(clients, [sock |-> f, user |-> Empty, in |-> FALSE])
    /\ inbox' = [inbox EXCEPT ![f] = Quiet]
    /\ master' = master \cup {f}
    /\ ScanFrom(Len(clients) + 1)
    /\ UNCHANGED <<accounts, handled>>

(* accept and add_client, which closes the descriptor; FD_SET follows in   *)
(* both cases.                                                             *)
AcceptRefused(f) ==
    /\ pc = "accept" /\ Listen \in ready /\ Len(clients) >= MAX_CLIENTS
    /\ LowestFree(f)
    /\ pending' = pending - 1
    /\ master' = master \cup {f}
    /\ ScanFrom(Len(clients))
    /\ UNCHANGED <<accounts, clients, inbox, handled>>

(* FD_ISSET is false for this client. *)
Skip ==
    /\ pc = "scan" /\ clients[i].sock \notin ready
    /\ ScanFrom(i - 1)
    /\ UNCHANGED <<accounts, clients, master, inbox, pending, handled>>

(* clients[i] can be read, and recv returns m. *)
Recv(m) ==
    /\ pc = "scan" /\ clients[i].sock \in ready
    /\ inbox[clients[i].sock] = m
    /\ handled' = handled \cup {clients[i].sock}
    /\ ScanFrom(i - 1)

(* Mutant: the last client is dropped and not copied. *)
WithoutLast(k) == SubSeq(clients, 1, Len(clients) - 1)

(* remove_client: the last client moves into the place of the k-th. *)
Without(k) ==
    LET n == Len(clients)
    IN  [j \in 1..(n - 1) |-> IF j = k THEN clients[n] ELSE clients[j]]

(* Mutant: the scan steps over the moved client, as after a shift. *)
ClientGoneSkips ==
    /\ pc = "scan" /\ clients[i].sock \in ready
    /\ inbox[clients[i].sock] = Eof
    /\ handled' = handled \cup {clients[i].sock}
    /\ ScanFrom(IF i > 1 THEN i - 2 ELSE 0)
    /\ inbox' = [inbox EXCEPT ![clients[i].sock] = Shut]
    /\ master' = master \ {clients[i].sock}
    /\ clients' = Without(i)
    /\ UNCHANGED <<accounts, pending>>

ClientGone ==
    /\ Recv(Eof)
    /\ inbox' = [inbox EXCEPT ![clients[i].sock] = Shut]
    /\ master' = master \ {clients[i].sock}
    /\ clients' = Without(i)
    /\ UNCHANGED <<accounts, pending>>

(* recv took the line of clients[i], which handle_client_message gets.     *)
RecvLine(m) ==
    /\ Recv(m)
    /\ inbox' = [inbox EXCEPT ![clients[i].sock] = Quiet]
    /\ UNCHANGED <<master, pending>>

AwaitsName == ~clients[i].in /\ clients[i].user = Empty
AwaitsPassword == ~clients[i].in /\ clients[i].user # Empty
AccountFound == Find(accts, clients[i].user)

SetUser(name) == clients' = [clients EXCEPT ![i].user = name]
(* Mutant: logged_in is reset, the name is not. *)
ClearSessionKeepsName == clients' = [clients EXCEPT ![i].in = FALSE]
ClearSession == clients' = [clients EXCEPT ![i].user = Empty, ![i].in = FALSE]

TakeName(m) ==
    /\ RecvLine(m) /\ AwaitsName
    /\ SetUser(m)
    /\ UNCHANGED accounts

(* "Not OK" for an unknown name, "Account not ready" otherwise. *)
RefusePassword(m) ==
    /\ RecvLine(m) /\ AwaitsPassword /\ Refuses(AccountFound, m)
    /\ IF AccountFound.status = "blocked" THEN ClearSession ELSE UNCHANGED clients
    /\ UNCHANGED accounts

AcceptPassword(m) ==
    /\ RecvLine(m) /\ AwaitsPassword /\ Accepts(AccountFound, m)
    /\ clients' = [clients EXCEPT ![i].in = TRUE]
    /\ accts' = [accts EXCEPT ![clients[i].user].attempts = 0]
    /\ known' = [known EXCEPT ![clients[i].sock] = Encoding[m]]
    /\ UNCHANGED stored

WrongPassword(m) ==
    /\ RecvLine(m) /\ AwaitsPassword /\ CountsAsWrong(AccountFound, m)
    /\ AccountFound.attempts + 1 < MAX_ATTEMPTS
    /\ accts' = [accts EXCEPT ![clients[i].user].attempts = @ + 1]
    /\ UNCHANGED <<stored, clients, known>>

(* save_accounts, after which the server goes on whatever came of it. *)
SaveAccounts ==
    /\ file' \in Saved(file, accts')
    /\ saved' = (file' = Save(accts'))
    /\ faults' = IF saved' THEN faults ELSE faults + 1
    /\ faults' <= MaxFaults

(* Mutant: the block is not saved. *)
BlockAccountUnsaved(m) ==
    /\ RecvLine(m) /\ AwaitsPassword /\ CountsAsWrong(AccountFound, m)
    /\ AccountFound.attempts + 1 >= MAX_ATTEMPTS
    /\ accts' = [accts EXCEPT ![clients[i].user] =
                    [pass |-> @.pass, status |-> "blocked", attempts |-> @.attempts + 1]]
    /\ ClearSession
    /\ UNCHANGED <<stored, known>>

(* The attempt that reaches the limit: "Account is blocked", saved at once. *)
BlockAccount(m) ==
    /\ RecvLine(m) /\ AwaitsPassword /\ CountsAsWrong(AccountFound, m)
    /\ AccountFound.attempts + 1 >= MAX_ATTEMPTS
    /\ accts' = [accts EXCEPT ![clients[i].user] =
                    [pass |-> @.pass, status |-> "blocked", attempts |-> @.attempts + 1]]
    /\ SaveAccounts
    /\ ClearSession
    /\ UNCHANGED known

(* "Error": the new password has other characters than letters and digits. *)
RejectPassword(m) ==
    /\ RecvLine(m) /\ clients[i].in /\ m # Bye /\ m \notin Valid
    /\ UNCHANGED <<accounts, clients>>

(* Mutant: only the client that changed the password is told. *)
SameAccountSelf(user) == {clients[i].sock}

(* find_clients_by_username: everybody logged in to this account. *)
SameAccount(user) == {clients[k].sock : k \in {j \in DOMAIN clients :
                                            clients[j].in /\ clients[j].user = user}}

(* The password is stored and saved; its encoding goes to this client and  *)
(* to the others logged in to the account.                                 *)
ChangePassword(m) ==
    /\ RecvLine(m) /\ clients[i].in /\ m # Bye /\ m \in Valid
    /\ accts' = [accts EXCEPT ![clients[i].user].pass = m]
    /\ SaveAccounts
    /\ known' = [f \in Fds |-> IF f \in SameAccount(clients[i].user)
                               THEN Encoding[m] ELSE known[f]]
    /\ UNCHANGED clients

SignOut ==
    /\ RecvLine(Bye) /\ clients[i].in
    /\ ClearSession
    /\ UNCHANGED accounts

(* handle_client_message *)
HandleMessage ==
    \/ SignOut
    \/ \E m \in Strings :
          \/ TakeName(m)
          \/ RefusePassword(m)
          \/ AcceptPassword(m)
          \/ WrongPassword(m)
          \/ BlockAccount(m)
          \/ RejectPassword(m)
          \/ ChangePassword(m)

----
(* The server dies, its connections with it, and is started again.  One    *)
(* that dies in save_accounts is a save that was cut off and then this.    *)
Crash ==
    /\ faults < MaxFaults
    /\ faults' = faults + 1
    /\ accts' = Load(file) /\ saved' = TRUE
    /\ clients' = <<>>
    /\ master' = {} /\ ready' = {} /\ handled' = {}
    /\ pc' = "select" /\ i' = 0
    /\ inbox' = [f \in Fds |-> Shut]
    /\ pending' = 0
    /\ known' = [f \in Fds |-> Encoding[Empty]]
    /\ UNCHANGED file

Server ==
    \/ Select \/ SelectFails \/ NoArrival
    \/ \E f \in Fds : AcceptClient(f) \/ AcceptRefused(f)
    \/ Skip \/ ClientGone \/ HandleMessage

Environment ==
    \/ Arrive
    \/ \E f \in Fds, m \in Strings \cup {Eof} : Send(f, m)
    \/ Crash

Next == Server \/ Environment

Spec == Init /\ [][Next]_vars

(* The process is scheduled; clients and crashes are not owed.             *)
FairSpec == Spec /\ WF_vars(Server)
----
(* The abstract service, with the array of clients read as a function of   *)
(* the descriptor.                                                         *)
SessionOf(f) ==
    IF f \in Socks
    THEN LET k == CHOOSE j \in DOMAIN clients : clients[j].sock = f
         IN  [user |-> clients[k].user, in |-> clients[k].in]
    ELSE Closed

Sessions == [f \in Fds |-> SessionOf(f)]

Service == INSTANCE AccountService WITH sess <- Sessions

TypeOK ==
    /\ accts \in [Users -> Account]
    /\ file \in [Users -> Line] /\ saved \in BOOLEAN
    /\ clients \in Seq(ClientInfo) /\ Len(clients) <= MAX_CLIENTS
    /\ master \subseteq Fds
    /\ ready \subseteq Fds \cup {Listen}
    /\ pc \in {"select", "accept", "scan"}
    /\ i \in 0..Len(clients) /\ (pc = "scan" <=> i > 0)
    /\ inbox \in [Fds -> Strings \cup {Shut, Quiet, Eof}]
    /\ pending \in 0..MaxConns
    /\ known \in [Fds -> {Encoding[m] : m \in Strings}]
    /\ handled \subseteq Fds
    /\ faults \in 0..MaxFaults

(* The array, the descriptor set and the kernel agree: every open          *)
(* connection has one element of the array, and select watches it          *)
(* (server.c:297-321, 371-391).                                            *)
NoClientForgotten ==
    /\ \A j, k \in DOMAIN clients : clients[j].sock = clients[k].sock => j = k
    /\ Socks = OpenFds
    /\ OpenFds \subseteq master

(* The only thread never waits in recv: when it calls recv there is        *)
(* something to read, although the array moved under the scan and the      *)
(* kernel reuses descriptors (server.c:383-386).                           *)
NoBlockingRecv ==
    (pc = "scan" /\ clients[i].sock \in ready) => inbox[clients[i].sock] # Quiet

(* A round serves every ready client, and none twice, although a removal   *)
(* moves the last client into the hole: nothing that is served comes under *)
(* the index again, and when the scan ends all that was ready is served    *)
(* (server.c:383-395).                                                     *)
EachReadyOnce ==
    [][/\ (pc = "scan" /\ clients[i].sock \in ready) => clients[i].sock \notin handled
       /\ (pc = "scan" /\ pc' = "select" /\ ~Crash) =>
              handled' = ready \ {Listen}]_vars

(* Every client that is logged in holds the encoding of the password that  *)
(* its account has now, whoever changed it (server.c:224-239).             *)
LoggedInKnowPassword ==
    \A k \in DOMAIN clients :
        clients[k].in =>
            /\ clients[k].user \in Users
            /\ known[clients[k].sock] = Encoding[accts[clients[k].user].pass]

(* A restart brings back what the last save was about: load_accounts finds *)
(* in the file every account that is in memory, with its password and its  *)
(* status, also after rounds of lines that changed memory only.  Not when  *)
(* the save failed, and not an account whose password is empty             *)
(* (server.c:44-80).                                                       *)
RestartBringsBack ==
    saved => \A u \in Users :
        accts[u].status # "missing" /\ accts[u].pass # Empty =>
            Load(file)[u] = [accts[u] EXCEPT !.attempts = 0]

(* A blocked account never becomes usable again, not by a restart either,  *)
(* unless the block could not be saved; it can only vanish with its line   *)
(* (server.c:44-80, 141-156).                                              *)
BlockIsPermanent ==
    [][(saved \/ ~Crash) =>
          \A u \in Users : accts[u].status = "blocked" =>
              accts'[u].status \in {"blocked", "missing"}]_vars

(* The loop implements the service.                                        *)
ImplementsService == Service!Spec

(* server.c:382 "check for data from the clients": every round does, and   *)
(* so each line a client has sent is read sooner or later, however busy    *)
(* the others are (server.c:362-397).                                      *)
EveryLineIsRead ==
    \A f \in Fds : (inbox[f] \notin {Shut, Quiet}) ~> (inbox[f] \in {Shut, Quiet})

(* Connections are accepted for ever unless none is left waiting; they are *)
(* accepted in their order, so that each one is, however busy the clients  *)
(* are (server.c:362-380).                                                 *)
EveryoneIsAccepted ==
    []<>(pending = 0) \/ []<><<pending' = pending - 1>>_pending
====
