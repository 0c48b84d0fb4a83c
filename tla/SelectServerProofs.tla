---- MODULE SelectServerProofs ----
(***************************************************************************)
(* Proofs about SelectServer, for every size of the array of clients,      *)
(* every set of users and lines, and every number of crashes.              *)
(***************************************************************************)
EXTENDS SelectServer, SequenceTheorems, FiniteSetTheorems, TLAPS

(* An account that can still be blocked has not used up its attempts.      *)
BelowLimit ==
    \A u \in Users : accts[u].status \in {"active", "notready"} =>
                        accts[u].attempts < MAX_ATTEMPTS

(* Whatever select announced on the listening socket still waits.          *)
StillWaits == pc = "accept" /\ Listen \in ready => pending > 0

TypeInv == TypeOK /\ BelowLimit /\ StillWaits

(* The array of clients as a function on 1..Len(clients).                  *)
LEMMA ClientsAreIndexed ==
    ASSUME clients \in Seq(ClientInfo)
    PROVE  /\ Len(clients) \in Nat
           /\ clients \in [1..Len(clients) -> ClientInfo]
           /\ DOMAIN clients = 1..Len(clients)
           /\ \A k \in 1..Len(clients) :
                 /\ clients[k].sock \in Fds /\ clients[k].user \in Strings
                 /\ clients[k].in \in BOOLEAN
<1>1. /\ Len(clients) \in Nat
      /\ clients \in [1..Len(clients) -> ClientInfo]
      /\ DOMAIN clients = 1..Len(clients)
  BY LenProperties
<1> QED BY <1>1 DEF ClientInfo

(* A function on 1..n is a sequence of length n.                           *)
LEMMA FunctionIsSeq ==
    ASSUME NEW S, NEW n \in Nat, NEW s \in [1..n -> S]
    PROVE  s \in Seq(S) /\ Len(s) = n /\ DOMAIN s = 1..n
<1>1. s \in Seq(S)
  BY SeqDef
<1>2. DOMAIN s = 1..Len(s) /\ Len(s) \in Nat /\ DOMAIN s = 1..n
  BY <1>1, LenProperties
<1> QED BY <1>1, <1>2

(* Removal shortens the array by one and keeps every other client.         *)
LEMMA MoveLast ==
    ASSUME clients \in Seq(ClientInfo), NEW k \in 1..Len(clients)
    PROVE  /\ Without(k) \in Seq(ClientInfo)
           /\ Len(Without(k)) = Len(clients) - 1
           /\ DOMAIN Without(k) = 1..(Len(clients) - 1)
           /\ \A j \in 1..(Len(clients) - 1) :
                 Without(k)[j] = IF j = k THEN clients[Len(clients)] ELSE clients[j]
<1>1. Len(clients) \in Nat /\ clients \in [1..Len(clients) -> ClientInfo]
  BY ClientsAreIndexed
<1>2. Len(clients) - 1 \in Nat /\ Len(clients) \in 1..Len(clients)
  BY <1>1
<1>3. Without(k) = [j \in 1..(Len(clients) - 1) |->
                       IF j = k THEN clients[Len(clients)] ELSE clients[j]]
  BY DEF Without
<1>4. Without(k) \in [1..(Len(clients) - 1) -> ClientInfo]
  BY <1>1, <1>2, <1>3
<1>5. /\ Without(k) \in Seq(ClientInfo) /\ Len(Without(k)) = Len(clients) - 1
      /\ DOMAIN Without(k) = 1..(Len(clients) - 1)
  BY <1>2, <1>4, FunctionIsSeq
<1> QED BY <1>3, <1>5

(* Moving the last of several distinct clients into the place of the k-th  *)
(* loses the k-th and no other.                                            *)
DistinctSocks(s) == \A j, k \in DOMAIN s : s[j].sock = s[k].sock => j = k
SocksOf(s) == {s[k].sock : k \in DOMAIN s}

LEMMA RemovedSocks ==
    ASSUME clients \in Seq(ClientInfo), NEW k \in 1..Len(clients), DistinctSocks(clients)
    PROVE  /\ DistinctSocks(Without(k))
           /\ SocksOf(Without(k)) = SocksOf(clients) \ {clients[k].sock}
<1> DEFINE n == Len(clients)
           new == Without(k)
<1>1. /\ n \in Nat /\ DOMAIN clients = 1..n /\ DOMAIN new = 1..(n - 1)
      /\ new \in Seq(ClientInfo)
      /\ \A j \in 1..(n - 1) : new[j] = IF j = k THEN clients[n] ELSE clients[j]
  BY ClientsAreIndexed, MoveLast
<1>2. \A j, l \in 1..n : clients[j].sock = clients[l].sock => j = l
  BY <1>1 DEF DistinctSocks
<1>3. \A l \in 1..n : clients[l].sock \in Fds
  BY ClientsAreIndexed
<1>4. k \in 1..n
  OBVIOUS
<1> HIDE DEF n, new
<1>5. DistinctSocks(new)
  <2> SUFFICES ASSUME NEW j \in 1..(n - 1), NEW l \in 1..(n - 1), new[j].sock = new[l].sock
               PROVE  j = l
    BY <1>1 DEF DistinctSocks
  <2> DEFINE from(q) == IF q = k THEN n ELSE q
  <2>1. /\ from(j) \in 1..n /\ new[j] = clients[from(j)]
        /\ from(l) \in 1..n /\ new[l] = clients[from(l)]
    BY <1>1
  <2>2. from(j) = from(l)
    BY <1>2, <2>1
  <2> QED BY <1>1, <2>2
<1>6. ASSUME NEW j \in 1..(n - 1)
      PROVE  new[j].sock \in SocksOf(clients) \ {clients[k].sock}
  <2>1. PICK l \in 1..n : l # k /\ new[j] = clients[l]
    BY <1>1, <1>4
  <2>2. clients[l].sock # clients[k].sock
    BY <1>2, <1>4, <2>1
  <2> QED BY <1>1, <2>1, <2>2 DEF SocksOf
<1>7. ASSUME NEW l \in 1..n, l # k
      PROVE  clients[l].sock \in SocksOf(new)
  <2>1. PICK j \in 1..(n - 1) : new[j] = clients[l]
    <3>1. CASE l = n
      <4>1. k \in 1..(n - 1) /\ new[k] = clients[l]
        BY <1>1, <1>4, <1>7, <3>1
      <4> QED BY <4>1
    <3>2. CASE l # n
      <4>1. l \in 1..(n - 1) /\ new[l] = clients[l]
        BY <1>1, <1>7, <3>2
      <4> QED BY <4>1
    <3> QED BY <3>1, <3>2
  <2> QED BY <1>1, <2>1 DEF SocksOf
<1>8. SocksOf(new) = SocksOf(clients) \ {clients[k].sock}
  BY <1>1, <1>6, <1>7 DEF SocksOf
<1> QED BY <1>5, <1>8 DEF new

(* The array after a new client.                                           *)
LEMMA AddLast ==
    ASSUME clients \in Seq(ClientInfo), NEW f \in Fds, NEW c,
           c = [sock |-> f, user |-> Empty, in |-> FALSE]
    PROVE  /\ Append(clients, c) \in Seq(ClientInfo)
           /\ Len(Append(clients, c)) = Len(clients) + 1
           /\ DOMAIN Append(clients, c) = 1..(Len(clients) + 1)
           /\ \A j \in 1..(Len(clients) + 1) :
                 Append(clients, c)[j] = IF j = Len(clients) + 1 THEN c ELSE clients[j]
<1>1. c \in ClientInfo
  BY StringsAssumption DEF ClientInfo
<1>2. Append(clients, c) \in Seq(ClientInfo)
      /\ Len(Append(clients, c)) = Len(clients) + 1
  BY <1>1, AppendProperties
<1>3. Append(clients, c)[Len(clients) + 1] = c
      /\ \A j \in 1..Len(clients) : Append(clients, c)[j] = clients[j]
  BY <1>1, AppendProperties
<1> QED BY <1>2, <1>3, ClientsAreIndexed, LenProperties

(* What a line does to the array: the client keeps its descriptor and its  *)
(* place, and nobody else changes.                                         *)
SameClients ==
    /\ clients' \in Seq(ClientInfo) /\ Len(clients') = Len(clients)
    /\ \A k \in 1..Len(clients) : clients'[k].sock = clients[k].sock
    /\ \A k \in 1..Len(clients) : k # i => clients'[k] = clients[k]

LEMMA ReplaceKeepsClients ==
    ASSUME TypeOK, i \in 1..Len(clients), NEW c \in ClientInfo,
           c.sock = clients[i].sock, clients' = [clients EXCEPT ![i] = c]
    PROVE  SameClients /\ clients'[i] = c
<1>1. /\ Len(clients) \in Nat
      /\ clients \in [1..Len(clients) -> ClientInfo]
  BY ClientsAreIndexed DEF TypeOK
<1>2. /\ clients' \in [1..Len(clients) -> ClientInfo]
      /\ clients'[i] = c
      /\ \A k \in 1..Len(clients) : k # i => clients'[k] = clients[k]
  BY <1>1
<1>3. clients' \in Seq(ClientInfo) /\ Len(clients') = Len(clients)
  <2>1. \A n \in Nat, s \in [1..Len(clients) -> ClientInfo] :
           n = Len(clients) => s \in Seq(ClientInfo) /\ Len(s) = n
    BY <1>1, FunctionIsSeq
  <2> QED BY <1>1, <1>2, <2>1
<1> QED BY <1>2, <1>3 DEF SameClients

(* Everything handle_client_message does to the loop.                      *)
LEMMA LineIsServed ==
    ASSUME TypeInv, HandleMessage
    PROVE  /\ pc = "scan" /\ i \in 1..Len(clients) /\ clients[i].sock \in ready
           /\ \E m \in Strings : Recv(m)
           /\ inbox' = [inbox EXCEPT ![clients[i].sock] = Quiet]
           /\ UNCHANGED <<master, pending>>
           /\ SameClients
<1>1. \E m \in Strings :
         /\ RecvLine(m)
         /\ \/ UNCHANGED clients
            \/ SetUser(m)
            \/ ClearSession
            \/ clients' = [clients EXCEPT ![i].in = TRUE]
  BY StringsAssumption
  DEF HandleMessage, SignOut, TakeName, RefusePassword, AcceptPassword, WrongPassword,
      BlockAccount, RejectPassword, ChangePassword
<1>2. PICK m \in Strings :
         /\ RecvLine(m)
         /\ \/ UNCHANGED clients
            \/ SetUser(m)
            \/ ClearSession
            \/ clients' = [clients EXCEPT ![i].in = TRUE]
  BY <1>1
<1>3. pc = "scan" /\ i \in 1..Len(clients)
  BY <1>2, ClientsAreIndexed DEF RecvLine, Recv, TypeInv, TypeOK
<1>4. TypeOK /\ clients[i] \in ClientInfo
  BY <1>3, ClientsAreIndexed DEF TypeInv, TypeOK
<1>5. SameClients
  <2>1. CASE UNCHANGED clients
    BY <1>4, <2>1 DEF SameClients, TypeOK
  <2>2. CASE SetUser(m)
    <3> DEFINE c == [clients[i] EXCEPT !.user = m]
    <3>1. c \in ClientInfo /\ c.sock = clients[i].sock
      BY <1>4 DEF ClientInfo
    <3>2. clients' = [clients EXCEPT ![i] = c]
      BY <2>2 DEF SetUser
    <3> QED BY <1>3, <1>4, <3>1, <3>2, ReplaceKeepsClients
  <2>3. CASE ClearSession
    <3> DEFINE c == [clients[i] EXCEPT !.user = Empty, !.in = FALSE]
    <3>1. c \in ClientInfo /\ c.sock = clients[i].sock
      BY <1>4, StringsAssumption DEF ClientInfo
    <3>2. clients' = [clients EXCEPT ![i] = c]
      BY <1>3, <1>4, <2>3, ClientsAreIndexed DEF ClearSession, TypeOK
    <3> QED BY <1>3, <1>4, <3>1, <3>2, ReplaceKeepsClients
  <2>4. CASE clients' = [clients EXCEPT ![i].in = TRUE]
    <3> DEFINE c == [clients[i] EXCEPT !.in = TRUE]
    <3>1. c \in ClientInfo /\ c.sock = clients[i].sock
      BY <1>4 DEF ClientInfo
    <3>2. clients' = [clients EXCEPT ![i] = c]
      BY <2>4
    <3> QED BY <1>3, <1>4, <3>1, <3>2, ReplaceKeepsClients
  <2> QED BY <1>2, <2>1, <2>2, <2>3, <2>4
<1> QED BY <1>2, <1>3, <1>5 DEF RecvLine, Recv

(* A save, also a failed one, leaves a well-typed file.                    *)
LEMMA SaveKeepsTypes ==
    ASSUME TypeOK, SaveAccounts, accts' \in [Users -> Account]
    PROVE  /\ file' \in [Users -> Line] /\ saved' \in BOOLEAN
           /\ faults' \in 0..MaxFaults
<1> USE StringsAssumption DEF Line, Account, Status
<1>1. ASSUME NEW kept \in SUBSET Users
      PROVE  [u \in Users |-> IF u \in kept THEN Save(accts')[u] ELSE NoLine]
                \in [Users -> Line]
  BY DEF Save, NoLine
<1>2. file' \in [Users -> Line]
  <2>1. file \in [Users -> Line]
    BY DEF TypeOK
  <2>2. CASE file' = file
    BY <2>1, <2>2
  <2>3. ASSUME NEW kept \in SUBSET Users,
               file' = [u \in Users |-> IF u \in kept THEN Save(accts')[u] ELSE NoLine]
        PROVE  file' \in [Users -> Line]
    BY <1>1, <2>3
  <2> QED BY <2>2, <2>3 DEF SaveAccounts, Saved
<1>3. faults \in 0..MaxFaults /\ MaxFaults \in Nat
  BY DescriptorAssumption DEF TypeOK
<1>4. saved' \in BOOLEAN
  BY DEF SaveAccounts
<1> QED BY <1>2, <1>3, <1>4 DEF SaveAccounts

(* What a line leaves of the accounts is well typed, and no account that   *)
(* is not blocked has used up its attempts.                                *)
FileTyped == file \in [Users -> Line] /\ saved \in BOOLEAN /\ faults \in 0..MaxFaults

LEMMA AccountsKeepTypes ==
    ASSUME TypeInv, HandleMessage
    PROVE  /\ accts' \in [Users -> Account] /\ FileTyped'
           /\ known' \in [Fds -> {Encoding[m] : m \in Strings}]
           /\ BelowLimit'
<1> USE StringsAssumption, LimitAssumption DEF Status, Line, Account
<1>1. /\ accts \in [Users -> Account] /\ FileTyped
      /\ known \in [Fds -> {Encoding[m] : m \in Strings}]
      /\ BelowLimit
  BY DEF TypeInv, TypeOK, FileTyped
<1>2. i \in 1..Len(clients) /\ clients[i].sock \in Fds
  BY LineIsServed, ClientsAreIndexed DEF TypeInv, TypeOK
<1>3. SaveAccounts /\ accts' \in [Users -> Account] => FileTyped'
  BY SaveKeepsTypes DEF TypeInv, FileTyped
<1>4. CASE UNCHANGED accounts
  BY <1>1, <1>4 DEF BelowLimit, FileTyped, accounts, stored
<1>5. ASSUME NEW m \in Strings, AcceptPassword(m)
      PROVE  /\ accts' \in [Users -> Account] /\ FileTyped'
             /\ known' \in [Fds -> {Encoding[n] : n \in Strings}]
             /\ BelowLimit'
  <2>1. /\ accts' = [accts EXCEPT ![clients[i].user].attempts = 0]
        /\ known' = [known EXCEPT ![clients[i].sock] = Encoding[m]]
        /\ FileTyped'
    BY <1>1, <1>5 DEF AcceptPassword, stored, FileTyped
  <2>2. known' \in [Fds -> {Encoding[n] : n \in Strings}]
    BY <1>1, <2>1
  <2>3. clients[i].user \in Users
    BY <1>5 DEF AcceptPassword, Accepts, AccountFound, Find, NoAccount
  <2>4. accts' \in [Users -> Account] /\ BelowLimit'
    BY <1>1, <2>1, <2>3 DEF BelowLimit
  <2> QED BY <1>1, <2>1, <2>2, <2>4
<1>6. ASSUME NEW m \in Strings, WrongPassword(m)
      PROVE  /\ accts' \in [Users -> Account] /\ FileTyped' /\ known' = known
             /\ BelowLimit'
  <2>1. clients[i].user \in Users
    BY <1>6 DEF WrongPassword, CountsAsWrong, AccountFound, Find, NoAccount
  <2>2. /\ accts' = [accts EXCEPT ![clients[i].user].attempts = @ + 1]
        /\ accts[clients[i].user].attempts + 1 < MAX_ATTEMPTS
        /\ FileTyped' /\ known' = known
    BY <1>1, <1>6, <2>1 DEF WrongPassword, AccountFound, Find, stored, FileTyped
  <2> QED BY <1>1, <2>1, <2>2 DEF BelowLimit
<1>7. ASSUME NEW m \in Strings, BlockAccount(m)
      PROVE  /\ accts' \in [Users -> Account] /\ FileTyped' /\ known' = known
             /\ BelowLimit'
  <2>1. clients[i].user \in Users /\ accts[clients[i].user].status \in {"active", "notready"}
    BY <1>7 DEF BlockAccount, CountsAsWrong, AccountFound, Find, NoAccount
  <2> DEFINE u == clients[i].user
             r == [pass |-> accts[u].pass, status |-> "blocked",
                   attempts |-> accts[u].attempts + 1]
  <2>2. accts' = [accts EXCEPT ![u] = r] /\ SaveAccounts /\ known' = known
    BY <1>7 DEF BlockAccount
  <2>3. accts[u].attempts + 1 \in 0..MAX_ATTEMPTS
    BY <1>1, <2>1 DEF BelowLimit
  <2>4. accts' \in [Users -> Account] /\ BelowLimit'
    <3>1. r \in Account /\ r.status = "blocked"
      BY <1>1, <2>1, <2>3
    <3> HIDE DEF r
    <3>2. \A v \in Users : accts'[v] = IF v = u THEN r ELSE accts[v]
      BY <1>1, <2>2
    <3>3. accts' \in [Users -> Account]
      BY <1>1, <2>1, <2>2, <3>1
    <3> QED BY <1>1, <3>1, <3>2, <3>3 DEF BelowLimit
  <2> QED BY <1>3, <2>2, <2>4
<1>8. ASSUME NEW m \in Strings, ChangePassword(m)
      PROVE  /\ accts' \in [Users -> Account] /\ FileTyped'
             /\ known' \in [Fds -> {Encoding[n] : n \in Strings}]
             /\ BelowLimit'
  <2>1. /\ accts' = [accts EXCEPT ![clients[i].user].pass = m]
        /\ SaveAccounts
        /\ known' = [f \in Fds |-> IF f \in SameAccount(clients[i].user)
                                   THEN Encoding[m] ELSE known[f]]
    BY <1>8 DEF ChangePassword
  <2>2. known' \in [Fds -> {Encoding[n] : n \in Strings}]
    BY <1>1, <2>1
  <2>3. accts' \in [Users -> Account] /\ BelowLimit'
    <3>1. /\ accts' = [u \in Users |-> IF u = clients[i].user
                                      THEN [accts[u] EXCEPT !.pass = m] ELSE accts[u]]
      BY <1>1, <2>1
    <3> QED BY <1>1, <3>1 DEF BelowLimit
  <2> QED BY <1>3, <2>1, <2>2, <2>3
<1> QED
  BY <1>1, <1>4, <1>5, <1>6, <1>7, <1>8
  DEF HandleMessage, SignOut, TakeName, RefusePassword, RejectPassword

(* What a start finds in the file makes well-typed accounts.               *)
LEMMA LoadKeepsTypes ==
    ASSUME NEW f \in [Users -> Line]
    PROVE  /\ Load(f) \in [Users -> Account]
           /\ \A u \in Users : Load(f)[u].attempts = 0
           /\ \A u \in Users : Load(f)[u].status # "missing" =>
                 f[u] = [pass |-> Load(f)[u].pass, status |-> Load(f)[u].status]
BY StringsAssumption, LimitAssumption DEF Load, Line, Account, Status, NoAccount

(* A restart, whatever is in the file.                                     *)
LEMMA CrashKeepsTypes ==
    ASSUME TypeInv, Crash
    PROVE  TypeInv'
<1>1. accts' \in [Users -> Account] /\ BelowLimit' /\ file' \in [Users -> Line]
  BY LoadKeepsTypes, LimitAssumption DEF Crash, BelowLimit, TypeInv, TypeOK
<1>2. clients' \in Seq(ClientInfo) /\ Len(clients') = 0
  BY EmptySeq DEF Crash
<1>3. known' \in [Fds -> {Encoding[m] : m \in Strings}]
  BY StringsAssumption DEF Crash
<1>4. inbox' \in [Fds -> Strings \cup {Shut, Quiet, Eof}]
  BY DEF Crash
<1>5. /\ pending' \in 0..MaxConns
      /\ faults' \in 0..MaxFaults /\ saved' \in BOOLEAN
  BY DescriptorAssumption DEF Crash, TypeInv, TypeOK
<1>6. i' = 0 /\ pc' = "select" /\ ready' = {} /\ master' = {} /\ handled' = {}
  BY DEF Crash
<1>7. Len(clients') <= MAX_CLIENTS /\ i' \in 0..Len(clients')
  BY <1>2, <1>6, DescriptorAssumption
<1> QED
  BY <1>1, <1>2, <1>3, <1>4, <1>5, <1>6, <1>7 DEF TypeInv, TypeOK, StillWaits

(* The values keep their types.                                            *)
LEMMA TypeInductive == Spec => []TypeInv
<1>1. Init => TypeInv
  <2> SUFFICES ASSUME Init PROVE TypeInv
    OBVIOUS
  <2>1. accts \in [Users -> Account] /\ BelowLimit /\ file \in [Users -> Line]
    BY LoadKeepsTypes, FileAssumption, LimitAssumption DEF Init, BelowLimit
  <2>2. clients \in Seq(ClientInfo) /\ Len(clients) = 0
    BY EmptySeq DEF Init
  <2> QED
    BY <2>1, <2>2, DescriptorAssumption, StringsAssumption
    DEF Init, TypeInv, TypeOK, StillWaits
<1>2. TypeInv /\ [Next]_vars => TypeInv'
  <2> SUFFICES ASSUME TypeInv, [Next]_vars PROVE TypeInv'
    OBVIOUS
  <2> USE DEF TypeInv, TypeOK, BelowLimit, StillWaits, accounts, stored, loop, ScanFrom
  <2>0. /\ Len(clients) \in Nat
        /\ MAX_CLIENTS \in Nat /\ MaxConns \in Nat /\ MaxFaults \in Nat
        /\ \A k \in 1..Len(clients) : clients[k].sock \in Fds
    BY ClientsAreIndexed, DescriptorAssumption
  <2>1. CASE Arrive
    <3>1. Cardinality(OpenFds) \in Nat
      <4>1. IsFiniteSet(Fds)
        BY FS_Interval, DescriptorAssumption
      <4>2. IsFiniteSet(OpenFds)
        BY <4>1, FS_Subset DEF OpenFds
      <4> QED BY <4>2, FS_CardinalityType
    <3> QED BY <2>0, <2>1, <3>1 DEF Arrive
  <2>2. ASSUME NEW f \in Fds, NEW m \in Strings \cup {Eof}, Send(f, m) PROVE TypeInv'
    BY <2>2 DEF Send
  <2>3. CASE Select
    <3>1. Listen \notin Fds
      BY DescriptorAssumption DEF Listen
    <3> QED BY <2>3, <3>1 DEF Select
  <2>4. CASE SelectFails
    BY <2>4 DEF SelectFails, vars
  <2>5. CASE NoArrival
    BY <2>0, <2>5 DEF NoArrival
  <2>6. ASSUME NEW f \in Fds, AcceptClient(f) PROVE TypeInv'
    <3> DEFINE c == [sock |-> f, user |-> Empty, in |-> FALSE]
    <3>1. clients' = Append(clients, c)
      BY <2>6 DEF AcceptClient
    <3>2. clients' \in Seq(ClientInfo) /\ Len(clients') = Len(clients) + 1
      BY <3>1, AddLast
    <3> QED BY <2>0, <2>6, <3>2 DEF AcceptClient
  <2>7. ASSUME NEW f \in Fds, AcceptRefused(f) PROVE TypeInv'
    BY <2>0, <2>7 DEF AcceptRefused
  <2>8. CASE Skip
    BY <2>0, <2>8 DEF Skip
  <2>9. CASE ClientGone
    <3>1. i \in 1..Len(clients) /\ clients' = Without(i)
      BY <2>0, <2>9 DEF ClientGone, Recv
    <3>2. clients' \in Seq(ClientInfo) /\ Len(clients') = Len(clients) - 1
      BY <3>1, MoveLast
    <3> QED BY <2>0, <2>9, <3>1, <3>2 DEF ClientGone, Recv
  <2>10. CASE HandleMessage
    <3>1. /\ accts' \in [Users -> Account] /\ FileTyped'
          /\ known' \in [Fds -> {Encoding[m] : m \in Strings}]
          /\ BelowLimit'
      BY <2>10, AccountsKeepTypes
    <3>2. /\ pc = "scan" /\ i \in 1..Len(clients)
          /\ \E m \in Strings : Recv(m)
          /\ inbox' = [inbox EXCEPT ![clients[i].sock] = Quiet]
          /\ UNCHANGED <<master, pending>>
          /\ clients' \in Seq(ClientInfo) /\ Len(clients') = Len(clients)
      BY <2>10, LineIsServed DEF SameClients
    <3> QED BY <2>0, <3>1, <3>2 DEF Recv, FileTyped
  <2>11. CASE Crash
    BY <2>11, CrashKeepsTypes
  <2>12. CASE UNCHANGED vars
    BY <2>12 DEF vars
  <2> QED
    BY <2>1, <2>2, <2>3, <2>4, <2>5, <2>6, <2>7, <2>8, <2>9, <2>10, <2>11, <2>12
    DEF Next, Server, Environment
<1> QED
  BY <1>1, <1>2, PTL DEF Spec

(* The array stays within MAX_CLIENTS, the line that is read stays within  *)
(* the array, and the rest keeps its type.                                 *)
THEOREM TypeCorrect == Spec => []TypeOK
<1>1. TypeInv => TypeOK
  BY DEF TypeInv
<1> QED BY <1>1, TypeInductive, PTL

(* NoBlockingRecv is not inductive: it needs what select and the scan have *)
(* left of the round for every client, not only for the one that is next,  *)
(* and that a client which moves comes from the part already scanned.      *)
LoopInv ==
    /\ NoClientForgotten
    /\ pc = "accept" =>
          /\ handled = {}
          /\ \A f \in ready \ {Listen} : f \in OpenFds /\ inbox[f] # Quiet
    /\ pc = "scan" =>
          /\ handled \subseteq ready \ {Listen}
          /\ ready \ {Listen} \subseteq handled \cup Socks
          /\ \A k \in 1..Len(clients) : clients[k].sock \in ready =>
                IF k <= i THEN inbox[clients[k].sock] # Quiet /\ clients[k].sock \notin handled
                          ELSE clients[k].sock \in handled

(* The array, the descriptor set and the kernel agree in every round.      *)
THEOREM LoopCorrect == Spec => []LoopInv
<1>1. Init => LoopInv
  <2> SUFFICES ASSUME Init PROVE LoopInv
    OBVIOUS
  <2>1. DOMAIN clients = {}
    BY EmptySeq DEF Init
  <2> QED BY <2>1 DEF Init, LoopInv, NoClientForgotten, Socks, OpenFds
<1>2. TypeInv /\ LoopInv /\ [Next]_vars => LoopInv'
  <2> SUFFICES ASSUME TypeInv, LoopInv, [Next]_vars PROVE LoopInv'
    OBVIOUS
  <2>0. /\ Len(clients) \in Nat /\ i \in 0..Len(clients) /\ (pc = "scan" <=> i > 0)
        /\ DOMAIN clients = 1..Len(clients)
        /\ \A k \in 1..Len(clients) : clients[k].sock \in Fds
        /\ ready \subseteq Fds \cup {Listen} /\ handled \subseteq Fds /\ master \subseteq Fds
        /\ inbox \in [Fds -> Strings \cup {Shut, Quiet, Eof}]
        /\ Listen \notin Fds
    BY ClientsAreIndexed, DescriptorAssumption DEF TypeInv, TypeOK, Listen
  <2> USE MarkAssumption DEF LoopInv, NoClientForgotten, Socks, OpenFds, accounts, loop, ScanFrom
  <2>1. CASE Arrive
    BY <2>0, <2>1 DEF Arrive
  <2>2. ASSUME NEW f \in Fds, NEW m \in Strings \cup {Eof}, Send(f, m) PROVE LoopInv'
    BY <2>0, <2>2 DEF Send
  <2>3. CASE Select
    BY <2>0, <2>3 DEF Select
  <2>4. CASE SelectFails
    BY <2>4 DEF SelectFails, vars
  <2>5. CASE NoArrival
    BY <2>0, <2>5 DEF NoArrival
  <2>6. ASSUME NEW f \in Fds, AcceptClient(f) PROVE LoopInv'
    <3> DEFINE c == [sock |-> f, user |-> Empty, in |-> FALSE]
    <3>1. clients' = Append(clients, c)
      BY <2>6 DEF AcceptClient
    <3>2. /\ Len(clients') = Len(clients) + 1 /\ DOMAIN clients' = 1..(Len(clients) + 1)
          /\ \A j \in 1..(Len(clients) + 1) :
                clients'[j] = IF j = Len(clients) + 1 THEN c ELSE clients[j]
      BY <3>1, AddLast DEF TypeInv, TypeOK
    <3> QED BY <2>0, <2>6, <3>2 DEF AcceptClient, LowestFree
  <2>7. ASSUME NEW f \in Fds, AcceptRefused(f) PROVE LoopInv'
    BY <2>0, <2>7 DEF AcceptRefused
  <2>8. CASE Skip
    BY <2>0, <2>8 DEF Skip
  <2>9. CASE ClientGone
    <3>1. i \in 1..Len(clients) /\ clients' = Without(i)
      BY <2>0, <2>9 DEF ClientGone, Recv
    <3>2. /\ clients \in Seq(ClientInfo) /\ clients' \in Seq(ClientInfo)
          /\ Len(clients') = Len(clients) - 1 /\ DOMAIN clients' = 1..(Len(clients) - 1)
          /\ \A j \in 1..(Len(clients) - 1) :
                clients'[j] = IF j = i THEN clients[Len(clients)] ELSE clients[j]
      BY <3>1, MoveLast DEF TypeInv, TypeOK
    <3>3. /\ pc = "scan" /\ clients[i].sock \in ready
          /\ handled' = handled \cup {clients[i].sock}
          /\ inbox' = [inbox EXCEPT ![clients[i].sock] = Shut]
          /\ master' = master \ {clients[i].sock}
          /\ pc' \in {"select", "scan"}
          /\ pc' = "scan" => ready' = ready /\ i' = i - 1
      BY <2>9 DEF ClientGone, Recv
    <3>4. /\ \A j, k \in DOMAIN clients' : clients'[j].sock = clients'[k].sock => j = k
          /\ Socks' = Socks \ {clients[i].sock}
      <4>1. DistinctSocks(clients)
        BY DEF DistinctSocks
      <4>2. /\ DistinctSocks(clients')
            /\ SocksOf(clients') = SocksOf(clients) \ {clients[i].sock}
        BY <3>1, <3>2, <4>1, RemovedSocks
      <4>3. Socks' = SocksOf(clients') /\ Socks = SocksOf(clients)
        BY DEF SocksOf
      <4>4. \A j, k \in DOMAIN clients' : clients'[j].sock = clients'[k].sock => j = k
        BY <4>2 DEF DistinctSocks
      <4> QED BY <4>2, <4>3, <4>4
    <3>5. NoClientForgotten'
      <4>1. OpenFds' = OpenFds \ {clients[i].sock}
        BY <2>0, <3>1, <3>3
      <4> QED BY <3>3, <3>4, <4>1
    <3>6. ASSUME pc' = "scan"
          PROVE  /\ handled' \subseteq ready' \ {Listen}
                 /\ ready' \ {Listen} \subseteq handled' \cup Socks'
      <4>1. /\ handled \subseteq ready \ {Listen}
            /\ ready \ {Listen} \subseteq handled \cup Socks
            /\ clients[i].sock # Listen
        BY <2>0, <3>1, <3>3
      <4> HIDE DEF LoopInv, NoClientForgotten, Socks, OpenFds
      <4> QED BY <3>3, <3>4, <3>6, <4>1
    <3>7. ASSUME pc' = "scan", NEW k \in 1..Len(clients'), clients'[k].sock \in ready'
          PROVE  IF k <= i' THEN inbox'[clients'[k].sock] # Quiet /\ clients'[k].sock \notin handled'
                            ELSE clients'[k].sock \in handled'
      <4>1. CASE k <= i - 1
        <5>1. /\ clients'[k] = clients[k] /\ k \in 1..Len(clients) /\ k # i
              /\ k <= i' /\ k <= i
          BY <2>0, <3>1, <3>2, <3>3, <3>7, <4>1
        <5>2. clients[k].sock # clients[i].sock
          BY <2>0, <3>1, <5>1
        <5>3. inbox[clients[k].sock] # Quiet /\ clients[k].sock \notin handled
          BY <3>3, <3>7, <5>1
        <5> HIDE DEF LoopInv, NoClientForgotten, Socks, OpenFds
        <5> QED BY <2>0, <3>3, <5>1, <5>2, <5>3
      <4>2. CASE k = i
        BY <2>0, <3>1, <3>2, <3>3, <3>7, <4>2
      <4>3. CASE k > i
        BY <2>0, <3>1, <3>2, <3>3, <3>7, <4>3
      <4> QED BY <2>0, <3>1, <3>2, <4>1, <4>2, <4>3
    <3> QED BY <3>3, <3>5, <3>6, <3>7
  <2>10. CASE HandleMessage
    <3>1. /\ pc = "scan" /\ i \in 1..Len(clients)
          /\ clients[i].sock \in ready /\ handled' = handled \cup {clients[i].sock}
          /\ pc' \in {"select", "scan"}
          /\ pc' = "scan" => ready' = ready /\ i' = i - 1
          /\ inbox' = [inbox EXCEPT ![clients[i].sock] = Quiet]
          /\ UNCHANGED <<master, pending>>
          /\ clients' \in Seq(ClientInfo) /\ Len(clients') = Len(clients)
          /\ \A k \in 1..Len(clients) : clients'[k].sock = clients[k].sock
      BY <2>10, LineIsServed DEF SameClients, Recv
    <3>2. DOMAIN clients' = 1..Len(clients)
      BY <3>1, LenProperties
    <3>3. Socks' = Socks
      BY <2>0, <3>1, <3>2
    <3>4. OpenFds' = OpenFds
      BY <2>0, <3>1
    <3>5. NoClientForgotten'
      BY <2>0, <3>1, <3>2, <3>3, <3>4
    <3>6. ASSUME pc' = "scan"
          PROVE  /\ handled' \subseteq ready' \ {Listen}
                 /\ ready' \ {Listen} \subseteq handled' \cup Socks'
      <4>1. /\ handled \subseteq ready \ {Listen}
            /\ ready \ {Listen} \subseteq handled \cup Socks
            /\ clients[i].sock # Listen
        BY <2>0, <3>1
      <4>2. handled' = handled \cup {clients[i].sock} /\ ready' = ready /\ clients[i].sock \in ready
        BY <3>1, <3>6
      <4> HIDE DEF LoopInv, NoClientForgotten, Socks, OpenFds
      <4> QED BY <3>3, <4>1, <4>2
    <3>7. ASSUME pc' = "scan", NEW k \in 1..Len(clients'), clients'[k].sock \in ready'
          PROVE  IF k <= i' THEN inbox'[clients'[k].sock] # Quiet /\ clients'[k].sock \notin handled'
                            ELSE clients'[k].sock \in handled'
      BY <2>0, <3>1, <3>2, <3>7
    <3> QED BY <3>1, <3>5, <3>6, <3>7
  <2>11. CASE Crash
    <3>1. DOMAIN clients' = {}
      BY <2>11, EmptySeq DEF Crash
    <3> QED BY <2>11, <3>1 DEF Crash
  <2>12. CASE UNCHANGED vars
    BY <2>12 DEF vars
  <2> QED
    BY <2>1, <2>2, <2>3, <2>4, <2>5, <2>6, <2>7, <2>8, <2>9, <2>10, <2>11, <2>12
    DEF Next, Server, Environment
<1> QED
  BY <1>1, <1>2, TypeInductive, PTL DEF Spec

(* Every open connection has its one element of the array and is watched.  *)
THEOREM NobodyForgotten == Spec => []NoClientForgotten
<1>1. LoopInv => NoClientForgotten
  BY DEF LoopInv
<1> QED BY <1>1, LoopCorrect, PTL

(* The only thread never waits in recv, for any number of clients and any  *)
(* order in which they come, send and go.                                  *)
THEOREM NeverBlocks == Spec => []NoBlockingRecv
<1>1. TypeInv /\ LoopInv => NoBlockingRecv
  BY ClientsAreIndexed DEF TypeInv, TypeOK, LoopInv, NoBlockingRecv
<1> QED BY <1>1, TypeInductive, LoopCorrect, PTL

(* A round serves each ready client once: the removal that moves a client  *)
(* neither hides it from the scan nor shows it twice.                      *)
THEOREM ServedOnce == Spec => EachReadyOnce
<1> DEFINE Once ==
      /\ (pc = "scan" /\ clients[i].sock \in ready) => clients[i].sock \notin handled
      /\ (pc = "scan" /\ pc' = "select" /\ ~Crash) => handled' = ready \ {Listen}
<1>1. TypeInv /\ LoopInv /\ [Next]_vars => [Once]_vars
  <2> SUFFICES ASSUME TypeInv, LoopInv, Next PROVE Once
    BY DEF vars
  <2>1. /\ Len(clients) \in Nat /\ i \in 0..Len(clients) /\ (pc = "scan" <=> i > 0)
        /\ DOMAIN clients = 1..Len(clients)
        /\ \A k \in 1..Len(clients) : clients[k].sock \in Fds
        /\ Listen \notin Fds
    BY ClientsAreIndexed, DescriptorAssumption DEF TypeInv, TypeOK, Listen
  <2>2. (pc = "scan" /\ clients[i].sock \in ready) => clients[i].sock \notin handled
    BY <2>1 DEF LoopInv
  <2>3. ASSUME pc = "scan", pc' = "select", ~Crash
        PROVE  handled' = ready \ {Listen}
    <3>1. /\ i = 1
          /\ \/ clients[i].sock \notin ready /\ handled' = handled
             \/ clients[i].sock \in ready /\ handled' = handled \cup {clients[i].sock}
      <4>1. CASE Skip
        BY <2>1, <2>3, <4>1 DEF Skip, ScanFrom
      <4>2. CASE ClientGone
        BY <2>1, <2>3, <4>2 DEF ClientGone, Recv, ScanFrom
      <4>3. CASE HandleMessage
        <5>1. PICK m \in Strings : Recv(m)
          BY <4>3, LineIsServed
        <5> QED BY <2>1, <2>3, <5>1 DEF Recv, ScanFrom
      <4>4. CASE Arrive
        BY <2>3, <4>4 DEF Arrive, loop
      <4>5. ASSUME NEW f \in Fds, NEW m \in Strings \cup {Eof}, Send(f, m) PROVE FALSE
        BY <2>3, <4>5 DEF Send, loop
      <4> QED
        BY <2>3, <4>1, <4>2, <4>3, <4>4, <4>5
        DEF Next, Server, Environment, Select, SelectFails, NoArrival, AcceptClient, AcceptRefused
    <3>2. \A f \in ready \ {Listen} : f \in handled \/ f = clients[1].sock
      BY <2>1, <2>3, <3>1 DEF LoopInv, Socks
    <3>3. handled \subseteq ready \ {Listen}
      BY <2>3 DEF LoopInv
    <3>4. clients[1].sock # Listen
      BY <2>1, <3>1
    <3> QED BY <3>1, <3>2, <3>3, <3>4
  <2> QED BY <2>2, <2>3
<1>2. EachReadyOnce <=> [][Once]_vars
  BY DEF EachReadyOnce
<1> QED BY <1>1, <1>2, TypeInductive, LoopCorrect, PTL DEF Spec

(* After a complete save the file agrees with the memory, whatever lines   *)
(* came since; empty passwords are in it too.                              *)
FileCurrent ==
    saved => \A u \in Users :
        accts[u].status # "missing" =>
            file[u] = [pass |-> accts[u].pass, status |-> accts[u].status]

LEMMA FileInductive == Spec => []FileCurrent
<1>1. Init => FileCurrent
  BY LoadKeepsTypes, FileAssumption DEF Init, FileCurrent
<1>2. TypeInv /\ FileCurrent /\ [Next]_vars => FileCurrent'
  <2> SUFFICES ASSUME TypeInv, FileCurrent, [Next]_vars PROVE FileCurrent'
    OBVIOUS
  <2>1. accts \in [Users -> Account] /\ file \in [Users -> Line]
    BY DEF TypeInv, TypeOK
  <2>2. CASE UNCHANGED <<accts, stored>>
    BY <2>2 DEF FileCurrent, stored
  <2>3. CASE HandleMessage
    <3>1. CASE SaveAccounts
      BY <3>1 DEF SaveAccounts, Save, FileCurrent
    <3>2. ASSUME NEW m \in Strings, AcceptPassword(m) \/ WrongPassword(m)
          PROVE  FileCurrent'
      <4>1. UNCHANGED stored
        BY <3>2 DEF AcceptPassword, WrongPassword
      <4>2. \A u \in Users : accts'[u].pass = accts[u].pass /\ accts'[u].status = accts[u].status
        BY <2>1, <3>2 DEF AcceptPassword, WrongPassword, Account
      <4> QED BY <4>1, <4>2 DEF FileCurrent, stored
    <3> QED
      BY <2>2, <2>3, <3>1, <3>2
      DEF HandleMessage, SignOut, TakeName, RefusePassword, RejectPassword, BlockAccount,
          ChangePassword, accounts
  <2>4. CASE Crash
    BY <2>1, <2>4, LoadKeepsTypes DEF Crash, FileCurrent
  <2> QED
    BY <2>2, <2>3, <2>4
    DEF Next, Server, Environment, Arrive, Send, Select, SelectFails, NoArrival, AcceptClient,
        AcceptRefused, Skip, ClientGone, accounts, stored, vars
<1> QED BY <1>1, <1>2, TypeInductive, PTL DEF Spec

(* What a restart loads is what the last complete save was about, but for  *)
(* the empty passwords, however many lines and restarts came before.       *)
THEOREM SavesComeBack == Spec => []RestartBringsBack
<1>1. TypeInv /\ FileCurrent => RestartBringsBack
  <2> SUFFICES ASSUME TypeInv, FileCurrent, saved, NEW u \in Users,
                      accts[u].status # "missing", accts[u].pass # Empty
               PROVE  Load(file)[u] = [accts[u] EXCEPT !.attempts = 0]
    BY DEF RestartBringsBack
  <2>1. file[u] = [pass |-> accts[u].pass, status |-> accts[u].status]
    BY DEF FileCurrent
  <2>2. accts[u] \in Account
    BY DEF TypeInv, TypeOK
  <2>3. [accts[u] EXCEPT !.attempts = 0] =
          [pass |-> accts[u].pass, status |-> accts[u].status, attempts |-> 0]
    BY <2>2 DEF Account
  <2> QED BY <2>1, <2>3 DEF Load
<1> QED BY <1>1, TypeInductive, FileInductive, PTL

(* No step makes a blocked account usable, and no restart after a block    *)
(* that was saved.                                                         *)
THEOREM BlocksStay == Spec => BlockIsPermanent
<1> DEFINE Stay ==
      (saved \/ ~Crash) =>
          \A u \in Users : accts[u].status = "blocked" =>
              accts'[u].status \in {"blocked", "missing"}
<1>1. TypeInv /\ FileCurrent /\ [Next]_vars => [Stay]_vars
  <2> SUFFICES ASSUME TypeInv, FileCurrent, Next PROVE Stay
    BY DEF vars
  <2>1. accts \in [Users -> Account] /\ file \in [Users -> Line]
    BY DEF TypeInv, TypeOK
  <2>2. CASE accts' = accts
    BY <2>2
  <2>3. ASSUME NEW m \in Strings, AcceptPassword(m) PROVE Stay
    BY <2>1, <2>3 DEF AcceptPassword, Account
  <2>4. ASSUME NEW m \in Strings, WrongPassword(m) PROVE Stay
    BY <2>1, <2>4 DEF WrongPassword, Account
  <2>5. ASSUME NEW m \in Strings, BlockAccount(m) PROVE Stay
    BY <2>1, <2>5 DEF BlockAccount, Account
  <2>6. ASSUME NEW m \in Strings, ChangePassword(m) PROVE Stay
    BY <2>1, <2>6 DEF ChangePassword, Account
  <2>7. CASE Crash
    <3>1. accts' = Load(file)
      BY <2>7 DEF Crash
    <3>2. CASE saved
      BY <2>1, <3>1, <3>2 DEF FileCurrent, Load, NoAccount
    <3>3. CASE ~saved
      BY <2>7, <3>3
    <3> QED BY <3>2, <3>3
  <2> QED
    BY <2>2, <2>3, <2>4, <2>5, <2>6, <2>7
    DEF Next, Server, Environment, Arrive, Send, Select, SelectFails, NoArrival, AcceptClient,
        AcceptRefused, Skip, ClientGone, HandleMessage, SignOut, TakeName, RefusePassword,
        RejectPassword, accounts, vars
<1>2. BlockIsPermanent <=> [][Stay]_vars
  BY DEF BlockIsPermanent
<1> QED BY <1>1, <1>2, TypeInductive, FileInductive, PTL DEF Spec

(* Whoever is logged in knows the current password of the account, however *)
(* many are logged in to it and whichever of them changed it.              *)
THEOREM PasswordIsShared == Spec => []LoggedInKnowPassword
<1>1. Init => LoggedInKnowPassword
  <2> SUFFICES ASSUME Init PROVE LoggedInKnowPassword
    OBVIOUS
  <2>1. DOMAIN clients = {}
    BY EmptySeq DEF Init
  <2> QED BY <2>1 DEF LoggedInKnowPassword
<1>2. TypeInv /\ LoopInv /\ LoggedInKnowPassword /\ [Next]_vars => LoggedInKnowPassword'
  <2> SUFFICES ASSUME TypeInv, LoopInv, LoggedInKnowPassword, [Next]_vars
               PROVE  LoggedInKnowPassword'
    OBVIOUS
  <2>1. /\ Len(clients) \in Nat /\ DOMAIN clients = 1..Len(clients)
        /\ \A k \in 1..Len(clients) : clients[k] \in ClientInfo /\ clients[k].sock \in Fds
        /\ clients \in [1..Len(clients) -> ClientInfo]
        /\ accts \in [Users -> Account]
        /\ known \in [Fds -> {Encoding[m] : m \in Strings}]
    BY ClientsAreIndexed DEF TypeInv, TypeOK
  <2>2. \A j, k \in 1..Len(clients) : clients[j].sock = clients[k].sock => j = k
    BY <2>1 DEF LoopInv, NoClientForgotten
  <2>3. CASE UNCHANGED <<accts, known, clients>>
    BY <2>3 DEF LoggedInKnowPassword
  <2>4. ASSUME NEW f \in Fds, AcceptClient(f) PROVE LoggedInKnowPassword'
    <3> DEFINE c == [sock |-> f, user |-> Empty, in |-> FALSE]
    <3>1. clients' = Append(clients, c) /\ accts' = accts /\ known' = known
      BY <2>4 DEF AcceptClient, accounts
    <3>2. /\ DOMAIN clients' = 1..(Len(clients) + 1)
          /\ \A j \in 1..(Len(clients) + 1) :
                clients'[j] = IF j = Len(clients) + 1 THEN c ELSE clients[j]
      BY <3>1, AddLast DEF TypeInv, TypeOK
    <3> QED BY <2>1, <3>1, <3>2 DEF LoggedInKnowPassword
  <2>5. CASE ClientGone
    <3>1. i \in 1..Len(clients) /\ clients' = Without(i) /\ accts' = accts /\ known' = known
      BY <2>1, <2>5 DEF ClientGone, Recv, accounts, TypeInv, TypeOK
    <3>2. /\ DOMAIN clients' = 1..(Len(clients) - 1)
          /\ \A j \in 1..(Len(clients) - 1) :
                clients'[j] = IF j = i THEN clients[Len(clients)] ELSE clients[j]
      BY <3>1, MoveLast DEF TypeInv, TypeOK
    <3>3. \A j \in 1..(Len(clients) - 1) : \E k \in DOMAIN clients : clients'[j] = clients[k]
      <4>1. \A j \in 1..(Len(clients) - 1) : j \in DOMAIN clients /\ Len(clients) \in DOMAIN clients
        BY <2>1
      <4> QED BY <3>2, <4>1
    <3> QED BY <3>1, <3>2, <3>3 DEF LoggedInKnowPassword
  <2>6. CASE HandleMessage
    <3>1. /\ i \in 1..Len(clients) /\ clients[i].sock \in Fds
          /\ DOMAIN clients' = 1..Len(clients)
          /\ \A k \in 1..Len(clients) : clients'[k].sock = clients[k].sock
          /\ \A k \in 1..Len(clients) : k # i => clients'[k] = clients[k]
      BY <2>1, <2>6, LineIsServed, LenProperties DEF SameClients
    <3>2. CASE UNCHANGED <<accts, known>> /\ clients'[i].in = FALSE
      BY <2>1, <3>1, <3>2 DEF LoggedInKnowPassword
    <3>3. ASSUME NEW m \in Strings, TakeName(m) PROVE LoggedInKnowPassword'
      <4>1. clients'[i].in = FALSE
        BY <2>1, <3>1, <3>3 DEF TakeName, AwaitsName, SetUser, ClientInfo
      <4> QED BY <3>2, <3>3, <4>1 DEF TakeName, accounts
    <3>4. ASSUME ClearSession PROVE clients'[i].in = FALSE
      BY <2>1, <3>1, <3>4 DEF ClearSession, ClientInfo
    <3>5. ASSUME NEW m \in Strings, AcceptPassword(m) PROVE LoggedInKnowPassword'
      <4>1. /\ clients[i].user \in Users /\ accts[clients[i].user].pass = m
        BY <3>5 DEF AcceptPassword, Accepts, AccountFound, Find, NoAccount
      <4>2. /\ clients'[i].user = clients[i].user
            /\ \A u \in Users : accts'[u].pass = accts[u].pass
            /\ known'[clients[i].sock] = Encoding[m]
            /\ \A f \in Fds : f # clients[i].sock => known'[f] = known[f]
        BY <2>1, <3>1, <3>5, <4>1 DEF AcceptPassword, Account, ClientInfo
      <4> QED BY <2>1, <2>2, <3>1, <4>1, <4>2 DEF LoggedInKnowPassword
    <3>6. ASSUME NEW m \in Strings, WrongPassword(m) PROVE LoggedInKnowPassword'
      <4>1. known' = known /\ clients' = clients
            /\ \A u \in Users : accts'[u].pass = accts[u].pass
        BY <2>1, <3>6 DEF WrongPassword, Account
      <4> QED BY <4>1 DEF LoggedInKnowPassword
    <3>7. ASSUME NEW m \in Strings, BlockAccount(m) PROVE LoggedInKnowPassword'
      <4>1. known' = known /\ clients'[i].in = FALSE
            /\ \A u \in Users : accts'[u].pass = accts[u].pass
        BY <2>1, <3>4, <3>7 DEF BlockAccount, Account
      <4> QED BY <2>1, <3>1, <4>1 DEF LoggedInKnowPassword
    <3>8. ASSUME NEW m \in Strings, ChangePassword(m) PROVE LoggedInKnowPassword'
      <4> DEFINE u == clients[i].user
      <4>1. /\ clients' = clients /\ clients[i].in
            /\ \A v \in Users : accts'[v].pass = IF v = u THEN m ELSE accts[v].pass
            /\ \A f \in Fds : known'[f] = IF f \in SameAccount(u) THEN Encoding[m] ELSE known[f]
        BY <2>1, <3>8 DEF ChangePassword, Account
      <4>2. ASSUME NEW k \in 1..Len(clients), clients[k].in
            PROVE  clients[k].sock \in SameAccount(u) <=> clients[k].user = u
        BY <2>1, <2>2, <4>2 DEF SameAccount
      <4> QED BY <2>1, <4>1, <4>2 DEF LoggedInKnowPassword
    <3>9. CASE SignOut
      BY <3>2, <3>4, <3>9 DEF SignOut, accounts
    <3>10. ASSUME NEW m \in Strings, RefusePassword(m) \/ RejectPassword(m)
           PROVE  LoggedInKnowPassword'
      BY <2>3, <3>2, <3>4, <3>10 DEF RefusePassword, RejectPassword, accounts
    <3> QED
      BY <2>6, <3>3, <3>5, <3>6, <3>7, <3>8, <3>9, <3>10 DEF HandleMessage
  <2>7. CASE Crash
    <3>1. DOMAIN clients' = {}
      BY <2>7, EmptySeq DEF Crash
    <3> QED BY <3>1 DEF LoggedInKnowPassword
  <2> QED
    BY <2>3, <2>4, <2>5, <2>6, <2>7
    DEF Next, Server, Environment, Arrive, Send, Select, SelectFails, NoArrival,
        AcceptRefused, Skip, accounts, vars
<1> QED BY <1>1, <1>2, TypeInductive, LoopCorrect, PTL DEF Spec

----
(***************************************************************************)
(* The loop implements the abstract service.                               *)
(***************************************************************************)

(* The session of a descriptor in a given array of clients.                *)
ViewOf(s, f) ==
    IF f \in SocksOf(s)
    THEN LET k == CHOOSE j \in DOMAIN s : s[j].sock = f
         IN  [user |-> s[k].user, in |-> s[k].in]
    ELSE Closed
View(s) == [f \in Fds |-> ViewOf(s, f)]

LEMMA ServiceView == Sessions = View(clients) /\ Sessions' = View(clients')
BY DEF Sessions, SessionOf, View, ViewOf, Socks, SocksOf

(* With distinct descriptors the session is that of the one client.        *)
LEMMA ViewAt ==
    ASSUME NEW s, DistinctSocks(s), NEW k \in DOMAIN s
    PROVE  /\ s[k].sock \in SocksOf(s)
           /\ ViewOf(s, s[k].sock) = [user |-> s[k].user, in |-> s[k].in]
<1>1. s[k].sock \in SocksOf(s)
  BY DEF SocksOf
<1>2. (CHOOSE j \in DOMAIN s : s[j].sock = s[k].sock) = k
  BY DEF DistinctSocks
<1> QED BY <1>1, <1>2 DEF ViewOf

(* Two arrays with the same client for a descriptor show the same session. *)
LEMMA SameView ==
    ASSUME NEW s, NEW t, DistinctSocks(s), DistinctSocks(t), NEW f,
           \A k \in DOMAIN s : s[k].sock = f => \E j \in DOMAIN t : t[j] = s[k],
           \A j \in DOMAIN t : t[j].sock = f => \E k \in DOMAIN s : s[k] = t[j]
    PROVE  ViewOf(s, f) = ViewOf(t, f)
<1>1. CASE \E k \in DOMAIN s : s[k].sock = f
  <2>1. PICK k \in DOMAIN s : s[k].sock = f
    BY <1>1
  <2>2. PICK j \in DOMAIN t : t[j] = s[k]
    BY <2>1
  <2>3. ViewOf(s, s[k].sock) = [user |-> s[k].user, in |-> s[k].in]
    BY ViewAt
  <2>4. ViewOf(t, t[j].sock) = [user |-> t[j].user, in |-> t[j].in]
    BY ViewAt
  <2> QED BY <2>1, <2>2, <2>3, <2>4
<1>2. CASE ~\E k \in DOMAIN s : s[k].sock = f
  <2>1. f \notin SocksOf(s) /\ f \notin SocksOf(t)
    BY <1>2 DEF SocksOf
  <2> QED BY <2>1 DEF ViewOf
<1> QED BY <1>1, <1>2

(* A line changes the session of its client and no other.                  *)
LEMMA LineView ==
    ASSUME TypeInv, LoopInv, HandleMessage
    PROVE  /\ clients[i].sock \in Fds /\ clients[i] \in ClientInfo
           /\ View(clients)[clients[i].sock] = [user |-> clients[i].user, in |-> clients[i].in]
           /\ View(clients') = [View(clients) EXCEPT ![clients[i].sock] =
                                  [user |-> clients'[i].user, in |-> clients'[i].in]]
<1>1. /\ i \in 1..Len(clients) /\ DOMAIN clients = 1..Len(clients)
      /\ DOMAIN clients' = 1..Len(clients)
      /\ clients[i] \in ClientInfo /\ clients[i].sock \in Fds
      /\ \A k \in 1..Len(clients) : clients'[k].sock = clients[k].sock
      /\ \A k \in 1..Len(clients) : k # i => clients'[k] = clients[k]
  BY LineIsServed, ClientsAreIndexed, LenProperties, ElementOfSeq DEF SameClients, TypeInv, TypeOK
<1>2. DistinctSocks(clients) /\ DistinctSocks(clients')
  <2>1. DistinctSocks(clients)
    BY DEF LoopInv, NoClientForgotten, DistinctSocks
  <2> QED BY <1>1, <2>1 DEF DistinctSocks
<1>3. ViewOf(clients, clients[i].sock) = [user |-> clients[i].user, in |-> clients[i].in]
  BY <1>1, <1>2, ViewAt
<1>4. ViewOf(clients', clients'[i].sock) = [user |-> clients'[i].user, in |-> clients'[i].in]
  BY <1>1, <1>2, ViewAt
<1>5. ASSUME NEW f \in Fds, f # clients[i].sock
      PROVE  ViewOf(clients', f) = ViewOf(clients, f)
  <2>1. \A k \in DOMAIN clients : clients[k].sock = f => \E j \in DOMAIN clients' : clients'[j] = clients[k]
    BY <1>1, <1>5
  <2>2. \A k \in DOMAIN clients' : clients'[k].sock = f => \E j \in DOMAIN clients : clients[j] = clients'[k]
    BY <1>1, <1>5
  <2> QED BY <1>2, <2>1, <2>2, SameView
<1> QED BY <1>1, <1>3, <1>4, <1>5 DEF View

(* Every line is an action of the service on the session of its client.    *)
LEMMA LineRefines ==
    ASSUME TypeInv, LoopInv, HandleMessage
    PROVE  [Service!Next]_(Service!vars)
<1> DEFINE f == clients[i].sock
<1>1. /\ f \in Fds /\ clients[i] \in ClientInfo
      /\ Sessions[f] = [user |-> clients[i].user, in |-> clients[i].in]
      /\ Sessions' = [Sessions EXCEPT ![f] = [user |-> clients'[i].user, in |-> clients'[i].in]]
  BY LineView, ServiceView
<1>2. /\ Sessions[f] # Closed
      /\ Sessions[f].user = clients[i].user /\ Sessions[f].in = clients[i].in
  BY <1>1, MarkAssumption DEF ClientInfo
<1>3. i \in DOMAIN clients /\ clients \in [DOMAIN clients -> ClientInfo]
  BY LineIsServed, ClientsAreIndexed DEF TypeInv, TypeOK
<1>4. f \in Fds
  BY <1>1
<1> HIDE DEF f
<1>5. ASSUME UNCHANGED clients
      PROVE  Sessions' = Sessions
  BY <1>5 DEF Sessions, SessionOf, Socks
<1>6. ASSUME ClearSession
      PROVE  Sessions' = [Sessions EXCEPT ![f] = Service!NewSession]
  <2>1. clients'[i].user = Empty /\ clients'[i].in = FALSE
    BY <1>1, <1>3, <1>6 DEF ClearSession, ClientInfo
  <2> QED BY <1>1, <2>1 DEF Service!NewSession
<1> USE DEF Service!AwaitsName, Service!AwaitsPassword, Service!LoggedIn, AwaitsName, AwaitsPassword,
        Service!Find, Find, AccountFound, Service!NoAccount, NoAccount, accounts
<1>7. ASSUME NEW m \in Strings, TakeName(m) PROVE Service!Name(f, m)
  <2>1. clients'[i].user = m /\ clients'[i].in = clients[i].in
    BY <1>1, <1>3, <1>7 DEF TakeName, SetUser, ClientInfo
  <2>2. Sessions' = [Sessions EXCEPT ![f].user = m]
    <3>1. [Sessions[f] EXCEPT !.user = m] = [user |-> clients'[i].user, in |-> clients'[i].in]
      BY <1>1, <2>1
    <3> QED BY <1>1, <3>1
  <2> QED BY <1>2, <1>7, <2>2 DEF TakeName, Service!Name, stored
<1>8. ASSUME NEW m \in Strings, RefusePassword(m) PROVE Service!Refuse(f, m)
  BY <1>2, <1>5, <1>6, <1>8 DEF RefusePassword, Service!Refuse, Refuses, Service!Refuses, stored
<1>9. ASSUME NEW m \in Strings, AcceptPassword(m) PROVE Service!Login(f, m)
  <2>1. clients'[i].user = clients[i].user /\ clients'[i].in = TRUE
    BY <1>1, <1>3, <1>9 DEF AcceptPassword, ClientInfo
  <2>2. Sessions' = [Sessions EXCEPT ![f].in = TRUE]
    <3>1. [Sessions[f] EXCEPT !.in = TRUE] = [user |-> clients'[i].user, in |-> clients'[i].in]
      <4>1. ASSUME NEW b
            PROVE  [Sessions[f] EXCEPT !.in = b] = [user |-> clients[i].user, in |-> b]
        BY <1>1
      <4>2. [Sessions[f] EXCEPT !.in = TRUE] = [user |-> clients[i].user, in |-> TRUE]
        BY <4>1, Zenon
      <4> QED BY <2>1, <4>2, Zenon
    <3> QED BY <1>1, <3>1
  <2>3. f = clients[i].sock
    BY DEF f
  <2> QED BY <1>2, <1>9, <2>2, <2>3 DEF AcceptPassword, Service!Login, Accepts, Service!Accepts, stored
<1>10. ASSUME NEW m \in Strings, WrongPassword(m) PROVE Service!Wrong(f, m)
  <2>1. clients[i].user \in Users
    BY <1>10 DEF WrongPassword, CountsAsWrong
  <2> QED
    BY <1>2, <1>5, <1>10, <2>1 DEF WrongPassword, Service!Wrong, CountsAsWrong, Service!CountsAsWrong, stored
<1>11. ASSUME NEW m \in Strings, BlockAccount(m) PROVE Service!Block(f, m)
  <2>1. clients[i].user \in Users
    BY <1>11 DEF BlockAccount, CountsAsWrong
  <2> QED
    BY <1>2, <1>6, <1>11, <2>1
    DEF BlockAccount, Service!Block, CountsAsWrong, Service!CountsAsWrong, SaveAccounts,
        Saved, Service!Saved, Save, Service!Save, NoLine, Service!NoLine
<1>12. ASSUME NEW m \in Strings, ChangePassword(m) PROVE Service!Change(f, m)
  <2>1. ASSUME NEW g \in Fds
        PROVE  g \in SameAccount(clients[i].user) <=>
                 Service!LoggedIn(g) /\ Sessions[g].user = Sessions[f].user
    <3>1. CASE g \in SocksOf(clients)
      <4>1. PICK k \in DOMAIN clients : clients[k].sock = g
        BY <3>1 DEF SocksOf
      <4>2. DistinctSocks(clients)
        BY DEF LoopInv, NoClientForgotten, DistinctSocks
      <4>3. Sessions[g] = [user |-> clients[k].user, in |-> clients[k].in]
        BY <4>1, <4>2, ViewAt, ServiceView DEF View
      <4>4. Sessions[g] # Closed
        BY <1>3, <4>3, MarkAssumption DEF ClientInfo
      <4>5. g \in SameAccount(clients[i].user) <=>
              clients[k].in /\ clients[k].user = clients[i].user
        BY <4>1, <4>2 DEF SameAccount, DistinctSocks
      <4> QED BY <1>2, <4>3, <4>4, <4>5
    <3>2. CASE g \notin SocksOf(clients)
      <4>1. Sessions[g] = Closed
        BY <3>2, ServiceView DEF View, ViewOf
      <4>2. g \notin SameAccount(clients[i].user)
        BY <3>2 DEF SameAccount, SocksOf
      <4> QED BY <4>1, <4>2
    <3> QED BY <3>1, <3>2
  <2>2. known' = [g \in Fds |-> IF Service!LoggedIn(g) /\ Sessions[g].user = Sessions[f].user
                               THEN Encoding[m] ELSE known[g]]
    BY <1>12, <2>1 DEF ChangePassword
  <2>3. /\ accts' = [accts EXCEPT ![Sessions[f].user].pass = m]
        /\ file' \in Service!Saved(file, accts')
        /\ m # Bye /\ m \in Valid
    BY <1>2, <1>12
    DEF ChangePassword, SaveAccounts, Saved, Service!Saved, Save, Service!Save, NoLine,
        Service!NoLine
  <2>4. Service!LoggedIn(f) /\ Sessions' = Sessions
    BY <1>2, <1>5, <1>12 DEF ChangePassword
  <2> HIDE DEF Service!LoggedIn
  <2> QED BY <2>2, <2>3, <2>4 DEF Service!Change
<1>13. ASSUME SignOut PROVE Service!SignOut(f)
  BY <1>2, <1>6, <1>13 DEF SignOut, Service!SignOut, stored
<1>14. ASSUME NEW m \in Strings, RejectPassword(m) PROVE UNCHANGED <<accts, file, Sessions, known>>
  BY <1>5, <1>14 DEF RejectPassword, stored
<1> QED
  BY <1>4, <1>7, <1>8, <1>9, <1>10, <1>11, <1>12, <1>13, <1>14
  DEF HandleMessage, Service!Next, Service!vars

(* Every step of the loop is a step of the service or changes nothing the  *)
(* service knows of.                                                       *)
LEMMA StepRefines ==
    ASSUME TypeInv, LoopInv, DistinctSocks(clients'), Next
    PROVE  [Service!Next]_(Service!vars)
<1> USE DEF accounts, stored, loop
<1>0. /\ Len(clients) \in Nat /\ DOMAIN clients = 1..Len(clients)
      /\ DistinctSocks(clients) /\ OpenFds = Socks /\ Socks = SocksOf(clients)
      /\ \A k \in 1..Len(clients) : clients[k] \in ClientInfo /\ clients[k].sock \in Fds
      /\ accts \in [Users -> Account]
      /\ \A r \in [user : Strings, in : BOOLEAN] : r # Closed
  BY ClientsAreIndexed, MarkAssumption
  DEF TypeInv, TypeOK, LoopInv, NoClientForgotten, DistinctSocks, SocksOf, Socks
<1>1. CASE UNCHANGED <<accts, file, clients, known>>
  BY <1>1, ServiceView DEF Service!vars
<1>2. ASSUME NEW f \in Fds, AcceptClient(f) PROVE Service!Next
  <2> DEFINE c == [sock |-> f, user |-> Empty, in |-> FALSE]
  <2>1. /\ DOMAIN clients' = 1..(Len(clients) + 1)
        /\ \A j \in 1..(Len(clients) + 1) :
              clients'[j] = IF j = Len(clients) + 1 THEN c ELSE clients[j]
        /\ UNCHANGED <<accts, file, known>>
    BY <1>2, AddLast DEF AcceptClient, TypeInv, TypeOK
  <2>2. View(clients)[f] = Closed
    BY <1>0, <1>2 DEF AcceptClient, LowestFree, View, ViewOf
  <2>3. ViewOf(clients', f) = [user |-> Empty, in |-> FALSE]
    <3> DEFINE last == Len(clients) + 1
    <3>1. last \in 1..last
      BY <1>0
    <3>2. last \in DOMAIN clients' /\ clients'[last] = c
      BY <2>1, <3>1
    <3>3. ViewOf(clients', clients'[last].sock) =
            [user |-> clients'[last].user, in |-> clients'[last].in]
      BY <3>2, ViewAt
    <3> QED BY <3>2, <3>3
  <2>4. ASSUME NEW g \in Fds, g # f
        PROVE  ViewOf(clients', g) = ViewOf(clients, g)
    <3>1. \A k \in DOMAIN clients : clients[k].sock = g => \E j \in DOMAIN clients' : clients'[j] = clients[k]
      <4>1. \A k \in DOMAIN clients : k \in DOMAIN clients' /\ clients'[k] = clients[k]
        BY <1>0, <2>1
      <4> QED BY <4>1
    <3>2. \A k \in DOMAIN clients' : clients'[k].sock = g => \E j \in DOMAIN clients : clients[j] = clients'[k]
      <4>1. \A k \in DOMAIN clients' : k # Len(clients) + 1 => k \in DOMAIN clients
        BY <1>0, <2>1
      <4> QED BY <2>1, <2>4, <4>1
    <3> QED BY <1>0, <3>1, <3>2, SameView
  <2>5. View(clients') = [View(clients) EXCEPT ![f] = [user |-> Empty, in |-> FALSE]]
    BY <2>3, <2>4 DEF View
  <2>6. Service!Open(f)
    BY <2>1, <2>2, <2>5, ServiceView DEF Service!Open, Service!NewSession
  <2> QED BY <2>6 DEF Service!Next
<1>3. CASE ClientGone
  <2>1. /\ i \in 1..Len(clients) /\ clients' = Without(i)
        /\ UNCHANGED <<accts, file, known>>
    BY <1>0, <1>3 DEF ClientGone, Recv, TypeInv, TypeOK
  <2>2. /\ DOMAIN clients' = 1..(Len(clients) - 1)
        /\ \A j \in 1..(Len(clients) - 1) :
              clients'[j] = IF j = i THEN clients[Len(clients)] ELSE clients[j]
        /\ SocksOf(clients') = SocksOf(clients) \ {clients[i].sock}
    BY <1>0, <2>1, MoveLast, RemovedSocks DEF TypeInv, TypeOK
  <2>3. View(clients)[clients[i].sock] # Closed
    <3>1. ViewOf(clients, clients[i].sock) = [user |-> clients[i].user, in |-> clients[i].in]
      BY <1>0, <2>1, ViewAt
    <3>2. [user |-> clients[i].user, in |-> clients[i].in] \in [user : Strings, in : BOOLEAN]
      BY <1>0, <2>1 DEF ClientInfo
    <3> QED BY <1>0, <2>1, <3>1, <3>2 DEF View
  <2>4. ViewOf(clients', clients[i].sock) = Closed
    BY <2>2 DEF ViewOf
  <2>5. ASSUME NEW g \in Fds, g # clients[i].sock
        PROVE  ViewOf(clients', g) = ViewOf(clients, g)
    <3>1. ASSUME NEW k \in DOMAIN clients, clients[k].sock = g
          PROVE  \E j \in DOMAIN clients' : clients'[j] = clients[k]
      <4>1. k # i
        BY <2>5, <3>1
      <4>2. CASE k = Len(clients)
        <5>1. i \in 1..(Len(clients) - 1)
          <6>1. i \in 1..Len(clients) /\ i # Len(clients) /\ Len(clients) \in Nat
            BY <1>0, <2>1, <4>1, <4>2
          <6> QED BY ONLY <6>1
        <5>2. i \in DOMAIN clients' /\ clients'[i] = clients[k]
          BY <2>2, <4>2, <5>1
        <5> QED BY <5>2
      <4>3. CASE k # Len(clients)
        <5>1. k \in DOMAIN clients' /\ clients'[k] = clients[k]
          BY <1>0, <2>1, <2>2, <4>1, <4>3
        <5> QED BY <5>1
      <4> QED BY <4>2, <4>3
    <3>2. ASSUME NEW j \in DOMAIN clients'
          PROVE  \E k \in DOMAIN clients : clients[k] = clients'[j]
      <4>1. j \in DOMAIN clients /\ Len(clients) \in DOMAIN clients
        BY <1>0, <2>2
      <4> QED BY <2>2, <4>1
    <3> QED BY <1>0, <3>1, <3>2, SameView
  <2>6. View(clients') = [View(clients) EXCEPT ![clients[i].sock] = Closed]
    BY <2>4, <2>5 DEF View
  <2>7. Service!End(clients[i].sock)
    BY <2>1, <2>3, <2>6, ServiceView DEF Service!End
  <2> QED BY <1>0, <2>1, <2>7 DEF Service!Next
<1>4. CASE Crash
  <2>1. DOMAIN clients' = {}
    BY <1>4, EmptySeq DEF Crash
  <2>2. View(clients') = [f \in Fds |-> Closed]
    BY <2>1 DEF View, ViewOf, SocksOf
  <2>3. Service!Restart
    BY <1>4, <2>2, ServiceView
    DEF Crash, Service!Restart, Service!Load, Load, Service!NoAccount, NoAccount
  <2> QED BY <2>3 DEF Service!Next
<1>5. CASE HandleMessage
  BY <1>5, LineRefines
<1> QED
  BY <1>1, <1>2, <1>3, <1>4, <1>5
  DEF Next, Server, Environment, Arrive, Send, Select, SelectFails, NoArrival, AcceptRefused, Skip, vars

(* The array, the scan and the descriptor set implement one session per    *)
(* connection, for any number of clients, lines and restarts.              *)
THEOREM LoopImplementsService == Spec => ImplementsService
<1>1. Init => Service!Init
  <2> SUFFICES ASSUME Init PROVE Service!Init
    OBVIOUS
  <2>1. DOMAIN clients = {}
    BY EmptySeq DEF Init
  <2>2. Sessions = [f \in Fds |-> Closed]
    BY <2>1 DEF Sessions, SessionOf, Socks
  <2> QED
    BY <2>2
    DEF Init, Service!Init, Service!Load, Load, Service!NoAccount, NoAccount
<1>2. LoopInv => DistinctSocks(clients)
  BY DEF LoopInv, NoClientForgotten, DistinctSocks
<1>3. TypeInv /\ LoopInv /\ LoopInv' /\ [Next]_vars => [Service!Next]_(Service!vars)
  <2> SUFFICES ASSUME TypeInv, LoopInv, LoopInv', [Next]_vars
               PROVE  [Service!Next]_(Service!vars)
    OBVIOUS
  <2>1. DistinctSocks(clients')
    BY DEF LoopInv, NoClientForgotten, DistinctSocks
  <2>2. CASE Next
    BY <2>1, <2>2, StepRefines
  <2>3. CASE UNCHANGED vars
    BY <2>3 DEF vars, Service!vars, Sessions, SessionOf, Socks
  <2> QED BY <2>2, <2>3
<1> QED
  BY <1>1, <1>3, TypeInductive, LoopCorrect, PTL DEF Spec, ImplementsService, Service!Spec
====
