---- MODULE UdpChatProofs ----
(***************************************************************************)
(* Proofs about UdpChat, for any number of clients, names, datagrams and   *)
(* restarts and any MAX_CLIENTS.                                           *)
(***************************************************************************)
EXTENDS UdpChat, SequenceTheorems, FiniteSetTheorems, TLAPS

Session == [addr : Addresses, login_name : Names]

(* What makes LoggedInHasSession and ErrorMeansRestart inductive: before a *)
(* restart, an acknowledgement or a message under way belongs to an address *)
(* that has a session already.                                             *)
Earned(a) ==
    /\ client[a].at = "talking" => HasSession(a)
    /\ LoginAck(a, OK) \in net => HasSession(a)
    /\ MessageData(a) \in net => HasSession(a)
    /\ ErrorMessage(a) \notin net

TableInv == TypeOK /\ OneSessionEach
ChatInv == TableInv /\ (restarts = 0 => \A a \in Addresses : Earned(a))

----
(* Datagrams of different types differ, and a type determines its body.    *)
LEMMA DatagramTypes ==
    ASSUME NEW d \in ToServer \cup ToClient
    PROVE  /\ d.addr \in Addresses
           /\ d.type = "LOGIN_REQUEST" => d.body \in Asked
           /\ d.type = "MESSAGE_DATA" => d = MessageData(d.addr)
BY DEF ToServer, ToClient, LoginRequest, MessageData, LoginAck, ErrorMessage

(* An answer adds at most itself to the network, whatever was kept.        *)
LEMMA AnswerAdds ==
    ASSUME NEW d, NEW r, Answer(d, r)
    PROVE  net' \subseteq net \cup {r}
BY DEF Answer, With

LEMMA SendAdds ==
    ASSUME NEW r, Send(r)
    PROVE  net' \subseteq net \cup {r}
BY DEF Send, With

(* With one session per address the first match is the only one.           *)
LEMMA HasSessionMeaning ==
    ASSUME TableInv, NEW a
    PROVE  /\ HasSession(a) <=> \E i \in DOMAIN sessions : sessions[i].addr = a
           /\ \A i \in DOMAIN sessions : IsSession(i, a) <=> sessions[i].addr = a
<1>1. DOMAIN sessions = 1..Len(sessions) /\ Len(sessions) \in Nat
  BY DEF TableInv, TypeOK
<1>2. ASSUME NEW i \in DOMAIN sessions, sessions[i].addr = a,
             NEW j \in 1..(i - 1)
      PROVE  sessions[j].addr # a
  <2>1. j \in DOMAIN sessions /\ j # i
    BY <1>1
  <2> QED
    BY <1>2, <2>1 DEF TableInv, OneSessionEach
<1> QED
  BY <1>2 DEF HasSession, IsSession

LEMMA HasSessionMeaningNext ==
    ASSUME TableInv', NEW a
    PROVE  HasSession(a)' <=> \E i \in DOMAIN sessions' : sessions'[i].addr = a
<1>1. DOMAIN sessions' = 1..Len(sessions') /\ Len(sessions') \in Nat
  BY DEF TableInv, TypeOK
<1>2. ASSUME NEW i \in DOMAIN sessions', sessions'[i].addr = a,
             NEW j \in 1..(i - 1)
      PROVE  sessions'[j].addr # a
  <2>1. j \in DOMAIN sessions' /\ j # i
    BY <1>1
  <2> QED
    BY <1>2, <2>1 DEF TableInv, OneSessionEach
<1> QED
  BY <1>2 DEF HasSession, IsSession

----
(* What a step does to the table: it keeps its shape, and no address loses *)
(* its session.                                                            *)
TableStep ==
    /\ sessions' \in Seq(Session) /\ Len(sessions') <= MAX_CLIENTS
    /\ OneSessionEach'
    /\ \A i \in DOMAIN sessions :
          i \in DOMAIN sessions' /\ sessions'[i].addr = sessions[i].addr

LEMMA TableUnchanged ==
    ASSUME TableInv, sessions' = sessions
    PROVE  TableStep
BY DEF TableInv, TypeOK, OneSessionEach, TableStep, Session

(* A new name for the session of an address.                               *)
LEMMA UpdateEffect ==
    ASSUME TableInv, NEW d, NEW i \in DOMAIN sessions, UpdateSession(d, i)
    PROVE  /\ TableStep
           /\ sessions[i].addr = d.addr
           /\ DOMAIN sessions' = DOMAIN sessions
           /\ \A j \in DOMAIN sessions : sessions'[j] =
                 IF j = i THEN [addr |-> d.addr, login_name |-> d.body]
                 ELSE sessions[j]
<1> DEFINE s == [addr |-> d.addr, login_name |-> d.body]
<1>1. sessions \in Seq(Session) /\ i \in 1..Len(sessions)
  BY DEF TableInv, TypeOK, Session
<1>2. sessions[i] \in Session /\ sessions[i].addr = d.addr /\ d.body \in Names
  BY <1>1, ElementOfSeq DEF UpdateSession, IsSession
<1>3. s \in Session /\ [sessions[i] EXCEPT !.login_name = d.body] = s
  BY <1>2 DEF Session
<1>4. sessions' = [sessions EXCEPT ![i] = s]
  BY <1>3 DEF UpdateSession
<1>5. /\ sessions' \in Seq(Session) /\ Len(sessions') = Len(sessions)
      /\ \A j \in 1..Len(sessions) : sessions'[j] = IF j = i THEN s ELSE sessions[j]
  BY <1>1, <1>3, <1>4, ExceptSeq
<1>6. DOMAIN sessions' = DOMAIN sessions /\ DOMAIN sessions = 1..Len(sessions)
  BY <1>1, <1>5
<1>7. \A j \in DOMAIN sessions : sessions'[j].addr = sessions[j].addr
  BY <1>2, <1>5, <1>6
<1>8. OneSessionEach'
  BY <1>6, <1>7 DEF TableInv, OneSessionEach
<1> QED
  BY <1>2, <1>5, <1>6, <1>7, <1>8 DEF TableStep, TableInv, TypeOK

(* A session for an address that had none.                                 *)
LEMMA AddEffect ==
    ASSUME TableInv, NEW d, d.addr \in Addresses, AddSession(d)
    PROVE  /\ TableStep
           /\ Len(sessions') = Len(sessions) + 1
           /\ \A j \in DOMAIN sessions :
                 j \in DOMAIN sessions' /\ sessions'[j] = sessions[j]
           /\ \A j \in DOMAIN sessions : sessions[j].addr # d.addr
           /\ sessions'[Len(sessions')] = [addr |-> d.addr, login_name |-> d.body]
<1> DEFINE s == [addr |-> d.addr, login_name |-> d.body]
<1>1. sessions \in Seq(Session) /\ DOMAIN sessions = 1..Len(sessions) /\ Len(sessions) \in Nat
  BY DEF TableInv, TypeOK, Session
<1>2. s \in Session
  BY DEF AddSession, Session
<1>3. sessions' = Append(sessions, s)
  BY DEF AddSession
<1> HIDE DEF s
<1>4. /\ sessions' \in Seq(Session) /\ Len(sessions') = Len(sessions) + 1
      /\ \A j \in 1..Len(sessions) : sessions'[j] = sessions[j]
      /\ sessions'[Len(sessions) + 1] = s
  BY <1>1, <1>2, <1>3, AppendProperties
<1>5. DOMAIN sessions' = 1..(Len(sessions) + 1)
  BY <1>4
<1>6. \A j \in DOMAIN sessions : sessions[j].addr # d.addr
  BY HasSessionMeaning DEF AddSession
<1>7. s.addr = d.addr
  BY DEF s
<1>8. OneSessionEach'
  BY <1>1, <1>4, <1>5, <1>6, <1>7 DEF TableInv, OneSessionEach
<1>9. Len(sessions') <= MAX_CLIENTS
  BY <1>1, <1>4, LimitsAssumption DEF AddSession
<1> QED
  BY <1>1, <1>4, <1>5, <1>6, <1>8, <1>9 DEF TableStep, s

(* Only logins and restarts change the table.                              *)
LEMMA LoginKeepsTable ==
    ASSUME TableInv, NEW d \in net, HandleLoginRequest(d)
    PROVE  TableStep
<1>1. d \in ToServer \cup ToClient
  BY DEF TableInv, TypeOK
<1>2. CASE RefuseName(d) \/ RefuseClient(d)
  BY <1>2, TableUnchanged DEF RefuseName, RefuseClient
<1>3. CASE \E i \in DOMAIN sessions : UpdateSession(d, i)
  BY <1>3, UpdateEffect
<1>4. CASE AddSession(d)
  BY <1>1, <1>4, AddEffect, DatagramTypes
<1> QED
  BY <1>2, <1>3, <1>4 DEF HandleLoginRequest

(* Every step of Next either keeps the table or empties it.                *)
LEMMA NextKeepsTable ==
    ASSUME TableInv, [Next]_vars
    PROVE  (TableStep /\ restarts' = restarts) \/ Restart
<1> USE TableUnchanged
<1>1. CASE UNCHANGED vars
  BY <1>1 DEF vars
<1>2. ASSUME NEW a \in Addresses, User(a) \/ Timeout(a) \/ \E d \in net : ReceiveAck(a, d)
      PROVE  TableStep /\ restarts' = restarts
  BY <1>2 DEF User, Timeout, ReceiveAck, Say, Quit, Ask, ClientGoes, server
<1>3. ASSUME NEW d \in net, HandleLoginRequest(d)
      PROVE  TableStep /\ restarts' = restarts
  BY <1>3, LoginKeepsTable DEF HandleLoginRequest
<1>4. ASSUME NEW d \in net, HandleMessageData(d) \/ Drop(d)
      PROVE  TableStep /\ restarts' = restarts
  BY <1>4 DEF HandleMessageData, Drop, server
<1> QED
  BY <1>1, <1>2, <1>3, <1>4 DEF Next, Server

(* An address keeps its session.                                           *)
LEMMA SessionsLast ==
    ASSUME TableInv, TableInv', TableStep, NEW a, HasSession(a)
    PROVE  HasSession(a)'
BY HasSessionMeaning, HasSessionMeaningNext DEF TableStep

----
(* The values keep their types, and the datagrams are those of the         *)
(* protocol.                                                               *)
LEMMA ClientsKeepTypes ==
    ASSUME TypeOK, NEW a \in Addresses, User(a) \/ Timeout(a) \/ \E d \in net : ReceiveAck(a, d)
    PROVE  TypeOK'
<1>1. ASSUME NEW from, NEW to \in {"prompt", "waiting", "talking"}, ClientGoes(a, from, to)
      PROVE  /\ client' \in [Addresses -> [at : {"prompt", "waiting", "talking"},
                                           name : Asked \cup {None}]]
             /\ UNCHANGED <<sessions, log, restarts>>
  BY <1>1 DEF ClientGoes, TypeOK, server
<1>2. ASSUME NEW n \in Asked, Ask(a, n) PROVE TypeOK'
  <2>1. LoginRequest(a, n) \in ToServer
    BY DEF ToServer
  <2> QED BY <1>2, <2>1, SendAdds DEF Ask, TypeOK, server
<1>3. CASE Say(a)
  <2>1. MessageData(a) \in ToServer
    BY DEF ToServer
  <2> QED BY <1>1, <1>3, <2>1, SendAdds DEF Say, TypeOK
<1>4. CASE Quit(a) \/ Timeout(a)
  BY <1>1, <1>4 DEF Quit, Timeout, TypeOK
<1>5. ASSUME NEW d \in net, ReceiveAck(a, d) PROVE TypeOK'
  BY <1>1, <1>5 DEF ReceiveAck, Receive, TypeOK
<1> QED
  BY <1>2, <1>3, <1>4, <1>5 DEF User

LEMMA ServerKeepsTypes ==
    ASSUME TableInv, NEW d \in net, Server(d) \/ Drop(d)
    PROVE  TypeOK'
<1>1. d \in ToServer \cup ToClient /\ d.addr \in Addresses
  BY DatagramTypes DEF TableInv, TypeOK
<1>2. /\ LoginAck(d.addr, OK) \in ToClient /\ LoginAck(d.addr, Invalid) \in ToClient
      /\ ErrorMessage(d.addr) \in ToClient
  BY <1>1 DEF ToClient
<1>3. CASE HandleLoginRequest(d)
  <2>1. sessions' \in Seq([addr : Addresses, login_name : Names]) /\ Len(sessions') <= MAX_CLIENTS
    BY <1>3, LoginKeepsTable DEF TableStep, Session
  <2>2. net' \subseteq net \cup {LoginAck(d.addr, OK), LoginAck(d.addr, Invalid)}
    BY <1>3, AnswerAdds
    DEF HandleLoginRequest, RefuseName, UpdateSession, AddSession, RefuseClient
  <2> QED BY <1>2, <1>3, <2>1, <2>2 DEF HandleLoginRequest, TableInv, TypeOK
<1>4. CASE HandleMessageData(d)
  <2>1. CASE AnswerError(d)
    BY <1>2, <1>4, <2>1, AnswerAdds DEF AnswerError, HandleMessageData, TableInv, TypeOK
  <2>2. ASSUME NEW i \in DOMAIN sessions, WriteToLog(d, i) PROVE TypeOK'
    <3>1. sessions[i] \in Session
      <4>1. sessions \in Seq(Session) /\ DOMAIN sessions = 1..Len(sessions)
        BY DEF TableInv, TypeOK, Session
      <4> QED BY <4>1, ElementOfSeq
    <3>2. log' \in (Addresses \X Names) \cup {None}
      BY <1>1, <2>2, <3>1 DEF WriteToLog, TableInv, TypeOK, Session
    <3> QED BY <1>4, <2>2, <3>2 DEF WriteToLog, Receive, HandleMessageData, TableInv, TypeOK
  <2> QED BY <1>4, <2>1, <2>2 DEF HandleMessageData
<1>5. CASE Drop(d)
  BY <1>5 DEF Drop, server, TableInv, TypeOK
<1> QED
  BY <1>3, <1>4, <1>5 DEF Server

LEMMA RestartKeepsTable ==
    ASSUME TableInv, Restart
    PROVE  TableInv'
BY LimitsAssumption DEF TableInv, TypeOK, OneSessionEach, Restart

LEMMA TableStays ==
    ASSUME TableInv, [Next]_vars
    PROVE  TableInv'
<1>1. TableStep => OneSessionEach'
  BY DEF TableStep
<1>2. CASE UNCHANGED vars
  BY <1>2 DEF vars, TableInv, TypeOK, OneSessionEach
<1>3. CASE Restart
  BY <1>3, RestartKeepsTable
<1>4. CASE ~Restart /\ Next
  <2>1. TypeOK'
    BY <1>4, ClientsKeepTypes, ServerKeepsTypes DEF Next, TableInv
  <2> QED BY <1>1, <1>4, <2>1, NextKeepsTable DEF TableInv
<1> QED
  BY <1>2, <1>3, <1>4

LEMMA TableInitially ==
    Init => TableInv
BY LimitsAssumption DEF Init, TableInv, TypeOK, OneSessionEach, Asked

(* The table of sessions never exceeds MAX_CLIENTS, and all values, clients *)
(* and datagrams included, are of their types.                              *)
THEOREM TypeCorrect == Spec => []TypeOK
<1>1. TableInv => TypeOK
  BY DEF TableInv
<1> QED
  BY <1>1, TableInitially, TableStays, PTL DEF Spec

(* An address never has two sessions (server.c:46-57, 205-227).             *)
THEOREM OneSession == Spec => []OneSessionEach
<1>1. TableInv => OneSessionEach
  BY DEF TableInv
<1> QED
  BY <1>1, TableInitially, TableStays, PTL DEF Spec

----
(* Each step keeps what an address has earned.                             *)
LEMMA ClientsEarn ==
    ASSUME TableInv, NEW b \in Addresses, NEW a \in Addresses, Earned(a),
           User(b) \/ Timeout(b) \/ \E d \in net : ReceiveAck(b, d)
    PROVE  Earned(a)'
<1> USE DEF LoginRequest, MessageData, LoginAck, ErrorMessage
<1>1. sessions' = sessions
  BY DEF User, Timeout, ReceiveAck, Say, Quit, Ask, ClientGoes, server
<1>2. HasSession(a)' <=> HasSession(a)
  BY <1>1 DEF HasSession, IsSession
<1>3. client \in [Addresses -> [at : {"prompt", "waiting", "talking"},
                                name : Asked \cup {None}]]
  BY DEF TableInv, TypeOK
<1>4. ASSUME NEW n \in Asked, Ask(b, n) PROVE Earned(a)'
  <2>1. net' \subseteq net \cup {LoginRequest(b, n)}
    BY <1>4, SendAdds DEF Ask
  <2>2. client'[a].at = "talking" => client[a].at = "talking"
    BY <1>3, <1>4 DEF Ask
  <2> QED BY <1>2, <2>1, <2>2 DEF Earned
<1>5. CASE Say(b)
  <2>1. net' \subseteq net \cup {MessageData(b)} /\ client[b].at = "talking"
    BY <1>5, SendAdds DEF Say, ClientGoes
  <2>2. client'[a].at = "talking" => client[a].at = "talking"
    BY <1>3, <1>5 DEF Say, ClientGoes
  <2>3. MessageData(b) = MessageData(a) => a = b
    OBVIOUS
  <2>4. MessageData(a) \in net' => MessageData(a) \in net \/ client[a].at = "talking"
    BY <2>1, <2>3
  <2>5. /\ LoginAck(a, OK) \in net' => LoginAck(a, OK) \in net
        /\ ErrorMessage(a) \in net' => ErrorMessage(a) \in net
    BY <2>1
  <2> QED BY <1>2, <2>2, <2>4, <2>5 DEF Earned
<1>6. CASE Quit(b) \/ Timeout(b)
  <2>1. net' = net /\ (client'[a].at = "talking" => client[a].at = "talking")
    BY <1>3, <1>6 DEF Quit, Timeout, ClientGoes
  <2> QED BY <1>2, <2>1 DEF Earned
<1>7. ASSUME NEW d \in net, ReceiveAck(b, d) PROVE Earned(a)'
  <2>1. net' \subseteq net
    BY <1>7 DEF ReceiveAck, Receive
  <2>2. client'[a].at = "talking" => client[a].at = "talking" \/ d = LoginAck(a, OK)
    BY <1>3, <1>7 DEF ReceiveAck, ClientGoes
  <2> QED BY <1>2, <2>1, <2>2 DEF Earned
<1> QED
  BY <1>4, <1>5, <1>6, <1>7 DEF User

LEMMA LoginEarns ==
    ASSUME TableInv, TableInv', NEW d \in net, HandleLoginRequest(d),
           NEW a \in Addresses, Earned(a)
    PROVE  Earned(a)'
<1> USE DEF LoginRequest, MessageData, LoginAck, ErrorMessage
<1>1. HasSession(a) => HasSession(a)'
  BY LoginKeepsTable, SessionsLast
<1>2. client' = client
  BY DEF HandleLoginRequest
<1>3. ASSUME NEW r, net' \subseteq net \cup {r}, r.type = "LOGIN_ACK",
             r = LoginAck(a, OK) => HasSession(a)'
      PROVE  Earned(a)'
  <2>1. r # MessageData(a) /\ r # ErrorMessage(a)
    BY <1>3
  <2> QED BY <1>1, <1>2, <1>3, <2>1 DEF Earned
<1>4. CASE RefuseName(d) \/ RefuseClient(d)
  <2>1. net' \subseteq net \cup {LoginAck(d.addr, Invalid)}
    BY <1>4, AnswerAdds DEF RefuseName, RefuseClient
  <2>2. LoginAck(d.addr, Invalid) # LoginAck(a, OK)
    BY DEF OK, Invalid
  <2> QED BY <1>3, <2>1, <2>2
<1>5. ASSUME net' \subseteq net \cup {LoginAck(d.addr, OK)}, HasSession(d.addr)'
      PROVE  Earned(a)'
  <2>1. LoginAck(d.addr, OK) = LoginAck(a, OK) => d.addr = a
    OBVIOUS
  <2> QED BY <1>3, <1>5, <2>1
<1>6. ASSUME NEW i \in DOMAIN sessions, UpdateSession(d, i) PROVE Earned(a)'
  <2>1. HasSession(d.addr)'
    BY <1>6, UpdateEffect, HasSessionMeaningNext DEF TableStep
  <2> QED BY <1>5, <1>6, <2>1, AnswerAdds DEF UpdateSession
<1>7. CASE AddSession(d)
  <2>1. d.addr \in Addresses
    BY DatagramTypes DEF TableInv, TypeOK
  <2>2. Len(sessions') \in DOMAIN sessions' /\ sessions'[Len(sessions')].addr = d.addr
    <3>1. /\ Len(sessions') = Len(sessions) + 1 /\ TableStep
          /\ sessions'[Len(sessions')] = [addr |-> d.addr, login_name |-> d.body]
      BY <1>7, <2>1, AddEffect
    <3>2. Len(sessions) \in Nat /\ DOMAIN sessions' = 1..Len(sessions')
      BY <3>1 DEF TableInv, TypeOK, TableStep
    <3> QED BY <3>1, <3>2
  <2>3. HasSession(d.addr)'
    BY <2>2, HasSessionMeaningNext
  <2> QED BY <1>5, <1>7, <2>3, AnswerAdds DEF AddSession
<1> QED
  BY <1>4, <1>6, <1>7 DEF HandleLoginRequest

LEMMA DataEarns ==
    ASSUME TableInv, NEW d \in net, HandleMessageData(d) \/ Drop(d),
           \A b \in Addresses : Earned(b), NEW a \in Addresses
    PROVE  Earned(a)'
<1>1. client' = client /\ sessions' = sessions
  BY DEF HandleMessageData, Drop, server
<1>2. HasSession(a)' <=> HasSession(a)
  BY <1>1 DEF HasSession, IsSession
<1>3. net' \subseteq net
  <2>1. CASE HandleMessageData(d)
    <3>1. d = MessageData(d.addr) /\ d.addr \in Addresses
      BY <2>1, DatagramTypes DEF HandleMessageData, TableInv, TypeOK
    <3>2. HasSession(d.addr)
      BY <3>1 DEF Earned
    <3> QED BY <2>1, <3>2 DEF HandleMessageData, AnswerError, WriteToLog, Receive
  <2> QED BY <2>1 DEF Drop
<1> QED
  BY <1>1, <1>2, <1>3 DEF Earned

LEMMA ChatInvStays ==
    ASSUME ChatInv, [Next]_vars
    PROVE  ChatInv'
<1>1. TableInv /\ TableInv'
  BY TableStays DEF ChatInv
<1>2. ASSUME restarts' = 0, NEW a \in Addresses
      PROVE  Earned(a)'
  <2>1. restarts = 0 /\ ~Restart
    BY <1>1, <1>2, NextKeepsTable DEF Restart, TableInv, TypeOK
  <2>2. \A b \in Addresses : Earned(b)
    BY <2>1 DEF ChatInv
  <2>3. CASE UNCHANGED vars
    BY <2>2, <2>3 DEF vars, Earned, HasSession, IsSession
  <2> QED
    BY <1>1, <2>1, <2>2, <2>3, ClientsEarn, LoginEarns, DataEarns DEF Next, Server
<1> QED
  BY <1>1, <1>2 DEF ChatInv

LEMMA ChatInvHolds ==
    Spec => []ChatInv
<1>1. Init => ChatInv
  BY TableInitially DEF Init, ChatInv, Earned
<1> QED
  BY <1>1, ChatInvStays, PTL DEF Spec

(* Whoever was told "Login successful!" has a session, until the server is  *)
(* restarted (client.c:94-97, server.c:185-238).                            *)
THEOREM LoggedIn == Spec => []LoggedInHasSession
<1>1. ChatInv => LoggedInHasSession
  BY DEF ChatInv, Earned, LoggedInHasSession
<1> QED
  BY <1>1, ChatInvHolds, PTL

(* Only a restart makes the server answer ERROR_NOT_LOGGED_IN, whatever the *)
(* network loses, repeats or reorders (server.c:252-263).                   *)
THEOREM ErrorsMeanRestart == Spec => []ErrorMeansRestart
<1>1. ChatInv => ErrorMeansRestart
  BY DEF ChatInv, Earned, ErrorMeansRestart
<1> QED
  BY <1>1, ChatInvHolds, PTL

----
(* As many users as sessions at most.                                      *)
LEMMA PairsBounded ==
    ASSUME NEW s \in Seq(Session)
    PROVE  Cardinality({<<s[i].addr, s[i].login_name>> : i \in DOMAIN s}) <= Len(s)
<1> DEFINE T == {<<s[i].addr, s[i].login_name>> : i \in DOMAIN s}
           f == [i \in 1..Len(s) |-> <<s[i].addr, s[i].login_name>>]
<1>1. DOMAIN s = 1..Len(s) /\ Len(s) \in Nat
  OBVIOUS
<1>2. f \in Surjection(1..Len(s), T)
  BY <1>1 DEF Surjection
<1> HIDE DEF f
<1>3. ExistsSurjection(1..Len(s), T)
  BY <1>2 DEF ExistsSurjection
<1> HIDE DEF T
<1>4. Cardinality(T) <= Len(s)
  BY <1>1, <1>3, FS_SurjCardinalityBound
<1> QED
  BY <1>4 DEF T

LEMMA UsersBounded ==
    ASSUME TableInv'
    PROVE  Cardinality(Users') <= MAX_CLIENTS
<1>1. sessions' \in Seq(Session) /\ Len(sessions') \in Nat /\ Len(sessions') <= MAX_CLIENTS
  BY DEF TableInv, TypeOK, Session
<1>2. Cardinality(Users') <= Len(sessions')
  BY <1>1, PairsBounded DEF Users
<1>3. IsFiniteSet(Users')
  <2>1. Users' = {<<sessions'[i].addr, sessions'[i].login_name>> : i \in 1..Len(sessions')}
    BY <1>1 DEF Users
  <2> DEFINE T == Users'
             f == [i \in 1..Len(sessions') |-> <<sessions'[i].addr, sessions'[i].login_name>>]
  <2>2. f \in Surjection(1..Len(sessions'), T)
    BY <2>1 DEF Surjection
  <2> HIDE DEF f, T
  <2>3. IsFiniteSet(T)
    BY <1>1, <2>2, FS_NatSurjection DEF ExistsSurjection
  <2> QED BY <2>3 DEF T
<1>4. Cardinality(Users') \in Nat
  BY <1>3, FS_CardinalityType
<1> QED
  BY <1>1, <1>2, <1>4, LimitsAssumption

(* A login changes the pair of its address, and no other.                  *)
LEMMA LoginChangesOne ==
    ASSUME TableInv, NEW d, d.addr \in Addresses,
           AddSession(d) \/ \E i \in DOMAIN sessions : UpdateSession(d, i)
    PROVE  Users' = {u \in Users : u[1] # d.addr} \cup {<<d.addr, d.body>>}
<1>1. DOMAIN sessions = 1..Len(sessions) /\ Len(sessions) \in Nat
  BY DEF TableInv, TypeOK
<1>2. ASSUME NEW i \in DOMAIN sessions, UpdateSession(d, i)
      PROVE  Users' = {u \in Users : u[1] # d.addr} \cup {<<d.addr, d.body>>}
  <2>1. /\ sessions[i].addr = d.addr /\ DOMAIN sessions' = DOMAIN sessions
        /\ \A j \in DOMAIN sessions : sessions'[j] =
              IF j = i THEN [addr |-> d.addr, login_name |-> d.body] ELSE sessions[j]
    BY <1>2, UpdateEffect
  <2>2. \A j \in DOMAIN sessions : sessions[j].addr = d.addr => j = i
    BY <2>1 DEF TableInv, OneSessionEach
  <2>3. /\ <<sessions'[i].addr, sessions'[i].login_name>> = <<d.addr, d.body>>
        /\ \A j \in DOMAIN sessions \ {i} :
              <<sessions'[j].addr, sessions'[j].login_name>>
                = <<sessions[j].addr, sessions[j].login_name>>
    BY <2>1
  <2> QED BY <2>1, <2>2, <2>3 DEF Users
<1>3. CASE AddSession(d)
  <2>1. /\ Len(sessions') = Len(sessions) + 1 /\ sessions' \in Seq(Session)
        /\ \A j \in DOMAIN sessions : sessions'[j] = sessions[j]
        /\ \A j \in DOMAIN sessions : sessions[j].addr # d.addr
        /\ sessions'[Len(sessions')] = [addr |-> d.addr, login_name |-> d.body]
    BY <1>3, AddEffect DEF TableStep
  <2>2. DOMAIN sessions' = DOMAIN sessions \cup {Len(sessions')}
    BY <1>1, <2>1
  <2>3. <<sessions'[Len(sessions')].addr, sessions'[Len(sessions')].login_name>>
           = <<d.addr, d.body>>
    BY <2>1
  <2>4. \A u \in Users : u[1] # d.addr
    BY <2>1 DEF Users
  <2>5. Users' = Users \cup {<<d.addr, d.body>>}
    BY <2>1, <2>2, <2>3 DEF Users
  <2> QED BY <2>4, <2>5
<1> QED
  BY <1>2, <1>3

LEMMA LoginIsRoomLogin ==
    ASSUME TableInv, TableInv', NEW d \in net, HandleLoginRequest(d)
    PROVE  [Room!Next]_<<Users, log>>
<1>1. log' = log
  BY DEF HandleLoginRequest
<1>2. d.addr \in Addresses
  BY DatagramTypes DEF TableInv, TypeOK
<1>3. CASE RefuseName(d) \/ RefuseClient(d)
  BY <1>1, <1>3 DEF RefuseName, RefuseClient, Users
<1>4. CASE AddSession(d) \/ \E i \in DOMAIN sessions : UpdateSession(d, i)
  <2>1. d.body \in Names
    BY <1>4 DEF AddSession, UpdateSession
  <2>2. Room!Login(d.addr, d.body)
    <3>1. Users' = {u \in Users : u[1] # d.addr} \cup {<<d.addr, d.body>>}
      BY <1>2, <1>4, LoginChangesOne
    <3>2. Cardinality(Users') <= MAX_CLIENTS
      BY UsersBounded
    <3>3. Room!Cardinality(Users') = Cardinality(Users')
      BY Zenon DEF Room!Cardinality, Cardinality
    <3> QED BY <1>1, <3>1, <3>2, <3>3 DEF Room!Login
  <2> QED BY <1>2, <2>1, <2>2 DEF Room!Next
<1> QED
  BY <1>3, <1>4 DEF HandleLoginRequest

LEMMA NextIsRoomNext ==
    ASSUME TableInv, TableInv', [Next]_vars
    PROVE  [Room!Next]_<<Users, log>>
<1>1. CASE sessions' = sessions /\ log' = log
  BY <1>1 DEF Users
<1>2. CASE UNCHANGED vars
  BY <1>1, <1>2 DEF vars
<1>3. ASSUME NEW a \in Addresses, User(a) \/ Timeout(a) \/ \E d \in net : ReceiveAck(a, d)
      PROVE  [Room!Next]_<<Users, log>>
  BY <1>1, <1>3 DEF User, Timeout, ReceiveAck, Say, Quit, Ask, ClientGoes, server
<1>4. ASSUME NEW d \in net, HandleMessageData(d) PROVE [Room!Next]_<<Users, log>>
  <2>1. CASE AnswerError(d)
    BY <1>1, <1>4, <2>1 DEF HandleMessageData, AnswerError
  <2>2. ASSUME NEW i \in DOMAIN sessions, WriteToLog(d, i)
        PROVE  [Room!Next]_<<Users, log>>
    <3>1. <<d.addr, sessions[i].login_name>> \in Users
      BY <2>2 DEF WriteToLog, IsSession, Users
    <3>2. Users' = Users
      BY <1>4 DEF HandleMessageData, Users
    <3> QED BY <2>2, <3>1, <3>2 DEF WriteToLog, Room!Next, Room!Write
  <2> QED BY <1>4, <2>1, <2>2 DEF HandleMessageData
<1>5. ASSUME NEW d \in net, Drop(d) PROVE [Room!Next]_<<Users, log>>
  BY <1>1, <1>5 DEF Drop, server
<1>6. CASE Restart
  <2>1. Users' = {} /\ log' = log
    BY <1>6 DEF Restart, Users
  <2> QED BY <2>1 DEF Room!Next, Room!Restart
<1> QED
  BY <1>2, <1>3, <1>4, <1>5, <1>6, LoginIsRoomLogin DEF Next, Server

(* The server's array and its handlers implement the chat room: one name    *)
(* per address, MAX_CLIENTS addresses at most, and every line in the file   *)
(* of its address's name (server.c:46-57, 94-144, 185-268).                 *)
THEOREM ServerImplementsRoom == Spec => ImplementsRoom
<1>1. Init => Room!Init
  BY DEF Init, Room!Init, Users
<1> QED
  BY <1>1, TableInitially, TableStays, NextIsRoomNext, PTL
  DEF Spec, ImplementsRoom, Room!Spec
====
