---- MODULE UdpChat ----
(***************************************************************************)
(* The UDP chat of HW6: server.c keeps sessions by the address a datagram  *)
(* comes from, client.c asks for a login name, waits five seconds for an   *)
(* answer and then sends messages it expects no answer to.                 *)
(*                                                                         *)
(* The network holds a set of datagrams.  One may be delivered late, in    *)
(* any order, again (the copy stays) or never.  A login request too short  *)
(* for its type is answered as an invalid name is, and stands for it; a    *)
(* name is cut to MAX_NAME_LEN by the client, and Names are cut names.     *)
(***************************************************************************)
EXTENDS Naturals, Sequences, FiniteSets

CONSTANTS
    Addresses,    \* where clients run, one socket each at a time
    Names,        \* valid login names
    BadName,      \* stands for every name that is not valid
    None,         \* no name
    MAX_CLIENTS,
    MAX_NET,      \* bound: datagrams under way
    MAX_RESTARTS  \* bound: restarts of the server

ASSUME AddressesAssumption == IsFiniteSet(Addresses)
ASSUME NamesAssumption == BadName \notin Names /\ None \notin Names /\ None # BadName
ASSUME LimitsAssumption == MAX_CLIENTS \in Nat /\ MAX_NET \in Nat /\ MAX_RESTARTS \in Nat

VARIABLES
    sessions,  \* client_sessions, up to session_count
    log,       \* the last line of the .log files: <<address, name of the file>>
    client,    \* what each client does, and the name it asks for or has
    net,       \* datagrams
    restarts   \* history: restarts of the server

server == <<sessions, log>>
vars == <<sessions, log, client, net, restarts>>

Asked == Names \cup {BadName}
OK == "LOGIN_OK"
Invalid == "LOGIN_NAME_INVALID"

LoginRequest(a, n) == [type |-> "LOGIN_REQUEST", addr |-> a, body |-> n]
MessageData(a) == [type |-> "MESSAGE_DATA", addr |-> a, body |-> "text"]
LoginAck(a, status) == [type |-> "LOGIN_ACK", addr |-> a, body |-> status]
ErrorMessage(a) == [type |-> "ERROR_NOT_LOGGED_IN", addr |-> a, body |-> "code"]

ToServer ==
    {LoginRequest(a, n) : a \in Addresses, n \in Asked}
        \cup {MessageData(a) : a \in Addresses}
ToClient ==
    {LoginAck(a, s) : a \in Addresses, s \in {OK, Invalid}}
        \cup {ErrorMessage(a) : a \in Addresses}

Init ==
    /\ sessions = <<>> /\ log = None
    /\ client = [a \in Addresses |-> [at |-> "prompt", name |-> None]]
    /\ net = {}
    /\ restarts = 0

----
(* sendto, after recvfrom took one datagram out of n.                      *)
With(n, d) == IF Cardinality(n \cup {d}) <= MAX_NET THEN n \cup {d} ELSE n

Send(d) == net' = With(net, d)

(* recvfrom: the network keeps a copy of d, or not.                        *)
Receive(d) == net' \in {net, net \ {d}}
Answer(d, r) == \E n \in {net, net \ {d}} : net' = With(n, r)

(* d is lost, or stays in a socket nobody reads.                           *)
Drop(d) ==
    /\ d \in net
    /\ net' = net \ {d}
    /\ UNCHANGED <<server, client, restarts>>

----
(* Mutant: only the host part of the address is compared. *)
IsSessionOfHost(i, a) == i = 1 /\ sessions # <<>>

(* find_client_session, is_active holding for every element                *)
IsSession(i, a) ==
    /\ i \in DOMAIN sessions /\ sessions[i].addr = a
    /\ \A j \in 1..(i - 1) : sessions[j].addr # a
HasSession(a) == \E i \in DOMAIN sessions : IsSession(i, a)

RefuseName(d) ==
    /\ d.body = BadName
    /\ sessions' = sessions
    /\ Answer(d, LoginAck(d.addr, Invalid))

(* The session of this address gets the new name. *)
UpdateSession(d, i) ==
    /\ d.body \in Names /\ IsSession(i, d.addr)
    /\ sessions' = [sessions EXCEPT ![i].login_name = d.body]
    /\ Answer(d, LoginAck(d.addr, OK))

(* Mutant: one session too many. *)
AddSessionOffByOne(d) ==
    /\ d.body \in Names /\ ~HasSession(d.addr)
    /\ Len(sessions) <= MAX_CLIENTS
    /\ sessions' = Append(sessions, [addr |-> d.addr, login_name |-> d.body])
    /\ Answer(d, LoginAck(d.addr, OK))

(* Mutant: an address may have several sessions. *)
AddSecondSession(d) ==
    /\ d.body \in Names
    /\ Len(sessions) < MAX_CLIENTS
    /\ sessions' = Append(sessions, [addr |-> d.addr, login_name |-> d.body])
    /\ Answer(d, LoginAck(d.addr, OK))

AddSession(d) ==
    /\ d.body \in Names /\ ~HasSession(d.addr)
    /\ Len(sessions) < MAX_CLIENTS
    /\ sessions' = Append(sessions, [addr |-> d.addr, login_name |-> d.body])
    /\ Answer(d, LoginAck(d.addr, OK))

(* Mutant: the failure of add_client_session is not noticed. *)
RefuseSilently(d) ==
    /\ d.body \in Names /\ ~HasSession(d.addr)
    /\ Len(sessions) >= MAX_CLIENTS
    /\ sessions' = sessions
    /\ Answer(d, LoginAck(d.addr, OK))

(* No room: the same answer as to an invalid name. *)
RefuseClient(d) ==
    /\ d.body \in Names /\ ~HasSession(d.addr)
    /\ Len(sessions) >= MAX_CLIENTS
    /\ sessions' = sessions
    /\ Answer(d, LoginAck(d.addr, Invalid))

HandleLoginRequest(d) ==
    /\ d \in net /\ d.type = "LOGIN_REQUEST"
    /\ \/ RefuseName(d)
       \/ \E i \in DOMAIN sessions : UpdateSession(d, i)
       \/ AddSession(d)
       \/ RefuseClient(d)
    /\ UNCHANGED <<log, client, restarts>>

(* Mutant: the last session is not looked at. *)
AnswerErrorLastMissed(d) ==
    /\ ~\E i \in 1..(Len(sessions) - 1) : IsSession(i, d.addr)
    /\ log' = log
    /\ Answer(d, ErrorMessage(d.addr))

AnswerError(d) ==
    /\ ~HasSession(d.addr)
    /\ log' = log
    /\ Answer(d, ErrorMessage(d.addr))

(* The message goes to the file of the name the session has now, if it     *)
(* can be opened.                                                          *)
WriteToLog(d, i) ==
    /\ IsSession(i, d.addr)
    /\ log' \in {log, <<d.addr, sessions[i].login_name>>}
    /\ Receive(d)

HandleMessageData(d) ==
    /\ d \in net /\ d.type = "MESSAGE_DATA"
    /\ AnswerError(d) \/ \E i \in DOMAIN sessions : WriteToLog(d, i)
    /\ UNCHANGED <<sessions, client, restarts>>

(* The server ends and is started again: its sessions were in memory.      *)
Restart ==
    /\ restarts < MAX_RESTARTS
    /\ restarts' = restarts + 1
    /\ sessions' = <<>>
    /\ UNCHANGED <<log, client, net>>

----
ClientGoes(a, from, to) ==
    /\ client[a].at = from
    /\ client' = [client EXCEPT ![a] =
                     [at |-> to, name |-> IF to = "talking" THEN @.name ELSE None]]
    /\ UNCHANGED <<server, restarts>>

(* The user types a name; login_to_server sends the request and waits.     *)
Ask(a, n) ==
    /\ client[a].at = "prompt"
    /\ client' = [client EXCEPT ![a] = [at |-> "waiting", name |-> n]]
    /\ Send(LoginRequest(a, n))
    /\ UNCHANGED <<server, restarts>>

(* Nothing came for TIMEOUT_SECONDS; the user wants to try again.          *)
Timeout(a) == ClientGoes(a, "waiting", "prompt") /\ net' = net

(* The client takes whatever datagram comes for the answer.                *)
ReceiveAck(a, d) ==
    /\ d \in net /\ d.type \in {"LOGIN_ACK", "ERROR_NOT_LOGGED_IN"} /\ d.addr = a
    /\ ClientGoes(a, "waiting", IF d = LoginAck(a, OK) THEN "talking" ELSE "prompt")
    /\ Receive(d)

(* The user types a message.                                               *)
Say(a) ==
    /\ ClientGoes(a, "talking", "talking")
    /\ Send(MessageData(a))

(* quit, the end of the input, or no further try: the client ends, and its  *)
(* port may go to the socket of another one.                               *)
Quit(a) == ClientGoes(a, "talking", "prompt") /\ net' = net

User(a) == Say(a) \/ Quit(a) \/ \E n \in Asked : Ask(a, n)
Server(d) == HandleLoginRequest(d) \/ HandleMessageData(d)

Next ==
    \/ \E a \in Addresses : User(a) \/ Timeout(a) \/ \E d \in net : ReceiveAck(a, d)
    \/ \E d \in net : Server(d) \/ Drop(d)
    \/ Restart

Spec == Init /\ [][Next]_vars

----
TypeOK ==
    /\ sessions \in Seq([addr : Addresses, login_name : Names])
    /\ Len(sessions) <= MAX_CLIENTS
    /\ log \in (Addresses \X Names) \cup {None}
    /\ client \in [Addresses -> [at : {"prompt", "waiting", "talking"},
                                 name : Asked \cup {None}]]
    /\ net \subseteq ToServer \cup ToClient
    /\ restarts \in Nat

(* An address never has two sessions, whatever requests are repeated or    *)
(* overtake each other: find_client_session's first match is the only one  *)
(* (server.c:46-57, 205-227).                                              *)
OneSessionEach ==
    \A i, j \in DOMAIN sessions : sessions[i].addr = sessions[j].addr => i = j

(* A client that was told "Login successful!" has a session, from whichever *)
(* of its requests the answer came, unless the server was restarted         *)
(* (client.c:94-97, server.c:185-238).                                      *)
LoggedInHasSession ==
    restarts = 0 =>
        \A a \in Addresses : client[a].at = "talking" => HasSession(a)

(* ERROR_NOT_LOGGED_IN is sent to nobody but clients of an earlier server:  *)
(* messages never overtake the session they need, although datagrams        *)
(* overtake each other (server.c:252-263, client.c:225-258).                *)
ErrorMeansRestart ==
    restarts = 0 => \A a \in Addresses : ErrorMessage(a) \notin net

(* The array of sessions is one name per address, changed by logins of     *)
(* that address only, and messages go to the file of that name             *)
(* (server.c:46-57, 94-144, 185-268).                                      *)
Users == {<<sessions[i].addr, sessions[i].login_name>> : i \in DOMAIN sessions}
Room == INSTANCE ChatRoom WITH users <- Users
ImplementsRoom == Room!Spec

(* client.c:46: login_to_server sends its request and waits for "LOGIN_ACK" *)
(* (protocol.h:28: 0 = OK), so that who is logged in has the name it asked  *)
(* for.                                                                     *)
TalksUnderItsName ==
    restarts = 0 =>
        \A a \in Addresses :
            client[a].at = "talking" => <<a, client[a].name>> \in Users
====
