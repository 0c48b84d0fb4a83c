---- MODULE SessionServer ----
(***************************************************************************)
(* The account servers of HW4 (one UDP socket, one session for whoever     *)
(* sent the last datagram) and HW5 (TCP, one connection at a time, the     *)
(* others wait in the backlog), with the client program, which is the same *)
(* but for the transport.                                                  *)
(*                                                                         *)
(* A client sends one line at a time and waits for the answer; it goes by  *)
(* its own prompts and the server by its own stages, and only the answers  *)
(* keep the two together.  The UDP client has no timeout.                  *)
(*                                                                         *)
(* Lines without an effect ("homepage", one that is not alphanumeric) are  *)
(* those outside Passwords.                                                *)
(***************************************************************************)
EXTENDS SessionRules, Sequences

CONSTANT MAX_FAULTS  \* bound: lost datagrams, failed saves and crashes

ASSUME FaultsAssumption == MAX_FAULTS \in Nat

VARIABLES
    transport,  \* "udp" (HW4) or "tcp" (HW5)
    accounts,   \* accounts[] of the server
    file,       \* account.txt
    session,    \* the session, with the client it is bound to
    backlog,    \* TCP: connections not accepted yet, in their order
    client,     \* the prompt each client program is at
    requests,   \* lines under way to the server
    answers,    \* answers under way to the clients
    unsaved,    \* history: the last save failed
    stopped,    \* history: clients that left a prompt with an empty line
    reused,     \* history: clients at an address the session is of before them
    lost,       \* history: clients one of whose datagrams was lost
    faults      \* history: how many faults there were

server == <<accounts, file, session, unsaved>>
net == <<requests, answers>>
history == <<stopped, reused, lost>>
vars == <<transport, server, backlog, client, net, history, faults>>

Prompt == {"off", "username", "password", "command"}

(* The answers the client tells apart; "text" stands for all others.       *)
Reply == {"Insert password", "Not OK", "OK", "Goodbye", "text"}

Request == [from : Clients, line : Strings]
Answer == [to : Clients, reply : Reply]

Bound(c, s) == [owner |-> c, stage |-> s.stage, user |-> s.user, fails |-> s.fails]

Init ==
    /\ transport \in {"udp", "tcp"}
    /\ file \in InitFiles
    /\ accounts = file
    /\ session = Bound(None, NewSession)
    /\ backlog = <<>>
    /\ client = [c \in Clients |-> [at |-> "off", waiting |-> FALSE]]
    /\ requests = {} /\ answers = {}
    /\ unsaved = FALSE /\ stopped = {} /\ reused = {} /\ lost = {}
    /\ faults = 0

Fault == faults < MAX_FAULTS /\ faults' = faults + 1

----
(* The client program.                                                     *)

(* Nothing of an earlier client at this address is under way; over TCP its *)
(* connection is gone too.                                                 *)
Unused(c) ==
    /\ client[c].at = "off"
    /\ transport = "tcp" => session.owner # c
    /\ \A i \in DOMAIN backlog : backlog[i] # c
    /\ \A m \in requests : m.from # c

(* Over UDP the server cannot tell a new client from the one that had the  *)
(* address before it.                                                      *)
Start(c) ==
    /\ Unused(c)
    /\ client' = [client EXCEPT ![c] = [at |-> "username", waiting |-> FALSE]]
    /\ backlog' = IF transport = "tcp" THEN Append(backlog, c) ELSE backlog
    /\ reused' = IF session.owner = c THEN reused \cup {c} ELSE reused
    /\ UNCHANGED <<transport, server, net, stopped, lost, faults>>

(* The user types a line at the prompt.                                    *)
Type(c, line) ==
    /\ client[c].at # "off" /\ ~client[c].waiting
    /\ client' = [client EXCEPT ![c].waiting = TRUE]
    /\ requests' = requests \cup {[from |-> c, line |-> line]}
    /\ UNCHANGED <<transport, server, backlog, answers, history, faults>>

(* An empty line at the prompt for the password or the command: back to    *)
(* the user name, and not a word to the server.                            *)
Stop(c) ==
    /\ client[c].at \in {"password", "command"} /\ ~client[c].waiting
    /\ client' = [client EXCEPT ![c].at = "username"]
    /\ stopped' = stopped \cup {c}
    /\ UNCHANGED <<transport, server, backlog, net, reused, lost, faults>>

(* An empty user name, or the program is ended: at a prompt, or while it   *)
(* waits.                                                                  *)
Quit(c) ==
    /\ client[c].at # "off"
    /\ client[c].waiting => transport = "tcp" \/ c \in lost
    /\ client' = [client EXCEPT ![c] = [at |-> "off", waiting |-> FALSE]]
    /\ answers' = {a \in answers : a.to # c}
    /\ stopped' = stopped \ {c} /\ reused' = reused \ {c} /\ lost' = lost \ {c}
    /\ UNCHANGED <<transport, server, backlog, requests, faults>>

(* Mutant: the password is not asked for again. *)
NextPromptOnce(at, reply) ==
    CASE at = "command" -> IF reply = "Goodbye" THEN "username" ELSE "command"
      [] reply = "OK" -> "command"
      [] at = "username" /\ reply \in {"Insert password", "Not OK"} -> "password"
      [] OTHER -> "username"

NextPrompt(at, reply) ==
    CASE at = "command" -> IF reply = "Goodbye" THEN "username" ELSE "command"
      [] reply = "OK" -> "command"
      [] reply = "Not OK" -> "password"
      [] at = "username" /\ reply = "Insert password" -> "password"
      [] OTHER -> "username"

(* Whatever datagram comes is the answer.                                  *)
ReceiveAnswer(a) ==
    /\ a \in answers /\ client[a.to].waiting
    /\ client' = [client EXCEPT ![a.to] =
                     [at |-> NextPrompt(@.at, a.reply), waiting |-> FALSE]]
    /\ answers' = answers \ {a}
    /\ lost' = lost \ {a.to}
    /\ UNCHANGED <<transport, server, backlog, requests, stopped, reused, faults>>

----
(* The network of HW4.                                                     *)
DropRequest(m) ==
    /\ transport = "udp" /\ Fault /\ m \in requests
    /\ requests' = requests \ {m}
    /\ lost' = IF client[m.from].waiting THEN lost \cup {m.from} ELSE lost
    /\ UNCHANGED <<transport, server, backlog, client, answers, stopped, reused>>

DropAnswer(a) ==
    /\ transport = "udp" /\ Fault /\ a \in answers
    /\ answers' = answers \ {a}
    /\ lost' = IF client[a.to].waiting THEN lost \cup {a.to} ELSE lost
    /\ UNCHANGED <<transport, server, backlog, client, requests, stopped, reused>>

----
(* The connections of HW5.                                                 *)
(* accept, and a new Session in handleClient.                              *)
Accept ==
    /\ session.owner = None /\ backlog # <<>>
    /\ session' = Bound(Head(backlog), NewSession)
    /\ backlog' = Tail(backlog)
    /\ UNCHANGED <<transport, accounts, file, unsaved, client, net, history, faults>>

(* Mutant: the 0 of recv is taken for an empty line, again and again. *)
HangUpIgnored(c) ==
    /\ transport = "tcp" /\ session.owner = c /\ client[c].at = "off"
    /\ UNCHANGED vars

(* recv returns 0: handleClient closes the socket and returns.             *)
HangUp(c) ==
    /\ transport = "tcp" /\ session.owner = c /\ client[c].at = "off"
    /\ \A m \in requests : m.from # c
    /\ session' = Bound(None, NewSession)
    /\ UNCHANGED <<transport, accounts, file, unsaved, backlog, client, net, history, faults>>

----
(* Mutant: the address of the sender is not compared. *)
CurrentOfAnyone(c) ==
    IF session.owner = None THEN NewSession
    ELSE [stage |-> session.stage, user |-> session.user, fails |-> session.fails]

(* The session a line of c is handled in: a datagram from another address  *)
(* than the last one begins a new session.                                 *)
Current(c) ==
    IF session.owner = c
    THEN [stage |-> session.stage, user |-> session.user, fails |-> session.fails]
    ELSE NewSession

(* The server has read m.                                                  *)
InHand(m) == m \in requests /\ (transport = "tcp" => session.owner = m.from)

(* The line is handled: the session is s now, and the answer is sent.      *)
Handled(m, s, reply) ==
    /\ session' = Bound(m.from, s)
    /\ requests' = requests \ {m}
    /\ answers' = IF client[m.from].at = "off" THEN answers
                  ELSE answers \cup {[to |-> m.from, reply |-> reply]}

(* The stages that change nothing but the session.                         *)
HandledOnly(m, s, reply) ==
    /\ Handled(m, s, reply)
    /\ UNCHANGED <<accounts, file, unsaved, faults>>

(* persistAccounts; without an open file it returns and nobody learns.     *)
PersistAccounts ==
    \/ file' = accounts' /\ unsaved' = FALSE /\ faults' = faults
    \/ Fault /\ file' = file /\ unsaved' = TRUE

RefuseName(m) ==
    /\ Current(m.from).stage = "username" /\ ~Admits(accounts, m.line)
    /\ HandledOnly(m, Current(m.from), "text")

TakeName(m) ==
    /\ Current(m.from).stage = "username" /\ Admits(accounts, m.line)
    /\ HandledOnly(m, [stage |-> "password", user |-> m.line, fails |-> 0],
                   "Insert password")

(* The account whose password is awaited, or that is logged in.            *)
Mine(m) == accounts[Current(m.from).user]

RightPassword(m) ==
    /\ Current(m.from).stage = "password"
    /\ m.line = Mine(m).pass /\ Mine(m).status = "active"
    /\ HandledOnly(m, [Current(m.from) EXCEPT !.stage = "loggedin"], "OK")

(* "account not ready", and the stage stays.                               *)
NotReady(m) ==
    /\ Current(m.from).stage = "password"
    /\ m.line = Mine(m).pass /\ Mine(m).status # "active"
    /\ HandledOnly(m, Current(m.from), "text")

WrongPassword(m) ==
    /\ Current(m.from).stage = "password" /\ m.line # Mine(m).pass
    /\ Current(m.from).fails + 1 < MAX_ATTEMPTS
    /\ HandledOnly(m, [Current(m.from) EXCEPT !.fails = @ + 1], "Not OK")

Blocks(m) ==
    /\ Current(m.from).stage = "password" /\ m.line # Mine(m).pass
    /\ Current(m.from).fails + 1 >= MAX_ATTEMPTS

(* Mutant: only the user is forgotten. *)
BlockAccountKeepsStage(m) ==
    /\ Blocks(m)
    /\ accounts' = [accounts EXCEPT ![Current(m.from).user] = Blocked(@)]
    /\ PersistAccounts
    /\ Handled(m, [stage |-> "password", user |-> None, fails |-> MAX_ATTEMPTS], "text")

(* failCount keeps its value until the next user name.                     *)
BlockAccount(m) ==
    /\ Blocks(m)
    /\ accounts' = [accounts EXCEPT ![Current(m.from).user] = Blocked(@)]
    /\ PersistAccounts
    /\ Handled(m, [stage |-> "username", user |-> None, fails |-> MAX_ATTEMPTS], "text")

(* Mutant: the stage is not reset. *)
SignOutStays(m) ==
    /\ Current(m.from).stage = "loggedin" /\ m.line = Bye
    /\ HandledOnly(m, Current(m.from), "Goodbye")

SignOut(m) ==
    /\ Current(m.from).stage = "loggedin" /\ m.line = Bye
    /\ HandledOnly(m, NewSession, "Goodbye")

(* homepage, or a line that cannot be a password.                          *)
KeepPassword(m) ==
    /\ Current(m.from).stage = "loggedin" /\ m.line \notin Passwords \cup {Bye}
    /\ HandledOnly(m, Current(m.from), "text")

Changes(m) == Current(m.from).stage = "loggedin" /\ m.line \in Passwords

NewPassword(m) ==
    /\ Changes(m)
    /\ accounts' = [accounts EXCEPT ![Current(m.from).user].pass = m.line]
    /\ PersistAccounts
    /\ Handled(m, Current(m.from), "text")

HandleLine(m) ==
    /\ InHand(m)
    /\ \/ RefuseName(m) \/ TakeName(m)
       \/ RightPassword(m) \/ NotReady(m) \/ WrongPassword(m) \/ BlockAccount(m)
       \/ SignOut(m) \/ KeepPassword(m) \/ NewPassword(m)
    /\ UNCHANGED <<transport, backlog, client, history>>

----
(* The server dies and is started again, with f in its file.  Connections  *)
(* end with it; of the datagrams those it had received, read or not.  Who  *)
(* waits for the answer to one of these waits like after a loss.           *)
Reboot(f, gone) ==
    /\ Fault
    /\ file' = f /\ accounts' = f /\ unsaved' = FALSE
    /\ session' = Bound(None, NewSession)
    /\ backlog' = <<>>
    /\ IF transport = "udp"
       THEN /\ requests' = requests \ gone
            /\ lost' = lost \cup {c \in Clients : client[c].waiting /\ \E m \in gone : m.from = c}
            /\ UNCHANGED <<client, answers, stopped, reused>>
       ELSE /\ client' = [c \in Clients |-> [at |-> "off", waiting |-> FALSE]]
            /\ requests' = {} /\ answers' = {} /\ stopped' = {} /\ reused' = {}
            /\ UNCHANGED lost
    /\ UNCHANGED transport

Crash == \E gone \in SUBSET requests : Reboot(file, gone)

(* persistAccounts has emptied the file and not written it yet.            *)
CrashInSave(m) ==
    /\ InHand(m) /\ (Blocks(m) \/ Changes(m))
    /\ \E gone \in SUBSET requests :
          m \in gone /\ Reboot([u \in Users |-> NoAccount], gone)

----
Client(c) == Start(c) \/ Stop(c) \/ Quit(c) \/ \E line \in Strings : Type(c, line)
Network == \/ \E m \in requests : DropRequest(m)
           \/ \E a \in answers : DropAnswer(a)
Server == Accept \/ (\E c \in Clients : HangUp(c)) \/ \E m \in requests : HandleLine(m)

Next ==
    \/ \E c \in Clients : Client(c)
    \/ \E a \in answers : ReceiveAnswer(a)
    \/ Network
    \/ Server
    \/ Crash \/ \E m \in requests : CrashInSave(m)

Spec == Init /\ [][Next]_vars

Handles(c) == \E m \in requests : m.from = c /\ HandleLine(m)
Receives(c) == \E a \in answers : a.to = c /\ ReceiveAnswer(a)

(* The server never stops reading its socket, which the kernel fills in    *)
(* order, and a client that waits reads what comes.  Users owe nothing.    *)
FairSpec ==
    /\ Spec
    /\ WF_vars(Accept)
    /\ \A c \in Clients : WF_vars(HangUp(c)) /\ WF_vars(Handles(c)) /\ WF_vars(Receives(c))

----
TypeOK ==
    /\ transport \in {"udp", "tcp"}
    /\ accounts \in [Users -> Account] /\ file \in [Users -> Account]
    /\ session \in [owner : Clients \cup {None}, stage : Stage,
                    user : Users \cup {None}, fails : 0..MAX_ATTEMPTS]
    /\ session.stage # "username" => session.user \in Users
    /\ backlog \in Seq(Clients)
    /\ client \in [Clients -> [at : Prompt, waiting : BOOLEAN]]
    /\ requests \subseteq Request /\ answers \subseteq Answer
    /\ stopped \subseteq Clients /\ reused \subseteq Clients /\ lost \subseteq Clients
    /\ unsaved \in BOOLEAN
    /\ faults \in 0..MAX_FAULTS

(* HW5: the prompts of the client and the stages of the server, which only *)
(* the answers keep together, never differ when nothing is under way --    *)
(* unless the user left a prompt with an empty line (client.c:122-126), or *)
(* the account is neither active nor blocked: then the server goes on      *)
(* waiting for a password while the client asks for a name                 *)
(* (client.c:106-113, server.c:190-196).                                   *)
PromptAgrees ==
    \A c \in Clients :
        ( /\ transport = "tcp" /\ session.owner = c /\ c \notin stopped
          /\ client[c].at # "off" /\ ~client[c].waiting
          /\ session.user # None => accounts[session.user].status # "notready" )
        => client[c].at = IF session.stage = "loggedin" THEN "command" ELSE session.stage

ReplacedOnly ==
    \A u \in Users :
        (accounts'[u].pass # accounts[u].pass /\ session'.owner # None) =>
            \E m \in requests :
                /\ m.from = session'.owner /\ m.line = accounts'[u].pass
                /\ client[m.from].at \in {"command", "off"} \/ m.from \in stopped \cup reused

(* A password is only ever replaced by a line its user typed at the prompt *)
(* for commands: neither a session that another client cut off, nor a lost *)
(* datagram, nor a restart makes a new password of a line meant otherwise. *)
(* Stopping with an empty line does, and ending the program over UDP: the  *)
(* next user name from that address is the new password.                   *)
(* (HW4 server.c:245-253, 321-352, client.c:133-142; HW5 server.c:213-236.) *)
NoStrayPassword == [][ReplacedOnly]_vars

(* The one session of HW4 that is reset when another client speaks, and    *)
(* the one connection at a time of HW5, are sessions of their own for each *)
(* address: nobody acts in another's, counts of wrong passwords belong to   *)
(* one session, and the file holds what was changed unless the save failed *)
(* (HW4 server.c:245-253, 268-352; HW5 server.c:148-242, 315-333).         *)
SessionOf(c) ==
    IF session.owner = c /\ session.stage # "username" THEN Current(c) ELSE NewSession
Service == INSTANCE SessionService WITH saved <- file,
                                        sessions <- [c \in Clients |-> SessionOf(c)]
ImplementsService == Service!Spec

(* Whoever waits is answered, unless a datagram was lost (the client of    *)
(* HW4 has no timeout and waits for ever), or a connected client of HW5    *)
(* keeps the server to itself (HW4 client.c:78-79, HW5 server.c:315-333).  *)
Answered ==
    \A c \in Clients :
        \/ []<>(~client[c].waiting \/ c \in lost)
        \/ \E d \in Clients \ {c} :
              <>[](transport = "tcp" /\ session.owner = d /\ client[d].at # "off")
====
