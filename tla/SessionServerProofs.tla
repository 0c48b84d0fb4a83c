---- MODULE SessionServerProofs ----
(***************************************************************************)
(* Proofs about SessionServer, for any clients, lines and accounts, both   *)
(* transports, and any number of lost datagrams, failed saves and crashes. *)
(***************************************************************************)
EXTENDS SessionServer, SequenceTheorems, TLAPS

(* What the text of the type invariant leaves out of the session: who      *)
(* waits for a password has tries left, and who gives a name has none.     *)
SessionInv ==
    /\ session.stage # "username" => session.fails < MAX_ATTEMPTS
    /\ session.stage = "username" => session.user = None
    /\ session.owner = None => session.stage = "username"

TypeInv == TypeOK /\ SessionInv

(* The session a line is handled in. *)
LEMMA CurrentIn ==
    ASSUME TypeInv, NEW c \in Clients
    PROVE  /\ Current(c) \in Session
           /\ Current(c).stage # "username" =>
                /\ session.owner = c /\ Current(c).user \in Users /\ Current(c).fails < MAX_ATTEMPTS
                /\ session = Bound(c, Current(c))
                /\ Current(c).user = session.user /\ Current(c).stage = session.stage
                /\ Current(c).fails = session.fails
           /\ Current(c).stage = "username" => Current(c).user = None
<1>1. MAX_ATTEMPTS \in Nat \ {0} /\ NewSession \in Session /\ NewSession.stage = "username"
      /\ NewSession.user = None
  BY SessionLimit DEF NewSession, Session, Stage
<1>2. CASE session.owner = c
  BY <1>2 DEF TypeInv, TypeOK, SessionInv, Current, Session, Bound
<1>3. CASE session.owner # c
  BY <1>1, <1>3 DEF Current
<1> QED BY <1>2, <1>3

(* Every step that binds the session to c, with the session s.             *)
LEMMA BoundTypes ==
    ASSUME NEW c \in Clients \cup {None}, NEW s \in Session, session' = Bound(c, s),
           s.stage # "username" => s.user \in Users /\ s.fails < MAX_ATTEMPTS,
           s.stage = "username" => s.user = None,
           c = None => s.stage = "username"
    PROVE  /\ session' \in [owner : Clients \cup {None}, stage : Stage,
                            user : Users \cup {None}, fails : 0..MAX_ATTEMPTS]
           /\ session'.stage # "username" => session'.user \in Users
           /\ SessionInv'
           /\ session'.owner = c /\ session'.stage = s.stage
           /\ session'.user = s.user /\ session'.fails = s.fails
BY DEF Bound, Session, SessionInv

LEMMA NewSessionIn ==
    /\ NewSession \in Session /\ NewSession.stage = "username" /\ NewSession.user = None
    /\ MAX_ATTEMPTS \in Nat \ {0} /\ None \notin Clients /\ None \notin Users
BY SessionLimit, SessionStrings DEF NewSession, Session, Stage

(* What handling one line does: s is the session then, reply the answer.   *)
Replies(m, s, reply) ==
    \/ /\ RefuseName(m) /\ s = Current(m.from) /\ reply = "text"
    \/ /\ TakeName(m) /\ s = [stage |-> "password", user |-> m.line, fails |-> 0]
       /\ reply = "Insert password"
    \/ /\ RightPassword(m) /\ s = [Current(m.from) EXCEPT !.stage = "loggedin"] /\ reply = "OK"
    \/ /\ NotReady(m) /\ s = Current(m.from) /\ reply = "text"
    \/ /\ WrongPassword(m) /\ s = [Current(m.from) EXCEPT !.fails = @ + 1] /\ reply = "Not OK"
    \/ /\ BlockAccount(m) /\ s = [stage |-> "username", user |-> None, fails |-> MAX_ATTEMPTS]
       /\ reply = "text"
    \/ /\ SignOut(m) /\ s = NewSession /\ reply = "Goodbye"
    \/ /\ KeepPassword(m) /\ s = Current(m.from) /\ reply = "text"
    \/ /\ NewPassword(m) /\ s = Current(m.from) /\ reply = "text"

LEMMA HandledTypes ==
    ASSUME TypeInv, NEW m \in requests, HandleLine(m)
    PROVE  \E s \in Session, reply \in Reply :
              /\ Replies(m, s, reply) /\ Handled(m, s, reply)
              /\ s.stage # "username" => s.user \in Users /\ s.fails < MAX_ATTEMPTS
              /\ s.stage = "username" => s.user = None
<1> DEFINE cur == Current(m.from)
           Good(s) == /\ s \in Session
                      /\ s.stage # "username" => s.user \in Users /\ s.fails < MAX_ATTEMPTS
                      /\ s.stage = "username" => s.user = None
<1>0. m.from \in Clients /\ m.line \in Strings
  BY DEF TypeInv, TypeOK, Request
<1>1. Good(cur)
  BY <1>0, CurrentIn
<1>2. Good(NewSession)
  BY NewSessionIn
<1>3. MAX_ATTEMPTS \in Nat \ {0} /\ cur.fails \in 0..MAX_ATTEMPTS
  BY <1>1, NewSessionIn DEF Session
<1>4. CASE TakeName(m)
  <2> DEFINE s == [stage |-> "password", user |-> m.line, fails |-> 0]
  <2>1. Handled(m, s, "Insert password") /\ m.line \in Users
    BY <1>4 DEF TakeName, HandledOnly, Admits, Known
  <2>2. Good(s)
    <3>1. 0 \in 0..MAX_ATTEMPTS /\ 0 < MAX_ATTEMPTS
      BY NewSessionIn
    <3> QED BY <2>1, <3>1 DEF Session, Stage
  <2>3. Replies(m, s, "Insert password")
    BY <1>4 DEF Replies
  <2> HIDE DEF s
  <2> QED BY <2>1, <2>2, <2>3 DEF Reply
<1>5. CASE RightPassword(m)
  <2> DEFINE s == [cur EXCEPT !.stage = "loggedin"]
  <2>1. Handled(m, s, "OK") /\ cur.stage = "password"
    BY <1>5 DEF RightPassword, HandledOnly
  <2>2. Good(s)
    BY <1>1, <2>1 DEF Session, Stage
  <2>3. Replies(m, s, "OK")
    BY <1>5 DEF Replies
  <2> HIDE DEF s
  <2> QED BY <2>1, <2>2, <2>3 DEF Reply
<1>6. CASE WrongPassword(m)
  <2> DEFINE s == [cur EXCEPT !.fails = @ + 1]
  <2>1. Handled(m, s, "Not OK") /\ cur.stage = "password" /\ cur.fails + 1 < MAX_ATTEMPTS
    BY <1>6 DEF WrongPassword, HandledOnly
  <2>2. Good(s)
    <3>1. cur.fails + 1 \in 0..MAX_ATTEMPTS
      <4>1. PICK n \in 0..MAX_ATTEMPTS : n = cur.fails
        BY <1>3
      <4>2. n + 1 < MAX_ATTEMPTS
        BY <1>6, <4>1 DEF WrongPassword
      <4>3. n + 1 \in 0..MAX_ATTEMPTS
        BY <1>3, <4>2
      <4> QED BY <4>1, <4>3
    <3>2. cur \in Session /\ (cur.stage # "username" => cur.user \in Users)
      BY <1>1
    <3> HIDE DEF cur
    <3> QED BY <2>1, <3>1, <3>2 DEF Session, Stage
  <2>3. Replies(m, s, "Not OK")
    BY <1>6 DEF Replies
  <2> HIDE DEF s
  <2> QED BY <2>1, <2>2, <2>3 DEF Reply
<1>7. CASE BlockAccount(m)
  <2> DEFINE s == [stage |-> "username", user |-> None, fails |-> MAX_ATTEMPTS]
  <2>1. Handled(m, s, "text")
    BY <1>7 DEF BlockAccount
  <2>2. Good(s)
    BY <1>3 DEF Session, Stage
  <2>3. Replies(m, s, "text")
    BY <1>7 DEF Replies
  <2> HIDE DEF s
  <2> QED BY <2>1, <2>2, <2>3 DEF Reply
<1>8. CASE SignOut(m)
  <2>1. Handled(m, NewSession, "Goodbye") /\ Replies(m, NewSession, "Goodbye")
    BY <1>8 DEF SignOut, HandledOnly, Replies
  <2> QED BY <1>2, <2>1 DEF Reply
<1>9. CASE RefuseName(m) \/ NotReady(m) \/ KeepPassword(m) \/ NewPassword(m)
  <2>1. Handled(m, cur, "text") /\ Replies(m, cur, "text")
    BY <1>9 DEF RefuseName, NotReady, KeepPassword, NewPassword, HandledOnly, Replies
  <2> QED BY <1>1, <2>1 DEF Reply
<1> QED BY <1>4, <1>5, <1>6, <1>7, <1>8, <1>9 DEF HandleLine

(* The accounts and the file after one line.                               *)
LEMMA HandledAccounts ==
    ASSUME TypeInv, NEW m \in requests, HandleLine(m)
    PROVE  /\ accounts' \in [Users -> Account] /\ file' \in [Users -> Account]
           /\ unsaved' \in BOOLEAN /\ faults' \in 0..MAX_FAULTS
<1>0. /\ m.from \in Clients /\ m.line \in Strings
      /\ accounts \in [Users -> Account] /\ file \in [Users -> Account]
      /\ unsaved \in BOOLEAN /\ faults \in 0..MAX_FAULTS /\ MAX_FAULTS \in Nat
  BY FaultsAssumption DEF TypeInv, TypeOK, Request
<1>1. ASSUME accounts' \in [Users -> Account], PersistAccounts
      PROVE  file' \in [Users -> Account] /\ unsaved' \in BOOLEAN /\ faults' \in 0..MAX_FAULTS
  <2>1. faults < MAX_FAULTS => faults + 1 \in 0..MAX_FAULTS
    BY <1>0
  <2>2. CASE file' = accounts' /\ unsaved' = FALSE /\ faults' = faults
    BY <1>0, <1>1, <2>2
  <2>3. CASE Fault /\ file' = file /\ unsaved' = TRUE
    BY <1>0, <2>1, <2>3 DEF Fault
  <2> QED BY <1>1, <2>2, <2>3 DEF PersistAccounts
<1>2. CASE BlockAccount(m)
  <2>1. accounts' \in [Users -> Account]
    BY <1>0, <1>2 DEF BlockAccount, Blocked, Account, Status
  <2> QED BY <1>1, <1>2, <2>1 DEF BlockAccount
<1>3. CASE NewPassword(m)
  <2>1. accounts' = [accounts EXCEPT ![Current(m.from).user].pass = m.line] /\ PersistAccounts
    BY <1>3 DEF NewPassword
  <2>2. accounts' \in [Users -> Account]
    BY <1>0, <2>1 DEF Account
  <2> QED BY <1>1, <2>1, <2>2
<1>4. CASE UNCHANGED <<accounts, file, unsaved, faults>>
  BY <1>0, <1>4
<1> QED BY <1>2, <1>3, <1>4 DEF HandleLine, RefuseName, TakeName, RightPassword, NotReady, WrongPassword,
          SignOut, KeepPassword, HandledOnly

LEMMA TypeInductive == Spec => []TypeInv
<1>1. Init => TypeInv
  <2> SUFFICES ASSUME Init PROVE TypeInv
    OBVIOUS
  <2>1. /\ accounts \in [Users -> Account] /\ file \in [Users -> Account]
        /\ backlog \in Seq(Clients) /\ faults \in 0..MAX_FAULTS
        /\ client \in [Clients -> [at : Prompt, waiting : BOOLEAN]]
    BY SessionFiles, FaultsAssumption, EmptySeq DEF Init, Prompt
  <2>2. 0 \in 0..MAX_ATTEMPTS
    BY NewSessionIn
  <2>3. session = [owner |-> None, stage |-> "username", user |-> None, fails |-> 0]
    BY DEF Init, Bound, NewSession
  <2>4. /\ session \in [owner : Clients \cup {None}, stage : Stage,
                          user : Users \cup {None}, fails : 0..MAX_ATTEMPTS]
        /\ session.stage = "username" /\ session.user = None
    BY <2>2, <2>3 DEF Stage
  <2> QED BY <2>1, <2>4 DEF Init, TypeInv, TypeOK, SessionInv
<1>2. TypeInv /\ [Next]_vars => TypeInv'
  <2> SUFFICES ASSUME TypeInv, [Next]_vars PROVE TypeInv'
    OBVIOUS
  <2>0. /\ client \in [Clients -> [at : Prompt, waiting : BOOLEAN]]
        /\ backlog \in Seq(Clients) /\ requests \subseteq Request /\ answers \subseteq Answer
        /\ MAX_FAULTS \in Nat
    BY FaultsAssumption DEF TypeInv, TypeOK
  <2>1. ASSUME NEW c \in Clients, Start(c) PROVE TypeInv'
    BY <2>1, AppendProperties DEF Start, server, net, history, TypeInv, TypeOK, SessionInv, Prompt
  <2>2. ASSUME NEW c \in Clients, NEW line \in Strings, Type(c, line) PROVE TypeInv'
    <3>1. requests' \subseteq Request
      BY <2>0, <2>2 DEF Type, Request
    <3>2. client' \in [Clients -> [at : Prompt, waiting : BOOLEAN]]
      BY <2>0, <2>2 DEF Type
    <3> QED BY <2>2, <3>1, <3>2 DEF Type, server, history, TypeInv, TypeOK, SessionInv
  <2>3. ASSUME NEW c \in Clients, Stop(c) PROVE TypeInv'
    BY <2>3 DEF Stop, server, net, TypeInv, TypeOK, SessionInv, Prompt
  <2>4. ASSUME NEW c \in Clients, Quit(c) PROVE TypeInv'
    BY <2>4 DEF Quit, server, TypeInv, TypeOK, SessionInv, Prompt
  <2>5. ASSUME NEW a \in answers, ReceiveAnswer(a) PROVE TypeInv'
    <3>1. a.to \in Clients /\ NextPrompt(client[a.to].at, a.reply) \in Prompt
      BY <2>0 DEF Answer, NextPrompt, Prompt
    <3>2. client' = [client EXCEPT ![a.to] = [at |-> NextPrompt(client[a.to].at, a.reply), waiting |-> FALSE]]
      BY <2>5 DEF ReceiveAnswer
    <3>3. client' \in [Clients -> [at : Prompt, waiting : BOOLEAN]]
      BY <2>0, <3>1, <3>2
    <3> QED BY <2>5, <3>3 DEF ReceiveAnswer, server, TypeInv, TypeOK, SessionInv
  <2>6. ASSUME NEW m \in requests, DropRequest(m) PROVE TypeInv'
    BY <2>0, <2>6 DEF DropRequest, Fault, server, TypeInv, TypeOK, SessionInv, Request
  <2>7. ASSUME NEW a \in answers, DropAnswer(a) PROVE TypeInv'
    BY <2>0, <2>7 DEF DropAnswer, Fault, server, TypeInv, TypeOK, SessionInv, Answer
  <2>8. CASE Accept
    <3>1. Head(backlog) \in Clients /\ Tail(backlog) \in Seq(Clients)
      BY <2>0, <2>8, HeadTailProperties DEF Accept
    <3>2. session' = Bound(Head(backlog), NewSession)
      BY <2>8 DEF Accept
    <3> QED BY <2>8, <3>1, <3>2, NewSessionIn, BoundTypes DEF Accept, net, history, TypeInv, TypeOK
  <2>9. ASSUME NEW c \in Clients, HangUp(c) PROVE TypeInv'
    <3>1. session' = Bound(None, NewSession)
      BY <2>9 DEF HangUp
    <3> QED BY <2>9, <3>1, NewSessionIn, BoundTypes DEF HangUp, net, history, TypeInv, TypeOK
  <2>10. ASSUME NEW m \in requests, HandleLine(m) PROVE TypeInv'
    <3>1. PICK s \in Session, reply \in Reply :
             /\ Handled(m, s, reply)
             /\ s.stage # "username" => s.user \in Users /\ s.fails < MAX_ATTEMPTS
             /\ s.stage = "username" => s.user = None
      BY <2>10, HandledTypes
    <3>2. m.from \in Clients /\ m.from # None
      BY <2>0, NewSessionIn DEF Request
    <3>3. session' = Bound(m.from, s)
      BY <3>1 DEF Handled
    <3>4. /\ requests' \subseteq Request /\ answers' \subseteq Answer
      BY <2>0, <3>1, <3>2 DEF Handled, Answer
    <3> QED BY <2>10, <3>1, <3>2, <3>3, <3>4, BoundTypes, HandledAccounts
            DEF HandleLine, history, TypeInv, TypeOK
  <2>11. ASSUME NEW f \in [Users -> Account], NEW gone \in SUBSET requests, Reboot(f, gone)
         PROVE  TypeInv'
    <3>1. session' = Bound(None, NewSession) /\ backlog' = <<>> /\ <<>> \in Seq(Clients)
      BY <2>11, EmptySeq DEF Reboot
    <3>2. /\ client' \in [Clients -> [at : Prompt, waiting : BOOLEAN]]
          /\ requests' \subseteq Request /\ answers' \subseteq Answer
          /\ stopped' \subseteq Clients /\ reused' \subseteq Clients /\ lost' \subseteq Clients
      <4>1. CASE transport = "udp"
        BY <2>0, <2>11, <4>1 DEF Reboot, TypeInv, TypeOK
      <4>2. CASE transport # "udp"
        <5>1. /\ client' = [c \in Clients |-> [at |-> "off", waiting |-> FALSE]]
              /\ requests' = {} /\ answers' = {} /\ stopped' = {} /\ reused' = {} /\ lost' = lost
          BY <2>11, <4>2 DEF Reboot
        <5> QED BY <5>1 DEF Prompt, TypeInv, TypeOK
      <4> QED BY <4>1, <4>2
    <3>3. /\ session' \in [owner : Clients \cup {None}, stage : Stage,
                            user : Users \cup {None}, fails : 0..MAX_ATTEMPTS]
          /\ session'.stage # "username" => session'.user \in Users
          /\ SessionInv'
      BY <3>1, NewSessionIn, BoundTypes
    <3>4. faults' \in 0..MAX_FAULTS
      BY <2>0, <2>11 DEF Reboot, Fault, TypeInv, TypeOK
    <3> QED BY <2>11, <3>1, <3>2, <3>3, <3>4 DEF Reboot, TypeInv, TypeOK
  <2>12. file \in [Users -> Account] /\ [u \in Users |-> NoAccount] \in [Users -> Account]
    BY SessionStrings DEF TypeInv, TypeOK, NoAccount, Account, Status
  <2>13. CASE UNCHANGED vars
    BY <2>13 DEF vars, server, net, history, TypeInv, TypeOK, SessionInv
  <2> QED
    BY <2>1, <2>2, <2>3, <2>4, <2>5, <2>6, <2>7, <2>8, <2>9, <2>10, <2>11, <2>12, <2>13
    DEF Next, Client, Network, Server, Crash, CrashInSave
<1> QED BY <1>1, <1>2, PTL DEF Spec

(* Neither the lines of a client nor a lost datagram, a failed save or a   *)
(* crash takes a variable out of its range; who waits for a password names *)
(* an account.                                                             *)
THEOREM TypeCorrect == Spec => []TypeOK
<1>1. TypeInv => TypeOK
  BY DEF TypeInv
<1> QED BY <1>1, TypeInductive, PTL

----
Connected(c) == client[c].at # "off"
Waits(c) == client[c].waiting

(* A connected client has at most one line or one answer under way, and    *)
(* none unless it waits; to one that is off nothing is sent.               *)
NetInv ==
    /\ \A m, n \in requests : m.from = n.from => m = n
    /\ \A a, b \in answers : a.to = b.to => a = b
    /\ \A m \in requests, a \in answers : m.from # a.to
    /\ \A m \in requests : Connected(m.from) => Waits(m.from)
    /\ \A a \in answers : Connected(a.to) /\ Waits(a.to)

(* Client c is at one of the prompts in P, or will be when it has read the *)
(* answer that is under way.                                               *)
ComesTo(c, P) ==
    /\ ~Waits(c) => client[c].at \in P
    /\ \A m \in requests : m.from = c => client[c].at \in P
    /\ \A a \in answers : a.to = c => NextPrompt(client[c].at, a.reply) \in P

(* Those whose prompt has nothing to do with their session.                *)
Excused == stopped \cup reused

(* HW4 and HW5: who is logged in is at the prompt for commands, except     *)
(* after an empty line, or at an address that was another's.               *)
LoggedInInv ==
    \A c \in Clients :
        session.owner = c /\ session.stage = "loggedin" /\ Connected(c) /\ c \notin Excused =>
            ComesTo(c, {"command"})

(* The prompts that fit the session: with an account that is not ready the *)
(* client may ask for a name while the server waits for a password.        *)
Fitting ==
    IF session.stage = "loggedin" THEN {"command"}
    ELSE IF session.user # None /\ accounts[session.user].status = "notready"
         THEN {"username", "password"}
         ELSE {session.stage}

(* HW5: one connection at a time is served, the others are at the prompt   *)
(* for the name and have no answer; the account of the session is one that *)
(* takes logins; and a connection is nobody else's.                        *)
PromptInv ==
    transport = "tcp" =>
        /\ reused = {}
        /\ session.stage = "password" => accounts[session.user].status \in {"active", "notready"}
        /\ session.stage = "loggedin" => accounts[session.user].status = "active"
        /\ \A c \in Clients : Connected(c) /\ session.owner # c =>
              client[c].at = "username" /\ \A a \in answers : a.to # c
        /\ \A c \in Clients : Connected(c) /\ session.owner = c /\ c \notin Excused =>
              ComesTo(c, Fitting)

(* The steps of the clients and of the network.                            *)
Outside ==
    \/ \E c \in Clients : Client(c)
    \/ \E a \in answers : ReceiveAnswer(a)
    \/ Network

LEMMA OutsideLeavesServer == Outside => UNCHANGED <<server, transport>>
BY DEF Outside, Client, Start, Stop, Quit, Type, ReceiveAnswer, Network, DropRequest, DropAnswer

LEMMA NetTypes ==
    ASSUME TypeInv
    PROVE  /\ client \in [Clients -> [at : Prompt, waiting : BOOLEAN]]
           /\ \A m \in requests : m \in Request /\ m.from \in Clients /\ m.line \in Strings
           /\ \A a \in answers : a \in Answer /\ a.to \in Clients
BY DEF TypeInv, TypeOK, Request, Answer

LEMMA NextPrompts ==
    /\ \A at : NextPrompt(at, "OK") = "command"
    /\ NextPrompt("command", "Goodbye") = "username" /\ NextPrompt("command", "text") = "command"
    /\ \A at \in {"username", "password"} :
          NextPrompt(at, "Not OK") = "password" /\ NextPrompt(at, "text") = "username"
    /\ NextPrompt("username", "Insert password") = "password"
BY DEF NextPrompt

LEMMA NetInductive == Spec => []NetInv
<1> USE DEF Connected, Waits
<1>1. Init => NetInv
  BY DEF Init, NetInv
<1>2. TypeInv /\ NetInv /\ [Next]_vars => NetInv'
  <2> SUFFICES ASSUME TypeInv, NetInv, [Next]_vars PROVE NetInv'
    OBVIOUS
  <2>0. /\ client \in [Clients -> [at : Prompt, waiting : BOOLEAN]]
        /\ \A m \in requests : m.from \in Clients
        /\ \A a \in answers : a.to \in Clients
    BY NetTypes
  <2>1. ASSUME NEW c \in Clients, Start(c) PROVE NetInv'
    <3>1. /\ client'[c] = [at |-> "username", waiting |-> FALSE]
          /\ \A d \in Clients \ {c} : client'[d] = client[d]
          /\ UNCHANGED <<requests, answers>>
          /\ \A m \in requests : m.from # c
          /\ client[c].at = "off"
      BY <2>0, <2>1 DEF Start, Unused, net
    <3> QED BY <2>0, <3>1 DEF NetInv
  <2>2. ASSUME NEW c \in Clients, NEW line \in Strings, Type(c, line) PROVE NetInv'
    <3>1. /\ client'[c].at = client[c].at /\ client'[c].waiting = TRUE
          /\ \A d \in Clients \ {c} : client'[d] = client[d]
          /\ requests' = requests \cup {[from |-> c, line |-> line]} /\ answers' = answers
          /\ client[c].at # "off" /\ ~client[c].waiting
      BY <2>0, <2>2 DEF Type
    <3>2. (\A m \in requests : m.from # c) /\ (\A a \in answers : a.to # c)
      BY <3>1 DEF NetInv
    <3> QED BY <2>0, <3>1, <3>2 DEF NetInv
  <2>3. ASSUME NEW c \in Clients, Stop(c) PROVE NetInv'
    <3>1. /\ client'[c].at # "off" /\ client'[c].waiting = client[c].waiting /\ client[c].at # "off"
          /\ \A d \in Clients \ {c} : client'[d] = client[d]
          /\ UNCHANGED <<requests, answers>>
      BY <2>0, <2>3 DEF Stop, net
    <3> QED BY <2>0, <3>1 DEF NetInv
  <2>4. ASSUME NEW c \in Clients, Quit(c) PROVE NetInv'
    <3>1. /\ client'[c].at = "off"
          /\ \A d \in Clients \ {c} : client'[d] = client[d]
          /\ requests' = requests /\ answers' = {a \in answers : a.to # c}
      BY <2>0, <2>4 DEF Quit
    <3> QED BY <2>0, <3>1 DEF NetInv
  <2>5. ASSUME NEW a \in answers, ReceiveAnswer(a) PROVE NetInv'
    <3>1. /\ \A d \in Clients \ {a.to} : client'[d] = client[d]
          /\ requests' = requests /\ answers' = answers \ {a}
      BY <2>0, <2>5 DEF ReceiveAnswer
    <3>2. (\A m \in requests : m.from # a.to) /\ (\A b \in answers' : b.to # a.to)
      BY <3>1 DEF NetInv
    <3> QED BY <2>0, <3>1, <3>2 DEF NetInv
  <2>6. ASSUME Network PROVE NetInv'
    <3>1. client' = client /\ requests' \subseteq requests /\ answers' \subseteq answers
      BY <2>6 DEF Network, DropRequest, DropAnswer
    <3> QED BY <3>1 DEF NetInv
  <2>7. ASSUME NEW m \in requests, HandleLine(m) PROVE NetInv'
    <3>1. PICK s \in Session, reply \in Reply : Handled(m, s, reply)
      BY <2>7, HandledTypes
    <3>2. client' = client /\ requests' = requests \ {m}
      BY <2>7, <3>1 DEF HandleLine, Handled
    <3>3. CASE answers' = answers
      BY <3>2, <3>3 DEF NetInv
    <3>4. CASE client[m.from].at # "off" /\ answers' = answers \cup {[to |-> m.from, reply |-> reply]}
      <4>1. /\ \A a \in answers : a.to # m.from
            /\ \A n \in requests' : n.from # m.from
            /\ client[m.from].waiting
        BY <3>2, <3>4 DEF NetInv
      <4> QED BY <3>2, <3>4, <4>1 DEF NetInv
    <3> QED BY <3>1, <3>3, <3>4 DEF Handled
  <2>8. CASE Crash \/ \E m \in requests : CrashInSave(m)
    <3>1. PICK f \in {file, [u \in Users |-> NoAccount]} : \E gone \in SUBSET requests : Reboot(f, gone)
      BY <2>8 DEF Crash, CrashInSave
    <3>2. CASE transport = "udp"
      BY <3>1, <3>2 DEF Reboot, NetInv
    <3>3. CASE transport # "udp"
      BY <3>1, <3>3 DEF Reboot, NetInv
    <3> QED BY <3>2, <3>3
  <2>9. CASE Accept \/ (\E c \in Clients : HangUp(c)) \/ UNCHANGED vars
    BY <2>9 DEF Accept, HangUp, vars, net, NetInv
  <2> QED
    BY <2>1, <2>2, <2>3, <2>4, <2>5, <2>6, <2>7, <2>8, <2>9 DEF Next, Client, Server
<1> QED BY <1>1, <1>2, TypeInductive, PTL DEF Spec

(* Whatever the clients and the network do, a client that is served and    *)
(* stays comes to the same prompts.                                        *)
LEMMA ComesToStays ==
    ASSUME TypeInv, NetInv, Outside, NEW c \in Clients,
           session.owner = c, Connected(c)', c \notin Excused'
    PROVE  /\ Connected(c) /\ c \notin Excused
           /\ \A P : ComesTo(c, P) => ComesTo(c, P)'
<1> USE DEF Connected, Waits
<1>0. /\ client \in [Clients -> [at : Prompt, waiting : BOOLEAN]]
      /\ \A m \in requests : m.from \in Clients
      /\ \A a \in answers : a.to \in Clients
  BY NetTypes
<1>1. ASSUME client'[c] = client[c], c \in Excused => c \in Excused',
             \A m \in requests' : m.from = c => m \in requests,
             \A a \in answers' : a \in answers
      PROVE  /\ Connected(c) /\ c \notin Excused
             /\ \A P : ComesTo(c, P) => ComesTo(c, P)'
  BY <1>1 DEF ComesTo
<1>2. ASSUME NEW d \in Clients, Start(d) \/ Stop(d) \/ Quit(d)
      PROVE  /\ Connected(c) /\ c \notin Excused
             /\ \A P : ComesTo(c, P) => ComesTo(c, P)'
  <2>1. d # c
    BY <1>0, <1>2 DEF Start, Stop, Quit, Excused
  <2>2. /\ client'[c] = client[c] /\ (c \in Excused => c \in Excused')
        /\ requests' = requests /\ answers' \subseteq answers
    BY <1>0, <1>2, <2>1 DEF Start, Stop, Quit, net, Excused
  <2> QED BY <1>1, <2>2
<1>3. ASSUME NEW d \in Clients, NEW line \in Strings, Type(d, line)
      PROVE  /\ Connected(c) /\ c \notin Excused
             /\ \A P : ComesTo(c, P) => ComesTo(c, P)'
  <2>1. /\ requests' = requests \cup {[from |-> d, line |-> line]} /\ answers' = answers
        /\ Excused' = Excused /\ client[d].at # "off" /\ ~client[d].waiting
        /\ client' = [client EXCEPT ![d].waiting = TRUE]
    BY <1>3 DEF Type, history, Excused
  <2>2. CASE d # c
    BY <1>0, <1>1, <2>1, <2>2
  <2>3. CASE d = c
    <3>1. client'[c].at = client[c].at /\ client'[c].waiting = TRUE /\ ~client[c].waiting
      BY <1>0, <2>1, <2>3
    <3> QED BY <2>1, <2>3, <3>1 DEF ComesTo
  <2> QED BY <2>2, <2>3
<1>4. ASSUME NEW a \in answers, ReceiveAnswer(a)
      PROVE  /\ Connected(c) /\ c \notin Excused
             /\ \A P : ComesTo(c, P) => ComesTo(c, P)'
  <2>1. /\ requests' = requests /\ answers' = answers \ {a} /\ Excused' = Excused
        /\ client' = [client EXCEPT ![a.to] =
                        [at |-> NextPrompt(client[a.to].at, a.reply), waiting |-> FALSE]]
    BY <1>4 DEF ReceiveAnswer, Excused
  <2>2. CASE a.to # c
    BY <1>0, <1>1, <2>1, <2>2
  <2>3. CASE a.to = c
    <3>1. client'[c].at = NextPrompt(client[c].at, a.reply) /\ client'[c].waiting = FALSE
      BY <1>0, <2>1, <2>3
    <3>2. (\A m \in requests : m.from # c) /\ (\A b \in answers' : b.to # c) /\ client[c].at # "off"
      BY <2>1, <2>3 DEF NetInv
    <3> QED BY <2>1, <2>3, <3>1, <3>2 DEF ComesTo
  <2> QED BY <2>2, <2>3
<1>5. CASE Network
  BY <1>1, <1>5 DEF Network, DropRequest, DropAnswer, Excused
<1> QED BY <1>2, <1>3, <1>4, <1>5 DEF Outside, Client

(* When its line is handled, the client is at its prompt, and the answer   *)
(* takes it to the next.                                                   *)
LEMMA ComesToHandled ==
    ASSUME TypeInv, NetInv, NEW m \in requests, NEW s, NEW reply,
           Handled(m, s, reply), client' = client, Connected(m.from)
    PROVE  /\ \A P : ComesTo(m.from, P) => client[m.from].at \in P
           /\ \A P : NextPrompt(client[m.from].at, reply) \in P => ComesTo(m.from, P)'
<1> USE DEF Connected, Waits
<1>1. /\ requests' = requests \ {m}
      /\ answers' = answers \cup {[to |-> m.from, reply |-> reply]}
  BY DEF Handled
<1>2. /\ client[m.from].waiting
      /\ \A n \in requests' : n.from # m.from
      /\ \A a \in answers : a.to # m.from
  BY <1>1 DEF NetInv
<1> QED BY <1>1, <1>2 DEF ComesTo

LEMMA LoggedInInductive == Spec => []LoggedInInv
<1>1. Init => LoggedInInv
  BY NewSessionIn DEF Init, LoggedInInv, Bound
<1>2. TypeInv /\ NetInv /\ LoggedInInv /\ [Next]_vars => LoggedInInv'
  <2> SUFFICES ASSUME TypeInv, NetInv, LoggedInInv, [Next]_vars PROVE LoggedInInv'
    OBVIOUS
  <2>1. CASE Outside
    <3>1. session' = session
      BY <2>1, OutsideLeavesServer DEF server
    <3> QED BY <2>1, <3>1, ComesToStays DEF LoggedInInv
  <2>2. CASE Accept \/ (\E c \in Clients : HangUp(c)) \/ Crash \/ (\E m \in requests : CrashInSave(m))
    <3>1. \E c : session' = Bound(c, NewSession)
      BY <2>2 DEF Accept, HangUp, Crash, CrashInSave, Reboot
    <3>2. session'.stage = "username"
      BY <3>1, NewSessionIn DEF Bound
    <3> QED BY <3>2 DEF LoggedInInv
  <2>3. ASSUME NEW m \in requests, HandleLine(m) PROVE LoggedInInv'
    <3>1. PICK s \in Session, reply \in Reply : Replies(m, s, reply) /\ Handled(m, s, reply)
      BY <2>3, HandledTypes
    <3>2. client' = client /\ Excused' = Excused /\ m.from \in Clients
      BY <2>3, NetTypes DEF HandleLine, history, Excused
    <3>3. session'.owner = m.from /\ session'.stage = s.stage
      BY <3>1 DEF Handled, Bound
    <3> SUFFICES ASSUME s.stage = "loggedin", Connected(m.from), m.from \notin Excused
                 PROVE  ComesTo(m.from, {"command"})'
      BY <3>2, <3>3 DEF LoggedInInv, Connected
    <3>4. NextPrompt(client[m.from].at, reply) = "command"
      <4>1. CASE reply = "OK"
        BY <4>1, NextPrompts
      <4>2. CASE reply = "text" /\ s = Current(m.from)
        <5>1. session.owner = m.from /\ session.stage = "loggedin"
          BY <3>2, <4>2, CurrentIn
        <5>2. ComesTo(m.from, {"command"})
          BY <3>2, <5>1 DEF LoggedInInv
        <5>3. client[m.from].at = "command"
          BY <3>1, <3>2, <5>2, ComesToHandled
        <5> QED BY <4>2, <5>3, NextPrompts
      <4>3. CASE WrongPassword(m) /\ s = [Current(m.from) EXCEPT !.fails = @ + 1]
        <5>1. s.stage = Current(m.from).stage
          BY <3>2, <4>3, CurrentIn DEF Session
        <5> QED BY <4>3, <5>1 DEF WrongPassword
      <4>4. CASE \/ s = [stage |-> "password", user |-> m.line, fails |-> 0]
                 \/ s = [stage |-> "username", user |-> None, fails |-> MAX_ATTEMPTS]
                 \/ s = NewSession
        BY <4>4, NewSessionIn
      <4> QED BY <3>1, <4>1, <4>2, <4>3, <4>4 DEF Replies
    <3> QED BY <3>1, <3>2, <3>4, ComesToHandled
  <2>4. CASE UNCHANGED vars
    BY <2>4 DEF vars, server, net, history, LoggedInInv, Connected, ComesTo, Waits, Excused
  <2> QED BY <2>1, <2>2, <2>3, <2>4 DEF Next, Outside, Server
<1> QED BY <1>1, <1>2, TypeInductive, NetInductive, PTL DEF Spec

(* No client of HW4 or HW5 gets a new password by accident: the line that  *)
(* becomes one was typed where the user was asked for a command, or after  *)
(* an empty line, or at the address of an earlier client whose session the *)
(* server goes on with.                                                    *)
THEOREM PasswordsAreMeant == Spec => NoStrayPassword
<1> DEFINE Meant == ReplacedOnly
<1>1. TypeInv /\ NetInv /\ LoggedInInv /\ [Next]_vars => [Meant]_vars
  <2> SUFFICES ASSUME TypeInv, NetInv, LoggedInInv, [Next]_vars PROVE Meant
    OBVIOUS
  <2>1. CASE accounts' = accounts
    BY <2>1 DEF ReplacedOnly
  <2>2. CASE session'.owner = None
    BY <2>2 DEF ReplacedOnly
  <2>3. ASSUME NEW m \in requests, HandleLine(m) PROVE Meant
    <3>1. /\ m.from \in Clients /\ accounts \in [Users -> Account]
      BY NetTypes DEF TypeInv, TypeOK
    <3>2. CASE BlockAccount(m)
      <4>1. accounts' = [accounts EXCEPT ![Current(m.from).user] = Blocked(@)]
        BY <3>2 DEF BlockAccount
      <4>2. \A u \in Users : accounts'[u].pass = accounts[u].pass
        BY <3>1, <4>1 DEF Blocked, Account
      <4> QED BY <4>2 DEF ReplacedOnly
    <3>3. CASE NewPassword(m)
      <4>1. /\ accounts' = [accounts EXCEPT ![Current(m.from).user].pass = m.line]
            /\ Current(m.from).stage = "loggedin" /\ session' = Bound(m.from, Current(m.from))
        BY <3>3 DEF NewPassword, Changes, Handled
      <4>2. \A u \in Users : accounts'[u].pass # accounts[u].pass => accounts'[u].pass = m.line
        BY <3>1, <4>1 DEF Account
      <4>3. session'.owner = m.from /\ session.owner = m.from /\ session.stage = "loggedin"
        BY <3>1, <4>1, CurrentIn DEF Bound
      <4>4. ASSUME Connected(m.from), m.from \notin Excused PROVE client[m.from].at = "command"
        BY <3>1, <4>3, <4>4 DEF LoggedInInv, ComesTo
      <4> QED BY <4>2, <4>3, <4>4 DEF Connected, ReplacedOnly, Excused
    <3>4. CASE accounts' = accounts
      BY <3>4 DEF ReplacedOnly
    <3> QED BY <2>3, <3>2, <3>3, <3>4
       DEF HandleLine, RefuseName, TakeName, RightPassword, NotReady, WrongPassword, SignOut,
           KeepPassword, HandledOnly
  <2>4. (\E c \in Clients : HangUp(c)) \/ Accept \/ Outside \/ UNCHANGED vars => accounts' = accounts
    BY OutsideLeavesServer DEF HangUp, Accept, server, vars
  <2>5. Crash \/ (\E m \in requests : CrashInSave(m)) => session'.owner = None
    BY DEF Crash, CrashInSave, Reboot, Bound
  <2> HIDE DEF Meant
  <2> QED BY <2>1, <2>2, <2>3, <2>4, <2>5 DEF Next, Outside, Server
<1> QED BY <1>1, TypeInductive, NetInductive, LoggedInInductive, PTL DEF Spec, NoStrayPassword

----
(* Only BlockAccount changes the status of an account.                     *)
LEMMA StatusKept ==
    ASSUME TypeInv, NEW m \in requests, HandleLine(m)
    PROVE  BlockAccount(m) \/ \A u \in Users : accounts'[u].status = accounts[u].status
<1>1. accounts \in [Users -> Account]
  BY DEF TypeInv, TypeOK
<1>2. CASE NewPassword(m)
  <2>1. accounts' = [accounts EXCEPT ![Current(m.from).user].pass = m.line]
    BY <1>2 DEF NewPassword
  <2> QED BY <1>1, <2>1 DEF Account
<1>3. CASE accounts' = accounts
  BY <1>3
<1> QED BY <1>2, <1>3 DEF HandleLine, RefuseName, TakeName, RightPassword, NotReady, WrongPassword,
          SignOut, KeepPassword, HandledOnly

(* TCP: the line is one of the session, and the answer takes its client to *)
(* a prompt that fits what the session is then.                            *)
LEMMA PromptHandled ==
    ASSUME TypeInv, PromptInv, transport = "tcp", NEW m \in requests, HandleLine(m),
           NEW s \in Session, NEW reply, Replies(m, s, reply), Handled(m, s, reply)
    PROVE  /\ session.owner = m.from /\ session'.owner = m.from
           /\ session'.stage = "password" =>
                accounts'[session'.user].status \in {"active", "notready"}
           /\ session'.stage = "loggedin" => accounts'[session'.user].status = "active"
           /\ client[m.from].at \in Fitting => NextPrompt(client[m.from].at, reply) \in Fitting'
<1> DEFINE cur == Current(m.from)
           at == client[m.from].at
<1>1. /\ session.owner = m.from /\ m.from \in Clients
      /\ session'.owner = m.from /\ session'.stage = s.stage /\ session'.user = s.user
  BY NetTypes DEF HandleLine, InHand, Handled, Bound
<1>2. /\ cur.stage = session.stage /\ cur.user = session.user /\ cur \in Session
      /\ session.stage \in Stage
      /\ session.stage = "username" => session.user = None
      /\ session.stage # "username" => session.user \in Users /\ session.user # None
      /\ accounts \in [Users -> Account]
  BY <1>1, CurrentIn, NewSessionIn DEF Current, TypeInv, TypeOK, SessionInv
<1>3. /\ session.stage = "password" => accounts[session.user].status \in {"active", "notready"}
      /\ session.stage = "loggedin" => accounts[session.user].status = "active"
  BY DEF PromptInv
<1>4. /\ session.stage = "username" => Fitting = {"username"}
      /\ session.stage = "loggedin" => Fitting = {"command"}
      /\ session.stage = "password" => Fitting \subseteq {"username", "password"} /\ "password" \in Fitting
      /\ session.stage = "password" /\ accounts[session.user].status = "notready" =>
            Fitting = {"username", "password"}
  BY <1>2 DEF Fitting, Stage
<1>5. /\ session'.stage = "username" /\ session'.user = None => Fitting' = {"username"}
      /\ session'.stage = "loggedin" => Fitting' = {"command"}
      /\ session'.stage = "password" => "password" \in Fitting'
  BY DEF Fitting
<1> DEFINE Done == /\ session'.stage = "password" =>
                        accounts'[session'.user].status \in {"active", "notready"}
                   /\ session'.stage = "loggedin" => accounts'[session'.user].status = "active"
                   /\ at \in Fitting => NextPrompt(at, reply) \in Fitting'
<1>6. ASSUME s = cur, \A u \in Users : accounts'[u].status = accounts[u].status
      PROVE  /\ session'.stage = session.stage /\ session'.user = session.user /\ Fitting' = Fitting
             /\ session'.stage = "password" =>
                  accounts'[session'.user].status \in {"active", "notready"}
             /\ session'.stage = "loggedin" => accounts'[session'.user].status = "active"
  BY <1>1, <1>2, <1>3, <1>6 DEF Fitting
<1> HIDE DEF cur, at
<1>7. CASE RefuseName(m) /\ s = cur /\ reply = "text"
  <2>1. session.stage = "username" /\ accounts' = accounts
    BY <1>2, <1>7 DEF RefuseName, HandledOnly, cur
  <2> QED BY <1>1, <1>4, <1>6, <1>7, <2>1, NextPrompts DEF at
<1>8. CASE /\ TakeName(m) /\ s = [stage |-> "password", user |-> m.line, fails |-> 0]
           /\ reply = "Insert password"
  <2>1. session.stage = "username" /\ accounts' = accounts /\ Admits(accounts, m.line)
    BY <1>2, <1>8 DEF TakeName, HandledOnly, cur
  <2>2. accounts[m.line].status \in {"active", "notready"}
    BY <1>2, <2>1 DEF Admits, Known, Account, Status
  <2>3. session'.stage = "password" /\ session'.user = m.line
    BY <1>1, <1>8
  <2> QED BY <1>1, <1>4, <1>5, <1>8, <2>1, <2>2, <2>3, NextPrompts DEF at
<1>9. CASE RightPassword(m) /\ s = [cur EXCEPT !.stage = "loggedin"] /\ reply = "OK"
  <2>1. accounts' = accounts /\ accounts[cur.user].status = "active"
    BY <1>9 DEF RightPassword, HandledOnly, Mine, cur
  <2>2. session'.stage = "loggedin" /\ session'.user = cur.user
    BY <1>1, <1>2, <1>9 DEF Session
  <2> QED BY <1>1, <1>5, <1>9, <2>1, <2>2, NextPrompts DEF at
<1>10. CASE NotReady(m) /\ s = cur /\ reply = "text"
  <2>1. /\ session.stage = "password" /\ accounts' = accounts
        /\ accounts[session.user].status # "active"
    BY <1>2, <1>10 DEF NotReady, HandledOnly, Mine, cur
  <2>2. Fitting = {"username", "password"}
    BY <1>3, <1>4, <2>1
  <2> QED BY <1>1, <1>6, <1>10, <2>1, <2>2, NextPrompts DEF at
<1>11. CASE WrongPassword(m) /\ s = [cur EXCEPT !.fails = @ + 1] /\ reply = "Not OK"
  <2>1. session.stage = "password" /\ accounts' = accounts
    BY <1>2, <1>11 DEF WrongPassword, HandledOnly, cur
  <2>2. session'.stage = "password" /\ session'.user = session.user
    BY <1>1, <1>2, <1>11, <2>1 DEF Session
  <2>3. at \in Fitting => at \in {"username", "password"}
    BY <1>4, <2>1
  <2> QED BY <1>1, <1>3, <1>5, <1>11, <2>1, <2>2, <2>3, NextPrompts DEF at
<1>12. CASE /\ BlockAccount(m) /\ s = [stage |-> "username", user |-> None, fails |-> MAX_ATTEMPTS]
            /\ reply = "text"
  <2>1. session.stage = "password"
    BY <1>2, <1>12 DEF BlockAccount, Blocks, cur
  <2>2. session'.stage = "username" /\ session'.user = None
    BY <1>1, <1>12
  <2>3. at \in Fitting => at \in {"username", "password"}
    BY <1>4, <2>1
  <2> QED BY <1>1, <1>5, <1>12, <2>2, <2>3, NextPrompts DEF at
<1>13. CASE SignOut(m) /\ s = NewSession /\ reply = "Goodbye"
  <2>1. session.stage = "loggedin"
    BY <1>2, <1>13 DEF SignOut, cur
  <2>2. session'.stage = "username" /\ session'.user = None
    BY <1>1, <1>13, NewSessionIn
  <2> QED BY <1>1, <1>4, <1>5, <1>13, <2>1, <2>2, NextPrompts DEF at
<1>14. CASE (KeepPassword(m) \/ NewPassword(m)) /\ s = cur /\ reply = "text"
  <2>1. session.stage = "loggedin"
    BY <1>2, <1>14 DEF KeepPassword, NewPassword, Changes, cur
  <2>2. \A u \in Users : accounts'[u].status = accounts[u].status
    <3>1. ~BlockAccount(m)
      BY <1>2, <2>1 DEF BlockAccount, Blocks, cur
    <3> QED BY <3>1, StatusKept
  <2> QED BY <1>1, <1>4, <1>6, <1>14, <2>1, <2>2, NextPrompts DEF at
<1> QED BY <1>7, <1>8, <1>9, <1>10, <1>11, <1>12, <1>13, <1>14 DEF Replies, cur

LEMMA PromptInductive == Spec => []PromptInv
<1>1. Init => PromptInv
  BY NewSessionIn DEF Init, PromptInv, Bound, Connected
<1>2. TypeInv /\ NetInv /\ PromptInv /\ [Next]_vars => PromptInv'
  <2> SUFFICES ASSUME TypeInv, NetInv, PromptInv, [Next]_vars, transport = "tcp", transport' = transport
               PROVE  PromptInv'
    BY DEF PromptInv, Next, Client, Start, Stop, Quit, Type, ReceiveAnswer, Network, DropRequest,
           DropAnswer, Server, Accept, HangUp, HandleLine, Crash, CrashInSave, Reboot, vars
  <2>0. /\ client \in [Clients -> [at : Prompt, waiting : BOOLEAN]]
        /\ \A a \in answers : a.to \in Clients
    BY NetTypes
  (* Steps of the clients: the session is the same.                        *)
  <2>1. CASE Outside
    <3>1. session' = session /\ accounts' = accounts /\ Fitting' = Fitting
      BY <2>1, OutsideLeavesServer DEF server, Fitting
    <3>2. ASSUME NEW c \in Clients, Connected(c)', session.owner # c
          PROVE  client'[c].at = "username" /\ \A a \in answers' : a.to # c
      <4>1. ASSUME NEW d \in Clients, Start(d)
            PROVE  client'[c].at = "username" /\ \A a \in answers' : a.to # c
        <5>1. /\ client'[d].at = "username" /\ client[d].at = "off" /\ answers' = answers
              /\ \A e \in Clients \ {d} : client'[e] = client[e]
          BY <2>0, <4>1 DEF Start, Unused, net
        <5> QED BY <3>2, <5>1 DEF PromptInv, NetInv, Connected
      <4>2. ASSUME NEW d \in Clients, Stop(d) \/ Quit(d) \/ \E line \in Strings : Type(d, line)
            PROVE  client'[c].at = "username" /\ \A a \in answers' : a.to # c
        <5>1. /\ client'[d].at \in {"username", "off", client[d].at}
              /\ client'[d].at = "off" \/ client[d].at # "off"
              /\ \A e \in Clients \ {d} : client'[e] = client[e]
              /\ answers' \subseteq answers
          BY <2>0, <4>2 DEF Stop, Quit, Type, net
        <5>2. Connected(c)
          BY <3>2, <5>1 DEF Connected
        <5> QED BY <3>2, <5>1, <5>2 DEF PromptInv, Connected
      <4>3. ASSUME NEW a \in answers, ReceiveAnswer(a)
            PROVE  client'[c].at = "username" /\ \A b \in answers' : b.to # c
        <5>1. /\ \A d \in Clients \ {a.to} : client'[d] = client[d]
              /\ answers' \subseteq answers /\ Connected(a.to) /\ a.to \in Clients
          BY <2>0, <4>3 DEF ReceiveAnswer, NetInv
        <5>2. a.to # c
          BY <3>2, <5>1 DEF PromptInv
        <5> QED BY <3>2, <5>1, <5>2 DEF PromptInv, Connected
      <4>4. ~Network
        BY DEF Network, DropRequest, DropAnswer
      <4> QED BY <2>1, <4>1, <4>2, <4>3, <4>4 DEF Outside, Client
    <3>3. ASSUME NEW c \in Clients, Connected(c)', session.owner = c, c \notin Excused'
          PROVE  ComesTo(c, Fitting)'
      <4>1. Connected(c) /\ c \notin Excused /\ \A P : ComesTo(c, P) => ComesTo(c, P)'
        BY <2>1, <3>3, ComesToStays
      <4>2. ComesTo(c, Fitting)
        BY <3>3, <4>1 DEF PromptInv
      <4> QED BY <3>1, <4>1, <4>2 DEF ComesTo
    <3>4. reused' = {}
      BY <2>1 DEF Outside, Client, Start, Unused, Stop, Quit, Type, ReceiveAnswer, Network,
                  DropRequest, DropAnswer, history, PromptInv
    <3> QED BY <3>1, <3>2, <3>3, <3>4 DEF PromptInv
  (* The next connection: its client is at the prompt for the name.        *)
  <2>2. CASE Accept
    <3>1. /\ session'.owner = Head(backlog) /\ session'.stage = "username" /\ session'.user = None
          /\ session.owner = None /\ UNCHANGED <<client, requests, answers, stopped, reused>>
      BY <2>2, NewSessionIn DEF Accept, Bound, net, history
    <3>2. \A c \in Clients : Connected(c) => client[c].at = "username" /\ \A a \in answers : a.to # c
      BY <3>1, NewSessionIn DEF PromptInv
    <3>3. Fitting' = {"username"}
      BY <3>1 DEF Fitting
    <3> QED BY <3>1, <3>2, <3>3 DEF PromptInv, ComesTo, Connected, Waits, Excused
  <2>3. ASSUME NEW d \in Clients, HangUp(d) PROVE PromptInv'
    <3>1. /\ session'.owner = None /\ session'.stage = "username" /\ client[d].at = "off"
          /\ session.owner = d /\ UNCHANGED <<client, requests, answers, stopped, reused>>
      BY <2>3, NewSessionIn DEF HangUp, Bound, net, history
    <3> QED BY <3>1, NewSessionIn DEF PromptInv, Connected
  <2>4. ASSUME NEW m \in requests, HandleLine(m) PROVE PromptInv'
    <3>1. PICK s \in Session, reply \in Reply : Replies(m, s, reply) /\ Handled(m, s, reply)
      BY <2>4, HandledTypes
    <3>2. /\ session.owner = m.from /\ session'.owner = m.from
          /\ session'.stage = "password" =>
                accounts'[session'.user].status \in {"active", "notready"}
          /\ session'.stage = "loggedin" => accounts'[session'.user].status = "active"
          /\ client[m.from].at \in Fitting => NextPrompt(client[m.from].at, reply) \in Fitting'
      BY <2>4, <3>1, PromptHandled
    <3>3. client' = client /\ Excused' = Excused /\ reused' = reused /\ m.from \in Clients
      BY <2>4, NetTypes DEF HandleLine, history, Excused
    <3>4. \A a \in answers' : a \in answers \/ a.to = m.from
      BY <3>1 DEF Handled
    <3>5. ASSUME Connected(m.from), m.from \notin Excused PROVE ComesTo(m.from, Fitting)'
      <4>1. ComesTo(m.from, Fitting)
        BY <3>2, <3>3, <3>5 DEF PromptInv
      <4>2. client[m.from].at \in Fitting
        BY <3>1, <3>3, <3>5, <4>1, ComesToHandled
      <4>3. \A P : NextPrompt(client[m.from].at, reply) \in P => ComesTo(m.from, P)'
        BY <3>1, <3>3, <3>5, ComesToHandled
      <4>4. NextPrompt(client[m.from].at, reply) \in Fitting'
        BY <3>2, <4>2
      <4> QED BY <4>3, <4>4 DEF ComesTo
    <3> QED BY <3>2, <3>3, <3>4, <3>5 DEF PromptInv, Connected
  <2>5. CASE Crash \/ \E m \in requests : CrashInSave(m)
    <3>1. /\ session'.stage = "username" /\ reused' = {}
          /\ client' = [c \in Clients |-> [at |-> "off", waiting |-> FALSE]]
      BY <2>5, NewSessionIn DEF Crash, CrashInSave, Reboot, Bound
    <3> QED BY <3>1 DEF PromptInv, Connected
  <2>6. CASE UNCHANGED vars
    BY <2>6 DEF vars, server, net, history, PromptInv, Connected, ComesTo, Waits, Fitting, Excused
  <2> QED BY <2>1, <2>2, <2>3, <2>4, <2>5, <2>6 DEF Next, Outside, Server
<1> QED BY <1>1, <1>2, TypeInductive, NetInductive, PTL DEF Spec

(* HW5: the prompts of the client and the stages of the server, each kept  *)
(* by a program of its own, never part.                                    *)
THEOREM PromptsAgree == Spec => []PromptAgrees
<1>1. TypeInv /\ PromptInv => PromptAgrees
  <2> SUFFICES ASSUME TypeInv, PromptInv, transport = "tcp", NEW c \in Clients, session.owner = c,
                      c \notin stopped, client[c].at # "off", ~client[c].waiting,
                      session.user # None => accounts[session.user].status # "notready"
               PROVE  client[c].at = IF session.stage = "loggedin" THEN "command" ELSE session.stage
    BY DEF PromptAgrees
  <2>1. client[c].at \in Fitting
    BY DEF PromptInv, Connected, ComesTo, Waits, Excused
  <2> QED BY <2>1 DEF Fitting
<1> QED BY <1>1, TypeInductive, PromptInductive, PTL

----
(* SessionService: the sessions it speaks of are SessionOf(c).             *)
LEMMA SameOperators ==
    /\ Service!NewSession = NewSession
    /\ \A line : Service!Admits(accounts, line) <=> Admits(accounts, line)
    /\ \A a : Service!Blocked(a) = Blocked(a)
    /\ Service!NoAccount = NoAccount
BY DEF Service!NewSession, NewSession, Service!Admits, Admits, Service!Known, Known,
       Service!Blocked, Blocked, Service!NoAccount, NoAccount

(* The session of c becomes s, and the others stay or are lost.            *)
LEMMA BecomesIf ==
    ASSUME NEW c \in Clients, NEW s, SessionOf(c)' = s,
           \A d \in Clients \ {c} : SessionOf(d)' = SessionOf(d) \/ SessionOf(d)' = NewSession
    PROVE  Service!Becomes(c, s)
<1> DEFINE gone == {d \in Clients \ {c} : SessionOf(d)' # SessionOf(d)}
<1>1. gone \in SUBSET (Clients \ {c})
  OBVIOUS
<1>2. \A d \in Clients :
         SessionOf(d)' = IF d = c THEN s ELSE IF d \in gone THEN NewSession ELSE SessionOf(d)
  OBVIOUS
<1> HIDE DEF gone
<1> QED BY <1>1, <1>2, SameOperators DEF Service!Becomes

(* Only the session of its owner is more than a new one.                   *)
LEMMA SessionsSeen ==
    ASSUME TypeInv
    PROVE  /\ \A c \in Clients : session.owner # c => SessionOf(c) = NewSession
           /\ \A c \in Clients : Current(c).stage = "username" => SessionOf(c) = NewSession
           /\ \A c \in Clients : Current(c).stage # "username" => SessionOf(c) = Current(c)
<1>1. ASSUME NEW c \in Clients, Current(c).stage # "username" PROVE SessionOf(c) = Current(c)
  BY <1>1, CurrentIn DEF SessionOf
<1>2. ASSUME NEW c \in Clients, Current(c).stage = "username" PROVE SessionOf(c) = NewSession
  BY <1>2, CurrentIn DEF SessionOf, Current
<1> QED BY <1>1, <1>2 DEF SessionOf

(* After a step that binds the session to c.                               *)
LEMMA SessionsNext ==
    ASSUME NEW c, NEW s \in Session, session' = Bound(c, s)
    PROVE  /\ \A d \in Clients : d # c => SessionOf(d)' = NewSession
           /\ c \in Clients /\ s.stage # "username" => SessionOf(c)' = s
           /\ c \in Clients /\ s.stage = "username" => SessionOf(c)' = NewSession
BY DEF Bound, SessionOf, Current, Session

LEMMA SameSessions ==
    ASSUME UNCHANGED <<accounts, file, unsaved>>,
           \A c \in Clients : SessionOf(c)' = SessionOf(c)
    PROVE  UNCHANGED Service!vars
BY DEF Service!vars

(* A line that is handled is one the service knows, or changes nothing.    *)
LEMMA LineRefines ==
    ASSUME TypeInv, NEW m \in requests, HandleLine(m)
    PROVE  [Service!Next]_(Service!vars)
<1> DEFINE c == m.from
           cur == Current(m.from)
<1>1. c \in Clients /\ m.line \in Strings
  BY NetTypes
<1>2. PICK s \in Session, reply \in Reply : Replies(m, s, reply) /\ Handled(m, s, reply)
  BY HandledTypes
<1>3. /\ \A d \in Clients \ {c} : SessionOf(d)' = NewSession
      /\ s.stage # "username" => SessionOf(c)' = s
      /\ s.stage = "username" => SessionOf(c)' = NewSession
  BY <1>1, <1>2, SessionsNext DEF Handled
<1>4. /\ cur.stage = "username" => SessionOf(c) = NewSession
      /\ cur.stage # "username" => SessionOf(c) = cur
      /\ cur \in Session
      /\ cur.stage # "username" => session.owner = c /\ cur.fails < MAX_ATTEMPTS
  BY <1>1, SessionsSeen, CurrentIn
<1>5. cur.stage # "username" => \A d \in Clients \ {c} : SessionOf(d) = NewSession
  BY <1>1, <1>4, SessionsSeen
<1>6. Service!Becomes(c, SessionOf(c)')
  BY <1>1, <1>3, BecomesIf
<1>7. ASSUME PersistAccounts PROVE Service!Save
  BY <1>7 DEF PersistAccounts, Service!Save
<1> HIDE DEF c, cur
<1>8. ASSUME (RefuseName(m) /\ s = cur) \/ (SignOut(m) /\ s = NewSession)
      PROVE  Service!Leave(c)
  <2>1. SessionOf(c)' = NewSession /\ UNCHANGED <<accounts, file, unsaved>>
    BY <1>3, <1>8, NewSessionIn DEF RefuseName, SignOut, HandledOnly, cur
  <2> QED BY <1>6, <2>1, SameOperators DEF Service!Leave
<1>9. ASSUME TakeName(m), s = [stage |-> "password", user |-> m.line, fails |-> 0]
      PROVE  Service!Name(c, m.line)
  <2>1. /\ SessionOf(c)' = s /\ UNCHANGED <<accounts, file, unsaved>>
        /\ SessionOf(c) = NewSession /\ Admits(accounts, m.line)
    BY <1>3, <1>4, <1>9 DEF TakeName, HandledOnly, cur
  <2>2. SessionOf(c).stage = "username"
    BY <2>1, NewSessionIn
  <2> QED BY <1>1, <1>6, <1>9, <2>1, <2>2, SameOperators DEF Service!Name
<1>10. ASSUME RightPassword(m), s = [cur EXCEPT !.stage = "loggedin"]
       PROVE  Service!Right(c, m.line)
  <2>1. /\ cur.stage = "password" /\ m.line = accounts[cur.user].pass
        /\ accounts[cur.user].status = "active" /\ UNCHANGED <<accounts, file, unsaved>>
    BY <1>10 DEF RightPassword, HandledOnly, Mine, cur
  <2>2. s.stage = "loggedin"
    BY <1>4, <1>10, <2>1 DEF Session
  <2>3. SessionOf(c) = cur /\ SessionOf(c)' = s
    BY <1>3, <1>4, <2>1, <2>2
  <2> QED BY <1>1, <1>6, <1>10, <2>1, <2>3 DEF Service!Right
<1>11. ASSUME WrongPassword(m), s = [cur EXCEPT !.fails = @ + 1]
       PROVE  Service!Wrong(c, m.line)
  <2>1. /\ cur.stage = "password" /\ m.line # accounts[cur.user].pass
        /\ cur.fails + 1 < MAX_ATTEMPTS /\ UNCHANGED <<accounts, file, unsaved>>
    BY <1>11 DEF WrongPassword, HandledOnly, Mine, cur
  <2>2. s.stage = "password"
    BY <1>4, <1>11, <2>1 DEF Session
  <2>3. SessionOf(c) = cur /\ SessionOf(c)' = s
    BY <1>3, <1>4, <2>1, <2>2
  <2> QED BY <1>1, <1>6, <1>11, <2>1, <2>3 DEF Service!Wrong
<1>12. ASSUME BlockAccount(m), s = [stage |-> "username", user |-> None, fails |-> MAX_ATTEMPTS]
       PROVE  Service!Block(c, m.line)
  <2>1. /\ cur.stage = "password" /\ m.line # accounts[cur.user].pass
        /\ cur.fails + 1 >= MAX_ATTEMPTS /\ PersistAccounts
        /\ accounts' = [accounts EXCEPT ![cur.user] = Blocked(@)]
    BY <1>12 DEF BlockAccount, Blocks, Mine, cur
  <2>2. cur.fails + 1 = MAX_ATTEMPTS
    <3>1. cur.fails < MAX_ATTEMPTS /\ cur.fails \in 0..MAX_ATTEMPTS /\ MAX_ATTEMPTS \in Nat
      BY <1>4, <2>1, NewSessionIn DEF Session
    <3>2. PICK n \in 0..MAX_ATTEMPTS : n = cur.fails
      BY <3>1
    <3> QED BY <2>1, <3>1, <3>2
  <2>3. SessionOf(c) = cur /\ SessionOf(c)' = NewSession
    BY <1>3, <1>4, <1>12, <2>1
  <2>4. Service!Becomes(c, NewSession)
    BY <1>6, <2>3
  <2>5. accounts' = [accounts EXCEPT ![SessionOf(c).user] = Service!Blocked(@)]
    BY <2>1, <2>3, SameOperators
  <2> QED BY <1>1, <1>7, <2>1, <2>2, <2>3, <2>4, <2>5, SameOperators DEF Service!Block
<1>13. ASSUME NewPassword(m), s = cur
       PROVE  Service!Change(c, m.line)
  <2>1. /\ cur.stage = "loggedin" /\ m.line \in Passwords /\ PersistAccounts
        /\ accounts' = [accounts EXCEPT ![cur.user].pass = m.line]
    BY <1>13 DEF NewPassword, Changes, cur
  <2>2. SessionOf(c) = cur /\ SessionOf(c)' = cur
    BY <1>3, <1>4, <1>13, <2>1
  <2> QED BY <1>1, <1>6, <1>7, <2>1, <2>2 DEF Service!Change
<1>14. ASSUME (NotReady(m) \/ KeepPassword(m)), s = cur
       PROVE  UNCHANGED Service!vars
  <2>1. cur.stage # "username" /\ UNCHANGED <<accounts, file, unsaved>>
    BY <1>14 DEF NotReady, KeepPassword, HandledOnly, cur
  <2>2. \A d \in Clients : SessionOf(d)' = SessionOf(d)
    BY <1>3, <1>4, <1>5, <1>14, <2>1
  <2> QED BY <2>1, <2>2, SameSessions
<1>15. \/ Service!Leave(c)
       \/ \E line \in Strings : \/ Service!Name(c, line) \/ Service!Right(c, line)
                                 \/ Service!Wrong(c, line) \/ Service!Block(c, line)
                                 \/ Service!Change(c, line)
       \/ UNCHANGED Service!vars
  <2>1. \/ RefuseName(m) /\ s = cur
        \/ SignOut(m) /\ s = NewSession
        \/ TakeName(m) /\ s = [stage |-> "password", user |-> m.line, fails |-> 0]
        \/ RightPassword(m) /\ s = [cur EXCEPT !.stage = "loggedin"]
        \/ WrongPassword(m) /\ s = [cur EXCEPT !.fails = @ + 1]
        \/ BlockAccount(m) /\ s = [stage |-> "username", user |-> None, fails |-> MAX_ATTEMPTS]
        \/ NewPassword(m) /\ s = cur
        \/ (NotReady(m) \/ KeepPassword(m)) /\ s = cur
    BY <1>2 DEF Replies, cur
  <2> QED BY <1>1, <1>8, <1>9, <1>10, <1>11, <1>12, <1>13, <1>14, <2>1
<1> QED BY <1>1, <1>15 DEF Service!Next, c

(* HW4 resets its one session when another client speaks, HW5 serves one   *)
(* connection at a time; either is a session of its own for each client,   *)
(* that may be lost but is never another's.                                *)
THEOREM ServersImplementService == Spec => ImplementsService
<1>1. Init => Service!Init
  <2> SUFFICES ASSUME Init PROVE Service!Init
    OBVIOUS
  <2>1. \A c \in Clients : SessionOf(c) = NewSession
    BY NewSessionIn DEF Init, Bound, SessionOf
  <2> QED BY <2>1, SameOperators DEF Init, Service!Init
<1>2. TypeInv /\ [Next]_vars => [Service!Next]_(Service!vars)
  <2> SUFFICES ASSUME TypeInv, [Next]_vars PROVE [Service!Next]_(Service!vars)
    OBVIOUS
  <2>1. CASE Outside \/ UNCHANGED vars
    <3>1. UNCHANGED <<accounts, file, unsaved, session>>
      BY <2>1, OutsideLeavesServer DEF server, vars
    <3>2. \A c \in Clients : SessionOf(c)' = SessionOf(c)
      BY <3>1 DEF SessionOf, Current
    <3> QED BY <3>1, <3>2, SameSessions
  <2>2. ASSUME NEW m \in requests, HandleLine(m) PROVE [Service!Next]_(Service!vars)
    BY <2>2, LineRefines
  (* accept: nobody had more than a new session.                           *)
  <2>3. CASE Accept
    <3>1. /\ session' = Bound(Head(backlog), NewSession) /\ session.owner = None
          /\ UNCHANGED <<accounts, file, unsaved>>
      BY <2>3 DEF Accept
    <3>2. \A c \in Clients : SessionOf(c) = NewSession
      BY <3>1, SessionsSeen, NewSessionIn
    <3>3. \A c \in Clients : SessionOf(c)' = NewSession
      BY <3>1, SessionsNext, NewSessionIn
    <3> QED BY <3>1, <3>2, <3>3, SameSessions
  <2>4. ASSUME NEW c \in Clients, HangUp(c) PROVE [Service!Next]_(Service!vars)
    <3>1. session' = Bound(None, NewSession) /\ UNCHANGED <<accounts, file, unsaved>>
      BY <2>4 DEF HangUp
    <3>2. \A d \in Clients : SessionOf(d)' = NewSession
      BY <3>1, SessionsNext, NewSessionIn
    <3>3. Service!Becomes(c, NewSession)
      BY <3>2, BecomesIf
    <3>4. Service!Leave(c)
      BY <3>1, <3>3, SameOperators DEF Service!Leave
    <3> QED BY <3>4 DEF Service!Next
  <2>5. CASE Crash \/ \E m \in requests : CrashInSave(m)
    <3>1. /\ file' \in {file, [u \in Users |-> NoAccount]} /\ accounts' = file' /\ unsaved' = FALSE
          /\ session' = Bound(None, NewSession)
      BY <2>5 DEF Crash, CrashInSave, Reboot
    <3>2. \A c \in Clients : SessionOf(c)' = NewSession
      BY <3>1, SessionsNext, NewSessionIn
    <3>3. Service!Restart
      BY <3>1, <3>2, SameOperators DEF Service!Restart
    <3> QED BY <3>3 DEF Service!Next
  <2> QED BY <2>1, <2>2, <2>3, <2>4, <2>5 DEF Next, Outside, Server
<1> QED BY <1>1, <1>2, TypeInductive, PTL DEF Spec, ImplementsService, Service!Spec
====
