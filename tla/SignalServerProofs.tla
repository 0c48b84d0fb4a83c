---- MODULE SignalServerProofs ----
(***************************************************************************)
(* Proofs about SignalServer, for any set of clients and any length of the *)
(* backlog.                                                                *)
(***************************************************************************)
EXTENDS SignalServer, SequenceLemmas, SequenceTheorems, TLAPS

(* No connection is in the backlog twice, and one that is there or was     *)
(* never made has no thread: what keeps sigio_handler from starting two    *)
(* threads for a client.                                                   *)
QueueInv ==
    /\ TypeOK
    /\ IsInjective(queue)
    /\ \A c \in Clients : client[c] = "idle" => thread[c] = "none" /\ c \notin ToSet(queue)

(* A line in the file was written by a thread that is past its write, and  *)
(* a thread only gets to file_mutex with a line.                           *)
FileInv ==
    /\ OneLineEach
    /\ \A c \in ToSet(file) : thread[c] \in {"unlock", "done", "killed"}
    /\ \A c \in Clients : thread[c] \in {"lock", "write", "unlock"} => client[c] = "sent"

(* A socket that is closed has no backlog.                                 *)
BacklogInv ==
    /\ BacklogExplained
    /\ ~sock => queue = <<>>

----
(* The values keep their types, and no connection gets two threads.        *)
LEMMA QueueInductive == Spec => []QueueInv
<1>1. Init => QueueInv
  <2> SUFFICES ASSUME Init PROVE QueueInv
    OBVIOUS
  <2>1. /\ queue = <<>> /\ IsInjective(queue) /\ ToSet(queue) = {}
        /\ queue \in Seq(Clients) /\ file \in Seq(Clients)
    BY EmptyFacts DEF Init
  <2>2. TypeOK
    BY <2>1, ThreadAssumption DEF Init, TypeOK, Busy
  <2> QED BY <2>1, <2>2 DEF Init, QueueInv
<1>2. QueueInv /\ [Next]_vars => QueueInv'
  <2> SUFFICES ASSUME QueueInv, [Next]_vars PROVE QueueInv'
    OBVIOUS
  <2> USE DEF QueueInv
  <2>0. /\ queue \in Seq(Clients) /\ ToSet(queue) \subseteq Clients
        /\ file \in Seq(Clients)
    <3>1. queue \in Seq(Clients) /\ file \in Seq(Clients)
      BY DEF TypeOK
    <3> QED BY <3>1, ElementOfSeq, LenProperties DEF ToSet
  <2>1. ASSUME NEW c \in Clients, Connect(c) PROVE QueueInv'
    <3>1. /\ queue' \in Seq(Clients) /\ ToSet(queue') = ToSet(queue) \cup {c}
          /\ IsInjective(queue')
      BY <2>0, <2>1, AppendToSet DEF Connect
    <3> QED BY <2>1, <3>1 DEF TypeOK, Connect, server, workers, Busy
  <2>2. ASSUME NEW c \in Clients, NEW what \in {"sent", "left"}, Speak(c, what)
        PROVE  QueueInv'
    BY <2>2 DEF TypeOK, Speak, server, signals, workers
  <2>3. ASSUME Terminate PROVE QueueInv'
    BY <2>3 DEF TypeOK, Terminate, server, workers
  <2>4. ASSUME TermHandler PROVE QueueInv'
    BY <2>4, EmptyFacts DEF TypeOK, TermHandler, workers
  <2>5. ASSUME MainStep PROVE QueueInv'
    <3>1. CASE Truncate
      BY <3>1, EmptyFacts DEF TypeOK, Truncate, signals
    <3>2. CASE Test
      BY <3>2 DEF TypeOK, Test, signals, workers
    <3>3. CASE Pause
      BY <3>3 DEF TypeOK, Pause, signals, workers
    <3>4. CASE Leave
      BY <3>4, EmptyFacts, ThreadAssumption DEF TypeOK, Leave, Busy
    <3> QED BY <2>5, <3>1, <3>2, <3>3, <3>4 DEF MainStep
  <2>6. CASE HandlerStarts
    BY <2>6 DEF TypeOK, HandlerStarts, server, workers
  <2>7. CASE HandlerAccepts
    <3>1. /\ Head(queue) \in Clients /\ queue' \in Seq(Clients)
          /\ ToSet(queue') \subseteq ToSet(queue) /\ Head(queue) \in ToSet(queue)
          /\ IsInjective(queue') /\ Head(queue) \notin ToSet(queue')
      BY <2>0, <2>7, TailOfInjective DEF HandlerAccepts
    <3>2. /\ thread' = [thread EXCEPT ![Head(queue)] = "recv"]
          /\ UNCHANGED <<running, sock, sigio, sigterm, mutex, file, client, merged>>
          /\ inHandler' = FALSE
          /\ main' \in {"setup", "test", "call", "pause", "leave", "exit"}
      BY <2>7 DEF HandlerAccepts, HandlerReturns, TypeOK
    <3>3. thread' \in [Clients -> {"none", "done", "killed"} \cup Busy]
      BY <3>1, <3>2 DEF TypeOK, Busy
    <3>4. \A c \in ToSet(queue') : thread'[c] = "none"
      BY <2>0, <3>1, <3>2 DEF TypeOK
    <3>5. \A c \in Clients : client'[c] = "idle" => thread'[c] = "none" /\ c \notin ToSet(queue')
      BY <3>1, <3>2 DEF TypeOK
    <3>6. \A c \in Clients : mutex' = c <=> thread'[c] \in {"write", "unlock"}
      <4>1. thread[Head(queue)] = "none"
        BY <3>1 DEF TypeOK
      <4> QED BY <3>1, <3>2, <4>1 DEF TypeOK
    <3> QED BY <3>1, <3>2, <3>3, <3>4, <3>5, <3>6 DEF TypeOK
  <2>8. CASE HandlerFindsNone
    BY <2>8 DEF TypeOK, HandlerFindsNone, HandlerReturns
  <2>9. ASSUME NEW c \in Clients, Worker(c) PROVE QueueInv'
    <3>1. CASE Recv(c)
      BY <2>0, <3>1 DEF TypeOK, Recv, WorkerGoes, server, signals, Busy
    <3>2. CASE Lock(c)
      BY <2>0, <3>2, ThreadAssumption DEF TypeOK, Lock, WorkerGoes, server, signals, Busy
    <3>3. CASE Write(c)
      <4>1. file' \in Seq(Clients)
        BY <2>0, <3>3, AppendToSet DEF Write
      <4> QED BY <2>0, <3>3, <4>1 DEF TypeOK, Write, WorkerGoes, server, signals, Busy
    <3>4. CASE Unlock(c)
      BY <2>0, <3>4, ThreadAssumption DEF TypeOK, Unlock, WorkerGoes, server, signals, Busy
    <3> QED BY <2>9, <3>1, <3>2, <3>3, <3>4 DEF Worker
  <2>10. ASSUME UNCHANGED vars PROVE QueueInv'
    BY <2>10 DEF TypeOK, vars
  <2> QED
    BY <2>1, <2>2, <2>3, <2>4, <2>5, <2>6, <2>7, <2>8, <2>9, <2>10 DEF Next, Handler
<1> QED BY <1>1, <1>2, PTL DEF Spec

(* The values keep their types, whoever waits in the backlog has no thread *)
(* yet, and file_mutex is held by the thread that is between its lock and  *)
(* its unlock, and by no other.                                            *)
THEOREM TypeCorrect == Spec => []TypeOK
<1>1. QueueInv => TypeOK
  BY DEF QueueInv
<1> QED BY <1>1, QueueInductive, PTL

(* user.txt has one line of each client that sent one, at most.            *)
LEMMA FileInductive == Spec => []FileInv
<1>1. Init => FileInv
  BY EmptyFacts DEF Init, FileInv, OneLineEach
<1>2. QueueInv /\ FileInv /\ [Next]_vars => FileInv'
  <2> SUFFICES ASSUME QueueInv, FileInv, [Next]_vars PROVE FileInv'
    OBVIOUS
  <2>0. /\ file \in Seq(Clients) /\ ToSet(file) \subseteq Clients
        /\ thread \in [Clients -> {"none", "done", "killed"} \cup Busy]
        /\ client \in [Clients -> {"idle", "connected", "sent", "left"}]
    <3>1. file \in Seq(Clients)
      BY DEF QueueInv, TypeOK
    <3> QED BY <3>1, ElementOfSeq, LenProperties DEF ToSet, QueueInv, TypeOK
  <2> USE DEF FileInv, OneLineEach
  <2>1. ASSUME NEW c \in Clients, Connect(c) PROVE FileInv'
    BY <2>0, <2>1 DEF Connect, workers
  <2>2. ASSUME NEW c \in Clients, NEW what \in {"sent", "left"}, Speak(c, what)
        PROVE  FileInv'
    BY <2>0, <2>2 DEF Speak, workers
  <2>3. ASSUME Terminate \/ TermHandler \/ UNCHANGED vars PROVE FileInv'
    BY <2>3 DEF Terminate, TermHandler, workers, vars
  <2>4. ASSUME MainStep PROVE FileInv'
    <3>1. CASE Truncate
      BY <3>1, EmptyFacts DEF Truncate
    <3>2. CASE Test \/ Pause
      BY <3>2 DEF Test, Pause, workers
    <3>3. CASE Leave
      BY <2>0, <3>3 DEF Leave, Busy
    <3> QED BY <2>4, <3>1, <3>2, <3>3 DEF MainStep
  <2>5. CASE HandlerStarts \/ HandlerFindsNone
    BY <2>5 DEF HandlerStarts, HandlerFindsNone, HandlerReturns, workers
  <2>6. CASE HandlerAccepts
    <3>1. queue \in Seq(Clients) /\ queue # <<>>
      BY <2>6 DEF HandlerAccepts, QueueInv, TypeOK
    <3>2. Head(queue) \in Clients /\ thread[Head(queue)] = "none"
      BY <3>1, TailOfInjective DEF QueueInv, TypeOK
    <3>3. /\ thread' = [thread EXCEPT ![Head(queue)] = "recv"]
          /\ file' = file /\ client' = client
      BY <2>6 DEF HandlerAccepts, HandlerReturns
    <3> QED BY <2>0, <3>2, <3>3
  <2>7. ASSUME NEW c \in Clients, Worker(c) PROVE FileInv'
    <3>1. CASE Recv(c)
      BY <2>0, <3>1 DEF Recv, WorkerGoes
    <3>2. CASE Lock(c)
      BY <2>0, <3>2 DEF Lock, WorkerGoes
    <3>3. CASE Write(c)
      <4>1. file' = Append(file, c) /\ thread[c] = "write" /\ client' = client
            /\ thread' = [thread EXCEPT ![c] = "unlock"]
        BY <3>3 DEF Write, WorkerGoes
      <4>2. c \notin ToSet(file) /\ client[c] = "sent"
        BY <4>1
      <4>3. IsInjective(file') /\ ToSet(file') = ToSet(file) \cup {c}
        BY <2>0, <4>1, <4>2, AppendToSet
      <4> QED BY <2>0, <4>1, <4>2, <4>3
    <3>4. CASE Unlock(c)
      BY <2>0, <3>4 DEF Unlock, WorkerGoes
    <3> QED BY <2>7, <3>1, <3>2, <3>3, <3>4 DEF Worker
  <2> QED BY <2>1, <2>2, <2>3, <2>4, <2>5, <2>6, <2>7 DEF Next, Handler
<1> QED BY <1>1, <1>2, QueueInductive, PTL DEF Spec

(* Every line of user.txt was sent by its client and is there once,        *)
(* whatever handlers and threads do in between.                            *)
THEOREM OneLinePerClient == Spec => []OneLineEach
<1>1. FileInv => OneLineEach
  BY DEF FileInv
<1> QED BY <1>1, FileInductive, PTL

----
(* Each delivered SIGIO accepts one connection, so that what is left in    *)
(* the backlog is counted by the signals that were merged, are pending, or *)
(* are being handled.                                                      *)
THEOREM BacklogIsExplained == Spec => []BacklogExplained
<1>1. Init => BacklogInv
  BY DEF Init, BacklogInv, BacklogExplained
<1>2. QueueInv /\ BacklogInv /\ [Next]_vars => BacklogInv'
  <2> SUFFICES ASSUME QueueInv, BacklogInv, [Next]_vars PROVE BacklogInv'
    OBVIOUS
  <2>0. /\ queue \in Seq(Clients) /\ Len(queue) \in Nat /\ merged \in Nat
        /\ sigio \in BOOLEAN /\ inHandler \in BOOLEAN
    BY LenProperties DEF QueueInv, TypeOK
  <2> USE DEF BacklogInv, BacklogExplained
  <2>1. ASSUME NEW c \in Clients, Connect(c) PROVE BacklogInv'
    <3>1. Len(queue') = Len(queue) + 1
      BY <2>0, <2>1, AppendToSet DEF Connect
    <3> QED BY <2>0, <2>1, <3>1 DEF Connect, server
  <2>2. ASSUME \/ \E c \in Clients, what \in {"sent", "left"} : Speak(c, what)
               \/ Terminate \/ UNCHANGED vars
        PROVE  BacklogInv'
    BY <2>2 DEF Speak, Terminate, server, signals, vars
  <2>3. ASSUME NEW c \in Clients, Worker(c) PROVE BacklogInv'
    BY <2>3 DEF Worker, Recv, Lock, Write, Unlock, WorkerGoes, server, signals
  <2>4. ASSUME TermHandler \/ MainStep PROVE BacklogInv'
    <3>1. CASE queue' = <<>> /\ merged' = merged
      BY <2>0, <3>1, EmptySeq
    <3>2. CASE Truncate \/ Test \/ Pause
      BY <3>2 DEF Truncate, Test, Pause, signals
    <3> QED BY <2>4, <3>1, <3>2 DEF TermHandler, MainStep, Leave
  <2>5. CASE HandlerStarts
    BY <2>0, <2>5 DEF HandlerStarts, server
  <2>6. CASE HandlerAccepts
    <3>1. Len(queue') = Len(queue) - 1
      BY <2>0, <2>6, TailOfInjective DEF HandlerAccepts
    <3> QED BY <2>0, <2>6, <3>1 DEF HandlerAccepts, HandlerReturns
  <2>7. CASE HandlerFindsNone
    <3>1. queue = <<>> /\ queue' = <<>> /\ Len(queue') = 0
      BY <2>7 DEF HandlerFindsNone, HandlerReturns
    <3> QED BY <2>0, <2>7, <3>1 DEF HandlerFindsNone, HandlerReturns
  <2> QED
    BY <2>1, <2>2, <2>3, <2>4, <2>5, <2>6, <2>7 DEF Next, Handler
<1>3. BacklogInv => BacklogExplained
  BY DEF BacklogInv
<1> QED BY <1>1, <1>2, <1>3, QueueInductive, PTL DEF Spec
====
