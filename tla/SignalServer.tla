---- MODULE SignalServer ----
(***************************************************************************)
(* The signal-driven server of 23-12 (server.c).  The kernel raises SIGIO  *)
(* when a connection is complete; its handler accepts one connection and   *)
(* starts a thread that appends one line to user.txt.  SIGTERM and SIGINT  *)
(* close the listening socket; main tests server_running and pauses.       *)
(*                                                                         *)
(* Signals are process-directed and one of a kind is pending at most.  Main   *)
(* alone runs sigio_handler: the other threads are created inside it,      *)
(* where SIGIO is blocked, and inherit its mask.  A SIGIO that comes while *)
(* main is in the handler stays pending; SIGTERM may interrupt it.  The    *)
(* steps start after listen: a SIGTERM before it ends the program at once. *)
(* Calls that fail for want of memory, descriptors or disk are left out.   *)
(***************************************************************************)
EXTENDS Naturals, Sequences, SequencesExt

CONSTANTS
    Clients,  \* clients, each of which connects once and names its thread
    None,     \* nobody holds file_mutex
    Backlog   \* connections the kernel completes before accept (listen's 5)

ASSUME ThreadAssumption == None \notin Clients
ASSUME BacklogAssumption == Backlog \in Nat

VARIABLES
    running,   \* server_running
    sock,      \* server_sock is open
    main,      \* where main is
    inHandler, \* main is inside sigio_handler, at its accept
    sigio,     \* SIGIO is pending
    sigterm,   \* SIGTERM or SIGINT is pending
    queue,     \* complete connections that wait for accept
    thread,    \* where the thread of each client is
    mutex,     \* the client whose thread holds file_mutex
    file,      \* user.txt, as the clients whose lines it has
    client,    \* what each client did
    merged     \* history: how often SIGIO was raised while it was pending

signals == <<inHandler, sigio, sigterm>>
server == <<running, sock, main>>
workers == <<thread, mutex, file>>
vars == <<running, sock, main, inHandler, sigio, sigterm, queue, thread, mutex,
          file, client, merged>>

Alive == main # "exit"
Busy == {"recv", "lock", "write", "unlock"}

Init ==
    /\ running = TRUE /\ sock = TRUE /\ main = "setup"
    /\ inHandler = FALSE /\ sigio = FALSE /\ sigterm = FALSE
    /\ queue = <<>>
    /\ thread = [c \in Clients |-> "none"]
    /\ mutex = None
    /\ file = <<>>
    /\ client = [c \in Clients |-> "idle"]
    /\ merged = 0

----
(* A client connects; the kernel raises SIGIO. *)
Connect(c) ==
    /\ client[c] = "idle" /\ sock /\ Len(queue) < Backlog
    /\ client' = [client EXCEPT ![c] = "connected"]
    /\ queue' = Append(queue, c)
    /\ sigio' = TRUE
    /\ merged' = IF sigio THEN merged + 1 ELSE merged
    /\ UNCHANGED <<server, inHandler, sigterm, workers>>

(* It sends its line, or closes without one, accepted or not. *)
Speak(c, what) ==
    /\ client[c] = "connected"
    /\ client' = [client EXCEPT ![c] = what]
    /\ UNCHANGED <<server, signals, queue, workers, merged>>

(* The user presses Ctrl+C, or kill sends SIGTERM. *)
Terminate ==
    /\ Alive /\ ~sigterm
    /\ sigterm' = TRUE
    /\ UNCHANGED <<server, inHandler, sigio, queue, workers, client, merged>>

----
(* The pending SIGIO starts sigio_handler. *)
HandlerStarts ==
    /\ Alive /\ sigio /\ ~inHandler
    /\ sigio' = FALSE
    /\ inHandler' = TRUE
    /\ UNCHANGED <<server, sigterm, queue, workers, client, merged>>

(* It returns, which ends a pause of main. *)
HandlerReturns ==
    /\ Alive /\ inHandler
    /\ inHandler' = FALSE
    /\ main' = IF main = "pause" THEN "test" ELSE main
    /\ UNCHANGED <<running, sock, sigio, sigterm, mutex, file, client, merged>>

(* accept takes the oldest connection, pthread_create starts its thread. *)
HandlerAccepts ==
    /\ HandlerReturns
    /\ sock /\ queue # <<>>
    /\ queue' = Tail(queue)
    /\ thread' = [thread EXCEPT ![Head(queue)] = "recv"]

(* Mutant: the handler returns before it accepts. *)
HandlerReturnsEarly == HandlerReturns /\ UNCHANGED <<queue, thread>>

(* No socket any more, or accept fails with EAGAIN. *)
HandlerFindsNone ==
    /\ HandlerReturns
    /\ ~(sock /\ queue # <<>>)
    /\ UNCHANGED <<queue, thread>>

(* Mutant: server_running is not reset. *)
TermHandlerKeepsRunning ==
    /\ Alive /\ sigterm
    /\ sigterm' = FALSE
    /\ sock' = FALSE
    /\ queue' = <<>>
    /\ main' = IF main = "pause" /\ ~inHandler THEN "test" ELSE main
    /\ UNCHANGED <<running, inHandler, sigio, workers, client, merged>>

(* sigterm_handler: the connections nobody accepted are reset. *)
TermHandler ==
    /\ Alive /\ sigterm
    /\ sigterm' = FALSE
    /\ running' = FALSE
    /\ sock' = FALSE
    /\ queue' = <<>>
    /\ main' = IF main = "pause" /\ ~inHandler THEN "test" ELSE main
    /\ UNCHANGED <<inHandler, sigio, workers, client, merged>>

----
(* main empties user.txt, after listen. *)
Truncate ==
    /\ main = "setup"
    /\ main' = "test"
    /\ file' = <<>>
    /\ UNCHANGED <<running, sock, signals, queue, thread, mutex, client, merged>>

(* while (server_running) *)
Test ==
    /\ main = "test"
    /\ main' = IF running THEN "call" ELSE "leave"
    /\ UNCHANGED <<running, sock, signals, queue, workers, client, merged>>

(* pause() suspends main; a signal handled before was missed. *)
Pause ==
    /\ main = "call"
    /\ main' = "pause"
    /\ UNCHANGED <<running, sock, signals, queue, workers, client, merged>>

(* main returns, and the threads end with the process. *)
Leave ==
    /\ main = "leave"
    /\ main' = "exit"
    /\ sock' = FALSE /\ queue' = <<>>
    /\ inHandler' = FALSE /\ sigio' = FALSE /\ sigterm' = FALSE
    /\ thread' = [c \in Clients |-> IF thread[c] \in Busy THEN "killed" ELSE thread[c]]
    /\ mutex' = None
    /\ UNCHANGED <<running, file, client, merged>>

MainStep == ~inHandler /\ (Truncate \/ Test \/ Pause \/ Leave)

----
WorkerGoes(c, from, to) ==
    /\ Alive /\ thread[c] = from
    /\ thread' = [thread EXCEPT ![c] = to]
    /\ UNCHANGED <<server, signals, queue, client, merged>>

(* Mutant: a line of no bytes counts as a line. *)
RecvIgnoresEnd(c) ==
    /\ client[c] \in {"sent", "left"}
    /\ WorkerGoes(c, "recv", "lock")
    /\ UNCHANGED <<mutex, file>>

(* recv returned a line, or the end of the connection. *)
Recv(c) ==
    /\ client[c] \in {"sent", "left"}
    /\ WorkerGoes(c, "recv", IF client[c] = "sent" THEN "lock" ELSE "done")
    /\ UNCHANGED <<mutex, file>>

(* Mutant: pthread_mutex_lock is forgotten. *)
LockForgotten(c) ==
    /\ WorkerGoes(c, "lock", "write")
    /\ UNCHANGED <<mutex, file>>

Lock(c) ==
    /\ mutex = None
    /\ WorkerGoes(c, "lock", "write")
    /\ mutex' = c /\ file' = file

(* fopen("a"), fprintf, fclose *)
Write(c) ==
    /\ WorkerGoes(c, "write", "unlock")
    /\ file' = Append(file, c) /\ mutex' = mutex

(* Mutant: the unlock is forgotten, as on a path that returns early. *)
UnlockForgotten(c) ==
    /\ WorkerGoes(c, "unlock", "done")
    /\ UNCHANGED <<mutex, file>>

(* The mutex is released and the connection closed. *)
Unlock(c) ==
    /\ WorkerGoes(c, "unlock", "done")
    /\ mutex' = None /\ file' = file

Worker(c) == Recv(c) \/ Lock(c) \/ Write(c) \/ Unlock(c)
Handler == HandlerStarts \/ HandlerAccepts \/ HandlerFindsNone

Next ==
    \/ \E c \in Clients : Connect(c) \/ Speak(c, "sent") \/ Speak(c, "left") \/ Worker(c)
    \/ Terminate \/ TermHandler \/ Handler \/ MainStep

Spec == Init /\ [][Next]_vars

(* The kernel delivers signals and runs every thread that can run.         *)
FairSpec ==
    /\ Spec
    /\ WF_vars(MainStep) /\ WF_vars(TermHandler) /\ WF_vars(Handler)
    /\ \A c \in Clients : WF_vars(Worker(c))
----
(* The values, who waits in the backlog, and who holds file_mutex: the     *)
(* thread that is between its lock and its unlock (server.c:47-64).        *)
TypeOK ==
    /\ running \in BOOLEAN /\ sock \in BOOLEAN
    /\ main \in {"setup", "test", "call", "pause", "leave", "exit"}
    /\ inHandler \in BOOLEAN /\ sigio \in BOOLEAN /\ sigterm \in BOOLEAN
    /\ queue \in Seq(Clients) /\ \A c \in ToSet(queue) : thread[c] = "none"
    /\ thread \in [Clients -> {"none", "done", "killed"} \cup Busy]
    /\ mutex \in Clients \cup {None}
    /\ \A c \in Clients : mutex = c <=> thread[c] \in {"write", "unlock"}
    /\ file \in Seq(Clients)
    /\ client \in [Clients -> {"idle", "connected", "sent", "left"}]
    /\ merged \in Nat

(* Every line of user.txt was sent by its client, and none is there twice: *)
(* no connection gets two threads, and one that ends without a line writes *)
(* none (server.c:30-76, 79-119).                                          *)
OneLineEach ==
    /\ IsInjective(file)
    /\ \A c \in ToSet(file) : client[c] = "sent"

(* A connection is left in the backlog only by a SIGIO that was merged     *)
(* with another: each signal that is delivered accepts one                 *)
(* (server.c:79-90).                                                       *)
BacklogExplained ==
    Len(queue) <= merged + (IF inHandler THEN 1 ELSE 0) + (IF sigio THEN 1 ELSE 0)

(* Who is accepted and has sent a line finds it written to the file, which *)
(* main may still empty (213), unless the server ends first                *)
(* (server.c:44-75).                                                       *)
AcceptedIsWritten ==
    \A c \in Clients :
        (thread[c] = "recv" /\ client[c] = "sent") ~> (c \in ToSet(file) \/ ~Alive)

(* Whoever goes on pressing Ctrl+C stops the server, although one SIGTERM  *)
(* can be missed between the test and pause (server.c:122-129, 219-221).   *)
RepeatedTermStops == ([]<>(sigterm)) => <>(main = "exit")

(* README.md:118: connections are handled as soon as they arrive.          *)
EveryConnectionAccepted ==
    \A c \in Clients :
        (client[c] = "connected") ~> (thread[c] # "none" \/ ~sock)
====
