----------------------------- MODULE FileServer -----------------------------
(***************************************************************************)
(* The neHos file server (src/midterm/server.c) and its clients            *)
(* (client.c): a parent that reads connection requests from a FIFO and     *)
(* forks a child per client, and the sessions of children and clients over *)
(* one FIFO and two semaphores per client.  What a command does to a file  *)
(* of the server is left out, whether and how it is answered is not;       *)
(* transfers are those of SharedMemory.                                    *)
(*                                                                         *)
(* A client c names the client process, its child of the server, its FIFO  *)
(* and its semaphores.                                                     *)
(***************************************************************************)
EXTENDS SharedMemory, FiniteSets

CONSTANTS
    Clients,
    numClients,         \* argument of the server
    MAX_CLIENT,         \* places in clients[]
    Nobody,             \* -1 in clients[]
    None,               \* no argument
    Asks,               \* what each client may ask for when it connects
    Commands,           \* what each client may type: <<word, file>>
    MaxCommands,        \* how much each client types
    MaxInterrupts,      \* how often each client gets SIGINT
    Faults              \* SIGINT of the parent, fork that fails

\* "ask" stands for the commands that are answered, "mute" for those that are
\* not: readF without a line number, list of a missing directory, arcServer.
\* "writeT" is writeT at a line, which goes through the file temp.
Words == {"ask", "mute", "writeT", "upload", "download", "quit", "killServer"}
Messages == Words \X Files

\* A child has a helper process for each transfer it takes part in.
Helpers == UNION {{<<c, k>> : k \in 1..MaxCommands[c]} : c \in Clients}

ASSUME ServerAssumption ==
    /\ IsFiniteSet(Clients) /\ Cardinality(Clients) <= MAX_CLIENT
    /\ numClients \in Nat \ {0} /\ MAX_CLIENT \in Nat \ {0} /\ Nobody \notin Clients
    /\ None \in Files
    /\ Asks \in [Clients -> SUBSET [tryConnect : BOOLEAN, right : BOOLEAN]]
    /\ Commands \in [Clients -> SUBSET Messages]
    /\ MaxCommands \in [Clients -> Nat] /\ Procs = Clients \cup Helpers
    /\ MaxInterrupts \in [Clients -> Nat] /\ Faults \subseteq {"SIGINT", "fork"}

VARIABLES
    serverFifo,             \* the connection requests
    parent, req,            \* where the parent is, the request it handles
    counted,                \* the clientCounter it has loaded to increment
    clientCounter, clients, child,  \* child[] up to fork_count
    cl, n, last, arg,       \* where each client is, commands typed, the last, its argument
    ch,                     \* where each child is
    temp,                   \* whether the file temp exists
    fifo, sem_temp, sem_temp2,
    interrupts              \* SIGINTs of each client so far

parentVars  == <<serverFifo, parent, req, counted, clientCounter, clients, child>>
clientVars  == <<cl, n, last, arg, interrupts>>
childVars   == <<ch, temp>>
channel     == <<fifo, sem_temp, sem_temp2>>
sessionVars == <<clientVars, childVars, channel, transferVars>>
vars == <<parentVars, sessionVars>>

Empty == <<"ask", None>>

Init ==
    /\ TransferInit /\ file = [p \in Procs |-> None]
    /\ serverFifo = << >> /\ parent = "read"
    /\ req = [pid |-> Nobody, tryConnect |-> FALSE, right |-> FALSE] /\ counted = 0
    /\ clientCounter = 0 /\ child = << >>
    /\ clients = [i \in 1..MAX_CLIENT |-> Nobody]
    /\ cl = [c \in Clients |-> "idle"] /\ n = [c \in Clients |-> 0]
    /\ last = [c \in Clients |-> Empty] /\ arg = [c \in Clients |-> None]
    /\ interrupts = [c \in Clients |-> 0]
    /\ ch = [c \in Clients |-> "none"] /\ temp = FALSE
    /\ fifo = [c \in Clients |-> << >>]
    /\ sem_temp = [c \in Clients |-> 0] /\ sem_temp2 = [c \in Clients |-> 0]

-----------------------------------------------------------------------------
(* The parent: main and sigchldhndlr. *)

Up == parent \in {"read", "incr", "fork", "record"}

ParentTo(from, to) == parent = from /\ parent' = to

\* Bug: the counter is not looked at.
RefuseNever == ~Head(serverFifo).right

Refuse ==
    LET r == Head(serverFifo)
    IN  ~r.right \/ (clientCounter > numClients /\ r.tryConnect)

\* SIGTERM, which ends the client.
RefuseClient ==
    /\ parent = "read" /\ serverFifo # << >> /\ Refuse
    /\ serverFifo' = Tail(serverFifo)
    /\ cl' = [cl EXCEPT ![Head(serverFifo).pid] = "gone"]
    /\ UNCHANGED <<parent, req, counted, clientCounter, clients, child, n, last, arg,
                   interrupts, childVars, channel, transferVars>>

\* It takes every free place.
FindProperLocation(pid) ==
    clients' = [i \in 1..MAX_CLIENT |-> IF clients[i] = Nobody THEN pid ELSE clients[i]]

\* The counter is loaded to be incremented; the handler of SIGCHLD may run before
\* it is stored.
AdmitClient ==
    /\ serverFifo # << >> /\ ~Refuse /\ ParentTo("read", "incr")
    /\ serverFifo' = Tail(serverFifo) /\ req' = Head(serverFifo)
    /\ FindProperLocation(Head(serverFifo).pid)
    /\ counted' = clientCounter
    /\ UNCHANGED <<clientCounter, child, sessionVars>>

CountClient ==
    /\ ParentTo("incr", "fork")
    /\ clientCounter' = counted + 1
    /\ UNCHANGED <<serverFifo, req, counted, clients, child, sessionVars>>

Fork ==
    /\ ParentTo("fork", "record")
    /\ ch' = [ch EXCEPT ![req.pid] = "open"]
    /\ UNCHANGED <<serverFifo, req, counted, clientCounter, clients, child, clientVars, temp,
                   channel, transferVars>>

\* The FIFO is closed and unlinked; the next read ends the parent.
ForkFails ==
    /\ "fork" \in Faults /\ ParentTo("fork", "failed")
    /\ UNCHANGED <<serverFifo, req, counted, clientCounter, clients, child, sessionVars>>

\* Bug: fork_count is not advanced.
RecordFirst ==
    /\ ParentTo("record", "read")
    /\ child' = <<req.pid>>
    /\ UNCHANGED <<serverFifo, req, counted, clientCounter, clients, sessionVars>>

Record ==
    /\ ParentTo("record", "read")
    /\ child' = Append(child, req.pid)
    /\ UNCHANGED <<serverFifo, req, counted, clientCounter, clients, sessionVars>>

Zombies == {c \in Clients : ch[c] = "zombie"}

\* kill_fork looks the child up in child[] and frees the place of the same
\* number in clients[].
Reaped ==
    /\ clients' = [i \in 1..MAX_CLIENT |->
                     IF i \in DOMAIN child /\ child[i] \in Zombies THEN Nobody ELSE clients[i]]
    /\ ch' = [c \in Clients |-> IF ch[c] = "zombie" THEN "reaped" ELSE ch[c]]
    /\ UNCHANGED <<serverFifo, parent, req, counted, child, clientVars, temp, channel,
                   transferVars>>

\* The handler of SIGCHLD.
Reap ==
    /\ Up /\ Zombies # {} /\ Reaped
    /\ clientCounter' = clientCounter - Cardinality(Zombies)

\* The handler of SIGINT: SIGTERM to the clients and children it knows of.
ShutDown ==
    /\ "SIGINT" \in Faults /\ Up /\ parent' = "interrupted"
    /\ LET killed == IF clientCounter > 0 THEN {clients[i] : i \in 1..MAX_CLIENT} ELSE {}
           ended  == IF clientCounter > 0 THEN {child[i] : i \in DOMAIN child} ELSE {}
       IN  /\ cl' = [c \in Clients |-> IF c \in killed THEN "gone" ELSE cl[c]]
           /\ ch' = [c \in Clients |-> IF c \in ended THEN "reaped" ELSE ch[c]]
    /\ UNCHANGED <<serverFifo, req, counted, clientCounter, clients, child, n, last, arg,
                   interrupts, temp, channel, transferVars>>

Parent == RefuseClient \/ AdmitClient \/ CountClient \/ Fork \/ Record \/ Reap

-----------------------------------------------------------------------------
(* A client. *)

ClientTo(c, from, to) == cl[c] = from /\ cl' = [cl EXCEPT ![c] = to]
Send(c, m)   == fifo' = [fifo EXCEPT ![c] = Append(@, m)]
Receive(c)   == fifo[c] # << >> /\ fifo' = [fifo EXCEPT ![c] = Tail(@)]
Post(sem, c) == sem' = [sem EXCEPT ![c] = @ + 1]
Wait(sem, c) == sem[c] > 0 /\ sem' = [sem EXCEPT ![c] = @ - 1]

\* req.connect is never written: the server may read anything there.  The
\* number of the server is an argument, which may be wrong.
Connect(c) ==
    /\ Up /\ ClientTo(c, "idle", "open")
    /\ \E a \in Asks[c] :
          serverFifo' = Append(serverFifo, [pid |-> c, tryConnect |-> a.tryConnect,
                                            right |-> a.right])
    /\ UNCHANGED <<parent, req, counted, clientCounter, clients, child, n, last, arg,
                   interrupts, childVars, channel, transferVars>>

\* open() of the FIFO for writing and, by the child, for reading wait for each other.
Meet(c) ==
    /\ ClientTo(c, "open", "prompt")
    /\ ch[c] = "open" /\ ch' = [ch EXCEPT ![c] = "wait"]
    /\ UNCHANGED <<parentVars, n, last, arg, interrupts, temp, channel, transferVars>>

\* splitStringIntoArray_S overwrites as many elements as the command has words.
Submit(c, m) ==
    /\ ClientTo(c, "prompt", "wait")
    /\ last' = [last EXCEPT ![c] = m]
    /\ arg' = [arg EXCEPT ![c] = IF m[2] = None THEN @ ELSE m[2]]
    /\ Send(c, m) /\ Post(sem_temp, c)
    /\ UNCHANGED <<parentVars, childVars, sem_temp2, transferVars>>

Type(c, m) ==
    /\ n[c] < MaxCommands[c] /\ n' = [n EXCEPT ![c] = @ + 1]
    /\ Submit(c, m)
    /\ UNCHANGED interrupts

Granted(c) ==
    /\ ClientTo(c, "wait", "read") /\ Wait(sem_temp2, c)
    /\ UNCHANGED <<parentVars, n, last, arg, interrupts, childVars, fifo, sem_temp, transferVars>>

Begin(p, f, place) == Goto(p, place) /\ file' = [file EXCEPT ![p] = f]

\* What is read may be "upload" or "download" because the child answers so or
\* because it is the client's own command.
ReadResponse(c) ==
    /\ Receive(c)
    /\ LET word == Head(fifo[c])[1]
       IN  IF word \in {"upload", "download"}
           THEN /\ ClientTo(c, "read", "transfer")
                /\ Begin(c, arg[c], IF word = "upload" THEN "open" ELSE "sleep")
           ELSE ClientTo(c, "read", "prompt") /\ UNCHANGED <<at, file>>
    /\ UNCHANGED <<parentVars, n, last, arg, interrupts, childVars, sem_temp, sem_temp2,
                   semVars, shm, got>>

\* A producer or consumer that exits ends the client with it.
Transferred(c) ==
    /\ at[c] \in {"done", "failed", "lost"}
    /\ Goto(c, IF at[c] = "done" THEN "idle" ELSE at[c])
    /\ ClientTo(c, "transfer", IF at[c] = "done" THEN "prompt" ELSE "gone")
    /\ UNCHANGED <<parentVars, n, last, arg, interrupts, childVars, channel, semVars, shm,
                   file, got>>

Client(c) == Granted(c) \/ ReadResponse(c) \/ Transferred(c)

\* The handler of SIGINT only prints, but the call that was blocked fails: open
\* ends the client, a read of the terminal sends an empty command, sem_wait
\* goes on without the token, a read of the FIFO is given up.
Interrupt(c) ==
    /\ interrupts[c] < MaxInterrupts[c]
    /\ interrupts' = [interrupts EXCEPT ![c] = @ + 1]

InterruptOpen(c) ==
    /\ Interrupt(c) /\ ClientTo(c, "open", "gone")
    /\ UNCHANGED <<parentVars, n, last, arg, childVars, channel, transferVars>>

InterruptPrompt(c) == Interrupt(c) /\ Submit(c, Empty) /\ UNCHANGED n

InterruptWait(c) ==
    /\ Interrupt(c) /\ ClientTo(c, "wait", "read")
    /\ UNCHANGED <<parentVars, n, last, arg, childVars, channel, transferVars>>

InterruptRead(c) ==
    /\ Interrupt(c) /\ ClientTo(c, "read", "prompt")
    /\ UNCHANGED <<parentVars, n, last, arg, childVars, channel, transferVars>>

InterruptTransfer(c) ==
    /\ Interrupt(c) /\ cl[c] = "transfer" /\ TakeInterrupted(c)
    /\ UNCHANGED <<parentVars, cl, n, last, arg, childVars, channel>>

InterruptClient(c) ==
    \/ InterruptOpen(c) \/ InterruptPrompt(c) \/ InterruptWait(c) \/ InterruptRead(c)
    \/ InterruptTransfer(c)

-----------------------------------------------------------------------------
(* The child of a client. *)

ChildTo(c, from, to) == ch[c] = from /\ ch' = [ch EXCEPT ![c] = to]

\* Bug: the child does not wait for its turn.
TakeTurnAlways(c) ==
    /\ ChildTo(c, "wait", "read")
    /\ UNCHANGED <<parentVars, clientVars, temp, channel, transferVars>>

TakeTurn(c) ==
    /\ ChildTo(c, "wait", "read") /\ Wait(sem_temp, c)
    /\ UNCHANGED <<parentVars, clientVars, temp, fifo, sem_temp2, transferVars>>

\* Bug: an invalid command is not answered.
ResponseSilent(m) == IF m[1] \in {"upload", "download"} THEN <<m>> ELSE << >>

\* What the child writes back; "ask" stands for any other text as well.
Response(m) ==
    CASE m[1] \in {"upload", "download"} -> <<m>>
      [] m[1] = "mute" -> << >>
      [] OTHER -> <<Empty>>

Reads(c, words) == ch[c] = "read" /\ fifo[c] # << >> /\ Head(fifo[c])[1] \in words
Answer(c) == fifo' = [fifo EXCEPT ![c] = Tail(@) \o Response(Head(@))]

Serve(c) ==
    /\ Reads(c, {"ask", "mute"}) /\ Answer(c) /\ ChildTo(c, "read", "post")
    /\ UNCHANGED <<parentVars, clientVars, temp, sem_temp, sem_temp2, transferVars>>

\* fork() of the process for the other end of the transfer.
ServeTransfer(c) ==
    /\ Reads(c, {"upload", "download"}) /\ Answer(c) /\ ChildTo(c, "read", "post")
    /\ \E p \in {<<c, k>> : k \in 1..MaxCommands[c]} :
          /\ at[p] = "idle" /\ \A k \in 1..p[2] - 1 : at[<<c, k>>] # "idle"
          /\ Begin(p, Head(fifo[c])[2], IF Head(fifo[c])[1] = "upload" THEN "sleep" ELSE "open")
    /\ UNCHANGED <<parentVars, clientVars, temp, sem_temp, sem_temp2, semVars, shm, got>>

\* exit(EXIT_FAILURE) after the answer is written and before the client may read it.
ServeForkFails(c) ==
    /\ "fork" \in Faults
    /\ Reads(c, {"upload", "download"}) /\ Answer(c) /\ ChildTo(c, "read", "zombie")
    /\ UNCHANGED <<parentVars, clientVars, temp, sem_temp, sem_temp2, transferVars>>

\* writeTMiddle: all children use the same file temp, and one that finds it
\* gone calls exit(1).
OpenTemp(c) ==
    /\ Reads(c, {"writeT"}) /\ Receive(c) /\ ChildTo(c, "read", "temp")
    /\ temp' = TRUE
    /\ UNCHANGED <<parentVars, clientVars, sem_temp, sem_temp2, transferVars>>

UnlinkTemp(c) ==
    /\ temp /\ temp' = FALSE
    /\ ChildTo(c, "temp", "post") /\ Send(c, Empty)
    /\ UNCHANGED <<parentVars, clientVars, sem_temp, sem_temp2, transferVars>>

UnlinkFails(c) ==
    /\ ~temp /\ ChildTo(c, "temp", "zombie")
    /\ UNCHANGED <<parentVars, clientVars, temp, channel, transferVars>>

GiveTurn(c) ==
    /\ ChildTo(c, "post", "wait") /\ Post(sem_temp2, c)
    /\ UNCHANGED <<parentVars, clientVars, temp, fifo, sem_temp, transferVars>>

ServeQuit(c) ==
    /\ Reads(c, {"quit"}) /\ Answer(c) /\ Post(sem_temp2, c) /\ ChildTo(c, "read", "bye")
    /\ UNCHANGED <<parentVars, clientVars, temp, sem_temp, transferVars>>

\* After usleep(1000): SIGTERM to the client, wherever it is.
Bye(c) ==
    /\ ChildTo(c, "bye", "zombie") /\ cl' = [cl EXCEPT ![c] = "gone"]
    /\ UNCHANGED <<parentVars, n, last, arg, interrupts, temp, channel, transferVars>>

\* SIGTERM to the client and to the parent, which has no handler for it.
ServeKill(c) ==
    /\ Reads(c, {"killServer"}) /\ ChildTo(c, "read", "zombie") /\ Receive(c)
    /\ cl' = [cl EXCEPT ![c] = "gone"]
    /\ parent' = IF Up THEN "killed" ELSE parent
    /\ UNCHANGED <<serverFifo, req, counted, clientCounter, clients, child, n, last, arg,
                   interrupts, temp, sem_temp, sem_temp2, transferVars>>

Child(c) ==
    \/ TakeTurn(c) \/ Serve(c) \/ ServeTransfer(c) \/ ServeForkFails(c) \/ OpenTemp(c)
    \/ UnlinkTemp(c) \/ UnlinkFails(c) \/ GiveTurn(c) \/ ServeQuit(c) \/ Bye(c) \/ ServeKill(c)

-----------------------------------------------------------------------------
\* One step of a transfer; a client takes it unless it has ended.
Moves(p) ==
    /\ p \in Clients => cl[p] = "transfer"
    /\ Transfer(p)
    /\ UNCHANGED <<parentVars, clientVars, childVars, channel>>

Next ==
    \/ Parent \/ ForkFails \/ ShutDown
    \/ \E c \in Clients :
          \/ Connect(c) \/ Meet(c) \/ Client(c) \/ Child(c) \/ InterruptClient(c)
          \/ \E m \in Commands[c] : Type(c, m)
    \/ \E p \in Procs : Moves(p)

Spec == Init /\ [][Next]_vars

\* Nobody has to connect, to type or to send a signal.
FairSpec ==
    /\ Spec /\ WF_vars(Parent)
    /\ \A c \in Clients : WF_vars(Meet(c)) /\ WF_vars(Client(c)) /\ WF_vars(Child(c))
    /\ \A p \in Procs : WF_vars(Moves(p))
=============================================================================
