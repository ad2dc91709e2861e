------------------------ MODULE FileServerProperties ------------------------
(***************************************************************************)
(* What the neHos file server should guarantee.                            *)
(***************************************************************************)
EXTENDS FileServer

ClientPlaces == {"idle", "open", "prompt", "wait", "read", "transfer", "gone"}
ChildPlaces  == {"none", "open", "wait", "read", "temp", "post", "bye", "zombie", "reaped"}
ProcPlaces   == {"idle", "open", "clear", "mutex", "full", "file", "take", "copy",
                 "sleep", "get", "write", "done", "failed", "lost"}
ParentPlaces == {"read", "incr", "fork", "record", "failed", "interrupted", "killed"}
Requests     == [pid : Clients, tryConnect : BOOLEAN, right : BOOLEAN]

ParentType ==
    /\ serverFifo \in Seq(Requests) /\ parent \in ParentPlaces
    /\ req \in [pid : Clients \cup {Nobody}, tryConnect : BOOLEAN, right : BOOLEAN]
    /\ parent \in {"incr", "fork", "record"} => req.pid \in Clients
    /\ counted \in Int /\ clientCounter \in Int
    /\ clients \in [1..MAX_CLIENT -> Clients \cup {Nobody}] /\ child \in Seq(Clients)

SessionType ==
    /\ cl \in [Clients -> ClientPlaces] /\ n \in [Clients -> Nat]
    /\ last \in [Clients -> Messages] /\ arg \in [Clients -> Files]
    /\ ch \in [Clients -> ChildPlaces] /\ temp \in BOOLEAN
    /\ fifo \in [Clients -> Seq(Messages)]
    /\ sem_temp \in [Clients -> Nat] /\ sem_temp2 \in [Clients -> Nat]
    /\ interrupts \in [Clients -> Nat]

TransferType ==
    /\ made \subseteq AllMade /\ shm \in [Blocks -> Files \cup {Nul}]
    /\ producer_sem \in Nat /\ consumer_sem \in Nat
    /\ at \in [Procs -> ProcPlaces] /\ file \in [Procs -> Files]
    /\ got \in [Procs -> UNION {[S -> Files] : S \in SUBSET Blocks}]

\* Every variable keeps its type; whoever is counted, forked and recorded is a client.
TypeOK == ParentType /\ SessionType /\ TransferType

-----------------------------------------------------------------------------
(* The parent. *)

\* Children that the parent has forked and not reaped.
Children == {c \in Clients : ch[c] \notin {"none", "reaped"}}

\* clientCounter never falls below the number of children, and is ahead of it
\* from the increment to the fork, although the handler of SIGCHLD may change it
\* in the middle of the increment.
CounterCovers ==
    Up => /\ clientCounter >= Cardinality(Children) + (IF parent = "fork" THEN 1 ELSE 0)
          /\ parent = "incr" => counted >= clientCounter

\* The inductive invariant of the admission of clients.
Admission ==
    /\ CounterCovers
    /\ parent \in {"incr", "fork"} /\ req.tryConnect => Cardinality(Children) <= numClients

\* A client that asked for tryConnect gets its child only while numClients
\* others at most have one.
TryConnectBound ==
    [][Fork /\ req.tryConnect => Cardinality(Children') <= numClients + 1]_vars

\* After SIGINT no child of the server lives, but for one that was forked just
\* before and was not in child[] yet.
NoOrphans ==
    parent = "interrupted" => \A c \in Children : c = req.pid

-----------------------------------------------------------------------------
(* A session. *)

One(condition) == IF condition THEN 1 ELSE 0

ClientActs(c) == cl[c] \in {"prompt", "read", "transfer"}
ChildActs(c)  == ch[c] \in {"read", "temp", "post"}

\* Client and child are both in the session, and no SIGINT has disturbed it.
InSession(c) ==
    /\ cl[c] \in {"prompt", "wait", "read", "transfer"}
    /\ ch[c] \in {"wait", "read", "temp", "post", "bye"} /\ interrupts[c] = 0

\* There is one turn, which the client has, the child has, or a semaphore holds.
Turn(c) ==
    sem_temp[c] + sem_temp2[c] + One(ClientActs(c)) + One(ChildActs(c)) = 1

Turns == \A c \in Clients : InSession(c) => Turn(c)

\* Over their one FIFO, the child reads what the client typed last and the client
\* what the child answered to it, never what each has written itself.
Exchange(c) ==
    /\ cl[c] \in {"prompt", "transfer"} => fifo[c] = << >>
    /\ ch[c] = "read" \/ sem_temp[c] > 0 => fifo[c] = <<last[c]>>
    /\ ch[c] = "temp" => fifo[c] = << >> /\ last[c][1] = "writeT"
    /\ ch[c] = "post" \/ sem_temp2[c] > 0 \/ cl[c] = "read" => fifo[c] = Response(last[c])

OwnMessages == \A c \in Clients : InSession(c) => Exchange(c)

\* Until client and child meet, nothing is in the FIFO and the semaphores.
Fresh(c) ==
    cl[c] \in {"idle", "open"} =>
      /\ ch[c] \notin {"wait", "read", "temp", "post", "bye"}
      /\ sem_temp[c] = 0 /\ sem_temp2[c] = 0 /\ fifo[c] = << >>

\* The inductive invariant of Turns and OwnMessages.
Session(c) == Fresh(c) /\ (InSession(c) => Turn(c) /\ Exchange(c))
IndInv == TypeOK /\ Admission /\ \A c \in Clients : Session(c)

-----------------------------------------------------------------------------
(* The transfers. *)

\* The processes between their sem_wait and their sem_post.  A client that has been killed
\* there keeps its token, and is no longer in the memory.
Inside == {p \in Procs : at[p] \in {"copy", "write"}}
Alive(p) == p \in Clients => cl[p] = "transfer"

\* While no client gets SIGINT, and if no more than one token was left behind, one living
\* process at a time is past its sem_wait, of all the uploads and downloads of all clients,
\* whatever producers start, end or are killed meanwhile.  A starting producer's memset is not
\* under the semaphores, and is not excluded.
OneInside ==
    (\A c \in Clients : interrupts[c] = 0) /\ (\A l \in Left : l.producer_sem + l.consumer_sem <= 1) =>
      \A p, q \in Inside : Alive(p) /\ Alive(q) => p = q

\* server.c:229, "uploads the file": what the child writes is what was uploaded.
UploadIntact ==
    \A p \in Helpers : got[p] # << >> => got[p] = [i \in 1..FileLen[file[p]] |-> file[p]]

-----------------------------------------------------------------------------
(* Liveness. *)

Undisturbed(c) == interrupts[c] = 0 /\ Up

\* A client that is not interrupted gets an answer to each command that has one.
Answered ==
    \A c \in Clients :
       cl[c] = "wait" /\ last[c][1] \in {"ask", "upload", "download", "quit", "killServer"}
         ~> cl[c] \in {"prompt", "transfer", "gone"} \/ ~Undisturbed(c)

\* Uploads end if memory, semaphores and a token are there from the start, and no consumer
\* exits, and so leaves its producer's token to nobody.  It holds although the tokens of all
\* transfers mix, and although producers exit before they give one.
ConsumerLost == \E p \in Procs : at[p] = "lost"
UploadsEnd ==
    made = AllMade /\ producer_sem + consumer_sem > 0 =>
      \A c \in Clients :
         cl[c] = "transfer" /\ at[c] = "open"
           ~> cl[c] \in {"prompt", "gone"} \/ ConsumerLost \/ ~Up
=============================================================================
