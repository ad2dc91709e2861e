-------------------------- MODULE FileServerProofs --------------------------
(***************************************************************************)
(* Proofs about FileServer, for any number of clients, files and blocks:   *)
(* types, the count of the children, and the turns of client and child.    *)
(***************************************************************************)
EXTENDS FileServerProperties, FiniteSetTheorems, SequenceTheorems, TLAPS

USE MemoryAssumption, ServerAssumption

-----------------------------------------------------------------------------
(* Types. *)

\* Nothing is in a session or a transfer at the start.
LEMMA InitTyped == Init => TypeOK
<1> SUFFICES ASSUME Init PROVE TypeOK
  OBVIOUS
<1>1. ParentType
  BY DEF Init, ParentType, ParentPlaces
<1>2. SessionType
  <2>1. temp \in BOOLEAN
    BY DEF Init
  <2>2. Empty \in Messages
    BY DEF Empty, Messages, Words
  <2>3. last \in [Clients -> Messages] /\ arg \in [Clients -> Files]
    BY <2>2 DEF Init
  <2> QED
    BY <2>1, <2>3 DEF Init, SessionType, ClientPlaces, ChildPlaces
<1>3. TransferType
  <2>1. << >> \in [{} -> Files] /\ {} \in SUBSET Blocks
    OBVIOUS
  <2>2. << >> \in UNION {[S -> Files] : S \in SUBSET Blocks}
    BY <2>1
  <2>3. PICK l \in Left : /\ made = l.made
                          /\ producer_sem = l.producer_sem /\ consumer_sem = l.consumer_sem
                          /\ shm = [i \in Blocks |-> IF i <= FileLen[l.text] THEN l.text ELSE Nul]
    BY DEF Init, TransferInit
  <2>4. /\ l.made \subseteq AllMade /\ l.text \in Files
        /\ l.producer_sem \in Nat /\ l.consumer_sem \in Nat
    BY DEF Remains, AllMade
  <2>5. /\ made \subseteq AllMade /\ shm \in [Blocks -> Files \cup {Nul}]
        /\ producer_sem \in Nat /\ consumer_sem \in Nat
    BY <2>3, <2>4
  <2> QED
    BY <2>2, <2>5 DEF Init, TransferInit, TransferType, ProcPlaces
<1> QED
  BY <1>1, <1>2, <1>3 DEF TypeOK

\* The parent keeps the types.
LEMMA ParentTyped == TypeOK /\ (Parent \/ ForkFails \/ ShutDown) => TypeOK'
<1> SUFFICES ASSUME TypeOK, Parent \/ ForkFails \/ ShutDown PROVE TypeOK'
  OBVIOUS
<1> USE DEF TypeOK, sessionVars, clientVars, childVars, channel, transferVars, semVars, ParentTo
<1>h. ASSUME serverFifo # << >>
      PROVE  Head(serverFifo) \in Requests /\ Tail(serverFifo) \in Seq(Requests)
  BY <1>h, HeadTailProperties DEF ParentType
<1>z. Cardinality(Zombies) \in Nat
  BY FS_Subset, FS_CardinalityType DEF Zombies
<1>1. CASE RefuseClient
  <2>1. ParentType'
    BY <1>1, <1>h DEF RefuseClient, ParentType
  <2>2. SessionType' /\ TransferType'
    BY <1>1 DEF RefuseClient, SessionType, TransferType, ClientPlaces
  <2> QED BY <2>1, <2>2
<1>2. CASE AdmitClient
  <2>1. ParentType'
    BY <1>2, <1>h DEF AdmitClient, FindProperLocation, ParentType, ParentPlaces, Requests
  <2>2. SessionType' /\ TransferType'
    BY <1>2 DEF AdmitClient, SessionType, TransferType
  <2> QED BY <2>1, <2>2
<1>3. CASE CountClient
  BY <1>3 DEF CountClient, ParentType, SessionType, TransferType, ParentPlaces
<1>4. CASE Fork
  BY <1>4 DEF Fork, ParentType, SessionType, TransferType, ParentPlaces, ChildPlaces
<1>5. CASE Record
  <2>1. req.pid \in Clients /\ Append(child, req.pid) \in Seq(Clients)
    BY <1>5, AppendProperties DEF Record, ParentType
  <2>2. ParentType'
    BY <1>5, <2>1 DEF Record, ParentType, ParentPlaces
  <2>3. SessionType' /\ TransferType'
    BY <1>5 DEF Record, SessionType, TransferType
  <2> QED BY <2>2, <2>3
<1>6. CASE Reap
  <2>1. ParentType'
    BY <1>6, <1>z DEF Reap, Reaped, ParentType
  <2>2. SessionType' /\ TransferType'
    BY <1>6 DEF Reap, Reaped, SessionType, TransferType, ChildPlaces
  <2> QED BY <2>1, <2>2
<1>7. CASE ForkFails
  BY <1>7 DEF ForkFails, ParentType, SessionType, TransferType, ParentPlaces
<1>8. CASE ShutDown
  BY <1>8 DEF ShutDown, ParentType, SessionType, TransferType, ParentPlaces, ClientPlaces, ChildPlaces
<1>9. QED
  BY <1>1, <1>2, <1>3, <1>4, <1>5, <1>6, <1>7, <1>8 DEF Parent

\* Messages stay messages in the FIFO of a session.
LEMMA FifoTyped ==
  ASSUME NEW c \in Clients, SessionType
  PROVE  /\ \A m \in Messages : Append(fifo[c], m) \in Seq(Messages)
         /\ fifo[c] # << >> => Head(fifo[c]) \in Messages /\ Tail(fifo[c]) \in Seq(Messages)
         /\ fifo[c] # << >> => Tail(fifo[c]) \o Response(Head(fifo[c])) \in Seq(Messages)
<1>1. fifo[c] \in Seq(Messages)
  BY DEF SessionType
<1>2. \A m \in Messages : Append(fifo[c], m) \in Seq(Messages)
  BY <1>1, AppendProperties
<1>3. ASSUME fifo[c] # << >>
      PROVE  Head(fifo[c]) \in Messages /\ Tail(fifo[c]) \in Seq(Messages)
  BY <1>1, <1>3, HeadTailProperties
<1>4. ASSUME fifo[c] # << >>
      PROVE  Tail(fifo[c]) \o Response(Head(fifo[c])) \in Seq(Messages)
  <2>1. Empty \in Messages
    BY DEF Empty, Messages, Words
  <2>2. \A m \in Messages : Response(m) \in Seq(Messages)
    BY <2>1 DEF Response
  <2> QED
    BY <1>3, <1>4, <2>2, ConcatProperties
<1> QED
  BY <1>2, <1>3, <1>4

\* The file named by a message is a file.
LEMMA MessageTyped == ASSUME NEW m \in Messages PROVE m[1] \in Words /\ m[2] \in Files
  BY DEF Messages

\* A client is a process, and so is the helper of a child.
LEMMA ProcsTyped ==
  /\ Clients \subseteq Procs
  /\ \A c \in Clients : {<<c, k>> : k \in 1..MaxCommands[c]} \subseteq Procs
  BY DEF Helpers

\* What a step does not touch keeps its type.
LEMMA Untouched ==
  /\ ParentType /\ UNCHANGED parentVars => ParentType'
  /\ TransferType /\ UNCHANGED transferVars => TransferType'
  BY DEF parentVars, transferVars, semVars, ParentType, TransferType

\* A client keeps the types.
LEMMA ClientTyped ==
  ASSUME NEW c \in Clients, TypeOK,
         \/ Connect(c) \/ Meet(c) \/ Client(c) \/ InterruptClient(c)
         \/ \E m \in Commands[c] : Type(c, m)
  PROVE  TypeOK'
<1> USE DEF TypeOK, parentVars, childVars, channel, transferVars, semVars, ClientTo, Goto, Interrupt
<1>1. CASE Connect(c)
  <2>1. \A a \in Asks[c] : [pid |-> c, tryConnect |-> a.tryConnect, right |-> a.right] \in Requests
    BY DEF Requests
  <2>2. ParentType'
    BY <1>1, <2>1, AppendProperties DEF Connect, ParentType
  <2>3. SessionType' /\ TransferType'
    BY <1>1 DEF Connect, SessionType, TransferType, ClientPlaces
  <2> QED BY <2>2, <2>3
<1>2. CASE Meet(c)
  BY <1>2 DEF Meet, ParentType, SessionType, TransferType, ClientPlaces, ChildPlaces
<1>3. CASE Granted(c)
  <2>1. SessionType'
    BY <1>3 DEF Granted, Wait, SessionType, ClientPlaces
  <2> QED BY <1>3, <2>1, Untouched DEF Granted
<1>4. CASE ReadResponse(c)
  <2>1. SessionType'
    BY <1>4, FifoTyped DEF ReadResponse, Receive, SessionType, ClientPlaces
  <2>2. TransferType'
    <3>1. c \in Procs /\ arg[c] \in Files
      BY ProcsTyped DEF SessionType
    <3>2. /\ at' = at \/ at' = [at EXCEPT ![c] = "open"] \/ at' = [at EXCEPT ![c] = "sleep"]
          /\ file' = file \/ file' = [file EXCEPT ![c] = arg[c]]
      BY <1>4 DEF ReadResponse, Begin
    <3> QED
      BY <1>4, <3>1, <3>2 DEF ReadResponse, TransferType, ProcPlaces
  <2>3. ParentType'
    BY <1>4 DEF ReadResponse, ParentType
  <2> QED BY <2>1, <2>2, <2>3
<1>5. CASE Transferred(c)
  BY <1>5 DEF Transferred, ParentType, SessionType, TransferType, ClientPlaces, ProcPlaces
<1>6. ASSUME NEW m \in Messages, Submit(c, m),
             n' \in [Clients -> Nat], interrupts' \in [Clients -> Nat]
      PROVE  TypeOK'
  <2>1. SessionType'
    <3>1. fifo' \in [Clients -> Seq(Messages)]
      BY <1>6, FifoTyped DEF Submit, Send, SessionType
    <3>2. last' \in [Clients -> Messages] /\ arg' \in [Clients -> Files]
      BY <1>6, MessageTyped DEF Submit, SessionType
    <3>3. sem_temp' \in [Clients -> Nat]
      BY <1>6 DEF Submit, Post, SessionType
    <3>4. cl' \in [Clients -> ClientPlaces]
      BY <1>6 DEF Submit, SessionType, ClientPlaces
    <3> QED
      BY <1>6, <3>1, <3>2, <3>3, <3>4 DEF Submit, SessionType
  <2>2. ParentType' /\ TransferType'
    BY <1>6 DEF Submit, ParentType, TransferType
  <2> QED BY <2>1, <2>2
<1>7. ASSUME NEW m \in Commands[c], Type(c, m) PROVE TypeOK'
  <2>1. m \in Messages /\ n' \in [Clients -> Nat] /\ interrupts' \in [Clients -> Nat]
    BY <1>7 DEF Type, SessionType
  <2> QED BY <1>6, <1>7, <2>1 DEF Type
<1>8. CASE InterruptClient(c)
  <2>1. CASE InterruptOpen(c)
    <3>1. SessionType'
      BY <2>1 DEF InterruptOpen, SessionType, ClientPlaces
    <3> QED BY <2>1, <3>1, Untouched DEF InterruptOpen
  <2>2. CASE InterruptPrompt(c)
    <3>1. Empty \in Messages /\ n' \in [Clients -> Nat] /\ interrupts' \in [Clients -> Nat]
      BY <2>2 DEF InterruptPrompt, SessionType, Empty, Messages, Words
    <3> QED BY <1>6, <2>2, <3>1 DEF InterruptPrompt
  <2>3. CASE InterruptWait(c)
    <3>1. SessionType'
      BY <2>3 DEF InterruptWait, SessionType, ClientPlaces
    <3> QED BY <2>3, <3>1, Untouched DEF InterruptWait
  <2>4. CASE InterruptRead(c)
    <3>1. SessionType'
      BY <2>4 DEF InterruptRead, SessionType, ClientPlaces
    <3> QED BY <2>4, <3>1, Untouched DEF InterruptRead
  <2>5. CASE InterruptTransfer(c)
    <3>1. SessionType' /\ ParentType'
      BY <2>5, Untouched DEF InterruptTransfer, SessionType
    <3>2. at' \in [Procs -> ProcPlaces] /\ UNCHANGED <<made, shm, producer_sem, consumer_sem, file, got>>
      BY <2>5 DEF InterruptTransfer, TakeInterrupted, TransferType, ProcPlaces
    <3> QED
      BY <3>1, <3>2 DEF TransferType
  <2> QED
    BY <1>8, <2>1, <2>2, <2>3, <2>4, <2>5 DEF InterruptClient
<1> QED
  BY <1>1, <1>2, <1>3, <1>4, <1>5, <1>7, <1>8 DEF Client

\* A child keeps the types.
LEMMA ChildTyped == ASSUME NEW c \in Clients, TypeOK, Child(c) PROVE TypeOK'
<1> USE DEF TypeOK, parentVars, clientVars, transferVars, semVars, ChildTo, Reads
<1>a. ASSUME Answer(c), fifo[c] # << >>
      PROVE  fifo' \in [Clients -> Seq(Messages)]
  BY <1>a, FifoTyped DEF Answer, SessionType
<1>1. CASE TakeTurn(c)
  <2>1. SessionType'
    BY <1>1 DEF TakeTurn, Wait, SessionType, ChildPlaces
  <2> QED BY <1>1, <2>1, Untouched DEF TakeTurn
<1>2. CASE Serve(c)
  BY <1>2, <1>a DEF Serve, ParentType, SessionType, TransferType, ChildPlaces
<1>3. CASE ServeTransfer(c)
  <2>1. ParentType' /\ SessionType'
    BY <1>3, <1>a DEF ServeTransfer, ParentType, SessionType, ChildPlaces
  <2>2. Head(fifo[c])[2] \in Files
    BY <1>3, FifoTyped, MessageTyped DEF ServeTransfer
  <2>3. TransferType'
    BY <1>3, <2>2, ProcsTyped DEF ServeTransfer, Begin, Goto, TransferType, ProcPlaces
  <2> QED BY <2>1, <2>3
<1>4. CASE OpenTemp(c)
  BY <1>4, FifoTyped DEF OpenTemp, Receive, ParentType, SessionType, TransferType, ChildPlaces
<1>5. CASE UnlinkTemp(c)
  <2>1. Empty \in Messages
    BY DEF Empty, Messages, Words
  <2> QED
    BY <1>5, <2>1, FifoTyped
    DEF UnlinkTemp, Send, ParentType, SessionType, TransferType, ChildPlaces
<1>6. CASE UnlinkFails(c)
  BY <1>6 DEF UnlinkFails, channel, ParentType, SessionType, TransferType, ChildPlaces
<1>7. CASE GiveTurn(c)
  <2>1. SessionType'
    BY <1>7 DEF GiveTurn, Post, SessionType, ChildPlaces
  <2> QED BY <1>7, <2>1, Untouched DEF GiveTurn
<1>8. CASE ServeQuit(c)
  <2>1. SessionType'
    <3>1. fifo' \in [Clients -> Seq(Messages)]
      BY <1>8, <1>a DEF ServeQuit
    <3>2. sem_temp2' \in [Clients -> Nat]
      BY <1>8 DEF ServeQuit, Post, SessionType
    <3>3. ch' \in [Clients -> ChildPlaces]
      BY <1>8 DEF ServeQuit, SessionType, ChildPlaces
    <3> QED
      BY <1>8, <3>1, <3>2, <3>3 DEF ServeQuit, SessionType
  <2> QED BY <1>8, <2>1, Untouched DEF ServeQuit
<1>9. CASE Bye(c)
  BY <1>9 DEF Bye, channel, ParentType, SessionType, TransferType, ChildPlaces, ClientPlaces
<1>11. CASE ServeForkFails(c)
  BY <1>11, <1>a DEF ServeForkFails, ParentType, SessionType, TransferType, ChildPlaces
<1>10. CASE ServeKill(c)
  <2>1. ParentType'
    BY <1>10 DEF ServeKill, ParentType, ParentPlaces, Up
  <2>2. SessionType' /\ TransferType'
    BY <1>10, FifoTyped DEF ServeKill, Receive, SessionType, TransferType, ChildPlaces, ClientPlaces
  <2> QED BY <2>1, <2>2
<1> QED
  BY <1>1, <1>2, <1>3, <1>4, <1>5, <1>6, <1>7, <1>8, <1>9, <1>10, <1>11 DEF Child

\* A step of a transfer keeps the types.
LEMMA TransferTyped == ASSUME NEW p \in Procs, TypeOK, Moves(p) PROVE TypeOK'
<1> USE DEF TypeOK, semVars, Goto, TransferType, ProcPlaces
<1>1. ParentType' /\ SessionType'
  BY DEF Moves, parentVars, clientVars, childVars, channel, ParentType, SessionType
<1>2. TransferType'
  <2>1. CASE ProdOpen(p)
    BY <2>1 DEF ProdOpen, Makes, AllMade
  <2>8. CASE ProdClear(p)
    BY <2>8 DEF ProdClear, ZeroShm
  <2>2. CASE ProdFile(p)
    BY <2>2 DEF ProdFile
  <2>3. CASE ProdTake(p)
    BY <2>3 DEF ProdTake
  <2>4. CASE ProdCopy(p)
    BY <2>4 DEF ProdCopy, Copied
  <2>5. CASE ConsOpen(p)
    BY <2>5 DEF ConsOpen
  <2>6. CASE ConsTake(p)
    BY <2>6 DEF ConsTake
  <2>7. CASE ConsWrite(p)
    <3> DEFINE full == {i \in Blocks : \A j \in 1..i : shm[j] # Nul}
    <3>1. \A i \in full : shm[i] \in Files
      BY DEF Blocks
    <3>2. Text \in [full -> Files] /\ full \in SUBSET Blocks
      BY <3>1 DEF Text
    <3>3. Text \in UNION {[S -> Files] : S \in SUBSET Blocks}
      BY <3>2
    <3> QED
      BY <2>7, <3>3 DEF ConsWrite
  <2> QED
    BY <2>1, <2>2, <2>3, <2>4, <2>5, <2>6, <2>7, <2>8 DEF Moves, Transfer
<1> QED BY <1>1, <1>2

\* Every variable keeps its type, for any number of clients, files and blocks.
THEOREM TypeCorrect == Spec => []TypeOK
<1>1. TypeOK /\ [Next]_vars => TypeOK'
  <2>1. TypeOK /\ UNCHANGED vars => TypeOK'
    BY DEF vars, parentVars, sessionVars, clientVars, childVars, channel, transferVars, semVars,
           TypeOK, ParentType, SessionType, TransferType
  <2> QED
    BY <2>1, ParentTyped, ClientTyped, ChildTyped, TransferTyped DEF Next
<1> QED
  BY InitTyped, <1>1, PTL DEF Spec

-----------------------------------------------------------------------------
(* Admission. *)

\* One more element makes a finite set larger by one at most.
LEMMA OneMore ==
  ASSUME NEW S, IsFiniteSet(S), NEW x
  PROVE  Cardinality(S \cup {x}) \in Nat /\ Cardinality(S \cup {x}) <= Cardinality(S) + 1
<1>1. IsFiniteSet(S \cup {x})
  BY FS_AddElement
<1>2. Cardinality(S) \in Nat /\ Cardinality(S \cup {x}) \in Nat
  BY <1>1, FS_CardinalityType
<1>3. Cardinality(S \cup {x}) = Cardinality(S) \/ Cardinality(S \cup {x}) = Cardinality(S) + 1
  BY FS_AddElement
<1> QED
  BY <1>2, <1>3

\* The parent has finitely many children.
LEMMA ChildrenFinite == IsFiniteSet(Children) /\ Cardinality(Children) \in Nat
  BY FS_Subset, FS_CardinalityType DEF Children

\* The parent counts before it forks and after it has reaped.
LEMMA ParentAdmission == TypeOK /\ Admission /\ (Parent \/ ForkFails \/ ShutDown) => Admission'
<1> SUFFICES ASSUME TypeOK, Admission, Parent \/ ForkFails \/ ShutDown PROVE Admission'
  OBVIOUS
<1> USE DEF TypeOK, ParentType, Admission, CounterCovers, Up, ParentTo, sessionVars, childVars
<1>f. IsFiniteSet(Children) /\ Cardinality(Children) \in Nat
  BY ChildrenFinite
<1>1. CASE RefuseClient
  <2>1. Children' = Children
    BY <1>1 DEF RefuseClient, Children
  <2> QED BY <1>1, <2>1 DEF RefuseClient
<1>2. CASE AdmitClient
  <2>1. Children' = Children
    BY <1>2 DEF AdmitClient, Children
  <2>2. req'.tryConnect => clientCounter <= numClients
    BY <1>2 DEF AdmitClient, Refuse
  <2> QED BY <1>2, <1>f, <2>1, <2>2 DEF AdmitClient
<1>3. CASE CountClient
  <2>1. Children' = Children
    BY <1>3 DEF CountClient, Children
  <2> QED BY <1>3, <1>f, <2>1 DEF CountClient
<1>4. CASE Fork
  <2>1. Children' = Children \cup {req.pid}
    BY <1>4 DEF Fork, Children, SessionType
  <2>2. Cardinality(Children') \in Nat /\ Cardinality(Children') <= Cardinality(Children) + 1
    BY <1>f, <2>1, OneMore
  <2> QED BY <1>4, <1>f, <2>2 DEF Fork
<1>5. CASE Record
  <2>1. Children' = Children
    BY <1>5 DEF Record, Children
  <2> QED BY <1>5, <1>f, <2>1 DEF Record
<1>6. CASE Reap
  <2>1. Children' = Children \ Zombies /\ Zombies \subseteq Children
    BY <1>6 DEF Reap, Reaped, Children, Zombies, SessionType
  <2>2. /\ IsFiniteSet(Zombies) /\ Cardinality(Zombies) \in Nat
        /\ Cardinality(Children') = Cardinality(Children) - Cardinality(Zombies)
    <3>1. IsFiniteSet(Zombies) /\ Cardinality(Zombies) \in Nat
      BY <1>f, <2>1, FS_Subset, FS_CardinalityType
    <3>2. Children \cap Zombies = Zombies
      BY <2>1
    <3>3. Cardinality(Children \ Zombies) = Cardinality(Children) - Cardinality(Children \cap Zombies)
      BY <1>f, FS_Difference
    <3> QED BY <2>1, <3>1, <3>2, <3>3
  <2>3. UNCHANGED <<parent, req, counted>> /\ clientCounter' = clientCounter - Cardinality(Zombies)
    BY <1>6 DEF Reap, Reaped
  <2> QED BY <1>f, <2>2, <2>3
<1>7. CASE ForkFails
  BY <1>7 DEF ForkFails
<1>8. CASE ShutDown
  BY <1>8 DEF ShutDown
<1> QED
  BY <1>1, <1>2, <1>3, <1>4, <1>5, <1>6, <1>7, <1>8 DEF Parent

\* Between its fork and the moment it is reaped a child is a child, whatever it does.
LEMMA ChildrenStay ==
  ASSUME TypeOK, Admission, UNCHANGED <<req, counted, clientCounter>>,
         parent' \in {parent, "killed"}, Children' = Children
  PROVE  Admission'
  BY DEF Admission, CounterCovers, Up

\* What clients and children do leaves the count as it is.
LEMMA SessionAdmission ==
  ASSUME NEW c \in Clients, TypeOK, Admission,
         \/ Connect(c) \/ Meet(c) \/ Client(c) \/ InterruptClient(c) \/ Child(c)
         \/ \E m \in Commands[c] : Type(c, m)
  PROVE  Admission'
<1> USE DEF TypeOK, SessionType, parentVars, clientVars, childVars, ClientTo, ChildTo
<1>1. CASE Connect(c) \/ Meet(c)
  BY <1>1, ChildrenStay DEF Connect, Meet, Children
<1>2. CASE Client(c)
  BY <1>2, ChildrenStay DEF Client, Granted, ReadResponse, Transferred, Children
<1>3. ASSUME NEW m, Submit(c, m) PROVE Admission'
  BY <1>3, ChildrenStay DEF Submit, Children
<1>4. CASE InterruptClient(c)
  BY <1>3, <1>4, ChildrenStay
  DEF InterruptClient, InterruptOpen, InterruptPrompt, InterruptWait, InterruptRead,
      InterruptTransfer, Children
<1>5. CASE Child(c)
  <2>1. UNCHANGED <<req, counted, clientCounter>> /\ parent' \in {parent, "killed"}
    BY <1>5 DEF Child, TakeTurn, Serve, ServeTransfer, ServeForkFails, OpenTemp, UnlinkTemp, UnlinkFails, GiveTurn,
                ServeQuit, Bye, ServeKill
  <2>2. \E place \in {"wait", "read", "temp", "post", "bye", "zombie"} :
           ch' = [ch EXCEPT ![c] = place]
    BY <1>5 DEF Child, TakeTurn, Serve, ServeTransfer, ServeForkFails, OpenTemp, UnlinkTemp, UnlinkFails, GiveTurn,
                ServeQuit, Bye, ServeKill
  <2>3. ch[c] \notin {"none", "reaped"}
    BY <1>5 DEF Child, TakeTurn, Serve, ServeTransfer, ServeForkFails, OpenTemp, UnlinkTemp, UnlinkFails, GiveTurn,
                ServeQuit, Bye, ServeKill, Reads
  <2>4. Children' = Children
    BY <2>2, <2>3 DEF Children
  <2> QED BY <2>1, <2>4, ChildrenStay
<1>6. CASE \E m \in Commands[c] : Type(c, m)
  BY <1>3, <1>6 DEF Type
<1> QED
  BY <1>1, <1>2, <1>4, <1>5, <1>6

-----------------------------------------------------------------------------
(* Turns. *)

\* A session is left alone by what only ends its client or its child, or forks
\* a new child.
LEMMA SessionKept ==
  ASSUME NEW c \in Clients, Session(c),
         cl'[c] \in {cl[c], "gone"}, ch'[c] \in {ch[c], "open", "zombie", "reaped"},
         interrupts'[c] = interrupts[c], last'[c] = last[c], fifo'[c] = fifo[c],
         sem_temp'[c] = sem_temp[c], sem_temp2'[c] = sem_temp2[c]
  PROVE  Session(c)'
<1>1. Fresh(c)'
  BY DEF Session, Fresh
<1>2. ASSUME InSession(c)' PROVE InSession(c) /\ cl'[c] = cl[c] /\ ch'[c] = ch[c]
  BY <1>2 DEF InSession
<1>3. ASSUME InSession(c)' PROVE Turn(c)' /\ Exchange(c)'
  BY <1>2, <1>3 DEF Session, Turn, Exchange, ClientActs, ChildActs, One
<1> QED
  BY <1>1, <1>3 DEF Session

\* The parent disturbs no session but by ending it.
LEMMA ParentSession ==
  ASSUME IndInv, Parent \/ ForkFails \/ ShutDown, NEW c \in Clients
  PROVE  Session(c)'
<1> USE DEF IndInv, TypeOK, SessionType, sessionVars, clientVars, childVars, channel
<1>1. cl'[c] \in {cl[c], "gone"}
  BY DEF Parent, RefuseClient, AdmitClient, CountClient, Fork, Record, Reap, Reaped, ForkFails, ShutDown
<1>2. ch'[c] \in {ch[c], "open", "zombie", "reaped"}
  BY DEF Parent, RefuseClient, AdmitClient, CountClient, Fork, Record, Reap, Reaped, ForkFails, ShutDown
<1>3. UNCHANGED <<interrupts, last, channel>>
  BY DEF Parent, RefuseClient, AdmitClient, CountClient, Fork, Record, Reap, Reaped, ForkFails, ShutDown
<1> QED
  BY <1>1, <1>2, <1>3, SessionKept

\* What the client of one session and its child do is nothing to another session.
LEMMA OtherSession ==
  ASSUME IndInv, NEW c \in Clients, NEW d \in Clients \ {c},
         \/ Connect(c) \/ Meet(c) \/ Client(c) \/ InterruptClient(c) \/ Child(c)
         \/ \E m \in Commands[c] : Type(c, m)
  PROVE  Session(d)'
<1> USE DEF IndInv, TypeOK, SessionType, clientVars, childVars, channel, ClientTo, ChildTo
<1>1. CASE Connect(c) \/ Meet(c)
  BY <1>1, SessionKept DEF Connect, Meet
<1>2. CASE Client(c)
  BY <1>2, SessionKept DEF Client, Granted, ReadResponse, Transferred, Wait, Receive
<1>3. ASSUME NEW m, Submit(c, m), interrupts'[d] = interrupts[d] PROVE Session(d)'
  BY <1>3, SessionKept DEF Submit, Send, Post
<1>4. CASE \E m \in Commands[c] : Type(c, m)
  BY <1>4, <1>3 DEF Type
<1>5. CASE InterruptClient(c)
  <2>1. interrupts'[d] = interrupts[d]
    BY <1>5 DEF InterruptClient, InterruptOpen, InterruptPrompt, InterruptWait, InterruptRead,
                InterruptTransfer, Interrupt
  <2>2. CASE InterruptPrompt(c)
    BY <2>1, <2>2, <1>3 DEF InterruptPrompt
  <2>3. CASE InterruptOpen(c) \/ InterruptWait(c) \/ InterruptRead(c) \/ InterruptTransfer(c)
    BY <2>1, <2>3, SessionKept DEF InterruptOpen, InterruptWait, InterruptRead, InterruptTransfer
  <2> QED
    BY <1>5, <2>2, <2>3 DEF InterruptClient
<1>6. CASE Child(c)
  <2>1. CASE TakeTurn(c) \/ GiveTurn(c) \/ UnlinkFails(c) \/ Bye(c)
    BY <2>1, SessionKept DEF TakeTurn, GiveTurn, UnlinkFails, Bye, Wait, Post
  <2>2. CASE Serve(c) \/ ServeTransfer(c) \/ ServeForkFails(c) \/ ServeQuit(c)
    BY <2>2, SessionKept DEF Serve, ServeTransfer, ServeForkFails, ServeQuit, Answer, Post
  <2>3. CASE OpenTemp(c) \/ UnlinkTemp(c) \/ ServeKill(c)
    BY <2>3, SessionKept DEF OpenTemp, UnlinkTemp, ServeKill, Receive, Send
  <2> QED
    BY <1>6, <2>1, <2>2, <2>3 DEF Child
<1> QED
  BY <1>1, <1>2, <1>4, <1>5, <1>6

\* A client passes the turn to the semaphore of its child, and takes it from its own.
LEMMA ClientSession ==
  ASSUME NEW c \in Clients, SessionType, Session(c),
         \/ Connect(c) \/ Meet(c) \/ Client(c) \/ InterruptClient(c)
         \/ \E m \in Commands[c] : Type(c, m)
  PROVE  Session(c)'
<1> USE DEF SessionType, childVars, channel, ClientTo
<1> USE DEF Session, Fresh
<1>1. CASE Connect(c)
  BY <1>1 DEF Connect, InSession
<1>2. CASE Meet(c)
  BY <1>2 DEF Meet, InSession, Turn, Exchange, ClientActs, ChildActs, One
<1>3. CASE Granted(c)
  <2>1. InSession(c)' => InSession(c)
    BY <1>3 DEF Granted, InSession
  <2>2. InSession(c)' => Turn(c)'
    BY <1>3, <2>1 DEF Granted, Wait, Turn, ClientActs, ChildActs, One
  <2>3. InSession(c)' => Exchange(c)'
    BY <1>3, <2>1 DEF Granted, Wait, Exchange
  <2> QED BY <1>3, <2>2, <2>3 DEF Granted
<1>4. CASE ReadResponse(c)
  <2>1. InSession(c)' => InSession(c)
    BY <1>4 DEF ReadResponse, InSession
  <2>2. InSession(c)' => fifo[c] = Response(last[c]) /\ fifo[c] # << >>
    BY <1>4, <2>1 DEF ReadResponse, Receive, Exchange
  <2>3. Response(last[c]) = << >> \/ \E m : Response(last[c]) = <<m>>
    BY DEF Response
  <2>4. InSession(c)' => fifo'[c] = << >>
    <3>1. fifo'[c] = Tail(fifo[c])
      BY <1>4 DEF ReadResponse, Receive
    <3>2. \A m : Tail(<<m>>) = << >>
      OBVIOUS
    <3> QED
      BY <2>2, <2>3, <3>1, <3>2
  <2>5. InSession(c)' => Turn(c)'
    BY <1>4, <2>1 DEF ReadResponse, Turn, ClientActs, ChildActs, One
  <2>6. InSession(c)' => ch[c] \notin {"read", "temp", "post"} /\ sem_temp[c] = 0 /\ sem_temp2[c] = 0
    BY <1>4, <2>1 DEF ReadResponse, Turn, ClientActs, ChildActs, One
  <2>7. InSession(c)' => Exchange(c)'
    BY <1>4, <2>4, <2>6 DEF ReadResponse, Exchange
  <2> QED BY <1>4, <2>5, <2>7 DEF ReadResponse
<1>5. CASE Transferred(c)
  <2>1. InSession(c)' => InSession(c)
    BY <1>5 DEF Transferred, InSession
  <2>2. InSession(c)' => Turn(c)'
    <3>1. cl[c] = "transfer" /\ cl'[c] \in {"prompt", "gone"}
      BY <1>5 DEF Transferred
    <3>2. InSession(c)' => ClientActs(c) /\ ClientActs(c)'
      BY <3>1 DEF InSession, ClientActs
    <3> QED
      BY <1>5, <2>1, <3>2 DEF Transferred, Turn, ChildActs
  <2>3. InSession(c)' => Exchange(c)'
    BY <1>5, <2>1 DEF Transferred, Exchange
  <2> QED BY <1>5, <2>2, <2>3 DEF Transferred
<1>6. ASSUME NEW m \in Commands[c], Type(c, m) PROVE Session(c)'
  <2>1. InSession(c)' => InSession(c) /\ fifo[c] = << >>
    BY <1>6 DEF Type, Submit, InSession, Exchange
  <2>2. InSession(c)' => fifo'[c] = <<m>> /\ last'[c] = m
    BY <1>6, <2>1 DEF Type, Submit, Send
  <2>3. InSession(c)' => Turn(c)' /\ ch[c] \notin {"read", "temp", "post"} /\ sem_temp2[c] = 0
    BY <1>6, <2>1 DEF Type, Submit, Post, Turn, ClientActs, ChildActs, One
  <2>4. InSession(c)' => Exchange(c)'
    BY <1>6, <2>2, <2>3 DEF Type, Submit, Exchange
  <2> QED BY <1>6, <2>3, <2>4 DEF Type, Submit
<1>7. CASE InterruptClient(c)
  <2>1. ~InSession(c)'
    BY <1>7 DEF InterruptClient, InterruptOpen, InterruptPrompt, InterruptWait, InterruptRead,
                InterruptTransfer, Interrupt, InSession
  <2>2. cl'[c] \notin {"idle", "open"}
    BY <1>7 DEF InterruptClient, InterruptOpen, InterruptPrompt, InterruptWait, InterruptRead,
                InterruptTransfer, Submit
  <2> QED BY <2>1, <2>2
<1> QED
  BY <1>1, <1>2, <1>3, <1>4, <1>5, <1>6, <1>7 DEF Client

\* A child takes the turn, writes one answer, if any, and gives the turn back.
LEMMA ChildSession ==
  ASSUME NEW c \in Clients, SessionType, Session(c), Child(c) PROVE Session(c)'
<1> USE DEF SessionType, clientVars, ChildTo, Reads
<1>1. ASSUME cl'[c] = cl[c] PROVE Fresh(c)' /\ (InSession(c)' => InSession(c))
  <2>1. ch[c] \in {"wait", "read", "temp", "post", "bye"}
    BY DEF Child, TakeTurn, Serve, ServeTransfer, ServeForkFails, OpenTemp, UnlinkTemp, UnlinkFails, GiveTurn,
           ServeQuit, Bye, ServeKill
  <2>2. interrupts'[c] = interrupts[c]
    BY DEF Child, TakeTurn, Serve, ServeTransfer, ServeForkFails, OpenTemp, UnlinkTemp, UnlinkFails, GiveTurn,
           ServeQuit, Bye, ServeKill
  <2> QED
    BY <1>1, <2>1, <2>2 DEF Session, Fresh, InSession
<1>2. ASSUME cl'[c] = "gone" PROVE Session(c)'
  BY <1>2 DEF Session, Fresh, InSession
<1>3. SUFFICES ASSUME cl'[c] = cl[c], InSession(c)', InSession(c), Turn(c), Exchange(c)
               PROVE  Turn(c)' /\ Exchange(c)'
  <2>1. cl'[c] \in {cl[c], "gone"}
    BY DEF Child, TakeTurn, Serve, ServeTransfer, ServeForkFails, OpenTemp, UnlinkTemp, UnlinkFails, GiveTurn,
           ServeQuit, Bye, ServeKill
  <2> QED
    BY <1>1, <1>2, <2>1 DEF Session
<1>a. ASSUME ChildActs(c)
      PROVE  ~ClientActs(c) /\ sem_temp[c] = 0 /\ sem_temp2[c] = 0
  BY <1>3, <1>a DEF Turn, One
<1>b. ASSUME sem_temp[c] > 0
      PROVE  ~ClientActs(c) /\ ~ChildActs(c) /\ sem_temp[c] = 1 /\ sem_temp2[c] = 0
  BY <1>3, <1>b DEF Turn, ChildActs, ClientActs, One
<1>4. CASE TakeTurn(c)
  <2>1. sem_temp'[c] = 0 /\ sem_temp2'[c] = 0 /\ ch'[c] = "read" /\ ~ClientActs(c)'
    BY <1>b, <1>3, <1>4 DEF TakeTurn, Wait, ClientActs
  <2>2. fifo'[c] = <<last'[c]>>
    BY <1>3, <1>4 DEF TakeTurn, Wait, Exchange
  <2> QED
    BY <2>1, <2>2 DEF Turn, Exchange, ClientActs, ChildActs, One
\* The answer is in the FIFO and the child still has the turn.
<1>c. ASSUME ch'[c] = "post", ChildActs(c), fifo'[c] = Response(last'[c]),
             UNCHANGED <<sem_temp, sem_temp2>>
      PROVE  Turn(c)' /\ Exchange(c)'
  <2>1. sem_temp'[c] = 0 /\ sem_temp2'[c] = 0 /\ ~ClientActs(c)'
    BY <1>a, <1>c, <1>3 DEF ClientActs
  <2> QED
    BY <1>c, <2>1 DEF Turn, Exchange, ClientActs, ChildActs, One
<1>d. ASSUME Answer(c), ch[c] = "read", last' = last
      PROVE  fifo'[c] = Response(last'[c])
  <2>1. fifo[c] = <<last[c]>>
    BY <1>3, <1>d DEF Exchange
  <2>2. fifo'[c] = << >> \o Response(last[c])
    BY <1>d, <2>1 DEF Answer
  <2>3. Response(last[c]) = << >> \/ \E m : Response(last[c]) = <<m>>
    BY DEF Response
  <2> QED
    BY <1>d, <2>2, <2>3
<1>5. CASE Serve(c)
  BY <1>5, <1>c, <1>d DEF Serve, ChildActs
<1>6. CASE ServeTransfer(c)
  BY <1>6, <1>c, <1>d DEF ServeTransfer, ChildActs
<1>7. CASE OpenTemp(c)
  <2>1. sem_temp'[c] = 0 /\ sem_temp2'[c] = 0 /\ ch'[c] = "temp" /\ ~ClientActs(c)'
    BY <1>a, <1>3, <1>7 DEF OpenTemp, ClientActs, ChildActs
  <2>2. fifo[c] = <<last[c]>>
    BY <1>3, <1>7 DEF OpenTemp, Exchange
  <2>3. fifo'[c] = << >> /\ last'[c][1] = "writeT"
    BY <2>2, <1>7 DEF OpenTemp, Receive
  <2> QED
    BY <2>1, <2>3 DEF Turn, Exchange, ClientActs, ChildActs, One
<1>8. CASE UnlinkTemp(c)
  <2>1. fifo'[c] = <<Empty>> /\ last'[c][1] = "writeT"
    BY <1>3, <1>8 DEF UnlinkTemp, Send, Exchange
  <2>2. fifo'[c] = Response(last'[c])
    BY <2>1 DEF Response
  <2> QED
    BY <1>8, <1>c, <2>2 DEF UnlinkTemp, ChildActs
<1>9. CASE UnlinkFails(c) \/ ServeForkFails(c)
  BY <1>3, <1>9 DEF UnlinkFails, ServeForkFails, InSession
\* The child posts the semaphore of the client when the answer is there.
<1>e. ASSUME ch'[c] \in {"wait", "bye"}, ChildActs(c), fifo'[c] = Response(last'[c]),
             sem_temp' = sem_temp, Post(sem_temp2, c)
      PROVE  Turn(c)' /\ Exchange(c)'
  <2>1. sem_temp'[c] = 0 /\ sem_temp2'[c] = 1 /\ ~ClientActs(c)'
    BY <1>a, <1>e, <1>3 DEF Post, ClientActs
  <2> QED
    BY <1>e, <2>1 DEF Turn, Exchange, ClientActs, ChildActs, One
<1>10. CASE GiveTurn(c)
  BY <1>3, <1>10, <1>e DEF GiveTurn, Exchange, ChildActs
<1>11. CASE ServeQuit(c)
  BY <1>11, <1>d, <1>e DEF ServeQuit, ChildActs
<1>12. CASE Bye(c) \/ ServeKill(c)
  BY <1>3, <1>12 DEF Bye, ServeKill, InSession
<1> QED
  BY <1>4, <1>5, <1>6, <1>7, <1>8, <1>9, <1>10, <1>11, <1>12 DEF Child

\* The invariant of admission and sessions holds in every state.
THEOREM Inductive == Spec => []IndInv
<1>1. Init => IndInv
  <2> SUFFICES ASSUME Init PROVE IndInv
    OBVIOUS
  <2>1. Children = {}
    BY DEF Init, Children
  <2>2. Admission
    BY <2>1, FS_EmptySet DEF Init, Admission, CounterCovers
  <2> QED
    BY InitTyped, <2>2 DEF Init, IndInv, Session, Fresh, InSession
<1>2. IndInv /\ [Next]_vars => IndInv'
  <2> SUFFICES ASSUME IndInv, [Next]_vars PROVE IndInv'
    OBVIOUS
  <2>1. CASE UNCHANGED vars
    <3>1. Admission'
      BY <2>1, ChildrenStay
      DEF IndInv, vars, parentVars, sessionVars, childVars, Children
    <3> QED BY <2>1, <3>1, SessionKept
    DEF IndInv, vars, parentVars, sessionVars, clientVars, childVars, channel, transferVars, semVars,
        TypeOK, ParentType, SessionType, TransferType
  <2>2. CASE Parent \/ ForkFails \/ ShutDown
    BY <2>2, ParentTyped, ParentAdmission, ParentSession DEF IndInv
  <2>3. ASSUME NEW c \in Clients,
               \/ Connect(c) \/ Meet(c) \/ Client(c) \/ InterruptClient(c)
               \/ \E m \in Commands[c] : Type(c, m)
        PROVE  IndInv'
    <3>1. Session(c)' /\ TypeOK' /\ Admission'
      BY <2>3, ClientTyped, SessionAdmission, ClientSession DEF IndInv, TypeOK
    <3>2. \A d \in Clients \ {c} : Session(d)'
      BY <2>3, OtherSession
    <3> QED BY <3>1, <3>2 DEF IndInv
  <2>4. ASSUME NEW c \in Clients, Child(c) PROVE IndInv'
    <3>1. Session(c)' /\ TypeOK' /\ Admission'
      BY <2>4, ChildTyped, SessionAdmission, ChildSession DEF IndInv, TypeOK
    <3>2. \A d \in Clients \ {c} : Session(d)'
      BY <2>4, OtherSession
    <3> QED BY <3>1, <3>2 DEF IndInv
  <2>5. ASSUME NEW p \in Procs, Moves(p) PROVE IndInv'
    <3>1. Admission'
      BY <2>5, ChildrenStay DEF IndInv, Moves, parentVars, childVars, Children
    <3> QED BY <2>5, <3>1, TransferTyped, SessionKept
    DEF IndInv, Moves, clientVars, childVars, channel, TypeOK, SessionType
  <2> QED
    BY <2>1, <2>2, <2>3, <2>4, <2>5 DEF Next
<1> QED
  BY <1>1, <1>2, PTL DEF Spec

\* Client and child of every session take turns.
THEOREM TakeTurns == Spec => []Turns
<1>1. IndInv => Turns
  BY DEF IndInv, Session, Turns
<1> QED
  BY <1>1, Inductive, PTL

\* No client and no child reads what it has written itself.
THEOREM ReadOther == Spec => []OwnMessages
<1>1. IndInv => OwnMessages
  BY DEF IndInv, Session, OwnMessages
<1> QED
  BY <1>1, Inductive, PTL

\* clientCounter is never below the number of children, whenever they end.
THEOREM Counted == Spec => []CounterCovers
<1>1. IndInv => CounterCovers
  BY DEF IndInv, Admission
<1> QED
  BY <1>1, Inductive, PTL

\* At most numClients others have a child when one that asked for tryConnect gets one.
THEOREM Bounded == Spec => TryConnectBound
<1>1. IndInv /\ Fork /\ req.tryConnect => Cardinality(Children') <= numClients + 1
  <2> SUFFICES ASSUME IndInv, Fork, req.tryConnect
               PROVE  Cardinality(Children') <= numClients + 1
    OBVIOUS
  <2>1. Cardinality(Children) <= numClients /\ req.pid \in Clients
    BY DEF IndInv, Admission, TypeOK, ParentType, Fork, ParentTo
  <2>2. Children' = Children \cup {req.pid}
    BY <2>1 DEF IndInv, TypeOK, SessionType, Fork, Children
  <2>3. Cardinality(Children') \in Nat /\ Cardinality(Children') <= Cardinality(Children) + 1
    BY <2>2, ChildrenFinite, OneMore
  <2> QED
    BY <2>1, <2>3, ChildrenFinite
<1> QED
  BY <1>1, Inductive, PTL DEF TryConnectBound

-----------------------------------------------------------------------------
(* The end of the server. *)

\* Up to the end of the parent, its children are in child[], but for the one it has just
\* forked.
Recorded ==
    Up => \A c \in Children :
             (\E i \in DOMAIN child : child[i] = c) \/ (parent = "record" /\ c = req.pid)

\* The children and what the parent knows of them stay as they are, or fewer.
LEMMA OrphansStay ==
  ASSUME Recorded, NoOrphans, UNCHANGED <<req, child>>, Children' \subseteq Children,
         parent' = parent \/ parent' \in {"killed", "failed"}
  PROVE  Recorded' /\ NoOrphans'
  BY DEF Recorded, NoOrphans, Up

\* The parent records each child before it forks another.
LEMMA ParentOrphans ==
  ASSUME TypeOK, Admission, Recorded, NoOrphans, Parent \/ ForkFails \/ ShutDown
  PROVE  Recorded' /\ NoOrphans'
<1> USE DEF TypeOK, ParentType, SessionType, ParentTo, sessionVars, childVars
<1>1. CASE RefuseClient
  BY <1>1, OrphansStay DEF RefuseClient, Children
<1>2. CASE AdmitClient
  <2>1. Children' = Children /\ child' = child /\ parent = "read" /\ parent' = "incr"
    BY <1>2 DEF AdmitClient, Children
  <2> QED
    BY <2>1 DEF Recorded, NoOrphans, Up
<1>3. CASE CountClient
  <2>1. Children' = Children /\ child' = child /\ parent = "incr" /\ parent' = "fork"
    BY <1>3 DEF CountClient, Children
  <2> QED
    BY <2>1 DEF Recorded, NoOrphans, Up
<1>4. CASE Fork
  <2>1. Children' = Children \cup {req.pid} /\ UNCHANGED <<child, req>>
        /\ parent = "fork" /\ parent' = "record"
    BY <1>4 DEF Fork, Children
  <2> QED
    BY <2>1 DEF Recorded, NoOrphans, Up
<1>5. CASE Record
  <2>1. Children' = Children /\ parent = "record" /\ parent' = "read"
    BY <1>5 DEF Record, Children
  <2>2. /\ DOMAIN child' = 1..Len(child) + 1 /\ DOMAIN child = 1..Len(child) /\ Len(child) \in Nat
        /\ child'[Len(child) + 1] = req.pid
        /\ \A i \in 1..Len(child) : child'[i] = child[i]
    BY <1>5, AppendProperties DEF Record
  <2>3. ASSUME NEW c \in Children PROVE \E i \in DOMAIN child' : child'[i] = c
    <3>1. (\E i \in DOMAIN child : child[i] = c) \/ c = req.pid
      BY <2>1 DEF Recorded, Up
    <3>2. ASSUME NEW i \in DOMAIN child, child[i] = c PROVE i \in DOMAIN child' /\ child'[i] = c
      BY <2>2, <3>2
    <3>3. Len(child) + 1 \in DOMAIN child' /\ child'[Len(child) + 1] = req.pid
      BY <2>2
    <3> QED
      BY <3>1, <3>2, <3>3
  <2> QED
    BY <2>1, <2>3 DEF Recorded, NoOrphans, Up
<1>6. CASE Reap
  <2>1. Children' \subseteq Children /\ UNCHANGED <<parent, req, child>>
    BY <1>6 DEF Reap, Reaped, Children
  <2> QED
    BY <2>1, OrphansStay
<1>7. CASE ForkFails
  BY <1>7, OrphansStay DEF ForkFails, Children
<1>8. CASE ShutDown
  <2>1. Up /\ parent' = "interrupted" /\ UNCHANGED <<req, child>>
    BY <1>8 DEF ShutDown
  <2>2. CASE clientCounter > 0
    <3>1. Children' = Children \ {child[i] : i \in DOMAIN child}
      BY <1>8, <2>2 DEF ShutDown, Children
    <3> QED
      BY <2>1, <3>1 DEF Recorded, NoOrphans, Up
  <2>3. CASE ~(clientCounter > 0)
    <3>1. Children' = Children
      BY <1>8, <2>3 DEF ShutDown, Children
    <3>2. clientCounter >= Cardinality(Children) + (IF parent = "fork" THEN 1 ELSE 0)
      BY <2>1 DEF Admission, CounterCovers
    <3>3. Cardinality(Children) = 0
      BY <2>3, <3>2, ChildrenFinite
    <3>4. Children = {}
      BY <3>3, ChildrenFinite, FS_EmptySet
    <3> QED
      BY <2>1, <3>1, <3>4 DEF Recorded, NoOrphans, Up
  <2> QED
    BY <2>2, <2>3
<1> QED
  BY <1>1, <1>2, <1>3, <1>4, <1>5, <1>6, <1>7, <1>8 DEF Parent

\* No client and no child makes a child of the server.
LEMMA SessionOrphans ==
  ASSUME NEW c \in Clients, TypeOK, Recorded, NoOrphans,
         \/ Connect(c) \/ Meet(c) \/ Client(c) \/ InterruptClient(c) \/ Child(c)
         \/ \E m \in Commands[c] : Type(c, m)
  PROVE  Recorded' /\ NoOrphans'
<1> USE DEF TypeOK, SessionType, parentVars, clientVars, childVars, ClientTo, ChildTo
<1>1. CASE Connect(c) \/ Meet(c)
  BY <1>1, OrphansStay DEF Connect, Meet, Children
<1>2. CASE Client(c)
  BY <1>2, OrphansStay DEF Client, Granted, ReadResponse, Transferred, Children
<1>3. ASSUME NEW m, Submit(c, m) PROVE Recorded' /\ NoOrphans'
  BY <1>3, OrphansStay DEF Submit, Children
<1>4. CASE InterruptClient(c)
  BY <1>3, <1>4, OrphansStay
  DEF InterruptClient, InterruptOpen, InterruptPrompt, InterruptWait, InterruptRead,
      InterruptTransfer, Children
<1>5. CASE Child(c)
  <2>1. UNCHANGED <<req, child>> /\ parent' \in {parent, "killed"}
    BY <1>5 DEF Child, TakeTurn, Serve, ServeTransfer, ServeForkFails, OpenTemp, UnlinkTemp, UnlinkFails,
                GiveTurn, ServeQuit, Bye, ServeKill
  <2>2. \E place \in {"wait", "read", "temp", "post", "bye", "zombie"} :
           ch' = [ch EXCEPT ![c] = place]
    BY <1>5 DEF Child, TakeTurn, Serve, ServeTransfer, ServeForkFails, OpenTemp, UnlinkTemp, UnlinkFails, GiveTurn,
                ServeQuit, Bye, ServeKill
  <2>3. ch[c] \notin {"none", "reaped"}
    BY <1>5 DEF Child, TakeTurn, Serve, ServeTransfer, ServeForkFails, OpenTemp, UnlinkTemp, UnlinkFails, GiveTurn,
                ServeQuit, Bye, ServeKill, Reads
  <2>4. Children' = Children
    BY <2>2, <2>3 DEF Children
  <2> QED
    BY <2>1, <2>4, OrphansStay
<1>6. CASE \E m \in Commands[c] : Type(c, m)
  BY <1>3, <1>6 DEF Type
<1> QED
  BY <1>1, <1>2, <1>4, <1>5, <1>6

\* After SIGINT no child of the server lives but one that it had just forked, whatever
\* clients and children were doing.
THEOREM Orphans == Spec => []NoOrphans
<1>1. Init => Recorded /\ NoOrphans
  BY DEF Init, Recorded, NoOrphans, Children, Up
<1>2. IndInv /\ Recorded /\ NoOrphans /\ [Next]_vars => Recorded' /\ NoOrphans'
  <2> SUFFICES ASSUME IndInv, Recorded, NoOrphans, [Next]_vars PROVE Recorded' /\ NoOrphans'
    OBVIOUS
  <2>1. CASE UNCHANGED vars
    BY <2>1, OrphansStay DEF vars, parentVars, sessionVars, childVars, Children
  <2>2. CASE Parent \/ ForkFails \/ ShutDown
    BY <2>2, ParentOrphans DEF IndInv
  <2>3. CASE \E p \in Procs : Moves(p)
    BY <2>3, OrphansStay DEF Moves, parentVars, childVars, Children
  <2> QED
    BY <2>1, <2>2, <2>3, SessionOrphans DEF Next, IndInv
<1> QED
  BY <1>1, <1>2, Inductive, PTL DEF Spec

-----------------------------------------------------------------------------
(* The shared memory. *)

\* A client is past its sem_wait only during a transfer, or when it was ended in one.
InsideTransfers == \A c \in Clients : at[c] \in {"copy", "write"} => cl[c] \in {"transfer", "gone"}

\* Clients and helpers are finitely many.
LEMMA ProcsFinite == IsFiniteSet(Procs)
<1> DEFINE own == [c \in Clients |-> {<<c, k>> : k \in 1..MaxCommands[c]}]
           sets == {own[c] : c \in Clients}
<1>1. own \in Surjection(Clients, sets)
  BY DEF Surjection
<1>2. IsFiniteSet(sets)
  BY <1>1, FS_Surjection
<1>3. ASSUME NEW c \in Clients PROVE IsFiniteSet(own[c])
  <2>1. MaxCommands[c] \in Nat
    OBVIOUS
  <2>2. IsFiniteSet(1..MaxCommands[c])
    BY <2>1, FS_Interval
  <2>a. IsFiniteSet({c})
    BY FS_Singleton
  <2>3. IsFiniteSet({c} \X (1..MaxCommands[c]))
    BY <2>a, <2>2, FS_Product
  <2>4. own[c] \subseteq {c} \X (1..MaxCommands[c])
    OBVIOUS
  <2> QED
    BY <2>3, <2>4, FS_Subset
<1>4. IsFiniteSet(UNION sets)
  BY <1>2, <1>3, FS_UNION
<1>5. Helpers = UNION sets
  BY DEF Helpers
<1> QED
  BY <1>4, <1>5, FS_Union

\* The count of those that have the memory, when one process moves.
LEMMA InsideMoves ==
  ASSUME NEW p \in Procs, at \in [Procs -> ProcPlaces], NEW place, at' = [at EXCEPT ![p] = place]
  PROVE  /\ Cardinality(Inside) \in Nat
         /\ place \in {"copy", "write"} /\ at[p] \notin {"copy", "write"}
               => Cardinality(Inside') = Cardinality(Inside) + 1
         /\ place \notin {"copy", "write"} /\ at[p] \in {"copy", "write"}
               => Cardinality(Inside') = Cardinality(Inside) - 1
         /\ place \notin {"copy", "write"} /\ at[p] \notin {"copy", "write"}
               => Inside' = Inside
<1>1. IsFiniteSet(Inside) /\ Cardinality(Inside) \in Nat
  BY ProcsFinite, FS_Subset, FS_CardinalityType DEF Inside
<1>2. place \in {"copy", "write"} => Inside' = Inside \cup {p}
  BY DEF Inside
<1>3. place \notin {"copy", "write"} => Inside' = Inside \ {p}
  BY DEF Inside
<1>4. p \in Inside <=> at[p] \in {"copy", "write"}
  BY DEF Inside
<1>5. p \notin Inside => Cardinality(Inside \cup {p}) = Cardinality(Inside) + 1
  BY <1>1, FS_AddElement
<1>6. p \in Inside => Cardinality(Inside \ {p}) = Cardinality(Inside) - 1
  BY <1>1, FS_RemoveElement
<1>7. p \notin Inside => Inside \ {p} = Inside
  OBVIOUS
<1> QED
  BY <1>1, <1>2, <1>3, <1>4, <1>5, <1>6, <1>7

\* The tokens and those that hold one are one in all at most.
Tokens == producer_sem + consumer_sem + Cardinality(Inside) <= 1

\* A process that moves takes a token before it touches the memory, and gives one after.
LEMMA MovesTokens == ASSUME NEW p \in Procs, TypeOK, Moves(p), Tokens PROVE Tokens'
<1> USE DEF TypeOK, TransferType, Tokens, semVars, Goto
<1>1. CASE ProdOpen(p) \/ ProdClear(p) \/ ProdFile(p) \/ ConsOpen(p)
  <2>1. PICK place \in {"clear", "mutex", "full", "file", "failed", "take", "get", "lost"} :
           at' = [at EXCEPT ![p] = place]
    BY <1>1 DEF ProdOpen, Makes, ProdClear, ProdFile, ConsOpen
  <2>2. at[p] \notin {"copy", "write"} /\ UNCHANGED <<producer_sem, consumer_sem>>
    BY <1>1 DEF ProdOpen, Makes, ProdClear, ProdFile, ConsOpen
  <2>3. Inside' = Inside
    BY <2>1, <2>2, InsideMoves
  <2> QED
    BY <2>2, <2>3
<1>a. producer_sem' \in Nat /\ consumer_sem' \in Nat /\ producer_sem \in Nat /\ consumer_sem \in Nat
  BY TransferTyped
<1>b. at \in [Procs -> ProcPlaces]
  OBVIOUS
<1>2. CASE ProdTake(p) \/ ConsTake(p)
  <2>1. PICK place \in {"copy", "write"} : at' = [at EXCEPT ![p] = place]
    BY <1>2 DEF ProdTake, ConsTake
  <2>2. at[p] \notin {"copy", "write"}
    BY <1>2 DEF ProdTake, ConsTake
  <2>3. \/ producer_sem' = producer_sem - 1 /\ consumer_sem' = consumer_sem
        \/ producer_sem' = producer_sem /\ consumer_sem' = consumer_sem - 1
    BY <1>2 DEF ProdTake, ConsTake
  <2>4. Cardinality(Inside) \in Nat /\ Cardinality(Inside') = Cardinality(Inside) + 1
    BY <1>b, <2>1, <2>2, InsideMoves
  <2> QED
    BY <1>a, <2>3, <2>4
<1>3. CASE ProdCopy(p) \/ ConsWrite(p)
  <2>1. at[p] \in {"copy", "write"} /\ at' = [at EXCEPT ![p] = "done"]
    BY <1>3 DEF ProdCopy, ConsWrite
  <2>2. \/ producer_sem' = producer_sem + 1 /\ consumer_sem' = consumer_sem
        \/ producer_sem' = producer_sem /\ consumer_sem' = consumer_sem + 1
    BY <1>3 DEF ProdCopy, ConsWrite
  <2>3. Cardinality(Inside) \in Nat /\ Cardinality(Inside') = Cardinality(Inside) - 1
    <3> DEFINE place == "done"
    <3>1. place \notin {"copy", "write"} /\ at' = [at EXCEPT ![p] = place]
      BY <2>1
    <3> HIDE DEF place
    <3> QED
      BY <1>b, <2>1, <3>1, InsideMoves
  <2> QED
    BY <1>a, <2>2, <2>3
<1> QED
  BY <1>1, <1>2, <1>3 DEF Moves, Transfer

\* Where a transfer begins or is over, no one has the memory who had it not before.
LEMMA SessionTokens ==
  ASSUME NEW c \in Clients, TypeOK, InsideTransfers, Tokens,
         \/ Connect(c) \/ Meet(c) \/ Client(c) \/ Child(c)
         \/ InterruptClient(c) /\ ~InterruptTransfer(c)
         \/ \E m \in Commands[c] : Type(c, m)
  PROVE  Tokens'
<1> USE DEF TypeOK, TransferType, transferVars, semVars, Tokens
<1>a. ASSUME UNCHANGED <<producer_sem, consumer_sem, at>> PROVE Tokens'
  BY <1>a DEF Inside
<1>b. ASSUME NEW p \in Procs, at[p] \notin {"copy", "write"}, 
             NEW place \in {"idle", "open", "sleep", "failed", "lost"},
             at' = [at EXCEPT ![p] = place], UNCHANGED <<producer_sem, consumer_sem>>
      PROVE  Tokens'
  <2>1. Inside' = Inside
    BY <1>b, InsideMoves
  <2> QED
    BY <1>b, <2>1
<1>1. CASE Connect(c) \/ Meet(c) \/ (\E m \in Commands[c] : Type(c, m))
  BY <1>1, <1>a DEF Connect, Meet, Type, Submit
<1>2. CASE Client(c)
  <2>1. CASE Granted(c)
    BY <2>1, <1>a DEF Granted
  <2>2. CASE ReadResponse(c)
    <3>1. at[c] \notin {"copy", "write"} /\ UNCHANGED <<producer_sem, consumer_sem>>
      BY <2>2 DEF ReadResponse, ClientTo, InsideTransfers
    <3>2. at' = at \/ at' = [at EXCEPT ![c] = "open"] \/ at' = [at EXCEPT ![c] = "sleep"]
      BY <2>2 DEF ReadResponse, Begin, Goto
    <3> QED
      BY <1>a, <1>b, <3>1, <3>2, ProcsTyped
  <2>3. CASE Transferred(c)
    <3>1. PICK place \in {"idle", "failed", "lost"} : at' = [at EXCEPT ![c] = place]
      BY <2>3 DEF Transferred, Goto
    <3>2. at[c] \notin {"copy", "write"} /\ UNCHANGED <<producer_sem, consumer_sem>>
      BY <2>3 DEF Transferred
    <3> QED
      BY <1>b, <3>1, <3>2, ProcsTyped
  <2> QED
    BY <1>2, <2>1, <2>2, <2>3 DEF Client
<1>3. CASE Child(c)
  <2>1. CASE ServeTransfer(c)
    <3>1. PICK p \in {<<c, k>> : k \in 1..MaxCommands[c]} :
             at[p] = "idle" /\ (at' = [at EXCEPT ![p] = "sleep"] \/ at' = [at EXCEPT ![p] = "open"])
      BY <2>1 DEF ServeTransfer, Begin, Goto
    <3>2. p \in Procs /\ UNCHANGED <<producer_sem, consumer_sem>>
      BY <2>1, ProcsTyped DEF ServeTransfer
    <3> QED
      BY <1>b, <3>1, <3>2
  <2>2. CASE ~ServeTransfer(c)
    BY <1>3, <2>2, <1>a DEF Child, TakeTurn, Serve, ServeForkFails, OpenTemp, UnlinkTemp, UnlinkFails,
                            GiveTurn, ServeQuit, Bye, ServeKill
  <2> QED
    BY <2>1, <2>2
<1>4. CASE InterruptClient(c) /\ ~InterruptTransfer(c)
  BY <1>4, <1>a DEF InterruptClient, InterruptOpen, InterruptPrompt, InterruptWait, InterruptRead, Submit
<1> QED
  BY <1>1, <1>2, <1>3, <1>4

\* A client is in its transfer until it is out of the memory again, or has ended.
LEMMA TransfersKept ==
  ASSUME TypeOK, InsideTransfers, [Next]_vars
  PROVE  InsideTransfers'
<1> USE DEF TypeOK, SessionType, TransferType, parentVars, sessionVars, clientVars, childVars, channel,
            transferVars, semVars, ClientTo, ChildTo, Goto
<1>b. ASSUME at' = at, cl' = cl PROVE InsideTransfers'
  BY <1>b DEF InsideTransfers
<1>1. CASE Parent \/ ForkFails \/ ShutDown
  <2>1. CASE RefuseClient
    BY <2>1 DEF RefuseClient, InsideTransfers
  <2>2. CASE ShutDown
    <3>1. at' = at /\ \A c \in Clients : cl'[c] = "gone" \/ cl'[c] = cl[c]
      BY <2>2 DEF ShutDown
    <3> QED
      BY <3>1 DEF InsideTransfers
  <2>3. CASE AdmitClient \/ CountClient \/ Fork \/ Record \/ Reap \/ ForkFails
    BY <2>3, <1>b DEF AdmitClient, CountClient, Fork, Record, Reap, Reaped, ForkFails
  <2> QED
    BY <1>1, <2>1, <2>2, <2>3 DEF Parent
<1>2. ASSUME NEW c \in Clients, Connect(c) \/ Meet(c) \/ (\E m \in Commands[c] : Type(c, m))
      PROVE  InsideTransfers'
  BY <1>2 DEF Connect, Meet, Type, Submit, InsideTransfers
<1>3. ASSUME NEW c \in Clients, Client(c) PROVE InsideTransfers'
  <2>1. CASE Granted(c)
    BY <2>1 DEF Granted, InsideTransfers
  <2>2. CASE ReadResponse(c)
    <3>1. \/ at' = at
          \/ at' = [at EXCEPT ![c] = "open"] \/ at' = [at EXCEPT ![c] = "sleep"]
      BY <2>2 DEF ReadResponse, Begin
    <3>2. cl[c] = "read" /\ \E to \in {"transfer", "prompt"} : cl' = [cl EXCEPT ![c] = to]
      BY <2>2 DEF ReadResponse
    <3> QED
      BY <3>1, <3>2, ProcsTyped DEF InsideTransfers
  <2>3. CASE Transferred(c)
    <3>1. (\E place \in {"idle", "failed", "lost"} : at' = [at EXCEPT ![c] = place]) /\ \E to \in {"gone", "prompt"} : cl' = [cl EXCEPT ![c] = to]
      BY <2>3 DEF Transferred
    <3> QED
      BY <3>1, ProcsTyped DEF InsideTransfers
  <2> QED
    BY <1>3, <2>1, <2>2, <2>3 DEF Client
<1>4. ASSUME NEW c \in Clients, Child(c) PROVE InsideTransfers'
  <2>1. CASE ServeTransfer(c)
    <3>1. PICK p \in {<<c, k>> : k \in 1..MaxCommands[c]} :
             at' = [at EXCEPT ![p] = "sleep"] \/ at' = [at EXCEPT ![p] = "open"]
      BY <2>1 DEF ServeTransfer, Begin
    <3>2. cl' = cl
      BY <2>1 DEF ServeTransfer
    <3> QED
      BY <3>1, <3>2 DEF InsideTransfers
  <2>2. CASE Bye(c) \/ ServeKill(c)
    BY <2>2 DEF Bye, ServeKill, InsideTransfers
  <2>3. CASE TakeTurn(c) \/ Serve(c) \/ ServeForkFails(c) \/ OpenTemp(c) \/ UnlinkTemp(c) \/ UnlinkFails(c)
             \/ GiveTurn(c) \/ ServeQuit(c)
    BY <2>3, <1>b DEF TakeTurn, Serve, ServeForkFails, OpenTemp, UnlinkTemp, UnlinkFails, GiveTurn, ServeQuit
  <2> QED
    BY <1>4, <2>1, <2>2, <2>3 DEF Child
<1>5. ASSUME NEW c \in Clients, InterruptClient(c) PROVE InsideTransfers'
  <2>1. CASE InterruptTransfer(c)
    <3>1. cl[c] = "transfer" /\ cl' = cl /\ \E to : at' = [at EXCEPT ![c] = to]
      BY <2>1 DEF InterruptTransfer, TakeInterrupted
    <3> QED
      BY <3>1 DEF InsideTransfers
  <2>2. CASE InterruptOpen(c) \/ InterruptPrompt(c) \/ InterruptWait(c) \/ InterruptRead(c)
    BY <2>2 DEF InterruptOpen, InterruptPrompt, InterruptWait, InterruptRead, Submit, InsideTransfers
  <2> QED
    BY <1>5, <2>1, <2>2 DEF InterruptClient
<1>6. ASSUME NEW p \in Procs, Moves(p) PROVE InsideTransfers'
  <2>1. cl' = cl /\ \E to : at' = [at EXCEPT ![p] = to]
    BY <1>6 DEF Moves, Transfer, ProdOpen, Makes, ProdClear, ProdFile, ProdTake, ProdCopy, ConsOpen, ConsTake,
                   ConsWrite
  <2>2. p \in Clients => cl[p] = "transfer"
    BY <1>6 DEF Moves
  <2> QED
    BY <2>1, <2>2 DEF InsideTransfers
<1>7. CASE UNCHANGED vars
  BY <1>7, <1>b DEF vars
<1> QED
  BY <1>1, <1>2, <1>3, <1>4, <1>5, <1>6, <1>7 DEF Next

\* While no client gets SIGINT, and if the servers before left one token at most, one living
\* process at a time, of all the transfers of all clients, is past its sem_wait.
THEOREM SharedMemoryOneInside == Spec => []OneInside
<1> DEFINE Quiet == \A c \in Clients : interrupts[c] = 0
           OneLeft == \A l \in Left : l.producer_sem + l.consumer_sem <= 1
           TransferInv == InsideTransfers /\ (Quiet /\ OneLeft => Tokens)
<1>1. Init => TransferInv
  <2> SUFFICES ASSUME Init PROVE TransferInv
    OBVIOUS
  <2>1. Inside = {}
    BY DEF Init, TransferInit, Inside
  <2>2. Cardinality(Inside) = 0
    BY <2>1, FS_EmptySet
  <2>3. \E l \in Left : producer_sem = l.producer_sem /\ consumer_sem = l.consumer_sem
    BY DEF Init, TransferInit
  <2>4. TypeOK
    BY InitTyped
  <2>5. OneLeft => Tokens
    BY <2>2, <2>3, <2>4 DEF Tokens, TypeOK, TransferType
  <2>6. InsideTransfers
    BY ProcsTyped DEF Init, TransferInit, InsideTransfers
  <2> QED
    BY <2>5, <2>6
<1>2. TypeOK /\ TransferInv /\ [Next]_vars => TransferInv'
  <2> SUFFICES ASSUME TypeOK, InsideTransfers, Quiet /\ OneLeft => Tokens, [Next]_vars, Quiet', OneLeft
               PROVE  Tokens'
    BY TransfersKept
  <2>1. Quiet
    <3> USE DEF TypeOK, SessionType, parentVars, sessionVars, clientVars
    <3>1. ASSUME NEW c \in Clients, Connect(c) \/ Meet(c) \/ Client(c) \/ (\E m \in Commands[c] : Type(c, m))
          PROVE  interrupts' = interrupts
      BY <3>1 DEF Connect, Meet, Client, Granted, ReadResponse, Transferred, Type
    <3>2. ASSUME NEW c \in Clients, Child(c) PROVE interrupts' = interrupts
      BY <3>2 DEF Child, TakeTurn, Serve, ServeTransfer, ServeForkFails, OpenTemp, UnlinkTemp, UnlinkFails,
                  GiveTurn, ServeQuit, Bye, ServeKill
    <3>3. ASSUME NEW c \in Clients, InterruptClient(c) PROVE interrupts'[c] # 0
      BY <3>3 DEF InterruptClient, InterruptOpen, InterruptPrompt, InterruptWait, InterruptRead,
                  InterruptTransfer, Interrupt
    <3>4. CASE Parent \/ ForkFails \/ ShutDown
      BY <3>4 DEF Parent, RefuseClient, AdmitClient, CountClient, Fork, Record, Reap, Reaped, ForkFails, ShutDown
    <3>5. CASE (\E p \in Procs : Moves(p)) \/ UNCHANGED vars
      BY <3>5 DEF Moves, vars
    <3> QED
      BY <3>1, <3>2, <3>3, <3>4, <3>5 DEF Next
  <2>2. Tokens
    BY <2>1
  <2>3. ASSUME UNCHANGED transferVars PROVE Tokens'
    BY <2>2, <2>3 DEF transferVars, semVars, Tokens, Inside
  <2>4. CASE Parent \/ ForkFails \/ ShutDown
    BY <2>3, <2>4
    DEF Parent, RefuseClient, AdmitClient, CountClient, Fork, Record, Reap, Reaped, ForkFails, ShutDown,
        sessionVars
  <2>5. ASSUME NEW c \in Clients, InterruptTransfer(c) PROVE FALSE
    BY <2>1, <2>5 DEF InterruptTransfer, Interrupt, TypeOK, SessionType
  <2> HIDE DEF Quiet
  <2> QED
    BY <2>2, <2>3, <2>4, <2>5, MovesTokens, SessionTokens DEF Next, vars, sessionVars
<1>3. TypeOK /\ TransferInv => OneInside
  <2> SUFFICES ASSUME TypeOK, Tokens, NEW p \in Inside, NEW q \in Inside, p # q PROVE FALSE
    BY DEF OneInside
  <2>1. IsFiniteSet(Inside) /\ Cardinality(Inside) \in Nat
    BY ProcsFinite, FS_Subset, FS_CardinalityType DEF Inside
  <2>2. Cardinality(Inside \ {p}) = Cardinality(Inside) - 1 /\ IsFiniteSet(Inside \ {p})
    BY <2>1, FS_RemoveElement
  <2>a. q \in Inside \ {p}
    OBVIOUS
  <2>3. Cardinality((Inside \ {p}) \ {q}) = Cardinality(Inside \ {p}) - 1
    BY <2>a, <2>2, FS_RemoveElement
  <2>4. Cardinality((Inside \ {p}) \ {q}) \in Nat
    BY <2>2, FS_RemoveElement, FS_CardinalityType
  <2> QED
    BY <2>1, <2>2, <2>3, <2>4 DEF Tokens, TypeOK, TransferType
<1> QED
  BY <1>1, <1>2, <1>3, TypeCorrect, PTL DEF Spec
=============================================================================
