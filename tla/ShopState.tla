------------------------------ MODULE ShopState ------------------------------
(***************************************************************************)
(* The state shared by the threads of the PideShop server                  *)
(* (src/final/server.c, queue.c) and the primitives they use on it.        *)
(*                                                                         *)
(* A pide is <<client, number>>.  A timer is created for a pide once it is *)
(* in the oven, so a timer thread is named by that pide (the thread may    *)
(* well take another one out: the oven is a FIFO queue).                   *)
(***************************************************************************)
EXTENDS Integers, Sequences, FiniteSets

CONSTANTS
    Cooks, Motos,     \* the threads of cook[] and motoThread[]
    Main,             \* the main thread
    Nobody,           \* no thread (the owner of a free mutex), no client
    Anybody,          \* the owner of a mutex that keeps no thread out any more
    Phantom,          \* what dequeue() returns on an empty queue
    Clients, Size,    \* the clients, and the number of pides each one orders
    Apparatus,        \* initial value of "aparatus", 3 in the code
    OvenCap,          \* capacity of ovenQueue, 6 in the code
    QueueCap,         \* capacity of orderQueue and preparedQueue, 200
    BagCap,           \* places in a bag, 3
    CanCancel,        \* the clients that may get SIGINT (^C)
    BurnIn            \* bound: at which of its clients (Nobody: before the first) the
                      \* server may get SIGINT

Pides == UNION {{c} \X (1..Size[c]) : c \in Clients}
Threads == Cooks \cup Motos \cup Pides \cup {Main}
Item == Pides \cup {Phantom}

ASSUME ShopAssumption ==
    /\ Size \in [Clients -> Nat \ {0}]
    /\ Apparatus \in Nat /\ OvenCap \in Nat /\ QueueCap \in Nat /\ BagCap \in Nat
    /\ CanCancel \subseteq Clients /\ BurnIn \subseteq Clients \cup {Nobody}
    /\ Cooks \cap Motos = {} /\ (Cooks \cup Motos) \cap Pides = {}
    /\ Main \notin Cooks \cup Motos \cup Pides
    /\ Nobody \notin Threads \cup Clients /\ Anybody \notin Threads \cup {Nobody}
    /\ 0 \notin Clients /\ Phantom \notin Pides

VARIABLES
    pc,               \* where each thread is
    waiters,          \* the threads asleep on each condition variable
    ovenMutex, preparedMutex,              \* the thread holding them
    orderQueue, ovenQueue, preparedQueue,
    aparatus,
    siparisIptal, cancelled,               \* the flags SIGUSR1 and SIGINT set
    totalOrder, totalReceived, totalOrderSize, onlysendFlag,
    sockfd,           \* environmentInfo.sockfd: a client; Nobody for -1; 0
    preparePide, aparatAzaltildi,          \* locals of a cook
    sicakPide,                             \* local of a timer thread
    bag, flag, trip,                       \* locals of a moto
    delivered,        \* history: the pides that reached a customer
    cur, newOrder,    \* main: the client being served, its next order
    client, mail, backlog  \* clients, the last word sent to each, accept queue

queues    == <<orderQueue, ovenQueue, preparedQueue>>
flags     == <<siparisIptal, cancelled>>
counts    == <<totalOrder, totalReceived, totalOrderSize, onlysendFlag>>
cookVars  == <<preparePide, aparatAzaltildi>>
motoVars  == <<bag, flag, trip, delivered>>
mainVars  == <<cur, newOrder, sockfd>>
clientVars == <<client, mail, backlog>>
vars == <<pc, waiters, ovenMutex, preparedMutex, queues, aparatus, flags,
          counts, cookVars, sicakPide, motoVars, mainVars, clientVars>>

-----------------------------------------------------------------------------
(* queue.c: the ring buffer is the sequence of what it holds, oldest first. *)

IsFull(q, cap) == Len(q) = cap
\* Bug: the queue counts as full one place early.
EnqueueOneShort(q, cap, item) == IF IsFull(q, cap - 1) THEN q ELSE Append(q, item)
Enqueue(q, cap, item) == IF IsFull(q, cap) THEN q ELSE Append(q, item)
First(q) == IF q = << >> THEN Phantom ELSE Head(q)
\* Bug: dequeue() forgets to advance front.
RestKept(q) == q
Rest(q) == IF q = << >> THEN q ELSE Tail(q)

-----------------------------------------------------------------------------
(* preparedMutex.  With cancelled set, threads unlock it without holding   *)
(* it.  When another one may then be between its lock and its unlock, two  *)
(* threads can from now on be in enqueue() or dequeue() at once: it keeps  *)
(* nobody out, preparedQueue says nothing, and any item comes out of it.   *)

Torn == preparedMutex = Anybody
CanLock == preparedMutex \in {Nobody, Anybody}
Lock(t) == preparedMutex' = IF Torn THEN Anybody ELSE t
Unlock  == preparedMutex' = IF Torn THEN Anybody ELSE Nobody
UnlockAgain(t) ==
    LET Inside == {u \in Threads \ {t} : pc[u] \in {"hand", "handBroke", "load", "loadBroke"}}
    IN  preparedMutex' = IF Torn \/ Inside # {} THEN Anybody ELSE Nobody

Dequeued == IF Torn THEN Item ELSE {First(preparedQueue)}
Raced(q) == IF Torn THEN << >> ELSE q

-----------------------------------------------------------------------------
(* Condition variables.  A critical section is one step, so orderMutex and *)
(* apparatusMutex need no owner; ovenMutex and preparedMutex are held over *)
(* several steps.                                                          *)

Conds == {"orderFull", "orderEmpty", "apparatusCond", "ovenCondEmpty",
          "ovenCondFull", "preparedFull", "preparedEmpty"}

At(t, l)   == pc[t] = l
Goto(t, l) == pc' = [pc EXCEPT ![t] = l]

Sleep(t, k, l) ==
    /\ waiters' = [waiters EXCEPT ![k] = @ \cup {t}]
    /\ Goto(t, l)
Awake(t, k) == t \notin waiters[k]

Broadcast(ks) ==
    waiters' = [k \in Conds |-> IF k \in ks THEN {} ELSE waiters[k]]

\* pthread_cond_signal(&apparatusCond) wakes one of the waiters, if any.
Signalled == LET W == waiters["apparatusCond"]
             IN  IF W = {} THEN {{}} ELSE {W \ {t} : t \in W}

\* It is the only condition variable signalled; ks are broadcast in the same step.
SignalApparatus(ks) ==
    \E W \in Signalled :
        waiters' = [k \in Conds |-> IF k \in ks THEN {}
                                    ELSE IF k = "apparatusCond" THEN W
                                    ELSE waiters[k]]

ReturnApparatus(ks) == aparatus' = aparatus + 1 /\ SignalApparatus(ks)
=============================================================================
