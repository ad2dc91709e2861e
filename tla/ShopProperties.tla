--------------------------- MODULE ShopProperties ---------------------------
(***************************************************************************)
(* What the PideShop server should guarantee.                              *)
(***************************************************************************)
EXTENDS PideShop

PC == {"order", "orderWait", "apparatus", "apparatusWait", "apparatusBroke", "oven",
       "retake", "ovenWait", "ovenBroke", "quit", "release", "releaseElse", "startTimer",
       "none", "armed", "timerWait", "takeOut", "takeOutWait", "giveBack", "hand",
       "handWait", "handBroke", "handed", "done",
       "load", "loadWait", "loadBroke", "left", "stay", "ride", "travel", "back", "report",
       "accept", "info", "socket", "size", "orders", "put", "putWait", "count", "serve", "join", "down",
       "exit"}

\* Every variable of server.c stays in its range.
TypeOK ==
    /\ pc \in [Threads -> PC]
    /\ waiters \in [Conds -> SUBSET Threads]
    /\ ovenMutex \in Threads \cup {Nobody} /\ preparedMutex \in Threads \cup {Nobody, Anybody}
    /\ orderQueue \in Seq(Pides) /\ ovenQueue \in Seq(Pides) /\ preparedQueue \in Seq(Item)
    /\ aparatus \in Int
    /\ siparisIptal \in BOOLEAN /\ cancelled \in BOOLEAN /\ onlysendFlag \in BOOLEAN
    /\ totalOrder \in Int /\ totalReceived \in Nat /\ totalOrderSize \in Nat
    /\ sockfd \in Clients \cup {Nobody, 0}
    /\ preparePide \in [Cooks -> Item] /\ aparatAzaltildi \in [Cooks -> BOOLEAN]
    /\ sicakPide \in [Pides -> Item]
    /\ bag \in [Motos -> Seq(Item)] /\ flag \in [Motos -> BOOLEAN]
    /\ trip \in [Motos -> Nat \ {0}]
    /\ delivered \subseteq Item
    /\ cur \in Clients \cup {Nobody} /\ newOrder \in Nat \ {0}
    /\ client \in [Clients -> {"idle", "waiting"} \cup Final]
    /\ mail \in [Clients -> {"none", "DELIVERED", "BURNED"}]
    /\ backlog \subseteq Clients

\* A cook past "order" has a pide in hand, so no phantom ever enters the oven.
InHand == {"apparatus", "apparatusWait", "apparatusBroke", "oven", "retake", "ovenWait",
           "ovenBroke", "quit", "release", "releaseElse", "startTimer"}
CookHasPide == \A c \in Cooks : pc[c] \in InHand => preparePide[c] \in Pides

\* delivery() stays inside the bag.
TripInBag == \A m \in Motos : pc[m] \in {"ride", "travel"} => trip[m] <= Len(bag[m])

\* main puts only the orders of the client it accepted.
OrderInRange ==
    /\ pc[Main] \in Early \cup {"put", "putWait", "count", "serve", "join"} => cur \in Clients
    /\ pc[Main] \in {"put", "count"} => newOrder <= Size[cur]

\* The types hold because of these three: together they are inductive, with
\* cancellations and shutdowns at any moment.
IndInv == TypeOK /\ CookHasPide /\ TripInBag /\ OrderInRange

-----------------------------------------------------------------------------
(* Where the pides are. *)

\* The orders the main thread has put in orderQueue.
Ordered(p) ==
    IF p[1] = cur
    THEN \/ pc[Main] \notin Early \cup {"down"} /\ p[2] < newOrder
         \/ At(Main, "count") /\ p[2] = newOrder
    ELSE client[p[1]] # "idle" /\ p[1] \notin backlog

HeldByCook(c, p) ==
    /\ preparePide[c] = p
    /\ pc[c] \in {"apparatus", "apparatusWait", "apparatusBroke", "oven", "retake",
                  "ovenWait", "ovenBroke", "quit"}

\* The places of m's bag whose pide is still to be delivered.
Pending(m) ==
    CASE pc[m] \in {"ride", "travel"} -> trip[m]..Len(bag[m])
      [] pc[m] \in {"back", "report", "exit", "down"} -> {}
      [] OTHER -> DOMAIN bag[m]

\* The places that hold pide p, each as often as it holds it.
In(q, p) == Cardinality({i \in DOMAIN q : q[i] = p})
Copies(p) ==
    In(orderQueue, p) + In(ovenQueue, p) + In(preparedQueue, p)
    + Cardinality({c \in Cooks : HeldByCook(c, p)})
    + Cardinality({t \in Pides : sicakPide[t] = p})
    + Cardinality({x \in Motos \X (1..BagCap) :
                     x[2] \in Pending(x[1]) /\ bag[x[1]][x[2]] = p})
    + IF p \in delivered THEN 1 ELSE 0

\* Without a cancellation or a shutdown, a pide that was ordered is in exactly
\* one place, from orderQueue to the customer: none is dropped by an enqueue
\* on a full queue, taken twice or left behind.
PideConserved == \A p \in Pides : Copies(p) = IF Ordered(p) THEN 1 ELSE 0

\* Cancellations and shutdowns lose pides, but no pide is ever in two places, unless the shop
\* burns and a thread has unlocked preparedMutex while another one was working on the queue.
PideNotDuplicated == \A p \in Pides : Copies(p) > 1 => Torn /\ cancelled

\* Pides are lost only by what reads siparisIptal or cancelled set, and by a cook or a timer
\* thread that a cancellation has sent on to a full queue and that the next client overtakes:
\* siparisIptal is off again when it drops its pide.
LostAtBreak(p) ==
    \/ \E c \in Cooks : At(c, "ovenBroke") /\ preparePide[c] = p /\ IsFull(ovenQueue, OvenCap)
    \/ \E t \in Pides : At(t, "handBroke") /\ sicakPide[t] = p /\ IsFull(preparedQueue, QueueCap)
LostOnlyAtBreak ==
    [][~siparisIptal /\ ~cancelled /\ ~At(Main, "down")' =>
          \A p \in Pides : Copies(p) > 0 => Copies(p)' > 0 \/ LostAtBreak(p)]_vars

-----------------------------------------------------------------------------
(* The kitchen's resources. *)

ApparatusHolders ==
    {c \in Cooks : aparatAzaltildi[c] /\
        pc[c] \in {"oven", "ovenWait", "ovenBroke", "quit", "release", "releaseElse"}}
    \cup {t \in Pides : pc[t] \in {"takeOut", "takeOutWait", "giveBack"}}

\* "aparatus" and the threads that hold one account for all the apparatus:
\* no path through the cook's two releases or the timer loses or forges one.
ApparatusBalance == aparatus + Cardinality(ApparatusHolders) = Apparatus

\* A pide goes into the oven together with a timer to take it out: no pide
\* stays in the oven for ever and no timer thread finds it empty, whatever the
\* order in which the timers expire.
OvenTimerBalance ==
    Len(ovenQueue) = Cardinality(
        {c \in Cooks : pc[c] \in {"release", "releaseElse", "startTimer"}}
        \cup {t \in Pides : pc[t] \in {"armed", "timerWait", "takeOut", "takeOutWait"}})

-----------------------------------------------------------------------------
(* The books of the delivery. *)

\* Every order of the client being served is counted exactly once: still to
\* be put by main, in totalOrder, in a bag, or in totalReceived.  The motos
\* take from totalOrder without waiting for main to have counted the pide.
Uncounted(m) == IF At(m, "travel") THEN Pending(m) \ {trip[m]} ELSE Pending(m)
InBags == {x \in Motos \X (1..BagCap) : x[2] \in Uncounted(x[1])}
Accounted == totalReceived + Cardinality(InBags) + totalOrder + (Size[cur] - newOrder + 1)

\* While main serves a client, no step of any thread changes what is accounted for, though the
\* motos take from totalOrder and add to totalReceived without main.
Serving == {"put", "putWait", "count", "serve"}
BooksKept ==
    [][pc[Main] \in Serving /\ pc'[Main] \in Serving =>
          Accounted' = Accounted /\ UNCHANGED totalOrderSize]_vars

\* With one moto, a client is told DELIVERED only when all its pides have been delivered.
DeliveredMeansServed ==
    \A p \in Pides : mail[p[1]] = "DELIVERED" => p \in delivered

\* With any number of motos: what totalOrder counts is still to come.  It never exceeds the
\* ordered pides on their way to preparedQueue or in it, so that no moto waits for a pide that
\* another one has taken.
ToCome == {p \in Pides :
    In(orderQueue, p) + In(ovenQueue, p) + In(preparedQueue, p)
    + Cardinality({c \in Cooks : HeldByCook(c, p)}) + Cardinality({t \in Pides : sicakPide[t] = p}) > 0}
OrdersToCome ==
    0 <= totalOrder /\ totalOrder + (IF At(Main, "count") THEN 1 ELSE 0) <= Cardinality(ToCome)

\* A client that sent its order is served in the end.
EventuallyServed ==
    \A c \in Clients : client[c] = "waiting" ~> client[c] = "DELIVERED"

\* The pides of a client that did not cancel survive the cancellation of
\* another client's order, as long as the shop does not burn: none is thrown
\* away in its place.
OthersConserved ==
    ~cancelled /\ ~At(Main, "down") =>
        \A p \in Pides :
            client[p[1]] # "CANCELLED" => Copies(p) = IF Ordered(p) THEN 1 ELSE 0

\* Without cancellation or shutdown, and with one moto, the threads implement
\* the promise of ShopService.
Service == INSTANCE ShopService
ServiceSpec == Service!Spec
=============================================================================
