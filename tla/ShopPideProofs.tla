--------------------------- MODULE ShopPideProofs ---------------------------
(***************************************************************************)
(* Proofs about the pides of the shop.                                     *)
(*                                                                         *)
(* Whatever the threads, the capacities and the cancellations: no pide is  *)
(* ever in two places (NeverTwice), until SIGINT unlocks preparedMutex     *)
(* under another thread; and before SIGINT a pide is lost only where       *)
(* cook() breaks out of its loop with one in hand (LostAtBreakOnly).       *)
(*                                                                         *)
(* Without cancellations and shutdowns (NoSignals), for any number of      *)
(* motos: no apparatus is lost (NoApparatusLost), each pide in the oven    *)
(* has a timer (OvenHasTimers), no pide is lost (NoPideLost), the books of *)
(* the delivery balance (BooksBalance) and what totalOrder counts is still *)
(* to come (OrdersStillToCome).                                            *)
(***************************************************************************)
EXTENDS ShopProofs, FiniteSetTheorems, SequenceTheorems

-----------------------------------------------------------------------------
(* The places, without counting. *)

InQueue(q, p) == \E i \in DOMAIN q : q[i] = p
Once(q) == \A i, j \in DOMAIN q : q[i] = q[j] /\ q[i] \in Pides => i = j

\* The orders main has not yet put in orderQueue.
NotYet(p) ==
    \/ client[p[1]] = "idle" \/ p[1] \in backlog
    \/ /\ p[1] = cur
       /\ \/ pc[Main] \in Early
          \/ pc[Main] \in {"put", "putWait"} /\ p[2] >= newOrder
          \/ At(Main, "count") /\ p[2] > newOrder

\* A client connects once, and is served once.
Arrivals ==
    /\ \A c \in backlog : client[c] # "idle" /\ c # cur
    /\ cur # Nobody => client[cur] # "idle"

Spots == {"order", "cook", "oven", "timer", "prepared", "bag", "customer"}
AtCook(p)  == \E c \in Cooks : HeldByCook(c, p)
AtTimer(p) == \E t \in Pides : sicakPide[t] = p
InBag(p)   == \E m \in Motos : \E i \in Pending(m) : bag[m][i] = p
Holds(s, p) ==
    \/ s = "order"    /\ InQueue(orderQueue, p)
    \/ s = "cook"     /\ AtCook(p)
    \/ s = "oven"     /\ InQueue(ovenQueue, p)
    \/ s = "timer"    /\ AtTimer(p)
    \/ s = "prepared" /\ InQueue(preparedQueue, p)
    \/ s = "bag"      /\ InBag(p)
    \/ s = "customer" /\ p \in delivered

\* Each place holds a pide once at most ...
CookOnce  == \A p \in Pides, c, d \in Cooks : HeldByCook(c, p) /\ HeldByCook(d, p) => c = d
TimerOnce == \A t, u \in Pides : sicakPide[t] = sicakPide[u] /\ sicakPide[t] \in Pides => t = u
BagOnce ==
    \A m, n \in Motos : \A i \in Pending(m), j \in Pending(n) :
        bag[m][i] = bag[n][j] /\ bag[m][i] \in Pides => m = n /\ i = j
QueuesOnce == Once(orderQueue) /\ Once(ovenQueue) /\ Once(preparedQueue)

\* ... and the places exclude one another, and what has not been ordered is in none.
Apart ==
    \A p \in Pides :
        /\ \A s, z \in Spots : Holds(s, p) /\ Holds(z, p) => s = z
        /\ NotYet(p) => \A s \in Spots : ~Holds(s, p)

OnePlace == Arrivals /\ QueuesOnce /\ CookOnce /\ TimerOnce /\ BagOnce /\ Apart

-----------------------------------------------------------------------------
(* Queues, pides and places. *)

\* A pide is a client of the shop and a number of its order.
LEMMA PideParts ==
    ASSUME NEW p
    PROVE  /\ p \in Pides => p[1] \in Clients /\ p[2] \in 1..Size[p[1]] /\ p = <<p[1], p[2]>>
           /\ \A c \in Clients : \A n \in 1..Size[c] :
                 <<c, n>> \in Pides /\ (p = <<c, n>> => p[1] = c /\ p[2] = n)
<1>1. ASSUME p \in Pides PROVE p[1] \in Clients /\ p[2] \in 1..Size[p[1]] /\ p = <<p[1], p[2]>>
  <2>1. PICK c \in Clients : p \in {c} \X (1..Size[c])
    BY <1>1 DEF Pides
  <2> QED BY <2>1
<1>2. ASSUME NEW c \in Clients, NEW n \in 1..Size[c]
      PROVE  <<c, n>> \in Pides /\ (p = <<c, n>> => p[1] = c /\ p[2] = n)
  <2>1. <<c, n>> \in {c} \X (1..Size[c])
    OBVIOUS
  <2> QED BY <2>1 DEF Pides
<1> QED BY <1>1, <1>2

\* The number of a pide.
LEMMA PideNumber ==
    ASSUME NEW p \in Pides
    PROVE  p[1] \in Clients /\ p[2] \in Nat /\ Size[p[1]] \in Nat /\ 1 <= p[2] /\ p[2] <= Size[p[1]]
<1>1. p[1] \in Clients /\ p[2] \in 1..Size[p[1]]
  BY PideParts
<1>2. Size[p[1]] \in Nat
  BY <1>1, ShopAssumption
<1> QED BY <1>1, <1>2

\* What enqueue does to what a queue holds.
LEMMA AppendQueue ==
    ASSUME NEW S, NEW q \in Seq(S), NEW x \in S
    PROVE  /\ \A p : InQueue(Append(q, x), p) <=> InQueue(q, p) \/ p = x
           /\ Once(q) /\ (x \in Pides => ~InQueue(q, x)) => Once(Append(q, x))
<1> DEFINE a == Append(q, x)
<1>1. PICK n \in Nat : n = Len(q) /\ DOMAIN q = 1..n
  OBVIOUS
<1>2. /\ DOMAIN a = 1..(n + 1) /\ a[n + 1] = x /\ \A i \in 1..n : a[i] = q[i]
  BY <1>1, AppendProperties
<1> HIDE DEF a
<1>3. \A p : InQueue(a, p) <=> InQueue(q, p) \/ p = x
  <2>1. \A i \in 1..(n + 1) : i \in 1..n \/ i = n + 1
    BY <1>1
  <2>2. 1..n \subseteq 1..(n + 1) /\ n + 1 \in 1..(n + 1)
    BY <1>1
  <2> QED BY <1>1, <1>2, <2>1, <2>2 DEF InQueue
<1>4. ASSUME Once(q), x \in Pides => ~InQueue(q, x) PROVE Once(a)
  <2> SUFFICES ASSUME NEW i \in DOMAIN a, NEW j \in DOMAIN a, a[i] = a[j], a[i] \in Pides PROVE i = j
    BY DEF Once
  <2>1. (i \in 1..n \/ i = n + 1) /\ (j \in 1..n \/ j = n + 1)
    BY <1>1, <1>2
  <2>2. CASE i \in 1..n /\ j \in 1..n
    BY <1>1, <1>2, <1>4, <2>2 DEF Once
  <2>3. CASE i = n + 1 /\ j \in 1..n
    BY <1>1, <1>2, <1>4, <2>3 DEF InQueue
  <2>4. CASE j = n + 1 /\ i \in 1..n
    BY <1>1, <1>2, <1>4, <2>4 DEF InQueue
  <2> QED BY <2>1, <2>2, <2>3, <2>4
<1> QED BY <1>3, <1>4 DEF a

\* What dequeue does.
LEMMA TailQueue ==
    ASSUME NEW S, NEW q \in Seq(S), q # << >>
    PROVE  /\ \A p : InQueue(Tail(q), p) => InQueue(q, p)
           /\ \A p : InQueue(q, p) => InQueue(Tail(q), p) \/ p = Head(q)
           /\ InQueue(q, Head(q)) /\ Head(q) \in S /\ Tail(q) \in Seq(S)
           /\ Once(q) => Once(Tail(q)) /\ (Head(q) \in Pides => ~InQueue(Tail(q), Head(q)))
<1> DEFINE r == Tail(q)
<1>1. PICK n \in Nat : n = Len(q) /\ DOMAIN q = 1..n /\ n # 0
  OBVIOUS
<1>2. /\ DOMAIN r = 1..(n - 1) /\ r \in Seq(S) /\ \A i \in 1..(n - 1) : r[i] = q[i + 1]
      /\ Head(q) = q[1] /\ Head(q) \in S
  BY <1>1, HeadTailProperties
<1> HIDE DEF r
<1>3. \A i \in 1..(n - 1) : i + 1 \in 1..n /\ i + 1 # 1
  BY <1>1
<1>4. \A i \in 1..n : i = 1 \/ (i - 1 \in 1..(n - 1) /\ (i - 1) + 1 = i)
  BY <1>1
<1>5. 1 \in 1..n
  BY <1>1
<1>6. \A p : InQueue(r, p) => InQueue(q, p)
  BY <1>1, <1>2, <1>3 DEF InQueue
<1>7. ASSUME NEW p, InQueue(q, p) PROVE InQueue(r, p) \/ p = Head(q)
  <2>1. PICK i \in 1..n : q[i] = p
    BY <1>1, <1>7 DEF InQueue
  <2>2. CASE i = 1 BY <1>2, <2>1, <2>2
  <2>3. CASE i # 1
    <3>1. i - 1 \in DOMAIN r /\ r[i - 1] = p
      BY <1>2, <1>4, <2>1, <2>3
    <3> QED BY <3>1 DEF InQueue
  <2> QED BY <2>2, <2>3
<1>8. InQueue(q, Head(q))
  BY <1>1, <1>2, <1>5 DEF InQueue
<1>9. ASSUME Once(q) PROVE Once(r)
  <2> SUFFICES ASSUME NEW i \in DOMAIN r, NEW j \in DOMAIN r, r[i] = r[j], r[i] \in Pides PROVE i = j
    BY DEF Once
  <2>1. i + 1 \in DOMAIN q /\ j + 1 \in DOMAIN q /\ q[i + 1] = q[j + 1] /\ q[i + 1] \in Pides
    BY <1>1, <1>2, <1>3
  <2>2. i + 1 = j + 1
    BY <1>9, <2>1 DEF Once
  <2> QED BY <1>1, <1>2, <2>2
<1>10. ASSUME Once(q), Head(q) \in Pides PROVE ~InQueue(r, Head(q))
  <2> SUFFICES ASSUME NEW i \in 1..(n - 1), r[i] = Head(q) PROVE FALSE
    BY <1>2 DEF InQueue
  <2>1. q[i + 1] = q[1] /\ q[1] \in Pides /\ i + 1 \in DOMAIN q /\ 1 \in DOMAIN q
    BY <1>1, <1>2, <1>3, <1>5, <1>10
  <2>2. i + 1 = 1
    BY <1>10, <2>1 DEF Once
  <2> QED BY <1>3, <2>2
<1> QED BY <1>2, <1>6, <1>7, <1>8, <1>9, <1>10 DEF r

-----------------------------------------------------------------------------
(* Steps in general: places lose pides, or one pide goes to another place. *)

\* What is in a place was there before.
LEMMA Fewer ==
    ASSUME OnePlace, Arrivals', UNCHANGED <<orderQueue, ovenQueue, preparedQueue, delivered>>,
           \A p \in Pides : NotYet(p)' => NotYet(p),
           \A p \in Pides, c \in Cooks : HeldByCook(c, p)' => HeldByCook(c, p),
           \A t \in Pides : sicakPide'[t] = sicakPide[t] \/ sicakPide'[t] \notin Pides,
           \A m \in Motos : \A i \in Pending(m)' : i \in Pending(m) /\ bag'[m][i] = bag[m][i]
    PROVE  OnePlace'
<1> USE DEF OnePlace
<1>1. QueuesOnce'
  BY DEF QueuesOnce, Once
<1>2. CookOnce' /\ \A p \in Pides : AtCook(p)' => AtCook(p)
  BY DEF CookOnce, AtCook
<1>3. TimerOnce' /\ \A p \in Pides : AtTimer(p)' => AtTimer(p)
  BY DEF TimerOnce, AtTimer
<1>4. BagOnce'
  BY DEF BagOnce
<1>5. \A p \in Pides : InBag(p)' => InBag(p)
  BY DEF InBag
<1>6. \A p \in Pides, s \in Spots : Holds(s, p)' => Holds(s, p)
  BY <1>2, <1>3, <1>5 DEF Holds, InQueue
<1>7. Apart'
  BY <1>6 DEF Apart
<1> QED BY <1>1, <1>2, <1>3, <1>4, <1>7

\* A pide has come to a place and is in no other.
LEMMA Moved ==
    ASSUME OnePlace, Arrivals', QueuesOnce', CookOnce', TimerOnce', BagOnce',
           NEW p0, NEW s0 \in Spots,
           \A p \in Pides : NotYet(p)' => NotYet(p) /\ p # p0,
           \A p \in Pides, s \in Spots : Holds(s, p)' => Holds(s, p) \/ (p = p0 /\ s = s0),
           \A s \in Spots : p0 \in Pides /\ Holds(s, p0)' => s = s0
    PROVE  OnePlace'
<1>1. Apart'
  <2> SUFFICES ASSUME NEW p \in Pides
               PROVE  /\ \A s, z \in Spots : Holds(s, p)' /\ Holds(z, p)' => s = z
                      /\ NotYet(p)' => \A s \in Spots : ~Holds(s, p)'
    BY DEF Apart
  <2>1. CASE p = p0 BY <2>1
  <2>2. CASE p # p0 BY <2>2 DEF OnePlace, Apart
  <2> QED BY <2>1, <2>2
<1> QED BY <1>1 DEF OnePlace

\* Main and the clients stand still.
LEMMA SameOrders ==
    ASSUME UNCHANGED <<cur, newOrder, client, backlog>>, pc'[Main] = pc[Main]
    PROVE  /\ Arrivals => Arrivals'
           /\ \A p : NotYet(p)' => NotYet(p)
  BY DEF Arrivals, NotYet, At

\* The motos stand still.
LEMMA SameBags ==
    ASSUME UNCHANGED <<bag, trip>>, \A m \in Motos : pc'[m] = pc[m]
    PROVE  \A m \in Motos : \A i \in Pending(m)' : i \in Pending(m) /\ bag'[m][i] = bag[m][i]
  BY DEF Pending

Keeps == {"apparatus", "apparatusWait", "apparatusBroke", "oven", "retake", "ovenWait",
          "ovenBroke", "quit"}

\* A step of the kitchen that moves no pide.
LEMMA KitchenFewer ==
    ASSUME IndInv, OnePlace, NEW t \in Cooks \cup Pides, NEW l,
           pc' = [pc EXCEPT ![t] = l], t \in Cooks /\ l \in Keeps => pc[t] \in Keeps,
           UNCHANGED <<orderQueue, ovenQueue, preparedQueue, preparePide, sicakPide, outside>>
    PROVE  OnePlace'
<1>1. /\ \A u \in Threads \ {t} : pc'[u] = pc[u]
      /\ \A c \in Cooks : pc'[c] \in Keeps => pc[c] \in Keeps
      /\ t \notin Motos \cup {Main} /\ Motos \cup {Main} \subseteq Threads
  BY ShopAssumption DEF IndInv, TypeOK, Threads
<1>2. \A p \in Pides, c \in Cooks : HeldByCook(c, p)' => HeldByCook(c, p)
  BY <1>1 DEF HeldByCook, Keeps
<1>3. UNCHANGED <<cur, newOrder, client, backlog, bag, trip, delivered>>
  BY DEF outside, mainVars, clientVars, motoVars
<1>4. Arrivals' /\ \A p \in Pides : NotYet(p)' => NotYet(p)
  BY <1>1, <1>3, SameOrders DEF OnePlace
<1>5. \A m \in Motos : \A i \in Pending(m)' : i \in Pending(m) /\ bag'[m][i] = bag[m][i]
  BY <1>1, <1>3, SameBags
<1> QED BY <1>2, <1>3, <1>4, <1>5, Fewer

-----------------------------------------------------------------------------
(* The kitchen. *)

\* The steps of a cook but those that take or hand over a pide.
LEMMA CookQuiet ==
    ASSUME IndInv, OnePlace, NEW c \in Cooks,
           \/ WaitForOrder(c) \/ OrderWoken(c) \/ WaitForApparatus(c) \/ TakeApparatus(c)
           \/ ApparatusWoken(c) \/ OvenFull(c) \/ Retake(c) \/ OvenWoken(c) \/ Quit(c)
           \/ Release(c) \/ ReleaseElse(c)
    PROVE  OnePlace'
<1>1. UNCHANGED <<orderQueue, ovenQueue, preparedQueue, preparePide, sicakPide, outside>>
  BY DEF WaitForOrder, OrderWoken, WaitForApparatus, TakeApparatus, Claim, ApparatusWoken, OvenFull, Retake,
         OvenWoken, Quit, Release, ReleaseElse, queues, cookVars
<1>2. CASE WaitForOrder(c) \/ OrderWoken(c) \/ Quit(c) \/ Release(c) \/ ReleaseElse(c)
  <2>1. \E l \in {"orderWait", "order", "exit", "startTimer", "releaseElse"} : Goto(c, l)
    BY <1>2, Zenon DEF WaitForOrder, OrderWoken, Quit, Release, ReleaseElse, Sleep
  <2>2. PICK l \in {"orderWait", "order", "exit", "startTimer", "releaseElse"} : pc' = [pc EXCEPT ![c] = l]
    BY <2>1 DEF Goto
  <2>3. l \notin Keeps
    BY DEF Keeps
  <2> QED BY <1>1, <2>2, <2>3, KitchenFewer
<1>3. CASE WaitForApparatus(c) \/ TakeApparatus(c) \/ ApparatusWoken(c) \/ OvenFull(c) \/ Retake(c) \/ OvenWoken(c)
  <2>1. \E l : pc' = [pc EXCEPT ![c] = l]
    BY <1>3 DEF WaitForApparatus, TakeApparatus, Claim, ApparatusWoken, OvenFull, Retake, OvenWoken, Sleep, Goto
  <2>2. pc[c] \in Keeps
    BY <1>3 DEF WaitForApparatus, TakeApparatus, ApparatusWoken, OvenFull, Retake, OvenWoken, At, Keeps
  <2> QED BY <1>1, <2>1, <2>2, KitchenFewer
<1> QED BY <1>2, <1>3

\* A pide has left one place for another one.
LEMMA Went ==
    ASSUME OnePlace, Arrivals', QueuesOnce', CookOnce', TimerOnce', BagOnce',
           NEW p0, NEW s1 \in Spots, NEW s0 \in Spots,
           p0 \in Pides => Holds(s1, p0),
           \A p \in Pides : NotYet(p)' => NotYet(p),
           \A p \in Pides, s \in Spots : Holds(s, p)' => Holds(s, p) \/ (p = p0 /\ s = s0),
           p0 \in Pides => ~Holds(s1, p0)'
    PROVE  OnePlace'
<1>1. \A p \in Pides : NotYet(p)' => NotYet(p) /\ p # p0
  BY DEF OnePlace, Apart
<1>2. \A s \in Spots : p0 \in Pides /\ Holds(s, p0)' => s = s0
  BY DEF OnePlace, Apart
<1> QED BY <1>1, <1>2, Moved

\* dequeue of an order.
LEMMA TakeOrderMoves ==
    ASSUME IndInv, OnePlace, NEW c \in Cooks, TakeOrder(c)
    PROVE  OnePlace'
<1>0. PICK p0 : p0 = Head(orderQueue)
  OBVIOUS
<1> USE <1>0
<1>1. /\ orderQueue # << >> /\ orderQueue' = Tail(orderQueue) /\ orderQueue \in Seq(Pides)
      /\ preparePide' = [preparePide EXCEPT ![c] = p0] /\ pc' = [pc EXCEPT ![c] = "apparatus"]
      /\ UNCHANGED <<ovenQueue, preparedQueue, sicakPide, outside>>
  BY DEF TakeOrder, First, Rest, Goto, IndInv, TypeOK
<1>2. /\ \A p : InQueue(orderQueue', p) => InQueue(orderQueue, p)
      /\ InQueue(orderQueue, p0) /\ p0 \in Pides
      /\ Once(orderQueue') /\ ~InQueue(orderQueue', p0)
  BY <1>1, TailQueue DEF OnePlace, QueuesOnce
<1>3. /\ \A u \in Threads \ {c} : pc'[u] = pc[u] /\ pc'[c] = "apparatus"
      /\ preparePide'[c] = p0 /\ \A d \in Cooks \ {c} : preparePide'[d] = preparePide[d]
      /\ c \notin Motos \cup {Main} /\ Motos \cup {Main} \subseteq Threads /\ Cooks \subseteq Threads
  BY <1>1, ShopAssumption DEF IndInv, TypeOK, Threads
<1>4. \A p \in Pides, d \in Cooks : HeldByCook(d, p)' => HeldByCook(d, p) \/ (d = c /\ p = p0)
  BY <1>3 DEF HeldByCook
<1>5. UNCHANGED <<cur, newOrder, client, backlog, bag, trip, delivered>>
  BY <1>1 DEF outside, mainVars, clientVars, motoVars
<1>6. Arrivals' /\ \A p \in Pides : NotYet(p)' => NotYet(p)
  BY <1>3, <1>5, SameOrders DEF OnePlace
<1>7. \A m \in Motos : \A i \in Pending(m)' : i \in Pending(m) /\ bag'[m][i] = bag[m][i]
  BY <1>3, <1>5, SameBags
<1>8. Holds("order", p0) /\ "order" \in Spots /\ "cook" \in Spots
  BY <1>2 DEF Holds, Spots
<1>9. ~AtCook(p0)
  BY <1>2, <1>8 DEF OnePlace, Apart, Holds, Spots
<1>10. QueuesOnce' /\ TimerOnce' /\ BagOnce'
  BY <1>1, <1>2, <1>7 DEF OnePlace, QueuesOnce, TimerOnce, BagOnce, Once
<1>11. CookOnce'
  BY <1>4, <1>9 DEF OnePlace, CookOnce, AtCook
<1>12. \A p \in Pides : InBag(p)' => InBag(p)
  BY <1>7 DEF InBag
<1>13. \A p \in Pides, s \in Spots : Holds(s, p)' => Holds(s, p) \/ (p = p0 /\ s = "cook")
  BY <1>1, <1>2, <1>4, <1>5, <1>12 DEF Holds, AtCook, AtTimer, InQueue
<1>14. ~Holds("order", p0)'
  BY <1>2 DEF Holds, InQueue
<1> QED BY <1>2, <1>6, <1>8, <1>10, <1>11, <1>13, <1>14, Went

\* A pide goes into the oven, or is dropped.
LEMMA PlacePideMoves ==
    ASSUME IndInv, OnePlace, NEW c \in Cooks, PlacePide(c)
    PROVE  OnePlace'
<1>0. PICK p0 : p0 = preparePide[c]
  OBVIOUS
<1> USE <1>0
<1>1. /\ pc' = [pc EXCEPT ![c] = "release"] /\ pc[c] \in Keeps
      /\ ovenQueue' = ovenQueue \/ ovenQueue' = Append(ovenQueue, p0)
      /\ UNCHANGED <<orderQueue, preparedQueue, preparePide, sicakPide, outside>>
  BY DEF PlacePide, At, Goto, Keeps, Enqueue, cookVars
<1>2. p0 \in Pides /\ ovenQueue \in Seq(Pides)
  BY <1>1 DEF IndInv, TypeOK, CookHasPide, Keeps, InHand
<1>3. CASE ovenQueue' = ovenQueue
  <2>1. "release" \notin Keeps
    BY DEF Keeps
  <2> QED BY <1>1, <1>3, <2>1, KitchenFewer
<1>4. CASE ovenQueue' = Append(ovenQueue, p0)
  <2>1. Holds("cook", p0) /\ "cook" \in Spots /\ "oven" \in Spots
    BY <1>1 DEF Holds, AtCook, HeldByCook, Keeps, Spots
  <2>2. ~InQueue(ovenQueue, p0)
    BY <1>2, <2>1 DEF OnePlace, Apart, Holds, Spots
  <2>3. /\ \A p : InQueue(ovenQueue', p) => InQueue(ovenQueue, p) \/ p = p0
        /\ Once(ovenQueue')
    BY <1>2, <1>4, <2>2, AppendQueue DEF OnePlace, QueuesOnce
  <2>4. /\ \A u \in Threads \ {c} : pc'[u] = pc[u] /\ pc'[c] = "release"
        /\ c \notin Motos \cup {Main} /\ Motos \cup {Main} \subseteq Threads /\ Cooks \subseteq Threads
    BY <1>1, ShopAssumption DEF IndInv, TypeOK, Threads
  <2>5. \A p \in Pides, d \in Cooks : HeldByCook(d, p)' => HeldByCook(d, p) /\ d # c
    <3>1. \A d \in Cooks : d = c \/ pc'[d] = pc[d]
      BY <2>4
    <3>2. pc'[c] = "release" /\ preparePide' = preparePide
      BY <1>1, <2>4
    <3> QED BY <3>1, <3>2 DEF HeldByCook
  <2>6. UNCHANGED <<cur, newOrder, client, backlog, bag, trip, delivered>>
    BY <1>1 DEF outside, mainVars, clientVars, motoVars
  <2>7. Arrivals' /\ \A p \in Pides : NotYet(p)' => NotYet(p)
    BY <2>4, <2>6, SameOrders DEF OnePlace
  <2>8. \A m \in Motos : \A i \in Pending(m)' : i \in Pending(m) /\ bag'[m][i] = bag[m][i]
    BY <2>4, <2>6, SameBags
  <2>9. QueuesOnce' /\ TimerOnce' /\ BagOnce' /\ CookOnce'
    BY <1>1, <2>3, <2>5, <2>8 DEF OnePlace, QueuesOnce, TimerOnce, BagOnce, Once, CookOnce
  <2>10. \A p \in Pides : InBag(p)' => InBag(p)
    BY <2>8 DEF InBag
  <2>11. HeldByCook(c, p0)
    BY <1>1 DEF HeldByCook, Keeps
  <2>12. \A p \in Pides, s \in Spots : Holds(s, p)' => Holds(s, p) \/ (p = p0 /\ s = "oven")
    BY <1>1, <2>3, <2>5, <2>6, <2>10 DEF Holds, AtCook, AtTimer, InQueue
  <2>13. ~AtCook(p0)'
    BY <1>2, <2>5, <2>11 DEF AtCook, OnePlace, CookOnce
  <2>14. ~Holds("cook", p0)'
    BY <2>13 DEF Holds
  <2> QED BY <1>2, <2>1, <2>7, <2>9, <2>12, <2>14, Went
<1> QED BY <1>1, <1>3, <1>4

\* startTimer, and back to the orders.
LEMMA StartTimerDrops ==
    ASSUME IndInv, OnePlace, NEW c \in Cooks, StartTimer(c)
    PROVE  OnePlace'
<1>1. /\ UNCHANGED <<orderQueue, ovenQueue, preparedQueue, sicakPide, outside>>
      /\ \A d \in Cooks \ {c} : preparePide'[d] = preparePide[d]
  BY DEF StartTimer, queues, cookVars, IndInv, TypeOK
<1>2. preparePide[c] \in Pides /\ c \in Threads /\ preparePide[c] \in Threads /\ preparePide[c] # c
  BY ShopAssumption DEF StartTimer, At, IndInv, CookHasPide, InHand, Threads
<1>3. pc'[c] \in {"exit", "order"} /\ \A u \in Threads \ {c, preparePide[c]} : pc'[u] = pc[u]
  BY <1>2 DEF StartTimer, Goto, ArmTimer, IndInv, TypeOK
<1>4. Motos \cup {Main} \subseteq Threads \ {c, preparePide[c]} /\ Cooks \ {c} \subseteq Threads \ {c, preparePide[c]}
  BY <1>2, ShopAssumption DEF Threads
<1>5. \A p \in Pides, d \in Cooks : HeldByCook(d, p)' => HeldByCook(d, p)
  BY <1>1, <1>3, <1>4 DEF HeldByCook
<1>6. UNCHANGED <<cur, newOrder, client, backlog, bag, trip, delivered>>
  BY <1>1 DEF outside, mainVars, clientVars, motoVars
<1>7. Arrivals' /\ \A p \in Pides : NotYet(p)' => NotYet(p)
  BY <1>3, <1>4, <1>6, SameOrders DEF OnePlace
<1>8. \A m \in Motos : \A i \in Pending(m)' : i \in Pending(m) /\ bag'[m][i] = bag[m][i]
  BY <1>3, <1>4, <1>6, SameBags
<1> QED BY <1>1, <1>5, <1>6, <1>7, <1>8, Fewer

\* The steps of a timer thread but those that take out or hand over a pide.
LEMMA TimerQuiet ==
    ASSUME IndInv, OnePlace, NEW t \in Pides,
           \/ TimerWait(t) \/ TimerTake(t) \/ TimerWoken(t) \/ OvenEmpty(t) \/ TakeOutWoken(t)
           \/ GiveBack(t) \/ PreparedFull(t) \/ HandWoken(t) \/ TimerEnd(t)
    PROVE  OnePlace'
<1>1. UNCHANGED <<orderQueue, ovenQueue, preparedQueue, preparePide, sicakPide, outside>>
  BY DEF TimerWait, TimerTake, TimerWoken, OvenEmpty, TakeOutWoken, GiveBack, PreparedFull, HandWoken, TimerEnd,
         queues, cookVars
<1>2. \E l : pc' = [pc EXCEPT ![t] = l]
  BY DEF TimerWait, TimerTake, TimerWoken, OvenEmpty, TakeOutWoken, GiveBack, PreparedFull, HandWoken, TimerEnd,
         Sleep, Goto
<1>3. t \notin Cooks
  BY ShopAssumption
<1> QED BY <1>1, <1>2, <1>3, KitchenFewer

\* A timer thread takes out the oldest pide of the oven, if there is one.
LEMMA TakeOutMoves ==
    ASSUME IndInv, OnePlace, NEW t \in Pides, TakeOut(t)
    PROVE  OnePlace'
<1>1. /\ pc' = [pc EXCEPT ![t] = "giveBack"] /\ sicakPide' = [sicakPide EXCEPT ![t] = First(ovenQueue)]
      /\ ovenQueue' = Rest(ovenQueue) /\ ovenQueue \in Seq(Pides)
      /\ UNCHANGED <<orderQueue, preparedQueue, preparePide, outside>>
  BY DEF TakeOut, Goto, cookVars, IndInv, TypeOK
<1>2. /\ \A u \in Threads \ {t} : pc'[u] = pc[u]
      /\ t \notin Motos \cup {Main} \cup Cooks /\ Motos \cup {Main} \cup Cooks \subseteq Threads
      /\ sicakPide'[t] = First(ovenQueue) /\ \A u \in Pides \ {t} : sicakPide'[u] = sicakPide[u]
  BY <1>1, ShopAssumption DEF IndInv, TypeOK, Threads
<1>3. UNCHANGED <<cur, newOrder, client, backlog, bag, trip, delivered>>
  BY <1>1 DEF outside, mainVars, clientVars, motoVars
<1>4. Arrivals' /\ \A p \in Pides : NotYet(p)' => NotYet(p)
  BY <1>2, <1>3, SameOrders DEF OnePlace
<1>5. \A m \in Motos : \A i \in Pending(m)' : i \in Pending(m) /\ bag'[m][i] = bag[m][i]
  BY <1>2, <1>3, SameBags
<1>6. \A p \in Pides, d \in Cooks : HeldByCook(d, p)' => HeldByCook(d, p)
  BY <1>1, <1>2 DEF HeldByCook
<1>7. CASE ovenQueue = << >>
  <2>1. ovenQueue' = ovenQueue /\ First(ovenQueue) \notin Pides
    BY <1>1, <1>7, ShopAssumption DEF First, Rest
  <2> QED BY <1>1, <1>2, <1>3, <1>4, <1>5, <1>6, <2>1, Fewer
<1>8. CASE ovenQueue # << >>
  <2>0. PICK p0 : p0 = Head(ovenQueue)
    OBVIOUS
  <2>1. /\ \A p : InQueue(ovenQueue', p) => InQueue(ovenQueue, p)
        /\ InQueue(ovenQueue, p0) /\ p0 \in Pides
        /\ Once(ovenQueue') /\ ~InQueue(ovenQueue', p0) /\ p0 = First(ovenQueue)
    BY <1>1, <1>8, <2>0, TailQueue DEF OnePlace, QueuesOnce, First, Rest
  <2>2. Holds("oven", p0) /\ "oven" \in Spots /\ "timer" \in Spots
    BY <2>1 DEF Holds, Spots
  <2>3. ~AtTimer(p0)
    BY <2>1, <2>2 DEF OnePlace, Apart, Holds, Spots
  <2>4. TimerOnce'
    BY <1>2, <2>1, <2>3 DEF OnePlace, TimerOnce, AtTimer
  <2>5. QueuesOnce' /\ BagOnce' /\ CookOnce'
    BY <1>1, <1>5, <1>6, <2>1 DEF OnePlace, QueuesOnce, BagOnce, Once, CookOnce
  <2>6. \A p \in Pides : InBag(p)' => InBag(p)
    BY <1>5 DEF InBag
  <2>7. \A p \in Pides : AtTimer(p)' => AtTimer(p) \/ p = p0
    BY <1>2, <2>1 DEF AtTimer
  <2>8. \A p \in Pides, s \in Spots : Holds(s, p)' => Holds(s, p) \/ (p = p0 /\ s = "timer")
    BY <1>1, <1>3, <1>6, <2>1, <2>6, <2>7 DEF Holds, AtCook, InQueue
  <2>9. ~Holds("oven", p0)'
    BY <2>1 DEF Holds, InQueue
  <2> QED BY <1>4, <2>1, <2>2, <2>4, <2>5, <2>8, <2>9, Went
<1> QED BY <1>7, <1>8

\* The timer thread puts its pide in preparedQueue, or drops it.
LEMMA HandMoves ==
    ASSUME IndInv, ~Torn, OnePlace, NEW t \in Pides, Hand(t)
    PROVE  OnePlace'
<1>0. PICK p0 : p0 = sicakPide[t]
  OBVIOUS
<1> USE <1>0
<1>1. /\ pc' = [pc EXCEPT ![t] = "handed"] /\ sicakPide' = [sicakPide EXCEPT ![t] = Phantom]
      /\ preparedQueue' = preparedQueue \/ preparedQueue' = Append(preparedQueue, p0)
      /\ UNCHANGED <<orderQueue, ovenQueue, preparePide, outside>>
  BY DEF Hand, Raced, Goto, Enqueue, cookVars
<1>2. /\ \A u \in Threads \ {t} : pc'[u] = pc[u]
      /\ t \notin Motos \cup {Main} \cup Cooks /\ Motos \cup {Main} \cup Cooks \subseteq Threads
      /\ sicakPide'[t] = Phantom /\ \A u \in Pides \ {t} : sicakPide'[u] = sicakPide[u]
      /\ preparedQueue \in Seq(Item) /\ p0 \in Item /\ Phantom \notin Pides
  BY <1>1, ShopAssumption DEF IndInv, TypeOK, Threads
<1>3. UNCHANGED <<cur, newOrder, client, backlog, bag, trip, delivered>>
  BY <1>1 DEF outside, mainVars, clientVars, motoVars
<1>4. Arrivals' /\ \A p \in Pides : NotYet(p)' => NotYet(p)
  BY <1>2, <1>3, SameOrders DEF OnePlace
<1>5. \A m \in Motos : \A i \in Pending(m)' : i \in Pending(m) /\ bag'[m][i] = bag[m][i]
  BY <1>2, <1>3, SameBags
<1>6. \A p \in Pides, d \in Cooks : HeldByCook(d, p)' => HeldByCook(d, p)
  BY <1>1, <1>2 DEF HeldByCook
<1>7. CASE preparedQueue' = preparedQueue
  BY <1>1, <1>2, <1>3, <1>4, <1>5, <1>6, <1>7, Fewer
<1>8. CASE preparedQueue' = Append(preparedQueue, p0)
  <2>1. p0 \in Pides => Holds("timer", p0)
    BY DEF Holds, AtTimer
  <2>2. "timer" \in Spots /\ "prepared" \in Spots
    BY DEF Spots
  <2>3. p0 \in Pides => ~InQueue(preparedQueue, p0)
    BY <2>1 DEF OnePlace, Apart, Holds, Spots
  <2>4. /\ \A p : InQueue(preparedQueue', p) => InQueue(preparedQueue, p) \/ p = p0
        /\ Once(preparedQueue')
    BY <1>2, <1>8, <2>3, AppendQueue DEF OnePlace, QueuesOnce
  <2>5. TimerOnce' /\ \A p \in Pides : AtTimer(p)' => AtTimer(p) /\ p # p0
    BY <1>2 DEF OnePlace, TimerOnce, AtTimer
  <2>6. QueuesOnce' /\ BagOnce' /\ CookOnce'
    BY <1>1, <1>5, <1>6, <2>4 DEF OnePlace, QueuesOnce, BagOnce, Once, CookOnce
  <2>7. \A p \in Pides : InBag(p)' => InBag(p)
    BY <1>5 DEF InBag
  <2>8. \A p \in Pides, s \in Spots : Holds(s, p)' => Holds(s, p) \/ (p = p0 /\ s = "prepared")
    BY <1>1, <1>3, <1>6, <2>4, <2>5, <2>7 DEF Holds, AtCook, InQueue
  <2>9. p0 \in Pides => ~Holds("timer", p0)'
    BY <2>5 DEF Holds
  <2> QED BY <1>4, <2>1, <2>2, <2>5, <2>6, <2>8, <2>9, Went
<1> QED BY <1>1, <1>7, <1>8

-----------------------------------------------------------------------------
(* The motos. *)

\* The other threads do not notice the step of a moto, whose bag does not get fuller.
LEMMA MotoFewer ==
    ASSUME IndInv, OnePlace, NEW m \in Motos,
           UNCHANGED <<orderQueue, ovenQueue, preparedQueue, preparePide, sicakPide, delivered,
                       cur, newOrder, client, backlog>>,
           \A u \in Threads \ {m} : pc'[u] = pc[u],
           \A n \in Motos \ {m} : bag'[n] = bag[n] /\ trip'[n] = trip[n],
           \A i \in Pending(m)' : i \in Pending(m) /\ bag'[m][i] = bag[m][i]
    PROVE  OnePlace'
<1>1. /\ Cooks \cup {Main} \subseteq Threads \ {m} /\ Motos \subseteq Threads
  BY ShopAssumption DEF Threads
<1>2. \A p \in Pides, c \in Cooks : HeldByCook(c, p)' => HeldByCook(c, p)
  BY <1>1 DEF HeldByCook
<1>3. Arrivals' /\ \A p \in Pides : NotYet(p)' => NotYet(p)
  BY <1>1, SameOrders DEF OnePlace
<1>4. \A n \in Motos : \A i \in Pending(n)' : i \in Pending(n) /\ bag'[n][i] = bag[n][i]
  <2>1. ASSUME NEW n \in Motos \ {m}
        PROVE  \A i \in Pending(n)' : i \in Pending(n) /\ bag'[n][i] = bag[n][i]
    <3>1. pc'[n] = pc[n] /\ bag'[n] = bag[n] /\ trip'[n] = trip[n]
      BY <1>1
    <3> QED BY <3>1 DEF Pending
  <2> QED BY <2>1
<1> QED BY <1>2, <1>3, <1>4, Fewer

\* The steps of a moto but those that load or deliver a pide.
LEMMA MotoQuiet ==
    ASSUME IndInv, OnePlace, NEW m \in Motos,
           \/ LoadWait(m) \/ LoadWoken(m) \/ LoadBroke(m) \/ Leave(m) \/ Left(m) \/ Stay(m)
           \/ Ride(m) \/ Back(m) \/ Report(m)
    PROVE  OnePlace'
<1>0. m \in Threads /\ pc \in [Threads -> PC] /\ bag \in [Motos -> Seq(Item)] /\ trip \in [Motos -> Nat \ {0}]
  BY DEF Threads, IndInv, TypeOK
<1>1. UNCHANGED <<orderQueue, ovenQueue, preparedQueue, preparePide, sicakPide, delivered,
                  cur, newOrder, client, backlog>>
  BY DEF LoadWait, LoadWoken, LoadBroke, Leave, Left, Stay, Ride, Back, Report, EmptyBag, elsewhere, kitchen, motoVars,
         mainVars, cookVars
<1>2. \E l : Goto(m, l)
  BY DEF LoadWait, LoadWoken, LoadBroke, Leave, Left, Stay, Ride, Back, Report, EmptyBag, EndRound, Exit, Sleep
<1>3. \A u \in Threads \ {m} : pc'[u] = pc[u]
  BY <1>0, <1>2 DEF Goto
<1>4. \A n \in Motos \ {m} : bag'[n] = bag[n] /\ trip'[n] = trip[n]
  BY <1>0 DEF LoadWait, LoadWoken, LoadBroke, Leave, Left, Stay, Ride, Back, Report, EmptyBag, motoVars
<1>5. \A i \in Pending(m)' : i \in Pending(m) /\ bag'[m][i] = bag[m][i]
  <2>1. CASE LoadWait(m) \/ LoadBroke(m) \/ Leave(m)
    <3>1. pc[m] \in {"load", "loadBroke"} /\ pc'[m] \in {"loadWait", "load", "left"} /\ bag' = bag
      BY <1>0, <2>1 DEF LoadWait, LoadBroke, Leave, At, Goto, Sleep, motoVars
    <3> QED BY <3>1 DEF Pending
  <2>2. CASE LoadWoken(m)
    <3>1. pc[m] = "loadWait" /\ pc'[m] \in {"loadBroke", "exit", "load"} /\ bag'[m] \in {<< >>, bag[m]}
      BY <1>0, <2>2 DEF LoadWoken, At, Goto
    <3> QED BY <3>1 DEF Pending
  <2>3. CASE Left(m)
    <3>1. pc[m] = "left" /\ bag' = bag
          /\ \/ pc'[m] \in {"exit", "stay"}
             \/ pc'[m] = "ride" /\ trip'[m] = 1
      BY <1>0, <2>3 DEF Left, At, Goto, Exit
    <3>2. 1..Len(bag[m]) = DOMAIN bag[m]
      BY <1>0
    <3> QED BY <3>1, <3>2 DEF Pending
  <2>4. CASE Stay(m)
    <3>1. pc[m] = "stay" /\ pc'[m] \in {"exit", "load"} /\ bag'[m] \in {<< >>, bag[m]}
      BY <1>0, <2>4 DEF Stay, EndRound, At, Goto, Exit
    <3> QED BY <3>1 DEF Pending
  <2>5. CASE Ride(m)
    <3>1. pc[m] = "ride" /\ pc'[m] \in {"back", "travel"} /\ bag' = bag /\ trip' = trip
      BY <1>0, <2>5 DEF Ride, At, Goto, motoVars
    <3> QED BY <3>1 DEF Pending
  <2>6. CASE Back(m) \/ Report(m)
    <3>1. \/ pc'[m] \in {"exit", "report"}
          \/ pc'[m] \in {"exit", "load"} /\ bag'[m] = << >>
      BY <1>0, <2>6 DEF Back, Report, EmptyBag, EndRound, Goto, Exit
    <3> QED BY <3>1 DEF Pending
  <2> QED BY <2>1, <2>2, <2>3, <2>4, <2>5, <2>6
<1> QED BY <1>1, <1>3, <1>4, <1>5, MotoFewer

\* A pide, or what dequeue returns on an empty queue, goes into the bag.
LEMMA LoadMoves ==
    ASSUME IndInv, ~Torn, OnePlace, NEW m \in Motos, Load(m)
    PROVE  OnePlace'
<1>0. PICK p0 : p0 = First(preparedQueue)
  OBVIOUS
<1>1. /\ pc[m] \in {"load", "loadBroke"} /\ pc' = [pc EXCEPT ![m] = "load"]
      /\ bag' = [bag EXCEPT ![m] = Append(bag[m], p0)] /\ preparedQueue' = Rest(preparedQueue)
      /\ UNCHANGED <<orderQueue, ovenQueue, preparePide, sicakPide, delivered, trip, cur, newOrder, client, backlog>>
  BY <1>0 DEF Load, Dequeued, Raced, At, Goto, elsewhere, kitchen, mainVars, cookVars
<1>2. /\ \A u \in Threads \ {m} : pc'[u] = pc[u] /\ pc'[m] = "load"
      /\ Cooks \cup {Main} \subseteq Threads \ {m} /\ Motos \subseteq Threads
      /\ bag'[m] = Append(bag[m], p0) /\ \A n \in Motos \ {m} : bag'[n] = bag[n]
      /\ preparedQueue \in Seq(Item) /\ bag[m] \in Seq(Item)
  BY <1>1, ShopAssumption DEF IndInv, TypeOK, Threads
<1>3. p0 \in Item
  BY <1>0, <1>2 DEF First, Item
<1>4. PICK k \in Nat : k = Len(bag[m])
  BY <1>2
<1>5. /\ DOMAIN bag[m] = 1..k /\ DOMAIN bag'[m] = 1..(k + 1)
      /\ bag'[m][k + 1] = p0 /\ \A i \in 1..k : bag'[m][i] = bag[m][i]
  BY <1>2, <1>3, <1>4, AppendProperties
<1>6. \A n \in Motos : \A i \in Pending(n)' :
          \/ i \in Pending(n) /\ bag'[n][i] = bag[n][i]
          \/ n = m /\ i = k + 1 /\ bag'[n][i] = p0
  <2>1. ASSUME NEW i \in Pending(m)'
        PROVE  (i \in Pending(m) /\ bag'[m][i] = bag[m][i]) \/ (i = k + 1 /\ bag'[m][i] = p0)
    <3>1. i \in 1..(k + 1) /\ Pending(m) = 1..k
      BY <1>1, <1>2, <1>5 DEF Pending
    <3>2. i \in 1..k \/ i = k + 1
      BY <1>4, <3>1
    <3>3. CASE i \in 1..k
      BY <1>5, <3>1, <3>3
    <3>4. CASE i = k + 1
      BY <1>5, <3>4
    <3> QED BY <3>2, <3>3, <3>4
  <2>2. ASSUME NEW n \in Motos \ {m}, NEW i \in Pending(n)'
        PROVE  i \in Pending(n) /\ bag'[n][i] = bag[n][i]
    <3>1. pc'[n] = pc[n] /\ bag'[n] = bag[n] /\ trip'[n] = trip[n]
      BY <1>1, <1>2
    <3> QED BY <3>1 DEF Pending
  <2> QED BY <2>1, <2>2
<1>7. p0 \in Pides => preparedQueue # << >> /\ p0 = Head(preparedQueue)
  BY <1>0, ShopAssumption DEF First
<1>8. /\ p0 \in Pides => InQueue(preparedQueue, p0) /\ ~InQueue(preparedQueue', p0)
      /\ \A p : InQueue(preparedQueue', p) => InQueue(preparedQueue, p)
      /\ Once(preparedQueue')
  BY <1>1, <1>2, <1>7, TailQueue DEF Rest, OnePlace, QueuesOnce
<1>9. p0 \in Pides => Holds("prepared", p0)
  BY <1>8 DEF Holds
<1>10. "prepared" \in Spots /\ "bag" \in Spots
  BY DEF Spots
<1>11. p0 \in Pides => ~InBag(p0)
  BY <1>9, <1>10 DEF OnePlace, Apart, Holds
<1>12. BagOnce'
  <2> SUFFICES ASSUME NEW n1 \in Motos, NEW n2 \in Motos, NEW i \in Pending(n1)', NEW j \in Pending(n2)',
                      bag'[n1][i] = bag'[n2][j], bag'[n1][i] \in Pides
               PROVE  n1 = n2 /\ i = j
    BY DEF BagOnce
  <2>1. CASE i \in Pending(n1) /\ bag'[n1][i] = bag[n1][i] /\ j \in Pending(n2) /\ bag'[n2][j] = bag[n2][j]
    BY <2>1 DEF OnePlace, BagOnce
  <2>2. CASE bag'[n1][i] # p0
    BY <1>6, <2>1, <2>2
  <2>3. CASE bag'[n1][i] = p0
    <3>1. n1 = m /\ i = k + 1
      BY <1>6, <1>11, <2>3 DEF InBag
    <3>2. n2 = m /\ j = k + 1
      BY <1>6, <1>11, <2>3 DEF InBag
    <3> QED BY <3>1, <3>2
  <2> QED BY <2>2, <2>3
<1>13. \A p \in Pides : InBag(p)' => InBag(p) \/ p = p0
  BY <1>6 DEF InBag
<1>14. \A p \in Pides, c \in Cooks : HeldByCook(c, p)' => HeldByCook(c, p)
  BY <1>1, <1>2 DEF HeldByCook
<1>15. Arrivals' /\ \A p \in Pides : NotYet(p)' => NotYet(p)
  BY <1>1, <1>2, SameOrders DEF OnePlace
<1>16. QueuesOnce' /\ TimerOnce' /\ CookOnce'
  BY <1>1, <1>8, <1>14 DEF OnePlace, QueuesOnce, TimerOnce, Once, CookOnce
<1>17. \A p \in Pides, s \in Spots : Holds(s, p)' => Holds(s, p) \/ (p = p0 /\ s = "bag")
  BY <1>1, <1>8, <1>13, <1>14 DEF Holds, AtCook, AtTimer, InQueue
<1>18. p0 \in Pides => ~Holds("prepared", p0)'
  BY <1>8 DEF Holds, InQueue
<1> QED BY <1>9, <1>10, <1>12, <1>15, <1>16, <1>17, <1>18, Went

\* The pide at the head of the trip is delivered.
LEMMA TravelMoves ==
    ASSUME IndInv, OnePlace, NEW m \in Motos, Travel(m)
    PROVE  OnePlace'
<1>0. PICK p0 : p0 = bag[m][trip[m]]
  OBVIOUS
<1>1. PICK a \in Nat, k \in Nat : a = trip[m] /\ k = Len(bag[m]) /\ a <= k
  BY DEF Travel, At, IndInv, TypeOK, TripInBag
<1>2. /\ pc[m] = "travel" /\ delivered' = delivered \cup {p0}
      /\ \/ trip' = [trip EXCEPT ![m] = a + 1] /\ pc' = [pc EXCEPT ![m] = "ride"]
         \/ pc' = [pc EXCEPT ![m] = "back"] /\ UNCHANGED trip
      /\ UNCHANGED <<orderQueue, ovenQueue, preparedQueue, preparePide, sicakPide, bag, cur, newOrder, client, backlog>>
  BY <1>0, <1>1 DEF Travel, At, Goto, elsewhere, kitchen, mainVars, cookVars
<1>3. /\ \A u \in Threads \ {m} : pc'[u] = pc[u]
      /\ (pc'[m] = "ride" /\ trip'[m] = a + 1) \/ pc'[m] = "back"
      /\ \A n \in Motos \ {m} : trip'[n] = trip[n]
      /\ Cooks \cup {Main} \subseteq Threads \ {m} /\ Motos \subseteq Threads
  BY <1>2, ShopAssumption DEF IndInv, TypeOK, Threads
<1>4. a \in Pending(m) /\ bag[m][a] = p0 /\ Pending(m) = a..k
  BY <1>0, <1>1, <1>2 DEF Pending
<1>5. \A n \in Motos : \A i \in Pending(n)' : i \in Pending(n) /\ (n = m => i # a)
  <2>1. ASSUME NEW i \in Pending(m)' PROVE i \in Pending(m) /\ i # a
    <3>1. i \in (a + 1)..k
      BY <1>1, <1>2, <1>3, <2>1 DEF Pending
    <3>2. i \in a..k /\ i # a
      BY <1>1, <3>1
    <3> QED BY <1>4, <3>2
  <2>2. ASSUME NEW n \in Motos \ {m}, NEW i \in Pending(n)' PROVE i \in Pending(n)
    <3>1. pc'[n] = pc[n] /\ bag'[n] = bag[n] /\ trip'[n] = trip[n]
      BY <1>2, <1>3
    <3> QED BY <2>2, <3>1 DEF Pending
  <2> QED BY <2>1, <2>2
<1>6. BagOnce'
  BY <1>2, <1>5 DEF OnePlace, BagOnce
<1>7. \A p \in Pides : InBag(p)' => InBag(p) /\ p # p0
  <2> SUFFICES ASSUME NEW p \in Pides, NEW n \in Motos, NEW i \in Pending(n)', bag'[n][i] = p
               PROVE  InBag(p) /\ p # p0
    BY DEF InBag
  <2>1. i \in Pending(n) /\ (n = m => i # a) /\ bag[n][i] = p
    BY <1>2, <1>5
  <2>2. p # p0
    BY <1>4, <2>1 DEF OnePlace, BagOnce
  <2> QED BY <2>1, <2>2 DEF InBag
<1>8. \A p \in Pides, c \in Cooks : HeldByCook(c, p)' => HeldByCook(c, p)
  BY <1>2, <1>3 DEF HeldByCook
<1>9. Arrivals' /\ \A p \in Pides : NotYet(p)' => NotYet(p)
  BY <1>2, <1>3, SameOrders DEF OnePlace
<1>10. QueuesOnce' /\ TimerOnce' /\ CookOnce'
  BY <1>2, <1>8 DEF OnePlace, QueuesOnce, TimerOnce, Once, CookOnce
<1>11. p0 \in Pides => Holds("bag", p0)
  BY <1>4 DEF Holds, InBag
<1>12. "bag" \in Spots /\ "customer" \in Spots
  BY DEF Spots
<1>13. \A p \in Pides, s \in Spots : Holds(s, p)' => Holds(s, p) \/ (p = p0 /\ s = "customer")
  BY <1>2, <1>7, <1>8 DEF Holds, AtCook, AtTimer, InQueue
<1>14. p0 \in Pides => ~Holds("bag", p0)'
  BY <1>7 DEF Holds
<1> QED BY <1>6, <1>9, <1>10, <1>11, <1>12, <1>13, <1>14, Went

-----------------------------------------------------------------------------
(* Main and the clients. *)

\* Main and the clients leave the pides where they are.
LEMMA MainFewer ==
    ASSUME OnePlace, Arrivals',
           UNCHANGED <<orderQueue, ovenQueue, preparedQueue, preparePide, sicakPide, bag, trip, delivered>>,
           \A u \in Cooks \cup Motos : pc'[u] = pc[u] \/ pc'[u] = "down",
           \A p \in Pides : NotYet(p)' => NotYet(p)
    PROVE  OnePlace'
<1>1. \A p \in Pides, c \in Cooks : HeldByCook(c, p)' => HeldByCook(c, p)
  BY DEF HeldByCook
<1>2. ASSUME NEW m \in Motos PROVE \A i \in Pending(m)' : i \in Pending(m) /\ bag'[m][i] = bag[m][i]
  BY DEF Pending
<1> QED BY <1>1, <1>2, Fewer

\* Main, the signal handler and the clients: a client arrives once, and an order is put once.
LEMMA MainOrders ==
    ASSUME IndInv, Arrivals,
           MainThread \/ Burn \/ \E c \in Clients : Connect(c) \/ Hear(c) \/ Cancel(c)
    PROVE  Arrivals' /\ \A p \in Pides : NotYet(p)' => NotYet(p)
<1>0. /\ Main \in Threads
      /\ pc \in [Threads -> PC] /\ client \in [Clients -> {"idle", "waiting"} \cup Final]
      /\ cur \in Clients \cup {Nobody} /\ backlog \subseteq Clients /\ newOrder \in Nat \ {0}
      /\ Nobody \notin Clients
  BY ShopAssumption DEF Threads, IndInv, TypeOK
<1>i. {"waiting"} \cup Final \subseteq {"idle", "waiting"} \cup Final /\ "idle" \notin {"waiting"} \cup Final
  BY DEF Final
<1>1. CASE Accept
  <2>1. PICK c \in backlog : cur' = c /\ backlog' = backlog \ {c}
    BY <1>1 DEF Accept
  <2>2. pc' = [pc EXCEPT ![Main] = "info"] /\ UNCHANGED <<newOrder, client>>
    BY <1>1 DEF Accept, Goto
  <2>3. Arrivals'
    BY <1>0, <2>1, <2>2 DEF Arrivals
  <2>4. pc'[Main] = "info"
    BY <1>0, <2>2
  <2>5. \A p \in Pides : NotYet(p)' => NotYet(p)
    BY <2>1, <2>2, <2>4 DEF NotYet, Early, At
  <2> QED BY <2>3, <2>5
<1>2. CASE ReceiveInfo \/ StoreSocket \/ StoreSize \/ ReceiveOrders \/ PutOrder \/ OrdersFull \/ CountOrder \/ ServeCancelled \/ Served
  <2>1. UNCHANGED <<cur, client, backlog>>
    BY <1>2 DEF ReceiveInfo, StoreSocket, StoreSize, ReceiveOrders, PutOrder, OrdersFull, CountOrder, ServeCancelled, Served,
              mainVars, clientVars
  <2>2. Arrivals'
    BY <2>1 DEF Arrivals
  <2>3. CASE ReceiveInfo \/ StoreSocket \/ StoreSize \/ ReceiveOrders
    <3>1. pc[Main] \in Early
      BY <2>3 DEF ReceiveInfo, StoreSocket, StoreSize, ReceiveOrders, At, Early
    <3> QED BY <2>1, <2>2, <3>1 DEF NotYet, Early, At
  <2>4. CASE OrdersFull
    <3>1. pc[Main] = "put" /\ pc'[Main] = "putWait" /\ newOrder' = newOrder
      BY <1>0, <2>4 DEF OrdersFull, At, Sleep, Goto, mainVars
    <3> QED BY <2>1, <2>2, <3>1 DEF NotYet, Early, At
  <2>5. CASE CountOrder
    <3>1. pc[Main] = "count" /\ pc'[Main] \in {"put", "serve"} /\ newOrder' = newOrder + 1
      BY <1>0, <2>5 DEF CountOrder, At, Goto, AfterOrders
    <3>2. \A p \in Pides : p[2] \in Nat /\ (p[2] >= newOrder + 1 => p[2] > newOrder)
      BY <1>0, PideNumber
    <3>3. \A p \in Pides : NotYet(p)' => NotYet(p)
      BY <2>1, <3>1, <3>2 DEF NotYet, Early, At
    <3> QED BY <2>2, <3>3
  <2>6. CASE ServeCancelled \/ Served
    <3>1. pc'[Main] \in {"accept", "join"}
      BY <1>0, <2>6 DEF ServeCancelled, Served, Goto
    <3> QED BY <2>1, <2>2, <3>1 DEF NotYet, Early, At
  <2>7. CASE PutOrder
    <3>1. pc[Main] = "put" /\ pc'[Main] = "count" /\ newOrder' = newOrder
      BY <1>0, <2>7 DEF PutOrder, At, Goto, mainVars
    <3>2. \A p \in Pides : p[2] > newOrder => p[2] >= newOrder
      BY <1>0, PideNumber
    <3>3. \A p \in Pides : NotYet(p)' => NotYet(p)
      BY <2>1, <3>1, <3>2 DEF NotYet, Early, At
    <3> QED BY <2>2, <3>3
  <2> QED BY <1>2, <2>3, <2>4, <2>5, <2>6, <2>7
<1>3. CASE Join \/ Burn
  <2>1. UNCHANGED <<cur, newOrder, client, backlog>> /\ (Down \/ pc' = pc)
    BY <1>3 DEF Join, Burn, BurnEnds, BurnSets, BurnServes, mainVars, clientVars
  <2>2. pc'[Main] = pc[Main] \/ pc'[Main] = "down"
    BY <1>0, <2>1 DEF Down
  <2> QED BY <2>1, <2>2 DEF NotYet, Early, At, Arrivals
<1>4. ASSUME NEW c \in Clients, Connect(c) PROVE Arrivals' /\ \A p \in Pides : NotYet(p)' => NotYet(p)
  <2>1. /\ UNCHANGED <<cur, newOrder, pc>>
        /\ client[c] = "idle" /\ client' = [client EXCEPT ![c] = "waiting"] /\ backlog' = backlog \cup {c}
    BY <1>4 DEF Connect, mainVars
  <2>2. client'[c] = "waiting" /\ \A d \in Clients \ {c} : client'[d] = client[d]
    BY <1>0, <2>1
  <2>3. Arrivals'
    BY <1>0, <2>1, <2>2 DEF Arrivals
  <2>4. ASSUME NEW p \in Pides, NotYet(p)' PROVE NotYet(p)
    <3>1. p[1] \in Clients
      BY PideParts
    <3> QED BY <2>1, <2>2, <2>4, <3>1 DEF NotYet, Early, At
  <2> QED BY <2>3, <2>4
<1>5. ASSUME NEW c \in Clients, Hear(c) \/ Cancel(c) PROVE Arrivals' /\ \A p \in Pides : NotYet(p)' => NotYet(p)
  <2>1. /\ UNCHANGED <<cur, newOrder, pc, backlog>>
        /\ client[c] = "waiting" /\ \E w : client' = [client EXCEPT ![c] = w]
        /\ client'[c] # "idle"
    <3>1. mail[c] # "idle"
      BY DEF IndInv, TypeOK
    <3> QED BY <1>0, <1>5, <3>1 DEF Hear, Cancel, mainVars
  <2>2. \A d \in Clients : client[d] # "idle" <=> client'[d] # "idle"
    BY <1>0, <2>1
  <2>3. Arrivals'
    BY <1>0, <2>1, <2>2 DEF Arrivals
  <2>4. ASSUME NEW p \in Pides, NotYet(p)' PROVE NotYet(p)
    <3>1. p[1] \in Clients
      BY PideParts
    <3> QED BY <2>1, <2>2, <2>4, <3>1 DEF NotYet, Early, At
  <2> QED BY <2>3, <2>4
<1> QED BY <1>1, <1>2, <1>3, <1>4, <1>5 DEF MainThread

\* main takes the order it is at to orderQueue: that pide is nowhere yet.
LEMMA NextOrder ==
    ASSUME IndInv, Arrivals, PutOrder
    PROVE  \E p0 \in Pides :
              /\ p0 = <<cur, newOrder>> /\ NotYet(p0) /\ ~NotYet(p0)'
              /\ orderQueue' = Append(orderQueue, p0) /\ orderQueue \in Seq(Pides)
              /\ pc[Main] = "put" /\ pc' = [pc EXCEPT ![Main] = "count"]
              /\ UNCHANGED <<ovenQueue, preparedQueue, preparePide, sicakPide, bag, trip, delivered,
                             cur, newOrder, client, backlog>>
<1>0. /\ Main \in Threads /\ pc \in [Threads -> PC] /\ cur \in Clients \cup {Nobody}
      /\ newOrder \in Nat \ {0} /\ Nobody \notin Clients /\ orderQueue \in Seq(Pides)
  BY ShopAssumption DEF Threads, IndInv, TypeOK
<1>1. PICK p0 : p0 = <<cur, newOrder>>
  OBVIOUS
<1>2. /\ pc[Main] = "put" /\ pc' = [pc EXCEPT ![Main] = "count"] /\ pc'[Main] = "count"
      /\ orderQueue' = Append(orderQueue, p0)
      /\ UNCHANGED <<ovenQueue, preparedQueue, preparePide, sicakPide, bag, trip, delivered,
                     cur, newOrder, client, backlog>>
  BY <1>0, <1>1 DEF PutOrder, At, Goto, Enqueue, shop, cookVars, motoVars, mainVars, clientVars
<1>3. p0 \in Pides /\ p0[1] = cur /\ p0[2] = newOrder /\ cur # Nobody
  <2>1. cur \in Clients /\ newOrder <= Size[cur]
    BY <1>2 DEF IndInv, OrderInRange
  <2>2. newOrder \in 1..Size[cur]
    BY <1>0, <2>1, ShopAssumption
  <2> QED BY <1>0, <1>1, <2>1, <2>2, PideParts
<1>4. NotYet(p0)
  BY <1>0, <1>2, <1>3 DEF NotYet, Early, At
<1>5. ~NotYet(p0)'
  <2>1. client[cur] # "idle" /\ cur \notin backlog
    BY <1>3 DEF Arrivals
  <2> QED BY <1>0, <1>2, <1>3, <2>1 DEF NotYet, Early, At
<1> QED BY <1>0, <1>1, <1>2, <1>3, <1>4, <1>5

\* Every step of main (main, handleClient), of the signal handler and of the clients.
LEMMA MainPlaces ==
    ASSUME IndInv, OnePlace,
           MainThread \/ Burn \/ \E c \in Clients : Connect(c) \/ Hear(c) \/ Cancel(c)
    PROVE  OnePlace'
<1>0. /\ Main \notin Cooks \cup Motos /\ Cooks \cup Motos \cup {Main} \subseteq Threads
      /\ pc \in [Threads -> PC]
  BY ShopAssumption DEF Threads, IndInv, TypeOK
<1>1. Arrivals' /\ \A p \in Pides : NotYet(p)' => NotYet(p)
  BY MainOrders DEF OnePlace
<1>2. CASE ~PutOrder
  <2>1. UNCHANGED <<orderQueue, ovenQueue, preparedQueue, preparePide, sicakPide, bag, trip, delivered>>
    BY <1>2 DEF MainThread, Accept, ReceiveInfo, StoreSocket, StoreSize, ReceiveOrders, OrdersFull, CountOrder, ServeCancelled, Served, Join, Burn, BurnEnds, BurnSets, BurnServes,
                Connect, Hear, Cancel, shop, cookVars, motoVars
  <2>2. Down \/ pc' = pc \/ \E l : Goto(Main, l)
    BY <1>2 DEF MainThread, Accept, ReceiveInfo, StoreSocket, StoreSize, ReceiveOrders, OrdersFull, CountOrder, ServeCancelled, Served, Join, Burn, BurnEnds, BurnSets, BurnServes,
                Connect, Hear, Cancel, Sleep
  <2>3. \A u \in Cooks \cup Motos : pc'[u] = pc[u] \/ pc'[u] = "down"
    BY <1>0, <2>2 DEF Down, Goto
  <2> QED BY <1>1, <2>1, <2>3, MainFewer
<1>3. CASE PutOrder
  <2>1. PICK p0 \in Pides :
            /\ p0 = <<cur, newOrder>> /\ NotYet(p0) /\ ~NotYet(p0)'
            /\ orderQueue' = Append(orderQueue, p0) /\ orderQueue \in Seq(Pides)
            /\ pc[Main] = "put" /\ pc' = [pc EXCEPT ![Main] = "count"]
            /\ UNCHANGED <<ovenQueue, preparedQueue, preparePide, sicakPide, bag, trip, delivered,
                           cur, newOrder, client, backlog>>
    BY <1>3, NextOrder DEF OnePlace
  <2>2. \A u \in Cooks \cup Motos : pc'[u] = pc[u]
    BY <1>0, <2>1
  <2>5. \A s \in Spots : ~Holds(s, p0)
    BY <2>1 DEF OnePlace, Apart
  <2>6. ~InQueue(orderQueue, p0)
    BY <2>5 DEF Holds, Spots
  <2>7. /\ \A p : InQueue(orderQueue', p) => InQueue(orderQueue, p) \/ p = p0
        /\ Once(orderQueue')
    BY <2>1, <2>6, AppendQueue DEF OnePlace, QueuesOnce
  <2>8. \A p \in Pides : NotYet(p)' => NotYet(p) /\ p # p0
    BY <1>1, <2>1
  <2>10. \A p \in Pides, c \in Cooks : HeldByCook(c, p)' => HeldByCook(c, p)
    BY <2>1, <2>2 DEF HeldByCook
  <2>11. ASSUME NEW m \in Motos PROVE \A i \in Pending(m)' : i \in Pending(m) /\ bag'[m][i] = bag[m][i]
    BY <2>1, <2>2 DEF Pending
  <2>12. QueuesOnce' /\ TimerOnce' /\ BagOnce' /\ CookOnce'
    <3>1. QueuesOnce' /\ TimerOnce'
      BY <2>1, <2>7 DEF OnePlace, QueuesOnce, TimerOnce, Once
    <3>2. BagOnce'
      BY <2>11 DEF OnePlace, BagOnce
    <3>3. CookOnce'
      BY <2>10 DEF OnePlace, CookOnce
    <3> QED BY <3>1, <3>2, <3>3
  <2>13. \A p \in Pides : InBag(p)' => InBag(p)
    BY <2>11 DEF InBag
  <2>14. \A p \in Pides, s \in Spots : Holds(s, p)' => Holds(s, p) \/ (p = p0 /\ s = "order")
    BY <2>1, <2>7, <2>10, <2>13 DEF Holds, AtCook, AtTimer, InQueue
  <2>15. "order" \in Spots /\ \A s \in Spots : p0 \in Pides /\ Holds(s, p0)' => s = "order"
    BY <2>5, <2>14 DEF Spots
  <2> QED BY <1>1, <2>8, <2>12, <2>14, <2>15, Moved
<1> QED BY <1>2, <1>3

\* cancelled is never reset, and preparedMutex keeps threads out until it is set; when it has
\* kept none out once, it never does again.
LEMMA TornMeans ==
    ASSUME IndInv, [Next]_vars
    PROVE  /\ cancelled => cancelled'
           /\ ~cancelled /\ ~Torn => ~Torn'
           /\ Torn => Torn'
<1>0. Anybody \notin Threads \cup {Nobody} /\ Cooks \cup Pides \cup Motos \subseteq Threads
  BY ShopAssumption DEF Threads
<1>1. ASSUME NEW c \in Cooks, Cook(c) PROVE UNCHANGED <<preparedMutex, cancelled>>
  BY <1>1 DEF Cook, WaitForOrder, TakeOrder, OrderWoken, WaitForApparatus, TakeApparatus, Claim, ApparatusWoken,
              OvenFull, Retake, PlacePide, OvenWoken, Quit, Release, ReleaseElse, StartTimer, outside, flags
<1>2. ASSUME NEW t \in Pides, Timer(t)
      PROVE  /\ UNCHANGED cancelled
             /\ \/ UNCHANGED preparedMutex
                \/ Unlock \/ Lock(t)
                \/ cancelled /\ UnlockAgain(t)
  BY <1>2 DEF Timer, TimerWait, TimerTake, TimerWoken, OvenEmpty, TakeOut, TakeOutWoken, GiveBack, PreparedFull,
              Hand, HandWoken, TimerEnd, outside, flags
<1>3. ASSUME NEW m \in Motos, Moto(m)
      PROVE  /\ UNCHANGED cancelled
             /\ \/ UNCHANGED preparedMutex
                \/ Unlock \/ Lock(m)
                \/ cancelled /\ UnlockAgain(m)
  BY <1>3 DEF Moto, LoadWait, LoadWoken, Load, LoadBroke, Leave, Left, Stay, Ride, Travel, Back, Report, EmptyBag,
              EndRound, Exit, elsewhere, flags
<1>4. ASSUME MainThread \/ Burn \/ \E c \in Clients : Connect(c) \/ Hear(c) \/ Cancel(c)
      PROVE  UNCHANGED preparedMutex /\ (cancelled' = TRUE \/ UNCHANGED cancelled)
  BY <1>4 DEF MainThread, Accept, ReceiveInfo, StoreSocket, StoreSize, ReceiveOrders, PutOrder, OrdersFull, CountOrder,
              ServeCancelled, Served, Join, Burn, BurnEnds, BurnSets, BurnServes, Connect, Hear, Cancel, shop, flags
<1>5. CASE UNCHANGED vars
  BY <1>5 DEF vars, flags, Torn
<1>6. ASSUME NEW t \in Threads, \/ UNCHANGED preparedMutex
                                \/ Unlock \/ Lock(t)
                                \/ cancelled /\ UnlockAgain(t)
      PROVE  (~cancelled /\ ~Torn => ~Torn') /\ (Torn => Torn')
  BY <1>0, <1>6 DEF Torn, Lock, Unlock, UnlockAgain
<1>7. (\E c \in Cooks : Cook(c)) => UNCHANGED <<preparedMutex, cancelled>>
  BY <1>1
<1>8. (\E t \in Pides : Timer(t)) => UNCHANGED cancelled /\ (~cancelled /\ ~Torn => ~Torn') /\ (Torn => Torn')
  BY <1>0, <1>2, <1>6
<1>9. (\E m \in Motos : Moto(m)) => UNCHANGED cancelled /\ (~cancelled /\ ~Torn => ~Torn') /\ (Torn => Torn')
  BY <1>0, <1>3, <1>6
<1>10. UNCHANGED preparedMutex => (~cancelled /\ ~Torn => ~Torn') /\ (Torn => Torn')
  BY DEF Torn
<1>11. UNCHANGED cancelled => (cancelled => cancelled')
  OBVIOUS
<1>12. cancelled' = TRUE => cancelled'
  OBVIOUS
<1> QED BY <1>4, <1>5, <1>7, <1>8, <1>9, <1>10, <1>11, <1>12, Zenon DEF Next

\* No pide is in two places, step by step.
LEMMA OnePlaceKept == IndInv /\ ~Torn /\ OnePlace /\ [Next]_vars => OnePlace'
<1> SUFFICES ASSUME IndInv, ~Torn, OnePlace, [Next]_vars PROVE OnePlace'
  OBVIOUS
<1>1. ASSUME NEW c \in Cooks, Cook(c) PROVE OnePlace'
  BY <1>1, CookQuiet, TakeOrderMoves, PlacePideMoves, StartTimerDrops DEF Cook
<1>2. ASSUME NEW t \in Pides, Timer(t) PROVE OnePlace'
  BY <1>2, TimerQuiet, TakeOutMoves, HandMoves DEF Timer
<1>3. ASSUME NEW m \in Motos, Moto(m) PROVE OnePlace'
  BY <1>3, MotoQuiet, LoadMoves, TravelMoves DEF Moto
<1>4. CASE UNCHANGED vars
  <2>1. UNCHANGED <<orderQueue, ovenQueue, preparedQueue, preparePide, sicakPide, bag, trip, delivered,
                    cur, newOrder, client, backlog, pc>>
    BY <1>4 DEF vars, queues, cookVars, motoVars, mainVars, clientVars
  <2>2. Arrivals'
    BY <2>1 DEF OnePlace, Arrivals
  <2>3. \A p \in Pides : NotYet(p)' => NotYet(p)
    BY <2>1 DEF NotYet, Early, At
  <2> QED BY <2>1, <2>2, <2>3, MainFewer
<1> QED BY <1>1, <1>2, <1>3, <1>4, MainPlaces DEF Next

\* At the start there are no pides.
LEMMA NoPides == Init => OnePlace
<1> SUFFICES ASSUME Init PROVE OnePlace
  OBVIOUS
<1>1. Phantom \notin Pides /\ Main \in Threads
  BY ShopAssumption DEF Threads
<1>2. /\ orderQueue = << >> /\ ovenQueue = << >> /\ preparedQueue = << >> /\ delivered = {}
      /\ \A c \in Cooks : preparePide[c] = Phantom
      /\ \A t \in Pides : sicakPide[t] = Phantom
      /\ \A m \in Motos : bag[m] = << >> /\ pc[m] = "load"
  BY ShopAssumption DEF Init, Threads
<1>3. \A m \in Motos : Pending(m) = {}
  BY <1>2 DEF Pending
<1>4. \A p \in Pides : \A s \in Spots : ~Holds(s, p)
  BY <1>1, <1>2, <1>3 DEF Holds, AtCook, AtTimer, InBag, HeldByCook, InQueue
<1>5. Arrivals
  BY DEF Init, Arrivals
<1>6. QueuesOnce /\ CookOnce /\ TimerOnce /\ BagOnce
  BY <1>1, <1>2, <1>3 DEF QueuesOnce, Once, CookOnce, HeldByCook, TimerOnce, BagOnce
<1> QED BY <1>4, <1>5, <1>6 DEF OnePlace, Apart

-----------------------------------------------------------------------------
(* Counting. *)

\* A set whose elements are all the same has one element at most.
LEMMA OneAtMost ==
    ASSUME NEW S, \A x, y \in S : x = y
    PROVE  Cardinality(S) = IF S = {} THEN 0 ELSE 1
<1>1. CASE S = {} BY <1>1, FS_EmptySet
<1>2. CASE S # {}
  <2>1. PICK x \in S : TRUE BY <1>2
  <2>2. S = {x} BY <2>1
  <2> QED BY <1>2, <2>2, FS_Singleton
<1> QED BY <1>1, <1>2

\* A queue holds a pide once or not.
LEMMA InCounts ==
    ASSUME NEW q, Once(q), NEW p \in Pides
    PROVE  In(q, p) = IF InQueue(q, p) THEN 1 ELSE 0
<1> DEFINE S == {i \in DOMAIN q : q[i] = p}
<1>1. \A i, j \in S : i = j
  BY DEF Once
<1>2. InQueue(q, p) <=> S # {}
  BY DEF InQueue
<1> HIDE DEF S
<1>3. Cardinality(S) = IF InQueue(q, p) THEN 1 ELSE 0
  BY <1>1, <1>2, OneAtMost
<1> QED BY <1>3 DEF S, In

\* At most one cook and one timer thread hold a pide.
LEMMA HandsCount ==
    ASSUME OnePlace, NEW p \in Pides
    PROVE  /\ Cardinality({c \in Cooks : HeldByCook(c, p)}) = IF Holds("cook", p) THEN 1 ELSE 0
           /\ Cardinality({t \in Pides : sicakPide[t] = p}) = IF Holds("timer", p) THEN 1 ELSE 0
<1> DEFINE cooks == {c \in Cooks : HeldByCook(c, p)}
           timers == {t \in Pides : sicakPide[t] = p}
<1>1. Cardinality(cooks) = IF Holds("cook", p) THEN 1 ELSE 0
  <2>1. \A c, d \in cooks : c = d
    BY DEF OnePlace, CookOnce
  <2>2. Holds("cook", p) <=> cooks # {}
    BY DEF Holds, AtCook
  <2> HIDE DEF cooks
  <2> QED BY <2>1, <2>2, OneAtMost
<1>2. Cardinality(timers) = IF Holds("timer", p) THEN 1 ELSE 0
  <2>1. \A t, u \in timers : t = u
    BY DEF OnePlace, TimerOnce
  <2>2. Holds("timer", p) <=> timers # {}
    BY DEF Holds, AtTimer
  <2> HIDE DEF timers
  <2> QED BY <2>1, <2>2, OneAtMost
<1> QED BY <1>1, <1>2

BagPlaces(p) ==
    {x \in Motos \X (1..BagCap) : x[2] \in Pending(x[1]) /\ bag[x[1]][x[2]] = p}

\* The places where a pide is, counted.
LEMMA CopiesCount ==
    ASSUME OnePlace, NEW p \in Pides
    PROVE  LET one(s) == IF Holds(s, p) THEN 1 ELSE 0
           IN  /\ Copies(p) = one("order") + one("oven") + one("prepared") + one("cook") + one("timer")
                              + Cardinality(BagPlaces(p)) + one("customer")
               /\ Cardinality(BagPlaces(p)) = IF BagPlaces(p) = {} THEN 0 ELSE 1
               /\ BagPlaces(p) # {} => Holds("bag", p)
<1> DEFINE one(s) == IF Holds(s, p) THEN 1 ELSE 0
           cooks == {c \in Cooks : HeldByCook(c, p)}
           timers == {t \in Pides : sicakPide[t] = p}
<1>1. In(orderQueue, p) = one("order") /\ In(ovenQueue, p) = one("oven") /\ In(preparedQueue, p) = one("prepared")
  BY InCounts DEF OnePlace, QueuesOnce, Holds
<1>2. Cardinality(cooks) = one("cook") /\ Cardinality(timers) = one("timer")
  BY HandsCount
<1>4. \A x, y \in BagPlaces(p) : x = y
  <2> SUFFICES ASSUME NEW x \in BagPlaces(p), NEW y \in BagPlaces(p) PROVE x = y
    OBVIOUS
  <2>1. /\ x \in Motos \X (1..BagCap) /\ x[2] \in Pending(x[1]) /\ bag[x[1]][x[2]] = p
        /\ y \in Motos \X (1..BagCap) /\ y[2] \in Pending(y[1]) /\ bag[y[1]][y[2]] = p
    BY DEF BagPlaces
  <2>2. x[1] = y[1] /\ x[2] = y[2]
    BY <2>1 DEF OnePlace, BagOnce
  <2> QED BY <2>1, <2>2
<1>5. Cardinality(BagPlaces(p)) = IF BagPlaces(p) = {} THEN 0 ELSE 1
  BY <1>4, OneAtMost
<1>6. BagPlaces(p) # {} => Holds("bag", p)
  BY DEF BagPlaces, Holds, InBag
<1>7. (IF p \in delivered THEN 1 ELSE 0) = one("customer")
  BY DEF Holds
<1>8. Copies(p) = one("order") + one("oven") + one("prepared") + Cardinality(cooks) + Cardinality(timers)
                  + Cardinality(BagPlaces(p)) + one("customer")
  BY <1>1, <1>7 DEF Copies, BagPlaces
<1> QED BY <1>2, <1>5, <1>6, <1>8

\* Whatever the order of the threads' steps, the cancellations and the shutdowns, the sizes of
\* the orders and the capacities: no pide is in two places, not in a queue and a thread's hands,
\* not in two bags, not delivered twice; but when the shop burns and a thread has unlocked
\* preparedMutex under another one.
THEOREM NeverTwice == Spec => []PideNotDuplicated
<1> DEFINE I == (Torn => cancelled) /\ (~Torn => OnePlace)
<1>1. I => PideNotDuplicated
  <2> SUFFICES ASSUME I, NEW p \in Pides PROVE Copies(p) > 1 => Torn /\ cancelled
    BY DEF PideNotDuplicated
  <2>0. CASE Torn BY <2>0
  <2> SUFFICES ASSUME ~Torn PROVE ~(Copies(p) > 1)
    BY <2>0
  <2>1. \A s, z \in Spots : Holds(s, p) /\ Holds(z, p) => s = z
    BY DEF OnePlace, Apart
  <2>2. \A s \in {"order", "oven", "prepared", "cook", "timer", "customer", "bag"} :
           \A z \in {"order", "oven", "prepared", "cook", "timer", "customer", "bag"} :
              Holds(s, p) /\ Holds(z, p) => s = z
    BY <2>1 DEF Spots
  <2>3. Cardinality(BagPlaces(p)) = 0 \/ (Cardinality(BagPlaces(p)) = 1 /\ Holds("bag", p))
    BY CopiesCount
  <2> QED BY <2>2, <2>3, CopiesCount
<1>2. Init => I
  BY NoPides, ShopAssumption DEF Init, Torn, Threads
<1>3. IndInv /\ I /\ [Next]_vars => I'
  BY OnePlaceKept, TornMeans
<1> QED BY <1>1, <1>2, <1>3, Inductive, PTL DEF Spec

-----------------------------------------------------------------------------
(* One cook and one timer for each pide. *)

\* A step of a cook, a timer or a moto does not touch the clients and the orders.
LEMMA ThreadsOnly ==
    ASSUME IndInv,
           (\E c \in Cooks : Cook(c)) \/ (\E t \in Pides : Timer(t)) \/ (\E m \in Motos : Moto(m)) \/ UNCHANGED vars
    PROVE  UNCHANGED <<cur, newOrder, client, backlog>> /\ pc'[Main] = pc[Main]
<1>0. Main \in Threads \ (Cooks \cup Motos \cup Pides) /\ pc \in [Threads -> PC]
  BY ShopAssumption DEF Threads, IndInv, TypeOK
<1>1. ASSUME NEW c \in Cooks, Cook(c) PROVE UNCHANGED <<cur, newOrder, client, backlog>> /\ pc'[Main] = pc[Main]
  <2>1. UNCHANGED <<cur, newOrder, client, backlog>>
    BY <1>1 DEF Cook, WaitForOrder, TakeOrder, OrderWoken, WaitForApparatus, TakeApparatus, Claim, ApparatusWoken,
                OvenFull, Retake, PlacePide, OvenWoken, Quit, Release, ReleaseElse, StartTimer, outside,
                mainVars, clientVars
  <2>2. CASE ~StartTimer(c)
    <3>1. \E l : Goto(c, l)
      BY <1>1, <2>2 DEF Cook, WaitForOrder, TakeOrder, OrderWoken, WaitForApparatus, TakeApparatus, Claim,
                ApparatusWoken, OvenFull, Retake, PlacePide, OvenWoken, Quit, Release, ReleaseElse, Sleep
    <3> QED BY <1>0, <2>1, <3>1 DEF Goto
  <2>3. CASE StartTimer(c)
    <3>1. preparePide[c] \in Pides
      BY <2>3 DEF StartTimer, At, IndInv, CookHasPide, InHand
    <3> QED BY <1>0, <2>1, <2>3, <3>1 DEF StartTimer, Goto, ArmTimer
  <2> QED BY <2>2, <2>3
<1>2. ASSUME NEW t \in Pides, Timer(t) PROVE UNCHANGED <<cur, newOrder, client, backlog>> /\ pc'[Main] = pc[Main]
  <2>1. UNCHANGED <<cur, newOrder, client, backlog>> /\ \E l : Goto(t, l)
    BY <1>2 DEF Timer, TimerWait, TimerTake, TimerWoken, OvenEmpty, TakeOut, TakeOutWoken, GiveBack, PreparedFull,
                Hand, HandWoken, TimerEnd, Sleep, outside, mainVars, clientVars
  <2> QED BY <1>0, <2>1 DEF Goto
<1>3. ASSUME NEW m \in Motos, Moto(m) PROVE UNCHANGED <<cur, newOrder, client, backlog>> /\ pc'[Main] = pc[Main]
  <2>1. UNCHANGED <<cur, newOrder, client, backlog>> /\ (pc' = pc \/ \E l : Goto(m, l))
    BY <1>3 DEF Moto, LoadWait, LoadWoken, Load, LoadBroke, Leave, Left, Stay, Ride, Travel, Back, Report, EmptyBag,
                EndRound, Exit, Sleep, elsewhere, kitchen, mainVars
  <2> QED BY <1>0, <2>1 DEF Goto
<1> QED BY <1>1, <1>2, <1>3 DEF vars, mainVars, clientVars

\* A client arrives once, and an order is put once, whatever the step.
LEMMA OrdersOnce ==
    ASSUME IndInv, Arrivals, [Next]_vars
    PROVE  Arrivals' /\ \A p \in Pides : NotYet(p)' => NotYet(p)
  BY ThreadsOnly, MainOrders, SameOrders DEF Next

Started(p) == pc[p] \notin {"none", "down"}
InHands(c, p) == pc[c] \in InHand /\ preparePide[c] = p

\* A cook starts the timer of the pide it has in hand, which had none.
FirstTimer ==
    /\ \A p \in Pides : Started(p) =>
          ~NotYet(p) /\ ~InQueue(orderQueue, p) /\ \A c \in Cooks : ~InHands(c, p)
    /\ \A p \in Pides, c \in Cooks : InHands(c, p) =>
          ~NotYet(p) /\ ~InQueue(orderQueue, p) /\ \A d \in Cooks : InHands(d, p) => d = c

\* No cook takes a pide, no timer starts, and orderQueue gets no new pide.
LEMMA TimersFewer ==
    ASSUME FirstTimer,
           \A p \in Pides : NotYet(p)' => NotYet(p),
           \A p \in Pides : InQueue(orderQueue, p)' => InQueue(orderQueue, p),
           \A p \in Pides : Started(p)' => Started(p),
           \A p \in Pides, c \in Cooks : InHands(c, p)' => InHands(c, p)
    PROVE  FirstTimer'
  BY DEF FirstTimer

\* A cook takes a pide from the queue only if it has none, and arms a timer only of the pide it has.
LEMMA FirstTimerKept == IndInv /\ OnePlace /\ FirstTimer /\ [Next]_vars => FirstTimer'
<1> SUFFICES ASSUME IndInv, OnePlace, FirstTimer, [Next]_vars PROVE FirstTimer'
  OBVIOUS
<1>0. /\ pc \in [Threads -> PC] /\ Cooks \cup Pides \cup Motos \cup {Main} = Threads
      /\ Cooks \cap Pides = {} /\ Motos \cap (Cooks \cup Pides) = {} /\ Main \notin Cooks \cup Pides
      /\ preparePide \in [Cooks -> Item] /\ orderQueue \in Seq(Pides)
  BY ShopAssumption DEF IndInv, TypeOK, Threads
<1>1. \A p \in Pides : NotYet(p)' => NotYet(p)
  BY OrdersOnce DEF OnePlace
<1>2. ASSUME NEW c \in Cooks, Cook(c), ~TakeOrder(c), ~StartTimer(c) PROVE FirstTimer'
  <2>1. orderQueue' = orderQueue /\ preparePide' = preparePide
    BY <1>2 DEF Cook, WaitForOrder, OrderWoken, WaitForApparatus, TakeApparatus, Claim, ApparatusWoken,
                OvenFull, Retake, PlacePide, OvenWoken, Quit, Release, ReleaseElse, queues, cookVars
  <2>2. CASE WaitForOrder(c) \/ OrderWoken(c)
    <3>1. \E l \in {"orderWait", "order", "exit"} : Goto(c, l)
      BY <2>2, Zenon DEF WaitForOrder, OrderWoken, Sleep
    <3>2. PICK l : pc' = [pc EXCEPT ![c] = l] /\ l \notin InHand
      BY <3>1 DEF Goto, InHand
    <3> QED BY <1>0, <1>1, <2>1, <3>2, TimersFewer DEF Started, InHands, InQueue
  <2>3. CASE ~(WaitForOrder(c) \/ OrderWoken(c))
    <3>1. pc[c] \in InHand /\ \E l : pc' = [pc EXCEPT ![c] = l]
      BY <1>2, <2>3 DEF Cook, WaitForApparatus, TakeApparatus, Claim, ApparatusWoken,
                OvenFull, Retake, PlacePide, OvenWoken, Quit, Release, ReleaseElse, At, Goto, Sleep, InHand
    <3> QED BY <1>0, <1>1, <2>1, <3>1, TimersFewer DEF Started, InHands, InQueue
  <2> QED BY <2>2, <2>3
<1>3. ASSUME NEW c \in Cooks, TakeOrder(c) PROVE FirstTimer'
  <2>0. PICK p0 : p0 = Head(orderQueue)
    OBVIOUS
  <2>1. /\ orderQueue # << >> /\ orderQueue' = Tail(orderQueue) /\ pc[c] = "order"
        /\ preparePide' = [preparePide EXCEPT ![c] = p0] /\ pc' = [pc EXCEPT ![c] = "apparatus"]
    BY <1>3, <2>0 DEF TakeOrder, First, Rest, Goto, At
  <2>2. /\ \A p : InQueue(orderQueue', p) => InQueue(orderQueue, p)
        /\ InQueue(orderQueue, p0) /\ p0 \in Pides
        /\ Once(orderQueue') /\ ~InQueue(orderQueue', p0)
    BY <1>0, <2>0, <2>1, TailQueue DEF OnePlace, QueuesOnce
  <2>3. \A p \in Pides : Started(p)' => Started(p) /\ p # p0
    BY <1>0, <2>1, <2>2 DEF Started, FirstTimer
  <2>4. \A p \in Pides, d \in Cooks : InHands(d, p)' => (InHands(d, p) /\ p # p0) \/ (d = c /\ p = p0)
    BY <1>0, <2>1, <2>2 DEF InHands, FirstTimer
  <2>5. ~NotYet(p0)'
    <3>1. Holds("order", p0) /\ "order" \in Spots
      BY <2>2 DEF Holds, Spots
    <3> QED BY <1>1, <2>2, <3>1 DEF OnePlace, Apart
  <2>6. \A p \in Pides : InQueue(orderQueue, p)' => InQueue(orderQueue, p) /\ p # p0
    BY <2>2 DEF InQueue
  <2> QED BY <1>1, <2>3, <2>4, <2>5, <2>6 DEF FirstTimer
<1>4. ASSUME NEW c \in Cooks, StartTimer(c) PROVE FirstTimer'
  <2>1. /\ orderQueue' = orderQueue /\ \A d \in Cooks \ {c} : preparePide'[d] = preparePide[d]
    BY <1>0, <1>4 DEF StartTimer, queues, cookVars
  <2>2. PICK p0 \in Pides : p0 = preparePide[c]
    BY <1>4 DEF StartTimer, At, IndInv, CookHasPide, InHand
  <2>3. pc'[c] \in {"exit", "order"} /\ pc[c] = "startTimer" /\ \A u \in Threads \ {c, p0} : pc'[u] = pc[u]
    BY <1>0, <1>4, <2>2 DEF StartTimer, Goto, ArmTimer, At
  <2>4. InHands(c, p0)
    BY <2>2, <2>3 DEF InHands, InHand
  <2>5. \A p \in Pides, d \in Cooks : InHands(d, p)' => InHands(d, p) /\ p # p0
    <3>1. \A d \in Cooks \ {c} : pc'[d] = pc[d]
      BY <1>0, <2>3
    <3>2. pc'[c] \notin InHand
      BY <2>3 DEF InHand
    <3>3. \A p \in Pides, d \in Cooks : InHands(d, p)' => d # c /\ InHands(d, p)
      BY <2>1, <3>1, <3>2 DEF InHands
    <3> QED BY <2>4, <3>3 DEF FirstTimer
  <2>6. \A p \in Pides : Started(p)' => Started(p) \/ p = p0
    <3>1. \A p \in Pides \ {p0} : pc'[p] = pc[p]
      BY <1>0, <2>3
    <3> QED BY <3>1 DEF Started
  <2>7. ~NotYet(p0)' /\ ~InQueue(orderQueue, p0)'
    BY <1>1, <2>1, <2>4 DEF FirstTimer, InQueue
  <2>8. \A p \in Pides : InQueue(orderQueue, p)' => InQueue(orderQueue, p)
    BY <2>1 DEF InQueue
  <2> QED BY <1>1, <2>5, <2>6, <2>7, <2>8 DEF FirstTimer
<1>5. ASSUME NEW t \in Pides, Timer(t) PROVE FirstTimer'
  <2>1. orderQueue' = orderQueue /\ preparePide' = preparePide /\ \E l : Goto(t, l)
    BY <1>5 DEF Timer, TimerWait, TimerTake, TimerWoken, OvenEmpty, TakeOut, TakeOutWoken, GiveBack, PreparedFull,
                Hand, HandWoken, TimerEnd, Sleep, queues, cookVars
  <2>2. Started(t)
    BY <1>5 DEF Timer, TimerWait, TimerTake, TimerWoken, OvenEmpty, TakeOut, TakeOutWoken, GiveBack, PreparedFull,
                Hand, HandWoken, TimerEnd, At, Started
  <2> QED BY <1>0, <1>1, <2>1, <2>2, TimersFewer DEF Goto, Started, InHands, InQueue
<1>6. ASSUME NEW m \in Motos, Moto(m) PROVE FirstTimer'
  <2>1. orderQueue' = orderQueue /\ preparePide' = preparePide /\ \E l : Goto(m, l)
    BY <1>6 DEF Moto, LoadWait, LoadWoken, Load, LoadBroke, Leave, Left, Stay, Ride, Travel, Back, Report, EmptyBag,
                EndRound, Exit, Sleep, elsewhere, kitchen, cookVars
  <2> QED BY <1>0, <1>1, <2>1, TimersFewer DEF Goto, Started, InHands, InQueue
<1>7. CASE MainThread \/ Burn \/ \E c \in Clients : Connect(c) \/ Hear(c) \/ Cancel(c)
  <2>1. preparePide' = preparePide /\ (Down \/ pc' = pc \/ \E l : Goto(Main, l))
    BY <1>7 DEF MainThread, Accept, ReceiveInfo, StoreSocket, StoreSize, ReceiveOrders, PutOrder, OrdersFull, CountOrder, ServeCancelled, Served, Join,
                Burn, BurnEnds, BurnSets, BurnServes, Connect, Hear, Cancel, Sleep, shop, cookVars
  <2>2. \A u \in Cooks \cup Pides : pc'[u] = pc[u] \/ pc'[u] = "down"
    BY <1>0, <2>1 DEF Down, Goto
  <2>3. /\ \A p \in Pides : Started(p)' => Started(p)
        /\ \A p \in Pides, c \in Cooks : InHands(c, p)' => InHands(c, p)
    BY <2>1, <2>2 DEF Started, InHands, InHand
  <2>4. CASE PutOrder
    <3>1. PICK p0 \in Pides : NotYet(p0) /\ ~NotYet(p0)' /\ orderQueue' = Append(orderQueue, p0)
      BY <2>4, NextOrder DEF OnePlace
    <3>2. \A p \in Pides : InQueue(orderQueue, p)' => InQueue(orderQueue, p) \/ p = p0
      BY <1>0, <3>1, AppendQueue DEF InQueue
    <3> QED BY <1>1, <2>3, <3>1, <3>2 DEF FirstTimer
  <2>5. CASE ~PutOrder
    <3>1. orderQueue' = orderQueue
      BY <1>7, <2>5 DEF MainThread, Accept, ReceiveInfo, StoreSocket, StoreSize, ReceiveOrders, OrdersFull, CountOrder, ServeCancelled, Served, Join,
                Burn, BurnEnds, BurnSets, BurnServes, Connect, Hear, Cancel
    <3> QED BY <1>1, <2>3, <3>1, TimersFewer DEF InQueue
  <2> QED BY <2>4, <2>5
<1>8. CASE UNCHANGED vars
  <2>1. UNCHANGED <<pc, orderQueue, preparePide>>
    BY <1>8 DEF vars, queues, cookVars
  <2> QED BY <1>1, <2>1, TimersFewer DEF Started, InHands, InQueue
<1> QED BY <1>2, <1>3, <1>4, <1>5, <1>6, <1>7, <1>8 DEF Next

\* At the start no timer runs and no cook has a pide in hand.
LEMMA NoTimers == Init => FirstTimer
<1> SUFFICES ASSUME Init PROVE FirstTimer
  OBVIOUS
<1>1. \A c \in Cooks : pc[c] \notin InHand
  BY ShopAssumption DEF Init, Threads, InHand
<1>2. \A p \in Pides : pc[p] = "none"
  BY ShopAssumption DEF Init, Threads
<1> QED BY <1>1, <1>2 DEF FirstTimer, Started, InHands

-----------------------------------------------------------------------------
(* Without signals, or before the first of them is handled. *)

NoSignals == CanCancel = {} /\ BurnIn = {}

\* Main handles neither a client's cancellation nor SIGINT in this step.
Undisturbed == ~ServeCancelled /\ ~Burn

Broken == {"apparatusBroke", "ovenBroke", "handBroke", "quit", "exit", "join", "down"}

\* No flag is set, no thread has left its loop or the shop; clients may have cancelled,
\* but main has not noticed.
Calm ==
    /\ siparisIptal = FALSE /\ cancelled = FALSE /\ ~Torn
    /\ \A c \in Clients : /\ client[c] \in {"idle", "waiting", "DELIVERED"} \/ (client[c] = "CANCELLED" /\ c \in CanCancel)
                         /\ mail[c] \in {"none", "DELIVERED"}
    /\ \A t \in Threads : pc[t] \notin Broken
    /\ pc[Main] \in {"accept", "info", "socket", "size", "orders", "put", "putWait", "count", "serve"}

\* The shop is open: main has not handled a SIGINT, no thread has left it.
Open ==
    /\ cancelled = FALSE /\ ~Torn
    /\ \A t \in Threads : pc[t] \notin {"quit", "exit", "join", "down"}
    /\ \A c \in Clients : client[c] # "BURNED" /\ mail[c] # "BURNED"
    /\ pc[Main] \in {"accept", "info", "socket", "size", "orders", "put", "putWait", "count", "serve"}

\* A calm shop is open.
LEMMA CalmOpen == Calm => Open
  BY DEF Calm, Open, Broken

\* A step of a thread of the shop that reads the flags only.
LEMMA CalmOn ==
    ASSUME IndInv, Calm, NEW t \in Threads \ {Main}, NEW l, l \notin Broken,
           pc' = [pc EXCEPT ![t] = l], UNCHANGED <<siparisIptal, cancelled, client, mail>>, ~Torn'
    PROVE  Calm'
<1>1. pc \in [Threads -> PC] /\ Main \in Threads
  BY DEF IndInv, TypeOK, Threads
<1>2. \A u \in Threads : pc'[u] \notin Broken
  BY <1>1 DEF Calm
<1>3. pc'[Main] = pc[Main]
  BY <1>1
<1> QED BY <1>2, <1>3 DEF Calm

\* Without signals, no step disturbs the shop.
LEMMA NothingDisturbs == NoSignals /\ IndInv /\ Calm => Undisturbed
<1>1. NoSignals /\ IndInv /\ Calm /\ At(Main, "serve") => client[cur] # "CANCELLED"
  BY DEF NoSignals, IndInv, OrderInRange, Calm, At
<1> QED BY <1>1 DEF Undisturbed, NoSignals, ServeCancelled, Burn

\* Undisturbed, the threads stay in their loops, and clients are told DELIVERED only.
LEMMA CalmKept == Undisturbed /\ IndInv /\ Calm /\ [Next]_vars => Calm'
<1> SUFFICES ASSUME Undisturbed, IndInv, Calm, [Next]_vars PROVE Calm'
  OBVIOUS
<1>0. /\ pc \in [Threads -> PC] /\ Cooks \cup Pides \cup Motos \cup {Main} = Threads
      /\ Main \notin Cooks \cup Pides \cup Motos /\ siparisIptal = FALSE /\ cancelled = FALSE
      /\ client \in [Clients -> {"idle", "waiting"} \cup Final]
      /\ mail \in [Clients -> {"none", "DELIVERED", "BURNED"}]
  BY ShopAssumption DEF IndInv, TypeOK, Threads, Calm
<1>t. ~Torn'
  BY TornMeans DEF Calm
<1> USE <1>t
<1>1. ASSUME NEW c \in Cooks, Cook(c) PROVE Calm'
  <2>1. UNCHANGED <<siparisIptal, cancelled, client, mail>> /\ c \in Threads \ {Main}
    BY <1>0, <1>1 DEF Cook, WaitForOrder, TakeOrder, OrderWoken, WaitForApparatus, TakeApparatus, Claim, ApparatusWoken,
                OvenFull, Retake, PlacePide, OvenWoken, Quit, Release, ReleaseElse, StartTimer, outside,
                flags, clientVars
  <2>2. CASE ~StartTimer(c)
    <3>1. \E l \in {"orderWait", "apparatus", "order", "apparatusWait", "oven", "retake", "release", "ovenWait",
                    "startTimer", "releaseElse"} : Goto(c, l)
      <4>1. pc[c] \notin {"apparatusBroke", "ovenBroke", "quit"}
        BY <2>1 DEF Calm, Broken
      <4> QED BY <1>0, <1>1, <2>2, <4>1, Zenon DEF Cook, WaitForOrder, TakeOrder, OrderWoken, WaitForApparatus, TakeApparatus, Claim,
                ApparatusWoken, OvenFull, Retake, PlacePide, OvenWoken, Quit, Release, ReleaseElse, Sleep, At
    <3>2. PICK l : pc' = [pc EXCEPT ![c] = l] /\ l \notin Broken
      BY <3>1 DEF Goto, Broken
    <3> QED BY <2>1, <3>2, CalmOn
  <2>3. CASE StartTimer(c)
    <3>1. pc' = [pc EXCEPT ![c] = "order", ![preparePide[c]] = "armed"]
      BY <1>0, <2>3 DEF StartTimer, ArmTimer
    <3>2. preparePide[c] \in Pides
      BY <2>3 DEF StartTimer, At, IndInv, CookHasPide, InHand
    <3>3. \A u \in Threads : pc'[u] \in {pc[u], "order", "armed"}
      BY <1>0, <3>1, <3>2
    <3>4. pc'[Main] = pc[Main]
      BY <1>0, <3>1, <3>2
    <3>5. \A u \in Threads : pc'[u] \notin Broken
      BY <3>3 DEF Calm, Broken
    <3> QED BY <2>1, <3>4, <3>5 DEF Calm
  <2> QED BY <2>2, <2>3
<1>2. ASSUME NEW t \in Pides, Timer(t) PROVE Calm'
  <2>1. UNCHANGED <<siparisIptal, cancelled, client, mail>> /\ t \in Threads \ {Main}
    BY <1>0, <1>2 DEF Timer, TimerWait, TimerTake, TimerWoken, OvenEmpty, TakeOut, TakeOutWoken, GiveBack, PreparedFull,
                Hand, HandWoken, TimerEnd, outside, flags, clientVars
  <2>2. \E l \in {"timerWait", "takeOut", "done", "armed", "takeOutWait", "giveBack", "hand", "handWait", "handed"} :
           Goto(t, l)
    BY <1>0, <1>2, Zenon DEF Timer, TimerWait, TimerTake, TimerWoken, OvenEmpty, TakeOut, TakeOutWoken, GiveBack, PreparedFull,
                Hand, HandWoken, TimerEnd, Sleep
  <2>3. PICK l : pc' = [pc EXCEPT ![t] = l] /\ l \notin Broken
    BY <2>2 DEF Goto, Broken
  <2> QED BY <2>1, <2>3, CalmOn
<1>3. ASSUME NEW m \in Motos, Moto(m) PROVE Calm'
  <2>1. UNCHANGED <<siparisIptal, cancelled, client>> /\ m \in Threads \ {Main}
    BY <1>0, <1>3 DEF Moto, LoadWait, LoadWoken, Load, LoadBroke, Leave, Left, Stay, Ride, Travel, Back, Report,
                EmptyBag, elsewhere, flags
  <2>2. \E l \in {"loadWait", "loadBroke", "load", "left", "ride", "stay", "travel", "back", "report"} : Goto(m, l)
    <3>1. CASE Ride(m)
      <4>1. Goto(m, "travel")
        BY <1>0, <3>1 DEF Ride
      <4> QED BY <4>1
    <3>2. CASE Back(m)
      <4>1. Goto(m, "report")
        BY <1>0, <3>2 DEF Back
      <4> QED BY <4>1
    <3>3. CASE ~Ride(m) /\ ~Back(m)
      BY <1>0, <1>3, <3>3, Zenon DEF Moto, LoadWait, LoadWoken, Load, LoadBroke, Leave, Left, Stay, Travel, Report,
                EmptyBag, EndRound, Sleep
    <3> QED BY <3>1, <3>2, <3>3
  <2>3. PICK l : pc' = [pc EXCEPT ![m] = l] /\ l \notin Broken
    BY <2>2 DEF Goto, Broken
  <2>4. \A u \in Threads : pc'[u] \notin Broken
    BY <1>0, <2>3 DEF Calm
  <2>5. pc'[Main] = pc[Main]
    BY <1>0, <2>1, <2>3
  <2>6. mail' = mail \/ Tell("DELIVERED")
    BY <1>3 DEF Moto, LoadWait, LoadWoken, Load, LoadBroke, Leave, Left, Stay, Ride, Travel, Back, Report
  <2>7. \A c \in Clients : mail'[c] \in {"none", "DELIVERED"}
    BY <1>0, <2>6 DEF Tell, Calm
  <2> QED BY <2>1, <2>4, <2>5, <2>7 DEF Calm
<1>4. CASE MainThread
  <2>1. UNCHANGED <<cancelled, client, mail>>
    BY <1>4 DEF MainThread, Accept, ReceiveInfo, StoreSocket, StoreSize, ReceiveOrders, PutOrder, OrdersFull, CountOrder, ServeCancelled, Served, Join,
                flags, clientVars
  <2>2. (client[cur] # "BURNED" \/ pc[Main] # "serve") /\ ~ServeCancelled
    BY DEF Calm, IndInv, OrderInRange, Undisturbed
  <2>3. siparisIptal' = FALSE
    BY <1>0, <1>4, <2>2 DEF MainThread, Accept, ReceiveInfo, StoreSocket, StoreSize, ReceiveOrders, PutOrder, OrdersFull, CountOrder, ServeCancelled, Served, Join,
                flags, At
  <2>4. pc[Main] # "join"
    BY DEF Calm
  <2>5. \E l \in {"accept", "info", "socket", "size", "orders", "put", "putWait", "count", "serve"} : Goto(Main, l)
    BY <1>4, <2>2, <2>4, Zenon DEF MainThread, Accept, ReceiveInfo, StoreSocket, StoreSize, ReceiveOrders, PutOrder, OrdersFull, CountOrder, ServeCancelled, Served, Join,
                Sleep, AfterOrders, At
  <2>6. PICK l \in {"accept", "info", "socket", "size", "orders", "put", "putWait", "count", "serve"} : pc' = [pc EXCEPT ![Main] = l]
    BY <2>5 DEF Goto
  <2>7. pc'[Main] = l /\ l \notin Broken /\ \A u \in Threads \ {Main} : pc'[u] = pc[u]
    BY <1>0, <2>6 DEF Broken
  <2> QED BY <2>1, <2>3, <2>7 DEF Calm
<1>5. CASE Burn
  BY <1>5 DEF Burn, Undisturbed
<1>6. ASSUME NEW c \in Clients, Connect(c) \/ Hear(c) \/ Cancel(c) PROVE Calm'
  <2>1. UNCHANGED <<siparisIptal, cancelled, mail, pc>>
    BY <1>6 DEF Connect, Hear, Cancel, flags
  <2>2. \/ \E w \in {"waiting", "DELIVERED"} : client' = [client EXCEPT ![c] = w]
        \/ c \in CanCancel /\ client' = [client EXCEPT ![c] = "CANCELLED"]
    BY <1>6 DEF Connect, Hear, Cancel, Calm
  <2>3. \A d \in Clients :
           client'[d] \in {"idle", "waiting", "DELIVERED"} \/ (client'[d] = "CANCELLED" /\ d \in CanCancel)
    BY <1>0, <2>2 DEF Calm
  <2> QED BY <2>1, <2>3 DEF Calm
<1>7. CASE UNCHANGED vars
  BY <1>7 DEF vars, flags, clientVars, Calm
<1> QED BY <1>1, <1>2, <1>3, <1>4, <1>5, <1>6, <1>7 DEF Next

\* At the start no flag is set.
LEMMA StartsCalm == Init => Calm
<1> SUFFICES ASSUME Init PROVE Calm
  OBVIOUS
<1>1. /\ \A t \in Threads : pc[t] \in {"order", "load", "accept", "none"}
      /\ pc[Main] = "accept"
  BY ShopAssumption DEF Init, Threads
<1>2. ~Torn
  BY ShopAssumption DEF Init, Torn
<1> QED BY <1>1, <1>2 DEF Init, Calm, Broken

-----------------------------------------------------------------------------
(* Counting sets that change by one element. *)

\* An element comes in.
LEMMA OneIn ==
    ASSUME NEW S, IsFiniteSet(S), NEW T, NEW t, t \notin S, T = S \cup {t}
    PROVE  IsFiniteSet(T) /\ Cardinality(T) = Cardinality(S) + 1 /\ Cardinality(S) \in Nat
  BY FS_AddElement, FS_CardinalityType

\* An element goes out.
LEMMA OneOut ==
    ASSUME NEW S, IsFiniteSet(S), NEW T, NEW t, t \in S, T = S \ {t}
    PROVE  IsFiniteSet(T) /\ Cardinality(T) = Cardinality(S) - 1 /\ Cardinality(S) \in Nat
  BY FS_RemoveElement, FS_CardinalityType

-----------------------------------------------------------------------------
(* The apparatus. *)

\* The part of a cook's round in which it has an apparatus, or had it and is about to retake it.
Holding ==
    \A c \in Cooks : pc[c] \in {"oven", "retake", "ovenWait", "release", "releaseElse"} => aparatAzaltildi[c] = TRUE

Holder(t) ==
    \/ t \in Cooks /\ aparatAzaltildi[t] = TRUE
       /\ pc[t] \in {"oven", "ovenWait", "ovenBroke", "quit", "release", "releaseElse"}
    \/ t \in Pides /\ pc[t] \in {"takeOut", "takeOutWait", "giveBack"}

Apparatuses == Holding /\ IsFiniteSet(ApparatusHolders) /\ ApparatusBalance

\* The set that is counted, thread by thread, before and after a step.
LEMMA Holders ==
    /\ IndInv => \A t : t \in ApparatusHolders <=> Holder(t)
    /\ IndInv' => \A t : t \in ApparatusHolders' <=> Holder(t)'
<1>1. ASSUME IndInv PROVE \A c \in Cooks : aparatAzaltildi[c] <=> aparatAzaltildi[c] = TRUE
  BY <1>1 DEF IndInv, TypeOK
<1>2. ASSUME IndInv' PROVE \A c \in Cooks : aparatAzaltildi'[c] <=> aparatAzaltildi'[c] = TRUE
  BY <1>2 DEF IndInv, TypeOK
<1> QED BY <1>1, <1>2 DEF ApparatusHolders, Holder

\* A step in which no thread takes or returns an apparatus.
LEMMA SameHolders ==
    ASSUME IndInv, IndInv', Apparatuses, Holding', aparatus' = aparatus,
           \A t \in Cooks \cup Pides : Holder(t)' <=> Holder(t)
    PROVE  Apparatuses'
<1>1. \A t : t \in ApparatusHolders' <=> t \in ApparatusHolders
  <2>1. \A t : t \in ApparatusHolders' <=> Holder(t)'
    BY Holders
  <2>2. \A t : Holder(t)' => t \in Cooks \cup Pides
    BY DEF Holder
  <2>3. \A t : Holder(t) => t \in Cooks \cup Pides
    BY DEF Holder
  <2> QED BY <2>1, <2>2, <2>3, Holders
<1>2. ApparatusHolders' = ApparatusHolders
  BY <1>1
<1> QED BY <1>2 DEF Apparatuses, ApparatusBalance

\* Thread t takes an apparatus.
LEMMA HolderMore ==
    ASSUME IndInv, IndInv', Apparatuses, Holding', aparatus' = aparatus - 1,
           NEW t \in Cooks \cup Pides, ~Holder(t), Holder(t)',
           \A u \in (Cooks \cup Pides) \ {t} : Holder(u)' <=> Holder(u)
    PROVE  Apparatuses'
<1>1. ApparatusHolders' = ApparatusHolders \cup {t} /\ t \notin ApparatusHolders
  <2>1. \A u : u \in ApparatusHolders' <=> Holder(u)'
    BY Holders
  <2>2. \A u : Holder(u)' => u \in Cooks \cup Pides
    BY DEF Holder
  <2>3. \A u : Holder(u) => u \in Cooks \cup Pides
    BY DEF Holder
  <2>4. \A u : u \in ApparatusHolders' <=> u \in ApparatusHolders \/ u = t
    BY <2>1, <2>2, <2>3, Holders
  <2>5. t \notin ApparatusHolders
    BY Holders
  <2> QED BY <2>4, <2>5
<1>2. /\ IsFiniteSet(ApparatusHolders') /\ Cardinality(ApparatusHolders) \in Nat
      /\ Cardinality(ApparatusHolders') = Cardinality(ApparatusHolders) + 1
  BY <1>1, OneIn DEF Apparatuses
<1>3. aparatus \in Int /\ Apparatus \in Nat
  BY ShopAssumption DEF IndInv, TypeOK
<1>4. aparatus + Cardinality(ApparatusHolders) = Apparatus
  BY DEF Apparatuses, ApparatusBalance
<1>5. (aparatus - 1) + (Cardinality(ApparatusHolders) + 1) = Apparatus
  BY <1>2, <1>3, <1>4
<1> QED BY <1>2, <1>5 DEF Apparatuses, ApparatusBalance

\* Thread t returns its apparatus.
LEMMA HolderLess ==
    ASSUME IndInv, IndInv', Apparatuses, Holding', aparatus' = aparatus + 1,
           NEW t \in Cooks \cup Pides, Holder(t), ~Holder(t)',
           \A u \in (Cooks \cup Pides) \ {t} : Holder(u)' <=> Holder(u)
    PROVE  Apparatuses'
<1>1. ApparatusHolders' = ApparatusHolders \ {t} /\ t \in ApparatusHolders
  <2>1. \A u : u \in ApparatusHolders' <=> Holder(u)'
    BY Holders
  <2>2. \A u : Holder(u)' => u \in Cooks \cup Pides
    BY DEF Holder
  <2>3. \A u : Holder(u) => u \in Cooks \cup Pides
    BY DEF Holder
  <2>4. \A u : u \in ApparatusHolders' <=> u \in ApparatusHolders /\ u # t
    BY <2>1, <2>2, <2>3, Holders
  <2>5. t \in ApparatusHolders
    BY Holders
  <2> QED BY <2>4, <2>5
<1>2. /\ IsFiniteSet(ApparatusHolders') /\ Cardinality(ApparatusHolders) \in Nat
      /\ Cardinality(ApparatusHolders') = Cardinality(ApparatusHolders) - 1
  BY <1>1, OneOut DEF Apparatuses
<1>3. aparatus \in Int /\ Apparatus \in Nat
  BY ShopAssumption DEF IndInv, TypeOK
<1>4. aparatus + Cardinality(ApparatusHolders) = Apparatus
  BY DEF Apparatuses, ApparatusBalance
<1>5. (aparatus + 1) + (Cardinality(ApparatusHolders) - 1) = Apparatus
  BY <1>2, <1>3, <1>4
<1> QED BY <1>2, <1>5 DEF Apparatuses, ApparatusBalance

\* A cook takes an apparatus once and gives it back once in a round.
LEMMA CookApparatus ==
    ASSUME IndInv, IndInv', Calm, FirstTimer, Apparatuses, NEW c \in Cooks, Cook(c)
    PROVE  Apparatuses'
<1>0. /\ pc \in [Threads -> PC] /\ Cooks \cup Pides \subseteq Threads /\ Cooks \cap Pides = {}
      /\ aparatAzaltildi \in [Cooks -> BOOLEAN] /\ siparisIptal = FALSE /\ cancelled = FALSE
      /\ Holding /\ pc[c] \notin {"apparatusBroke", "ovenBroke", "quit"}
  BY ShopAssumption DEF IndInv, TypeOK, Threads, Calm, Apparatuses, Broken
<1>1. CASE WaitForOrder(c) \/ TakeOrder(c) \/ OrderWoken(c) \/ WaitForApparatus(c) \/ ApparatusWoken(c)
  <2>1. aparatus' = aparatus /\ aparatAzaltildi' = aparatAzaltildi
    BY <1>1 DEF WaitForOrder, TakeOrder, OrderWoken, WaitForApparatus, ApparatusWoken, cookVars
  <2>2. /\ pc[c] \in {"order", "orderWait", "apparatus", "apparatusWait"}
        /\ \E l \in {"order", "orderWait", "apparatus", "apparatusWait"} : Goto(c, l)
    BY <1>0, <1>1, Zenon DEF WaitForOrder, TakeOrder, OrderWoken, WaitForApparatus, ApparatusWoken, Sleep, At
  <2>3. pc'[c] \in {"order", "orderWait", "apparatus", "apparatusWait"} /\ \A u \in Threads \ {c} : pc'[u] = pc[u]
    BY <1>0, <2>2 DEF Goto
  <2>4. Holding' /\ \A t \in Cooks \cup Pides : Holder(t)' <=> Holder(t)
    BY <1>0, <2>1, <2>2, <2>3 DEF Holding, Holder
  <2> QED BY <2>1, <2>4, SameHolders
<1>2. CASE PlacePide(c) \/ OvenWoken(c) \/ Release(c)
  <2>1. aparatus' = aparatus /\ aparatAzaltildi' = aparatAzaltildi
    BY <1>0, <1>2 DEF PlacePide, OvenWoken, Release, cookVars
  <2>2. /\ pc[c] \in {"oven", "ovenWait", "release"}
        /\ \E l \in {"oven", "release", "releaseElse"} : Goto(c, l)
    BY <1>0, <1>2, Zenon DEF PlacePide, OvenWoken, Release, At
  <2>3. pc'[c] \in {"oven", "release", "releaseElse"} /\ \A u \in Threads \ {c} : pc'[u] = pc[u]
    BY <1>0, <2>2 DEF Goto
  <2>4. Holding' /\ \A t \in Cooks \cup Pides : Holder(t)' <=> Holder(t)
    BY <1>0, <2>1, <2>2, <2>3 DEF Holding, Holder
  <2> QED BY <2>1, <2>4, SameHolders
<1>3. CASE TakeApparatus(c) \/ Retake(c)
  <2>1. /\ aparatus' = aparatus - 1 /\ aparatAzaltildi' = [aparatAzaltildi EXCEPT ![c] = TRUE]
        /\ pc[c] \in {"apparatus", "retake"} /\ \E l \in {"oven", "ovenWait"} : Goto(c, l)
    <3>1. CASE TakeApparatus(c)
      BY <1>0, <3>1 DEF TakeApparatus, Claim, At
    <3>2. CASE Retake(c)
      BY <1>0, <3>2 DEF Retake, At, cookVars, Holding
    <3> QED BY <1>3, <3>1, <3>2
  <2>2. pc'[c] \in {"oven", "ovenWait"} /\ \A u \in Threads \ {c} : pc'[u] = pc[u]
    BY <1>0, <2>1 DEF Goto
  <2>3. /\ Holding' /\ Holder(c)' /\ ~Holder(c)
        /\ \A u \in (Cooks \cup Pides) \ {c} : Holder(u)' <=> Holder(u)
    BY <1>0, <2>1, <2>2 DEF Holding, Holder
  <2> QED BY <2>1, <2>3, HolderMore
<1>4. CASE OvenFull(c) \/ ReleaseElse(c)
  <2>1. /\ aparatus' = aparatus + 1 /\ aparatAzaltildi' = aparatAzaltildi
        /\ pc[c] \in {"oven", "releaseElse"} /\ \E l \in {"retake", "startTimer"} : Goto(c, l)
    BY <1>0, <1>4 DEF OvenFull, ReleaseElse, ReturnApparatus, At, cookVars
  <2>2. pc'[c] \in {"retake", "startTimer"} /\ \A u \in Threads \ {c} : pc'[u] = pc[u]
    BY <1>0, <2>1 DEF Goto
  <2>3. /\ Holding' /\ ~Holder(c)' /\ Holder(c)
        /\ \A u \in (Cooks \cup Pides) \ {c} : Holder(u)' <=> Holder(u)
    BY <1>0, <2>1, <2>2 DEF Holding, Holder
  <2> QED BY <2>1, <2>3, HolderLess
<1>5. CASE StartTimer(c)
  <2>1. PICK p0 \in Pides : p0 = preparePide[c]
    BY <1>5 DEF StartTimer, At, IndInv, CookHasPide, InHand
  <2>2. /\ aparatus' = aparatus /\ aparatAzaltildi' = [aparatAzaltildi EXCEPT ![c] = FALSE]
        /\ pc' = [pc EXCEPT ![c] = "order", ![p0] = "armed"] /\ pc[c] = "startTimer"
    BY <1>0, <1>5, <2>1 DEF StartTimer, ArmTimer, At
  <2>3. pc[p0] \in {"none", "down"}
    BY <2>1, <2>2 DEF FirstTimer, Started, InHands, InHand
  <2>4. pc'[c] = "order" /\ pc'[p0] = "armed" /\ \A u \in Threads \ {c, p0} : pc'[u] = pc[u]
    BY <1>0, <2>2
  <2>5. Holding' /\ \A t \in Cooks \cup Pides : Holder(t)' <=> Holder(t)
    BY <1>0, <2>2, <2>3, <2>4 DEF Holding, Holder
  <2> QED BY <2>2, <2>5, SameHolders
<1>6. CASE Quit(c)
  BY <1>0, <1>6 DEF Quit, At
<1> QED BY <1>1, <1>2, <1>3, <1>4, <1>5, <1>6 DEF Cook

\* A timer takes an apparatus for the time it takes a pide out of the oven.
LEMMA TimerApparatus ==
    ASSUME IndInv, IndInv', Calm, Apparatuses, NEW t \in Pides, Timer(t)
    PROVE  Apparatuses'
<1>0. /\ pc \in [Threads -> PC] /\ Cooks \cup Pides \subseteq Threads /\ Cooks \cap Pides = {}
      /\ siparisIptal = FALSE /\ cancelled = FALSE /\ Holding /\ pc[t] \notin {"handBroke"}
  BY ShopAssumption DEF IndInv, TypeOK, Threads, Calm, Apparatuses, Broken
<1>1. UNCHANGED aparatAzaltildi /\ \E l : Goto(t, l)
  BY DEF Timer, TimerWait, TimerTake, TimerWoken, OvenEmpty, TakeOut, TakeOutWoken, GiveBack, PreparedFull,
                Hand, HandWoken, TimerEnd, Sleep, cookVars
<1>2. \A u \in Threads \ {t} : pc'[u] = pc[u]
  BY <1>0, <1>1 DEF Goto
<1>3. Holding' /\ \A u \in (Cooks \cup Pides) \ {t} : Holder(u)' <=> Holder(u)
  BY <1>0, <1>1, <1>2 DEF Holding, Holder
<1>4. CASE TimerTake(t)
  <2>1. aparatus' = aparatus - 1 /\ pc[t] \in {"armed", "timerWait"} /\ pc'[t] = "takeOut"
    BY <1>0, <1>4 DEF TimerTake, At, Goto
  <2>2. Holder(t)' /\ ~Holder(t)
    BY <1>0, <2>1 DEF Holder
  <2> QED BY <1>3, <2>1, <2>2, HolderMore
<1>5. CASE GiveBack(t)
  <2>1. aparatus' = aparatus + 1 /\ pc[t] = "giveBack" /\ pc'[t] = "hand"
    BY <1>0, <1>5 DEF GiveBack, ReturnApparatus, At, Goto
  <2>2. ~Holder(t)' /\ Holder(t)
    BY <1>0, <2>1 DEF Holder
  <2> QED BY <1>3, <2>1, <2>2, HolderLess
<1>6. CASE OvenEmpty(t) \/ TakeOut(t) \/ TakeOutWoken(t)
  <2>1. /\ aparatus' = aparatus /\ pc[t] \in {"takeOut", "takeOutWait"}
        /\ \E l \in {"takeOut", "takeOutWait", "giveBack"} : Goto(t, l)
    BY <1>0, <1>6, Zenon DEF OvenEmpty, TakeOut, TakeOutWoken, At, Sleep
  <2>2. pc'[t] \in {"takeOut", "takeOutWait", "giveBack"}
    BY <1>0, <2>1 DEF Goto
  <2>3. Holder(t)' <=> Holder(t)
    BY <2>1, <2>2 DEF Holder
  <2> QED BY <1>3, <2>1, <2>3, SameHolders
<1>7. CASE TimerWait(t) \/ TimerWoken(t) \/ PreparedFull(t) \/ Hand(t) \/ HandWoken(t) \/ TimerEnd(t)
  <2>1. /\ aparatus' = aparatus /\ pc[t] \in {"armed", "timerWait", "hand", "handWait", "handed"}
        /\ \E l \in {"armed", "timerWait", "hand", "handWait", "handed", "done"} : Goto(t, l)
    BY <1>0, <1>7, Zenon DEF TimerWait, TimerWoken, PreparedFull, Hand, HandWoken, TimerEnd, At, Sleep
  <2>2. pc'[t] \in {"armed", "timerWait", "hand", "handWait", "handed", "done"}
    BY <1>0, <2>1 DEF Goto
  <2>3. Holder(t)' <=> Holder(t)
    BY <1>0, <2>1, <2>2 DEF Holder
  <2> QED BY <1>3, <2>1, <2>3, SameHolders
<1> QED BY <1>4, <1>5, <1>6, <1>7 DEF Timer

\* Motos, main and clients leave the kitchen alone.
LEMMA KitchenRests ==
    ASSUME IndInv, ~Burn, Open,
           (\E m \in Motos : Moto(m)) \/ MainThread \/ Burn \/ (\E c \in Clients : Connect(c) \/ Hear(c) \/ Cancel(c))
           \/ UNCHANGED vars
    PROVE  /\ UNCHANGED <<ovenQueue, aparatus, preparePide, aparatAzaltildi, sicakPide>>
           /\ \A t \in Cooks \cup Pides : pc'[t] = pc[t]
<1>0. /\ pc \in [Threads -> PC] /\ Cooks \cup Pides \subseteq Threads /\ Motos \cap (Cooks \cup Pides) = {}
      /\ Main \notin Cooks \cup Pides /\ pc[Main] # "join"
  BY ShopAssumption DEF IndInv, TypeOK, Threads, Open
<1>1. CASE \E m \in Motos : Moto(m)
  <2>1. PICK m \in Motos : Moto(m)
    BY <1>1
  <2>2. /\ UNCHANGED <<ovenQueue, aparatus, preparePide, aparatAzaltildi, sicakPide>>
        /\ \E l : Goto(m, l)
    BY <2>1 DEF Moto, LoadWait, LoadWoken, Load, LoadBroke, Leave, Left, Stay, Ride, Travel, Back, Report, EmptyBag,
                EndRound, Exit, Sleep, elsewhere, kitchen, cookVars
  <2> QED BY <1>0, <2>2 DEF Goto
<1>2. CASE MainThread
  <2>1. /\ UNCHANGED <<ovenQueue, aparatus, preparePide, aparatAzaltildi, sicakPide>>
        /\ \E l : Goto(Main, l)
    BY <1>0, <1>2 DEF MainThread, Accept, ReceiveInfo, StoreSocket, StoreSize, ReceiveOrders, PutOrder, OrdersFull, CountOrder, ServeCancelled, Served, Join,
                Sleep, At, shop, cookVars
  <2> QED BY <1>0, <2>1 DEF Goto
<1>3. CASE \E c \in Clients : Connect(c) \/ Hear(c) \/ Cancel(c)
  BY <1>3 DEF Connect, Hear, Cancel, shop, cookVars
<1>4. CASE UNCHANGED vars
  BY <1>4 DEF vars, queues, cookVars
<1> QED BY <1>1, <1>2, <1>3, <1>4

\* "aparatus" and its holders, step by step.
LEMMA ApparatusesKept ==
    Undisturbed /\ IndInv /\ IndInv' /\ Calm /\ FirstTimer /\ Apparatuses /\ [Next]_vars => Apparatuses'
<1> SUFFICES ASSUME Undisturbed, IndInv, IndInv', Calm, FirstTimer, Apparatuses, [Next]_vars PROVE Apparatuses'
  OBVIOUS
<1>1. ASSUME \/ \E m \in Motos : Moto(m)
             \/ MainThread \/ Burn
             \/ \E c \in Clients : Connect(c) \/ Hear(c) \/ Cancel(c)
             \/ UNCHANGED vars
      PROVE  Apparatuses'
  <2>1. UNCHANGED <<aparatus, aparatAzaltildi>> /\ \A t \in Cooks \cup Pides : pc'[t] = pc[t]
    BY <1>1, KitchenRests, CalmOpen DEF Undisturbed
  <2>2. Holding' /\ \A t \in Cooks \cup Pides : Holder(t)' <=> Holder(t)
    BY <2>1 DEF Apparatuses, Holding, Holder
  <2> QED BY <2>1, <2>2, SameHolders
<1>2. (\E c \in Cooks : Cook(c)) => Apparatuses'
  BY CookApparatus
<1>3. (\E t \in Pides : Timer(t)) => Apparatuses'
  BY TimerApparatus
<1> QED BY <1>1, <1>2, <1>3 DEF Next

\* At the start all the apparatus are there.
LEMMA AllApparatus == Init => Apparatuses
<1> SUFFICES ASSUME Init PROVE Apparatuses
  OBVIOUS
<1>1. /\ \A c \in Cooks : pc[c] = "order"
      /\ \A t \in Pides : pc[t] = "none"
      /\ aparatus = Apparatus
  BY ShopAssumption DEF Init, Threads
<1>2. ApparatusHolders = {}
  BY <1>1 DEF ApparatusHolders
<1>3. IsFiniteSet(ApparatusHolders) /\ Cardinality(ApparatusHolders) = 0
  BY <1>2, FS_EmptySet
<1> QED BY <1>1, <1>3, ShopAssumption DEF Apparatuses, Holding, ApparatusBalance

\* Without signals, the shop is calm and starts one timer for each pide.
LEMMA CalmShop == ASSUME NoSignals PROVE Spec => [](IndInv /\ OnePlace /\ FirstTimer /\ Calm)
<1> DEFINE I == OnePlace /\ FirstTimer /\ Calm
<1>1. Init => I
  BY NoPides, NoTimers, StartsCalm
<1>2. IndInv /\ I /\ [Next]_vars => I'
  BY OnePlaceKept, FirstTimerKept, CalmKept, NothingDisturbs DEF Calm
<1> QED BY <1>1, <1>2, Inductive, PTL DEF Spec

\* Without cancellations and shutdowns, whatever the numbers of cooks, timers and apparatus and
\* whatever their interleaving: "aparatus" and the threads that hold one account for all the
\* apparatus, so the cook's two releases return each once.
THEOREM NoApparatusLost == ASSUME NoSignals PROVE Spec => []ApparatusBalance
<1>1. IndInv /\ IndInv' /\ Calm /\ FirstTimer /\ Apparatuses /\ [Next]_vars => Apparatuses'
  BY ApparatusesKept, NothingDisturbs
<1>2. Apparatuses => ApparatusBalance
  BY DEF Apparatuses
<1> QED BY <1>1, <1>2, AllApparatus, CalmShop, PTL DEF Spec

-----------------------------------------------------------------------------
(* The oven and its timers. *)

\* The threads that answer for a pide in the oven.
Baker(t) ==
    \/ t \in Cooks /\ pc[t] \in {"release", "releaseElse", "startTimer"}
    \/ t \in Pides /\ pc[t] \in {"armed", "timerWait", "takeOut", "takeOutWait"}
Bakers == {t \in Cooks \cup Pides : Baker(t)}
Baking == IsFiniteSet(Bakers) /\ Len(ovenQueue) = Cardinality(Bakers)

\* These are the threads OvenTimerBalance counts.
LEMMA BakingBalance == Baking => OvenTimerBalance
<1>1. Bakers = {c \in Cooks : pc[c] \in {"release", "releaseElse", "startTimer"}}
               \cup {t \in Pides : pc[t] \in {"armed", "timerWait", "takeOut", "takeOutWait"}}
  BY ShopAssumption DEF Bakers, Baker
<1> QED BY <1>1 DEF Baking, OvenTimerBalance

\* A step that neither fills nor empties the oven.
LEMMA SameBakers ==
    ASSUME Baking, ovenQueue' = ovenQueue, \A t \in Cooks \cup Pides : Baker(t)' <=> Baker(t)
    PROVE  Baking'
<1>1. Bakers' = Bakers
  BY DEF Bakers
<1> QED BY <1>1 DEF Baking

\* A cook puts a pide in, starts a timer for it, and goes on.
LEMMA CookBakes ==
    ASSUME IndInv, Calm, FirstTimer, Baking, NEW c \in Cooks, Cook(c)
    PROVE  Baking'
<1>0. /\ pc \in [Threads -> PC] /\ Cooks \cup Pides \subseteq Threads /\ Cooks \cap Pides = {}
      /\ siparisIptal = FALSE /\ cancelled = FALSE /\ ovenQueue \in Seq(Pides)
      /\ pc[c] \notin {"apparatusBroke", "ovenBroke", "quit"}
  BY ShopAssumption DEF IndInv, TypeOK, Threads, Calm, Broken
<1>1. CASE PlacePide(c)
  <2>1. ovenQueue' = Append(ovenQueue, preparePide[c]) /\ pc[c] = "oven" /\ pc' = [pc EXCEPT ![c] = "release"]
    BY <1>0, <1>1 DEF PlacePide, Enqueue, At, Goto
  <2>2. pc'[c] = "release" /\ \A u \in Threads \ {c} : pc'[u] = pc[u]
    BY <1>0, <2>1
  <2>3. preparePide[c] \in Pides
    BY <2>1 DEF IndInv, CookHasPide, InHand
  <2>4. Len(ovenQueue') = Len(ovenQueue) + 1
    BY <1>0, <2>1, <2>3
  <2>5. Baker(c)' /\ ~Baker(c) /\ \A u \in (Cooks \cup Pides) \ {c} : Baker(u)' <=> Baker(u)
    BY <1>0, <2>1, <2>2 DEF Baker
  <2>6. Bakers' = Bakers \cup {c} /\ c \notin Bakers
    BY <2>5 DEF Bakers
  <2> QED BY <2>4, <2>6, OneIn DEF Baking
<1>2. CASE StartTimer(c)
  <2>1. PICK p0 \in Pides : p0 = preparePide[c]
    BY <1>2 DEF StartTimer, At, IndInv, CookHasPide, InHand
  <2>2. /\ ovenQueue' = ovenQueue /\ pc[c] = "startTimer"
        /\ pc' = [pc EXCEPT ![c] = "order", ![p0] = "armed"]
    BY <1>0, <1>2, <2>1 DEF StartTimer, ArmTimer, At, queues
  <2>3. pc[p0] \in {"none", "down"}
    BY <2>1, <2>2 DEF FirstTimer, Started, InHands, InHand
  <2>4. pc'[c] = "order" /\ pc'[p0] = "armed" /\ \A u \in Threads \ {c, p0} : pc'[u] = pc[u]
    BY <1>0, <2>2
  <2>5. /\ Baker(c) /\ ~Baker(c)' /\ ~Baker(p0) /\ Baker(p0)' /\ c # p0
        /\ \A u \in (Cooks \cup Pides) \ {c, p0} : Baker(u)' <=> Baker(u)
    BY <1>0, <2>2, <2>3, <2>4 DEF Baker
  <2>6. PICK B : B = Bakers \ {c}
    OBVIOUS
  <2>7. c \in Bakers /\ p0 \notin B /\ Bakers' = B \cup {p0}
    BY <2>5, <2>6 DEF Bakers
  <2>8. IsFiniteSet(B) /\ Cardinality(B) = Cardinality(Bakers) - 1 /\ Cardinality(Bakers) \in Nat
    BY <2>6, <2>7, OneOut DEF Baking
  <2>9. IsFiniteSet(Bakers') /\ Cardinality(Bakers') = Cardinality(B) + 1
    BY <2>7, <2>8, OneIn
  <2> QED BY <2>2, <2>8, <2>9 DEF Baking
<1>3. CASE ~PlacePide(c) /\ ~StartTimer(c)
  <2>1. ovenQueue' = ovenQueue
    BY <1>3 DEF Cook, WaitForOrder, TakeOrder, OrderWoken, WaitForApparatus, TakeApparatus, Claim, ApparatusWoken,
                OvenFull, Retake, OvenWoken, Quit, Release, ReleaseElse, queues
  <2>2. CASE Release(c) \/ ReleaseElse(c)
    <3>1. pc[c] \in {"release", "releaseElse"} /\ \E l \in {"releaseElse", "startTimer"} : Goto(c, l)
      BY <1>0, <2>2, Zenon DEF Release, ReleaseElse, At
    <3>2. pc'[c] \in {"releaseElse", "startTimer"} /\ \A u \in Threads \ {c} : pc'[u] = pc[u]
      BY <1>0, <3>1 DEF Goto
    <3>3. \A t \in Cooks \cup Pides : Baker(t)' <=> Baker(t)
      BY <1>0, <3>1, <3>2 DEF Baker
    <3> QED BY <2>1, <3>3, SameBakers
  <2>3. CASE ~(Release(c) \/ ReleaseElse(c))
    <3>1. /\ pc[c] \in {"order", "orderWait", "apparatus", "apparatusWait", "oven", "retake", "ovenWait"}
          /\ \E l \in {"order", "orderWait", "apparatus", "apparatusWait", "oven", "retake", "ovenWait"} : Goto(c, l)
      BY <1>0, <1>3, <2>3, Zenon DEF Cook, WaitForOrder, TakeOrder, OrderWoken, WaitForApparatus, TakeApparatus, Claim,
                ApparatusWoken, OvenFull, Retake, OvenWoken, Quit, Sleep, At
    <3>2. /\ pc'[c] \in {"order", "orderWait", "apparatus", "apparatusWait", "oven", "retake", "ovenWait"}
          /\ \A u \in Threads \ {c} : pc'[u] = pc[u]
      BY <1>0, <3>1 DEF Goto
    <3>3. \A t \in Cooks \cup Pides : Baker(t)' <=> Baker(t)
      BY <1>0, <3>1, <3>2 DEF Baker
    <3> QED BY <2>1, <3>3, SameBakers
  <2> QED BY <2>2, <2>3
<1> QED BY <1>1, <1>2, <1>3

\* A timer takes a pide out.
LEMMA TimerBakes ==
    ASSUME IndInv, Calm, Baking, NEW t \in Pides, Timer(t)
    PROVE  Baking'
<1>0. /\ pc \in [Threads -> PC] /\ Cooks \cup Pides \subseteq Threads /\ Cooks \cap Pides = {}
      /\ siparisIptal = FALSE /\ cancelled = FALSE /\ ovenQueue \in Seq(Pides) /\ pc[t] \notin {"handBroke"}
  BY ShopAssumption DEF IndInv, TypeOK, Threads, Calm, Broken
<1>1. \E l : Goto(t, l)
  BY DEF Timer, TimerWait, TimerTake, TimerWoken, OvenEmpty, TakeOut, TakeOutWoken, GiveBack, PreparedFull,
                Hand, HandWoken, TimerEnd, Sleep
<1>2. \A u \in Threads \ {t} : pc'[u] = pc[u]
  BY <1>0, <1>1 DEF Goto
<1>3. \A u \in (Cooks \cup Pides) \ {t} : Baker(u)' <=> Baker(u)
  BY <1>0, <1>2 DEF Baker
<1>4. CASE TakeOut(t)
  <2>1. ovenQueue # << >> /\ ovenQueue' = Tail(ovenQueue) /\ pc[t] = "takeOut" /\ pc'[t] = "giveBack"
    BY <1>0, <1>4 DEF TakeOut, Rest, At, Goto
  <2>2. Len(ovenQueue') = Len(ovenQueue) - 1
    BY <1>0, <2>1
  <2>3. ~Baker(t)' /\ Baker(t)
    BY <1>0, <2>1 DEF Baker
  <2>4. Bakers' = Bakers \ {t} /\ t \in Bakers
    BY <1>3, <2>3 DEF Bakers
  <2> QED BY <2>2, <2>4, OneOut DEF Baking
<1>5. CASE ~TakeOut(t)
  <2>1. ovenQueue' = ovenQueue
    BY <1>5 DEF Timer, TimerWait, TimerTake, TimerWoken, OvenEmpty, TakeOutWoken, GiveBack, PreparedFull,
                Hand, HandWoken, TimerEnd, queues
  <2>2. CASE TimerWait(t) \/ TimerTake(t) \/ TimerWoken(t) \/ OvenEmpty(t) \/ TakeOutWoken(t)
    <3>1. /\ pc[t] \in {"armed", "timerWait", "takeOut", "takeOutWait"}
          /\ \E l \in {"armed", "timerWait", "takeOut", "takeOutWait"} : Goto(t, l)
      BY <1>0, <2>2, Zenon DEF TimerWait, TimerTake, TimerWoken, OvenEmpty, TakeOutWoken, At, Sleep
    <3>2. pc'[t] \in {"armed", "timerWait", "takeOut", "takeOutWait"}
      BY <1>0, <3>1 DEF Goto
    <3>3. Baker(t)' <=> Baker(t)
      BY <3>1, <3>2 DEF Baker
    <3> QED BY <1>3, <2>1, <3>3, SameBakers
  <2>3. CASE GiveBack(t) \/ PreparedFull(t) \/ Hand(t) \/ HandWoken(t) \/ TimerEnd(t)
    <3>1. /\ pc[t] \in {"giveBack", "hand", "handWait", "handed"}
          /\ \E l \in {"hand", "handWait", "handed", "done"} : Goto(t, l)
      BY <1>0, <2>3, Zenon DEF GiveBack, PreparedFull, Hand, HandWoken, TimerEnd, At, Sleep
    <3>2. pc'[t] \in {"hand", "handWait", "handed", "done"}
      BY <1>0, <3>1 DEF Goto
    <3>3. Baker(t)' <=> Baker(t)
      BY <1>0, <3>1, <3>2 DEF Baker
    <3> QED BY <1>3, <2>1, <3>3, SameBakers
  <2> QED BY <1>5, <2>2, <2>3 DEF Timer
<1> QED BY <1>4, <1>5

\* The oven and the threads that answer for its pides, step by step.
LEMMA BakingKept ==
    Undisturbed /\ IndInv /\ Calm /\ FirstTimer /\ Baking /\ [Next]_vars => Baking'
<1> SUFFICES ASSUME Undisturbed, IndInv, Calm, FirstTimer, Baking, [Next]_vars PROVE Baking'
  OBVIOUS
<1>1. ASSUME \/ \E m \in Motos : Moto(m)
             \/ MainThread \/ Burn
             \/ \E c \in Clients : Connect(c) \/ Hear(c) \/ Cancel(c)
             \/ UNCHANGED vars
      PROVE  Baking'
  <2>1. ovenQueue' = ovenQueue /\ \A t \in Cooks \cup Pides : pc'[t] = pc[t]
    BY <1>1, KitchenRests, CalmOpen DEF Undisturbed
  <2>2. \A t \in Cooks \cup Pides : Baker(t)' <=> Baker(t)
    BY <2>1 DEF Baker
  <2> QED BY <2>1, <2>2, SameBakers
<1>2. (\E c \in Cooks : Cook(c)) => Baking'
  BY CookBakes
<1>3. (\E t \in Pides : Timer(t)) => Baking'
  BY TimerBakes
<1> QED BY <1>1, <1>2, <1>3 DEF Next

\* At the start the oven is empty.
LEMMA ColdOven == Init => Baking
<1> SUFFICES ASSUME Init PROVE Baking
  OBVIOUS
<1>1. /\ \A c \in Cooks : pc[c] = "order"
      /\ \A t \in Pides : pc[t] = "none"
      /\ ovenQueue = << >>
  BY ShopAssumption DEF Init, Threads
<1>2. Bakers = {}
  BY <1>1, ShopAssumption DEF Bakers, Baker
<1> QED BY <1>1, <1>2, FS_EmptySet DEF Baking

\* Without cancellations and shutdowns: as many threads answer for a pide in the oven as pides
\* are in it. No pide burns for want of a timer, no timer waits at an empty oven for ever.
THEOREM OvenHasTimers == ASSUME NoSignals PROVE Spec => []OvenTimerBalance
<1>1. IndInv /\ Calm /\ FirstTimer /\ Baking /\ [Next]_vars => Baking'
  BY BakingKept, NothingDisturbs
<1> QED BY <1>1, BakingBalance, ColdOven, CalmShop, PTL DEF Spec

-----------------------------------------------------------------------------
(* No pide is lost. *)

\* Every pide that was ordered is somewhere.
Present == \A p \in Pides : NotYet(p) \/ \E s \in Spots : Holds(s, p)

\* A timer thread has no pide before it takes one out.
TimerEmpty ==
    \A t \in Pides : pc[t] \in {"none", "armed", "timerWait", "takeOut", "takeOutWait"} => sicakPide[t] = Phantom

\* Main leaves a client when it has put all its orders.
LastOrder == pc[Main] \in {"accept", "serve"} /\ cur # Nobody => newOrder = Size[cur] + 1

\* A bag is not filled over BagCap: a moto that waits for a pide has a place for it.
BagRoom ==
    \A m \in Motos : Len(bag[m]) <= BagCap /\ (pc[m] \in {"loadWait", "loadBroke"} => Len(bag[m]) < BagCap)

\* A pide whose order main still has to put waits for the next step, too, but for the one it puts.
LEMMA OrdersWait ==
    ASSUME IndInv, Undisturbed, Open, [Next]_vars, NEW p \in Pides, NotYet(p), ~(PutOrder /\ p = <<cur, newOrder>>)
    PROVE  NotYet(p)'
<1>0. /\ Main \in Threads /\ pc \in [Threads -> PC] /\ client \in [Clients -> {"idle", "waiting"} \cup Final]
      /\ cur \in Clients \cup {Nobody} /\ backlog \subseteq Clients /\ newOrder \in Nat \ {0}
      /\ p[1] \in Clients /\ p[2] \in Nat /\ Size[p[1]] \in Nat /\ 1 <= p[2] /\ p[2] <= Size[p[1]]
      /\ pc[Main] # "join" /\ p = <<p[1], p[2]>>
  BY PideNumber, PideParts DEF Threads, IndInv, TypeOK, Open
<1>1. CASE UNCHANGED <<cur, newOrder, client, backlog>> /\ pc'[Main] = pc[Main]
  BY <1>1 DEF NotYet, Early, At
<1>2. CASE Accept
  <2>1. PICK c \in backlog : cur' = c /\ backlog' = backlog \ {c}
    BY <1>2 DEF Accept
  <2>2. pc[Main] = "accept" /\ pc' = [pc EXCEPT ![Main] = "info"] /\ UNCHANGED <<newOrder, client>>
    BY <1>2 DEF Accept, Goto, At
  <2>3. pc'[Main] = "info"
    BY <1>0, <2>2
  <2> QED BY <2>1, <2>2, <2>3 DEF NotYet, Early, At
<1>12. CASE ReceiveInfo \/ StoreSocket \/ StoreSize
  <2>1. /\ \E l \in {"socket", "size", "orders"} : Goto(Main, l)
        /\ pc[Main] \in Early /\ UNCHANGED <<cur, client, backlog, newOrder>>
    BY <1>12, Zenon DEF ReceiveInfo, StoreSocket, StoreSize, At, Early, clientVars, mainVars
  <2>2. pc'[Main] \in Early
    BY <1>0, <2>1 DEF Goto, Early
  <2> QED BY <2>1, <2>2 DEF NotYet, Early, At
<1>3. CASE ReceiveOrders
  <2>1. /\ pc[Main] = "orders" /\ pc' = [pc EXCEPT ![Main] = AfterOrders(1)] /\ newOrder' = 1
        /\ UNCHANGED <<cur, client, backlog>>
    BY <1>3 DEF ReceiveOrders, Goto, At, clientVars
  <2>2. p[1] = cur => pc'[Main] = "put"
    BY <1>0, <2>1 DEF AfterOrders
  <2> QED BY <1>0, <2>1, <2>2 DEF NotYet, Early, At
<1>4. CASE PutOrder
  <2>1. /\ pc[Main] = "put" /\ pc' = [pc EXCEPT ![Main] = "count"]
        /\ UNCHANGED <<cur, newOrder, client, backlog>>
    BY <1>4 DEF PutOrder, Goto, At, clientVars, mainVars
  <2>2. pc'[Main] = "count"
    BY <1>0, <2>1
  <2>3. p[1] = cur /\ p[2] >= newOrder => p[2] > newOrder
    BY <1>0, <1>4
  <2> QED BY <2>1, <2>2, <2>3 DEF NotYet, Early, At
<1>5. CASE OrdersFull
  <2>1. /\ pc[Main] = "put" /\ pc' = [pc EXCEPT ![Main] = "putWait"]
        /\ UNCHANGED <<cur, newOrder, client, backlog>>
    BY <1>5 DEF OrdersFull, Sleep, Goto, At, clientVars, mainVars
  <2>2. pc'[Main] = "putWait"
    BY <1>0, <2>1
  <2> QED BY <2>1, <2>2 DEF NotYet, Early, At
<1>6. CASE CountOrder
  <2>1. /\ pc[Main] = "count" /\ pc' = [pc EXCEPT ![Main] = AfterOrders(newOrder + 1)] /\ newOrder' = newOrder + 1
        /\ UNCHANGED <<cur, client, backlog>>
    BY <1>6 DEF CountOrder, Goto, At, clientVars
  <2>2. p[1] = cur /\ p[2] > newOrder => pc'[Main] = "put" /\ p[2] >= newOrder + 1
    <3>1. p[1] = cur /\ p[2] > newOrder => newOrder + 1 <= Size[cur] /\ p[2] >= newOrder + 1
      BY <1>0
    <3> QED BY <1>0, <2>1, <3>1 DEF AfterOrders
  <2> QED BY <2>1, <2>2 DEF NotYet, Early, At
<1>7. CASE Served
  <2>1. /\ pc[Main] = "serve" /\ UNCHANGED <<cur, newOrder, client, backlog>>
    BY <1>7 DEF Served, At, clientVars, mainVars
  <2> QED BY <2>1 DEF NotYet, Early, At
<1>8. CASE ServeCancelled
  BY <1>8 DEF Undisturbed
<1>9. ASSUME NEW c \in Clients, Connect(c) \/ Hear(c) \/ Cancel(c) PROVE NotYet(p)'
  <2>1. CASE Connect(c)
    <3>1. client' = [client EXCEPT ![c] = "waiting"] /\ backlog' = backlog \cup {c} /\ UNCHANGED <<cur, newOrder, pc>>
      BY <2>1 DEF Connect, mainVars
    <3>2. \A d \in Clients \ {c} : client'[d] = client[d]
      BY <3>1, <1>0
    <3> QED BY <1>0, <3>1, <3>2 DEF NotYet, Early, At
  <2>2. CASE Hear(c) \/ Cancel(c)
    <3>1. client[c] = "waiting" /\ (\E w : client' = [client EXCEPT ![c] = w]) /\ UNCHANGED <<cur, newOrder, pc, backlog>>
      BY <2>2 DEF Hear, Cancel, mainVars
    <3>2. \A d \in Clients : client[d] = "idle" => client'[d] = "idle"
      BY <3>1, <1>0
    <3> QED BY <1>0, <3>1, <3>2 DEF NotYet, Early, At
  <2> QED BY <1>9, <2>1, <2>2
<1>10. ASSUME (\E c \in Cooks : Cook(c)) \/ (\E t \in Pides : Timer(t)) \/ (\E m \in Motos : Moto(m)) \/ UNCHANGED vars
       PROVE  UNCHANGED <<cur, newOrder, client, backlog>> /\ pc'[Main] = pc[Main]
  BY <1>10, ThreadsOnly
<1>11. CASE Join \/ Burn
  BY <1>0, <1>11 DEF Join, Burn, Undisturbed, At
<1> QED BY <1>1, <1>2, <1>3, <1>4, <1>5, <1>6, <1>7, <1>8, <1>9, <1>10, <1>11, <1>12 DEF Next, MainThread

\* What is in a place stays there.
LEMMA NoneLost ==
    ASSUME UNCHANGED <<orderQueue, ovenQueue, preparedQueue, delivered>>,
           \A p \in Pides, c \in Cooks : HeldByCook(c, p) => HeldByCook(c, p)',
           \A t \in Pides : sicakPide'[t] = sicakPide[t] \/ sicakPide[t] \notin Pides,
           \A m \in Motos : \A i \in Pending(m) : i \in Pending(m)' /\ bag'[m][i] = bag[m][i]
    PROVE  \A p \in Pides, s \in Spots : Holds(s, p) => Holds(s, p)'
<1>1. \A p \in Pides : AtCook(p) => AtCook(p)'
  BY DEF AtCook
<1>2. \A p \in Pides : AtTimer(p) => AtTimer(p)'
  BY DEF AtTimer
<1>3. \A p \in Pides : InBag(p) => InBag(p)'
  BY DEF InBag
<1> QED BY <1>1, <1>2, <1>3 DEF Holds, InQueue

\* A pide in the kitchen goes on to the next place.
LEMMA CookPasses ==
    ASSUME IndInv, siparisIptal = FALSE, cancelled = FALSE, NEW c \in Cooks, pc[c] # "quit", Cook(c),
           NEW p \in Pides, ~LostAtBreak(p), NEW s \in Spots, Holds(s, p)
    PROVE  \E z \in Spots : Holds(z, p)'
<1>0. /\ pc \in [Threads -> PC] /\ Cooks \cup Pides \cup Motos \subseteq Threads /\ Cooks \cap Pides = {}
      /\ Motos \cap (Cooks \cup Pides) = {}
      /\ preparePide \in [Cooks -> Item] /\ orderQueue \in Seq(Pides) /\ ovenQueue \in Seq(Pides)
  BY ShopAssumption DEF IndInv, TypeOK, Threads
<1>i. UNCHANGED <<preparedQueue, sicakPide, bag, trip, delivered>>
  BY DEF Cook, WaitForOrder, TakeOrder, OrderWoken, WaitForApparatus, TakeApparatus, Claim, ApparatusWoken,
                OvenFull, Retake, PlacePide, OvenWoken, Quit, Release, ReleaseElse, StartTimer, queues, outside, motoVars
<1>ii. \A u \in Motos : pc'[u] = pc[u]
  <2>1. preparePide[c] \in Pides \/ ~StartTimer(c)
    BY DEF StartTimer, At, IndInv, CookHasPide, InHand
  <2>2. (\E l : Goto(c, l)) \/ (StartTimer(c) /\ pc' = ArmTimer(c))
    BY <1>0 DEF Cook, WaitForOrder, TakeOrder, OrderWoken, WaitForApparatus, TakeApparatus, Claim, ApparatusWoken,
                OvenFull, Retake, PlacePide, OvenWoken, Quit, Release, ReleaseElse, StartTimer, Sleep
  <2> QED BY <1>0, <2>1, <2>2 DEF Goto, ArmTimer
<1>iii. \A m \in Motos : \A i \in Pending(m) : i \in Pending(m)' /\ bag'[m][i] = bag[m][i]
  BY <1>i, <1>ii DEF Pending
<1>1. CASE TakeOrder(c)
  <2>1. /\ orderQueue # << >> /\ orderQueue' = Tail(orderQueue) /\ pc[c] = "order" /\ ovenQueue' = ovenQueue
        /\ preparePide' = [preparePide EXCEPT ![c] = Head(orderQueue)] /\ pc' = [pc EXCEPT ![c] = "apparatus"]
    BY <1>1 DEF TakeOrder, First, Rest, Goto, At
  <2>2. \A d \in Cooks : HeldByCook(d, p) => HeldByCook(d, p)'
    BY <1>0, <2>1 DEF HeldByCook
  <2>3. CASE s = "order"
    <3>1. InQueue(orderQueue', p) \/ p = Head(orderQueue)
      BY <1>0, <2>1, <2>3, TailQueue DEF Holds
    <3>2. p = Head(orderQueue) => HeldByCook(c, p)'
      BY <1>0, <2>1 DEF HeldByCook
    <3>3. Holds("order", p)' \/ Holds("cook", p)'
      BY <3>1, <3>2 DEF Holds, AtCook, InQueue
    <3> QED BY <3>3 DEF Spots
  <2>4. CASE s # "order"
    <3>1. Holds(s, p)'
      BY <1>i, <1>iii, <2>1, <2>2, <2>4 DEF Holds, AtCook, AtTimer, InBag, InQueue
    <3> QED BY <3>1
  <2> QED BY <2>3, <2>4
<1>2. CASE PlacePide(c)
  <2>1. /\ ovenQueue' = Append(ovenQueue, preparePide[c]) \/ (preparePide[c] # p /\ ovenQueue' = ovenQueue)
        /\ pc[c] \in {"oven", "ovenBroke"} /\ pc' = [pc EXCEPT ![c] = "release"]
        /\ UNCHANGED <<orderQueue, preparePide>>
    BY <1>0, <1>2 DEF PlacePide, Enqueue, At, Goto, cookVars, LostAtBreak
  <2>2. preparePide[c] \in Pides
    BY <2>1 DEF IndInv, CookHasPide, InHand
  <2>3. InQueue(ovenQueue, p) \/ p = preparePide[c] => InQueue(ovenQueue', p)
    <3>1. CASE ovenQueue' = Append(ovenQueue, preparePide[c])
      BY <1>0, <2>2, <3>1, AppendQueue
    <3>2. CASE preparePide[c] # p /\ ovenQueue' = ovenQueue
      BY <3>2 DEF InQueue
    <3> QED BY <2>1, <3>1, <3>2
  <2>4. \A d \in Cooks : HeldByCook(d, p) => HeldByCook(d, p)' \/ d = c
    BY <1>0, <2>1 DEF HeldByCook
  <2>5. HeldByCook(c, p) => p = preparePide[c]
    BY DEF HeldByCook
  <2>6. Holds(s, p)' \/ Holds("oven", p)'
    BY <1>i, <1>iii, <2>1, <2>3, <2>4, <2>5 DEF Holds, AtCook, AtTimer, InBag, InQueue
  <2> QED BY <2>6 DEF Spots
<1>3. CASE StartTimer(c)
  <2>1. /\ UNCHANGED <<orderQueue, ovenQueue>> /\ \A d \in Cooks \ {c} : preparePide'[d] = preparePide[d]
    BY <1>0, <1>3 DEF StartTimer, queues, cookVars
  <2>2. PICK p0 \in Pides : p0 = preparePide[c]
    BY <1>3 DEF StartTimer, At, IndInv, CookHasPide, InHand
  <2>3. pc[c] = "startTimer" /\ \A u \in Threads \ {c, p0} : pc'[u] = pc[u]
    BY <1>0, <1>3, <2>2 DEF StartTimer, Goto, ArmTimer, At
  <2>4. \A q \in Pides, d \in Cooks : HeldByCook(d, q) => HeldByCook(d, q)'
    BY <1>0, <2>1, <2>3 DEF HeldByCook
  <2> QED BY <1>i, <1>iii, <2>1, <2>4, NoneLost
<1>4. CASE ~TakeOrder(c) /\ ~PlacePide(c) /\ ~StartTimer(c)
  <2>1. UNCHANGED <<orderQueue, ovenQueue, preparePide>>
    BY <1>4 DEF Cook, WaitForOrder, OrderWoken, WaitForApparatus, TakeApparatus, Claim, ApparatusWoken,
                OvenFull, Retake, OvenWoken, Quit, Release, ReleaseElse, queues, cookVars
  <2>2. CASE pc[c] \in Keeps
    <3>1. \E l \in {"apparatus", "apparatusWait", "oven", "retake", "ovenWait"} : Goto(c, l)
      <4>1. pc[c] \notin {"order", "orderWait", "release", "releaseElse"}
        BY <2>2 DEF Keeps
      <4> QED BY <1>0, <1>4, <4>1, Zenon DEF Cook, WaitForOrder, OrderWoken, WaitForApparatus, TakeApparatus, Claim, ApparatusWoken,
                OvenFull, Retake, OvenWoken, Quit, Release, ReleaseElse, Sleep, At
    <3>2. pc'[c] \in Keeps /\ \A u \in Threads \ {c} : pc'[u] = pc[u]
      BY <1>0, <3>1 DEF Goto, Keeps
    <3>3. \A q \in Pides, d \in Cooks : HeldByCook(d, q) => HeldByCook(d, q)'
      BY <1>0, <2>1, <3>2 DEF HeldByCook, Keeps
    <3> QED BY <1>i, <1>iii, <2>1, <3>3, NoneLost
  <2>3. CASE pc[c] \notin Keeps
    <3>1. \E l : Goto(c, l)
      BY <1>4 DEF Cook, WaitForOrder, OrderWoken, WaitForApparatus, TakeApparatus, Claim, ApparatusWoken,
                OvenFull, Retake, OvenWoken, Quit, Release, ReleaseElse, Sleep
    <3>2. \A q \in Pides, d \in Cooks : HeldByCook(d, q) => HeldByCook(d, q)'
      BY <1>0, <2>1, <2>3, <3>1 DEF Goto, HeldByCook, Keeps
    <3> QED BY <1>i, <1>iii, <2>1, <3>2, NoneLost
  <2> QED BY <2>2, <2>3
<1> QED BY <1>1, <1>2, <1>3, <1>4

\* A timer passes on what it takes out of the oven.
LEMMA TimerPasses ==
    ASSUME IndInv, ~Torn, siparisIptal = FALSE, TimerEmpty, NEW t \in Pides, Timer(t),
           NEW p \in Pides, ~LostAtBreak(p), NEW s \in Spots, Holds(s, p)
    PROVE  \E z \in Spots : Holds(z, p)'
<1>0. /\ pc \in [Threads -> PC] /\ Cooks \cup Pides \cup Motos \subseteq Threads /\ Cooks \cap Pides = {}
      /\ Motos \cap (Cooks \cup Pides) = {} /\ sicakPide \in [Pides -> Item]
      /\ ovenQueue \in Seq(Pides) /\ preparedQueue \in Seq(Item) /\ Phantom \notin Pides
  BY ShopAssumption DEF IndInv, TypeOK, Threads
<1>1. /\ UNCHANGED <<orderQueue, preparePide, bag, trip, delivered>> /\ \E l : Goto(t, l)
  BY DEF Timer, TimerWait, TimerTake, TimerWoken, OvenEmpty, TakeOut, TakeOutWoken, GiveBack, PreparedFull,
                Hand, HandWoken, TimerEnd, Sleep, queues, cookVars, outside, motoVars
<1>2. \A u \in Cooks \cup Motos : pc'[u] = pc[u]
  BY <1>0, <1>1 DEF Goto
<1>3. /\ \A m \in Motos : \A i \in Pending(m) : i \in Pending(m)' /\ bag'[m][i] = bag[m][i]
      /\ \A q \in Pides, d \in Cooks : HeldByCook(d, q) => HeldByCook(d, q)'
  BY <1>1, <1>2 DEF Pending, HeldByCook
<1>4. CASE TakeOut(t)
  <2>1. /\ ovenQueue # << >> /\ ovenQueue' = Tail(ovenQueue) /\ pc[t] = "takeOut" /\ preparedQueue' = preparedQueue
        /\ sicakPide' = [sicakPide EXCEPT ![t] = Head(ovenQueue)]
    BY <1>0, <1>4 DEF TakeOut, First, Rest, At
  <2>2. sicakPide[t] # p
    BY <1>0, <2>1 DEF TimerEmpty
  <2>3. CASE s = "oven"
    <3>1. InQueue(ovenQueue', p) \/ p = Head(ovenQueue)
      BY <1>0, <2>1, <2>3, TailQueue DEF Holds
    <3>2. sicakPide'[t] = Head(ovenQueue)
      BY <1>0, <2>1
    <3>3. Holds("oven", p)' \/ Holds("timer", p)'
      BY <3>1, <3>2 DEF Holds, AtTimer, InQueue
    <3> QED BY <3>3 DEF Spots
  <2>4. CASE s # "oven"
    <3>1. AtTimer(p) => AtTimer(p)'
      BY <1>0, <2>1, <2>2 DEF AtTimer
    <3>2. Holds(s, p)'
      BY <1>1, <1>3, <2>1, <2>4, <3>1 DEF Holds, AtCook, InBag, InQueue
    <3> QED BY <3>2
  <2> QED BY <2>3, <2>4
<1>5. CASE Hand(t)
  <2>1. /\ preparedQueue' = Append(preparedQueue, sicakPide[t]) \/ (sicakPide[t] # p /\ preparedQueue' = preparedQueue)
        /\ ovenQueue' = ovenQueue
        /\ sicakPide' = [sicakPide EXCEPT ![t] = Phantom]
    BY <1>0, <1>5 DEF Hand, Raced, Enqueue, At, LostAtBreak
  <2>2. sicakPide[t] \in Item
    BY <1>0
  <2>3. InQueue(preparedQueue, p) \/ p = sicakPide[t] => InQueue(preparedQueue', p)
    <3>1. CASE preparedQueue' = Append(preparedQueue, sicakPide[t])
      BY <1>0, <2>2, <3>1, AppendQueue
    <3>2. CASE sicakPide[t] # p /\ preparedQueue' = preparedQueue
      BY <3>2 DEF InQueue
    <3> QED BY <2>1, <3>1, <3>2
  <2>4. AtTimer(p) => AtTimer(p)' \/ p = sicakPide[t]
    BY <1>0, <2>1 DEF AtTimer
  <2>5. Holds(s, p)' \/ Holds("prepared", p)'
    BY <1>1, <1>3, <2>1, <2>3, <2>4 DEF Holds, AtCook, InBag, InQueue
  <2> QED BY <2>5 DEF Spots
<1>6. CASE ~TakeOut(t) /\ ~Hand(t)
  <2>1. UNCHANGED <<ovenQueue, preparedQueue, sicakPide>>
    BY <1>6 DEF Timer, TimerWait, TimerTake, TimerWoken, OvenEmpty, TakeOutWoken, GiveBack, PreparedFull,
                HandWoken, TimerEnd, queues
  <2> QED BY <1>1, <1>3, <2>1, NoneLost
<1> QED BY <1>4, <1>5, <1>6

\* A moto keeps what is in its bag until the customer has it.
LEMMA MotoPasses ==
    ASSUME IndInv, ~Torn, siparisIptal = FALSE, cancelled = FALSE, NEW m \in Motos, Moto(m), NEW p \in Pides, NEW s \in Spots, Holds(s, p)
    PROVE  \E z \in Spots : Holds(z, p)'
<1>0. /\ pc \in [Threads -> PC] /\ Cooks \cup Pides \cup Motos \subseteq Threads
      /\ Motos \cap (Cooks \cup Pides) = {} /\ Phantom \notin Pides
      /\ preparedQueue \in Seq(Item) /\ bag \in [Motos -> Seq(Item)] /\ trip \in [Motos -> Nat \ {0}]
  BY ShopAssumption DEF IndInv, TypeOK, Threads
<1>1. UNCHANGED <<orderQueue, ovenQueue, preparePide, sicakPide>> /\ \E l : Goto(m, l)
  BY DEF Moto, LoadWait, LoadWoken, Load, LoadBroke, Leave, Left, Stay, Ride, Travel, Back, Report, EmptyBag,
                EndRound, Exit, Sleep, elsewhere, kitchen, cookVars
<1>2. \A u \in Threads \ {m} : pc'[u] = pc[u]
  BY <1>0, <1>1 DEF Goto
<1>3. \A q \in Pides, d \in Cooks : HeldByCook(d, q) => HeldByCook(d, q)'
  BY <1>0, <1>1, <1>2 DEF HeldByCook
<1>4. \A n \in Motos \ {m} : bag'[n] = bag[n] /\ trip'[n] = trip[n]
  BY <1>0 DEF Moto, LoadWait, LoadWoken, Load, LoadBroke, Leave, Left, Stay, Ride, Travel, Back, Report, EmptyBag,
              motoVars
<1>5. \A n \in Motos \ {m} : \A i \in Pending(n) : i \in Pending(n)' /\ bag'[n][i] = bag[n][i]
  <2>1. ASSUME NEW n \in Motos \ {m} PROVE \A i \in Pending(n) : i \in Pending(n)' /\ bag'[n][i] = bag[n][i]
    <3>1. pc'[n] = pc[n] /\ bag'[n] = bag[n] /\ trip'[n] = trip[n]
      BY <1>0, <1>2, <1>4
    <3> QED BY <3>1 DEF Pending
  <2> QED BY <2>1
<1>6. CASE Load(m)
  <2>0. PICK p0 : p0 = First(preparedQueue)
    OBVIOUS
  <2>1. /\ preparedQueue' = Rest(preparedQueue) /\ bag' = [bag EXCEPT ![m] = Append(bag[m], p0)]
        /\ delivered' = delivered /\ pc'[m] = "load" /\ pc[m] \in {"load", "loadBroke"}
    BY <1>0, <1>6, <2>0 DEF Load, Dequeued, Raced, At, Goto
  <2>2. p0 \in Item /\ bag[m] \in Seq(Item) /\ bag'[m] = Append(bag[m], p0)
    BY <1>0, <2>0, <2>1 DEF First, Item
  <2>3. PICK k \in Nat : k = Len(bag[m])
    BY <2>2
  <2>4. /\ DOMAIN bag[m] = 1..k /\ DOMAIN bag'[m] = 1..(k + 1)
        /\ bag'[m][k + 1] = p0 /\ \A i \in 1..k : bag'[m][i] = bag[m][i]
    BY <2>2, <2>3, AppendProperties
  <2>5. k + 1 \in Pending(m)' /\ \A i \in Pending(m) : i \in Pending(m)' /\ bag'[m][i] = bag[m][i]
    <3>1. Pending(m) = 1..k /\ Pending(m)' = 1..(k + 1)
      BY <2>1, <2>4 DEF Pending
    <3>2. k + 1 \in 1..(k + 1) /\ 1..k \subseteq 1..(k + 1)
      BY <2>3
    <3> QED BY <2>4, <3>1, <3>2
  <2>6. InBag(p) \/ p = p0 => InBag(p)'
    BY <1>5, <2>4, <2>5 DEF InBag
  <2>7. InQueue(preparedQueue, p) => InQueue(preparedQueue', p) \/ p = p0
    <3>1. CASE preparedQueue = << >> BY <2>1, <3>1 DEF InQueue
    <3>2. CASE preparedQueue # << >>
      BY <1>0, <2>0, <2>1, <3>2, TailQueue DEF First, Rest
    <3> QED BY <3>1, <3>2
  <2>8. Holds(s, p)' \/ Holds("bag", p)'
    BY <1>1, <1>3, <2>1, <2>6, <2>7 DEF Holds, AtCook, AtTimer, InQueue
  <2> QED BY <2>8 DEF Spots
<1>7. CASE Travel(m)
  <2>1. PICK a \in Nat, k \in Nat : a = trip[m] /\ k = Len(bag[m]) /\ a <= k
    BY <1>7 DEF Travel, At, IndInv, TypeOK, TripInBag
  <2>2. /\ pc[m] = "travel" /\ delivered' = delivered \cup {bag[m][a]} /\ UNCHANGED <<bag, preparedQueue>>
        /\ \/ trip'[m] = a + 1 /\ pc'[m] = "ride"
           \/ pc'[m] = "back" /\ a = k
    BY <1>0, <1>7, <2>1 DEF Travel, At, Goto
  <2>3. \A i \in Pending(m) : i \in Pending(m)' \/ i = a
    <3>1. Pending(m) = a..k
      BY <2>1, <2>2 DEF Pending
    <3>2. CASE pc'[m] = "ride"
      <4>1. Pending(m)' = (a + 1)..k
        BY <2>1, <2>2, <3>2 DEF Pending
      <4> QED BY <2>1, <3>1, <4>1
    <3>3. CASE pc'[m] = "back"
      <4>1. \A i \in a..k : i = a
        BY <2>1, <2>2, <3>3
      <4> QED BY <3>1, <4>1
    <3> QED BY <2>2, <3>2, <3>3
  <2>4. InBag(p) => InBag(p)' \/ p \in delivered'
    BY <1>5, <2>2, <2>3 DEF InBag
  <2>5. Holds(s, p)' \/ Holds("customer", p)'
    BY <1>1, <1>3, <2>2, <2>4 DEF Holds, AtCook, AtTimer, InQueue
  <2> QED BY <2>5 DEF Spots
<1>8. CASE ~Load(m) /\ ~Travel(m)
  <2>1. UNCHANGED <<preparedQueue, delivered>>
    BY <1>8 DEF Moto, LoadWait, LoadWoken, LoadBroke, Leave, Left, Stay, Ride, Back, Report, EmptyBag, motoVars
  <2>2. \A i \in Pending(m) : i \in Pending(m)' /\ bag'[m][i] = bag[m][i]
    <3>1. CASE LoadWait(m) \/ LoadBroke(m) \/ Leave(m) \/ LoadWoken(m) \/ Stay(m)
      <4>1. /\ pc[m] \in {"load", "loadBroke", "loadWait", "stay"} /\ bag' = bag
            /\ \E l \in {"loadWait", "load", "left", "loadBroke"} : Goto(m, l)
        BY <1>0, <3>1 DEF LoadWait, LoadBroke, Leave, LoadWoken, Stay, EndRound, At, Sleep, motoVars
      <4>2. pc'[m] \in {"loadWait", "load", "left", "loadBroke"}
        BY <1>0, <4>1 DEF Goto
      <4> QED BY <4>1, <4>2 DEF Pending
    <3>2. CASE Left(m)
      <4>1. pc[m] = "left" /\ bag' = bag /\ (pc'[m] = "stay" \/ (pc'[m] = "ride" /\ trip'[m] = 1))
        BY <1>0, <3>2 DEF Left, At, Goto
      <4>2. 1..Len(bag[m]) = DOMAIN bag[m]
        BY <1>0
      <4> QED BY <4>1, <4>2 DEF Pending
    <3>3. CASE Ride(m)
      <4>1. pc[m] = "ride" /\ pc'[m] = "travel" /\ bag' = bag /\ trip' = trip
        BY <1>0, <3>3 DEF Ride, At, Goto, motoVars
      <4> QED BY <4>1 DEF Pending
    <3>4. CASE Back(m) \/ Report(m)
      <4>1. pc[m] \in {"back", "report"}
        BY <3>4 DEF Back, Report, At
      <4> QED BY <4>1 DEF Pending
    <3> QED BY <1>8, <3>1, <3>2, <3>3, <3>4 DEF Moto
  <2> QED BY <1>1, <1>3, <1>5, <2>1, <2>2, NoneLost
<1> QED BY <1>6, <1>7, <1>8

\* As long as the order is not cancelled, a step loses no pide that its cook or its timer thread
\* is not about to drop, unless the shop closes.
LEMMA HeldPasses ==
    ASSUME IndInv, OnePlace, Open, TimerEmpty, siparisIptal = FALSE, [Next]_vars, ~At(Main, "down")',
           NEW p \in Pides, ~LostAtBreak(p), NEW s \in Spots, Holds(s, p)
    PROVE  \E z \in Spots : Holds(z, p)'
<1>0. /\ pc \in [Threads -> PC] /\ Cooks \cup Motos \subseteq Threads /\ Main \in Threads \ (Cooks \cup Motos)
      /\ pc[Main] # "join" /\ cancelled = FALSE /\ ~Torn
  BY ShopAssumption DEF IndInv, TypeOK, Threads, Open
<1>1. (\E c \in Cooks : Cook(c)) => \E z \in Spots : Holds(z, p)'
  <2>1. \A c \in Cooks : pc[c] # "quit"
    BY <1>0 DEF Open
  <2> QED BY <1>0, <2>1, CookPasses
<1>2. (\E t \in Pides : Timer(t)) => \E z \in Spots : Holds(z, p)'
  BY <1>0, TimerPasses
<1>3. (\E m \in Motos : Moto(m)) => \E z \in Spots : Holds(z, p)'
  BY <1>0, MotoPasses
<1>4. ASSUME MainThread \/ Burn \/ (\E c \in Clients : Connect(c) \/ Hear(c) \/ Cancel(c)) \/ UNCHANGED vars
      PROVE  Holds(s, p)'
  <2>1. /\ UNCHANGED <<ovenQueue, preparedQueue, preparePide, sicakPide, bag, trip, delivered>>
        /\ pc' = pc \/ \E l : Goto(Main, l)
    <3>1. ~Down
      BY <1>0 DEF Down, At
    <3> QED BY <1>0, <1>4, <3>1 DEF MainThread, Accept, ReceiveInfo, StoreSocket, StoreSize, ReceiveOrders, PutOrder,
                OrdersFull, CountOrder, ServeCancelled, Served, Join, Burn, BurnEnds, BurnSets, BurnServes, Connect, Hear,
                Cancel, Sleep, At, shop, cookVars, motoVars, vars, queues
  <2>2. \A u \in Cooks \cup Motos : pc'[u] = pc[u]
    BY <1>0, <2>1 DEF Goto
  <2>3. InQueue(orderQueue, p) => InQueue(orderQueue', p)
    <3>1. CASE PutOrder
      <4>1. PICK p0 \in Pides : orderQueue' = Append(orderQueue, p0) /\ orderQueue \in Seq(Pides)
        BY <3>1, NextOrder DEF OnePlace
      <4> QED BY <4>1, AppendQueue
    <3>2. CASE ~PutOrder
      BY <1>4, <3>2 DEF MainThread, Accept, ReceiveInfo, StoreSocket, StoreSize, ReceiveOrders, OrdersFull, CountOrder,
              ServeCancelled, Served, Join, Burn, Connect, Hear, Cancel, vars, queues, InQueue
    <3> QED BY <3>1, <3>2
  <2>4. \A d \in Cooks : HeldByCook(d, p) => HeldByCook(d, p)'
    BY <2>1, <2>2 DEF HeldByCook
  <2>5. ASSUME NEW m \in Motos, NEW i \in Pending(m) PROVE i \in Pending(m)' /\ bag'[m][i] = bag[m][i]
    BY <2>1, <2>2 DEF Pending
  <2> QED BY <2>1, <2>3, <2>4, <2>5 DEF Holds, AtCook, AtTimer, InBag, InQueue
<1> QED BY <1>1, <1>2, <1>3, <1>4 DEF Next

\* An order that main puts is in orderQueue, and a pide that was somewhere is somewhere.
LEMMA PidePasses ==
    ASSUME IndInv, Undisturbed, OnePlace, Open, TimerEmpty, siparisIptal = FALSE, [Next]_vars,
           NEW p \in Pides, ~LostAtBreak(p), NotYet(p) \/ \E s \in Spots : Holds(s, p)
    PROVE  NotYet(p)' \/ \E z \in Spots : Holds(z, p)'
<1> SUFFICES ASSUME ~NotYet(p)' PROVE \E z \in Spots : Holds(z, p)'
  OBVIOUS
<1>1. CASE NotYet(p)
  <2>1. PutOrder /\ p = <<cur, newOrder>>
    BY <1>1, OrdersWait
  <2>2. orderQueue' = Append(orderQueue, p) /\ orderQueue \in Seq(Pides)
    BY <2>1, NextOrder DEF OnePlace
  <2>3. InQueue(orderQueue', p)
    BY <2>2, AppendQueue
  <2>4. Holds("order", p)'
    BY <2>3 DEF Holds, InQueue
  <2> QED BY <2>4 DEF Spots
<1>2. CASE ~NotYet(p)
  <2>1. pc[Main] \notin {"join", "down"} /\ Main \in Threads \ (Cooks \cup Pides \cup Motos) /\ pc \in [Threads -> PC]
    BY ShopAssumption DEF Open, IndInv, TypeOK, Threads
  <2>2. ~At(Main, "down")'
    <3>1. ASSUME MainThread \/ \E c \in Clients : Connect(c) \/ Hear(c) \/ Cancel(c)
          PROVE  pc' = pc \/ \E l \in PC \ {"down"} : Goto(Main, l)
      <4>1. \A l \in {"accept", "info", "socket", "size", "orders", "put", "putWait", "count", "serve", "join"} :
               l \in PC \ {"down"}
        BY DEF PC
      <4> QED BY <2>1, <3>1, <4>1 DEF MainThread, Accept, ReceiveInfo, StoreSocket, StoreSize, ReceiveOrders, PutOrder,
                OrdersFull, CountOrder, ServeCancelled, Served, Join, Connect, Hear, Cancel, Sleep, At, AfterOrders
    <3>2. (\E c \in Cooks : Cook(c)) \/ (\E t \in Pides : Timer(t)) \/ (\E m \in Motos : Moto(m)) \/ UNCHANGED vars
          => pc'[Main] = pc[Main]
      BY ThreadsOnly
    <3> QED BY <2>1, <3>1, <3>2 DEF Next, Undisturbed, Goto, At
  <2> QED BY <1>2, <2>2, HeldPasses
<1> QED BY <1>1, <1>2

\* No step of a calm shop loses a pide.
LEMMA PresentKept ==
    Undisturbed /\ IndInv /\ OnePlace /\ FirstTimer /\ Calm /\ TimerEmpty /\ Present /\ [Next]_vars => Present'
<1>1. Calm => siparisIptal = FALSE /\ \A p \in Pides : ~LostAtBreak(p)
  BY DEF Calm, Broken, Threads, LostAtBreak, At
<1> QED BY <1>1, PidePasses, CalmOpen DEF Present

\* A timer thread has a pide between the two queues only.
LEMMA TimerEmptyKept ==
    ~Burn /\ IndInv /\ FirstTimer /\ Open /\ TimerEmpty /\ [Next]_vars => TimerEmpty'
<1> SUFFICES ASSUME ~Burn, IndInv, FirstTimer, Open, TimerEmpty, [Next]_vars PROVE TimerEmpty'
  OBVIOUS
<1>0. /\ pc \in [Threads -> PC] /\ Cooks \cup Pides \subseteq Threads /\ Cooks \cap Pides = {}
      /\ sicakPide \in [Pides -> Item]
  BY ShopAssumption DEF IndInv, TypeOK, Threads, Open
<1>1. ASSUME NEW c \in Cooks, Cook(c) PROVE TimerEmpty'
  <2>1. sicakPide' = sicakPide
    BY <1>1 DEF Cook, WaitForOrder, TakeOrder, OrderWoken, WaitForApparatus, TakeApparatus, Claim, ApparatusWoken,
                OvenFull, Retake, PlacePide, OvenWoken, Quit, Release, ReleaseElse, StartTimer
  <2>2. CASE StartTimer(c) /\ pc' = ArmTimer(c)
    <3>1. PICK p0 \in Pides : p0 = preparePide[c]
      BY <2>2 DEF StartTimer, At, IndInv, CookHasPide, InHand
    <3>2. pc[c] = "startTimer" /\ pc' = [pc EXCEPT ![c] = "order", ![p0] = "armed"]
      BY <1>0, <2>2, <3>1 DEF StartTimer, ArmTimer, At
    <3>3. pc[p0] \in {"none", "down"} /\ pc[p0] # "down"
      BY <1>0, <3>1, <3>2 DEF FirstTimer, Started, InHands, InHand, Open
    <3>4. \A t \in Pides \ {p0} : pc'[t] = pc[t]
      BY <1>0, <3>2
    <3> QED BY <2>1, <3>3, <3>4 DEF TimerEmpty
  <2>3. CASE ~(StartTimer(c) /\ pc' = ArmTimer(c))
    <3>1. CASE StartTimer(c)
      <4>1. pc' = [pc EXCEPT ![c] = "order"] \/ pc' = [pc EXCEPT ![c] = "exit"]
        BY <2>3, <3>1 DEF StartTimer, Goto
      <4> QED BY <1>0, <2>1, <4>1 DEF TimerEmpty
    <3>2. CASE ~StartTimer(c)
      <4>1. \E l : Goto(c, l)
        BY <1>1, <3>2 DEF Cook, WaitForOrder, TakeOrder, OrderWoken, WaitForApparatus, TakeApparatus, Claim, ApparatusWoken,
                OvenFull, Retake, PlacePide, OvenWoken, Quit, Release, ReleaseElse, Sleep
      <4> QED BY <1>0, <2>1, <4>1 DEF Goto, TimerEmpty
    <3> QED BY <3>1, <3>2
  <2> QED BY <2>2, <2>3
<1>2. ASSUME NEW t \in Pides, Timer(t) PROVE TimerEmpty'
  <2>1. CASE TakeOut(t) \/ Hand(t)
    <3>1. /\ \E l \in {"giveBack", "handed"} : Goto(t, l)
          /\ \A u \in Pides \ {t} : sicakPide'[u] = sicakPide[u]
      BY <1>0, <2>1 DEF TakeOut, Hand
    <3>2. pc'[t] \in {"giveBack", "handed"} /\ \A u \in Pides \ {t} : pc'[u] = pc[u]
      BY <1>0, <3>1 DEF Goto
    <3> QED BY <3>1, <3>2 DEF TimerEmpty
  <2>2. CASE TimerWait(t) \/ TimerTake(t) \/ TimerWoken(t) \/ OvenEmpty(t) \/ TakeOutWoken(t)
    <3>1. /\ sicakPide' = sicakPide /\ pc[t] \in {"armed", "timerWait", "takeOut", "takeOutWait"}
          /\ \E l : Goto(t, l)
      BY <2>2 DEF TimerWait, TimerTake, TimerWoken, OvenEmpty, TakeOutWoken, Sleep, At
    <3> QED BY <1>0, <3>1 DEF TimerEmpty, Goto
  <2>3. CASE GiveBack(t) \/ PreparedFull(t) \/ HandWoken(t) \/ TimerEnd(t)
    <3>1. sicakPide' = sicakPide /\ \E l \in {"hand", "handWait", "handBroke", "done"} : Goto(t, l)
      BY <1>0, <2>3, Zenon DEF GiveBack, PreparedFull, HandWoken, TimerEnd, Sleep
    <3> QED BY <1>0, <3>1 DEF TimerEmpty, Goto
  <2> QED BY <1>2, <2>1, <2>2, <2>3 DEF Timer
<1>3. ASSUME \/ \E m \in Motos : Moto(m)
             \/ MainThread \/ Burn
             \/ \E c \in Clients : Connect(c) \/ Hear(c) \/ Cancel(c)
             \/ UNCHANGED vars
      PROVE  TimerEmpty'
  <2>1. sicakPide' = sicakPide /\ \A t \in Cooks \cup Pides : pc'[t] = pc[t]
    BY <1>3, KitchenRests
  <2> QED BY <2>1 DEF TimerEmpty
<1> QED BY <1>1, <1>2, <1>3 DEF Next

\* Main goes through the numbers of an order one by one.
LEMMA LastOrderKept == Undisturbed /\ IndInv /\ Open /\ LastOrder /\ [Next]_vars => LastOrder'
<1> SUFFICES ASSUME Undisturbed, IndInv, Open, LastOrder, [Next]_vars PROVE LastOrder'
  OBVIOUS
<1>0. /\ Main \in Threads /\ pc \in [Threads -> PC] /\ newOrder \in Nat \ {0} /\ pc[Main] # "join"
      /\ client \in [Clients -> {"idle", "waiting"} \cup Final]
  BY DEF Threads, IndInv, TypeOK, Open
<1>1. CASE UNCHANGED <<cur, newOrder>> /\ pc'[Main] = pc[Main]
  BY <1>1 DEF LastOrder
<1>2. CASE Accept \/ ReceiveInfo \/ StoreSocket \/ StoreSize \/ PutOrder \/ OrdersFull
  <2>1. \E l \in {"info", "socket", "size", "orders", "count", "putWait"} : Goto(Main, l)
    BY <1>2, Zenon DEF Accept, ReceiveInfo, StoreSocket, StoreSize, PutOrder, OrdersFull, Sleep
  <2>2. pc'[Main] \in {"info", "socket", "size", "orders", "count", "putWait"}
    BY <1>0, <2>1 DEF Goto
  <2> QED BY <2>2 DEF LastOrder
<1>3. CASE ReceiveOrders
  <2>1. cur \in Clients /\ pc' = [pc EXCEPT ![Main] = AfterOrders(1)]
    BY <1>3 DEF ReceiveOrders, At, Goto, IndInv, OrderInRange, Early
  <2>2. 1 <= Size[cur]
    BY <2>1, ShopAssumption
  <2>3. pc'[Main] = "put"
    BY <1>0, <2>1, <2>2 DEF AfterOrders
  <2> QED BY <2>3 DEF LastOrder
<1>4. CASE CountOrder
  <2>1. /\ pc[Main] = "count" /\ pc' = [pc EXCEPT ![Main] = AfterOrders(newOrder + 1)] /\ newOrder' = newOrder + 1
        /\ cur' = cur
    BY <1>4 DEF CountOrder, Goto, At
  <2>2. cur \in Clients /\ newOrder <= Size[cur] /\ Size[cur] \in Nat
    BY <2>1, ShopAssumption DEF IndInv, OrderInRange
  <2>3. ~(newOrder + 1 <= Size[cur]) => newOrder + 1 = Size[cur] + 1
    BY <1>0, <2>2
  <2>4. newOrder + 1 <= Size[cur] => pc'[Main] = "put"
    BY <1>0, <2>1 DEF AfterOrders
  <2> QED BY <2>1, <2>3, <2>4 DEF LastOrder
<1>5. CASE Served
  <2>1. pc[Main] = "serve" /\ UNCHANGED <<cur, newOrder>>
    BY <1>5 DEF Served, At, mainVars
  <2> QED BY <2>1 DEF LastOrder
<1>6. CASE ServeCancelled
  BY <1>6 DEF Undisturbed
<1>7. ASSUME (\E c \in Cooks : Cook(c)) \/ (\E t \in Pides : Timer(t)) \/ (\E m \in Motos : Moto(m)) \/ UNCHANGED vars
      PROVE  UNCHANGED <<cur, newOrder>> /\ pc'[Main] = pc[Main]
  BY <1>7, ThreadsOnly
<1>8. ASSUME \E c \in Clients : Connect(c) \/ Hear(c) \/ Cancel(c)
      PROVE  UNCHANGED <<cur, newOrder>> /\ pc'[Main] = pc[Main]
  BY <1>8 DEF Connect, Hear, Cancel, mainVars
<1>9. CASE Join \/ Burn
  BY <1>0, <1>9 DEF Join, Burn, Undisturbed, At
<1> QED BY <1>1, <1>2, <1>3, <1>4, <1>5, <1>6, <1>7, <1>8, <1>9 DEF Next, MainThread

\* A moto loads only when it has room, and a moto that waits for a pide still has it.
LEMMA BagRoomKept == IndInv /\ BagRoom /\ [Next]_vars => BagRoom'
<1> SUFFICES ASSUME IndInv, BagRoom, [Next]_vars, NEW m \in Motos
             PROVE  (Len(bag[m]) <= BagCap /\ (pc[m] \in {"loadWait", "loadBroke"} => Len(bag[m]) < BagCap))'
  BY DEF BagRoom
<1>0. /\ pc \in [Threads -> PC] /\ Cooks \cup Pides \cup Motos \subseteq Threads /\ BagCap \in Nat
      /\ Motos \cap (Cooks \cup Pides) = {} /\ Main \notin Motos
      /\ preparedQueue \in Seq(Item) /\ bag \in [Motos -> Seq(Item)] /\ bag[m] \in Seq(Item)
  BY ShopAssumption DEF IndInv, TypeOK, Threads
<1>1. /\ Len(bag[m]) \in Nat /\ Len(bag[m]) <= BagCap
      /\ pc[m] \in {"loadWait", "loadBroke"} => Len(bag[m]) < BagCap
  BY <1>0 DEF BagRoom
<1>2. CASE bag'[m] = bag[m] /\ (pc'[m] \in {"loadWait", "loadBroke"} => pc[m] \in {"loadWait", "loadBroke"})
  BY <1>1, <1>2
<1>3. CASE Moto(m)
  <2>1. CASE Load(m)
    <3>1. PICK p0 \in Item : bag'[m] = Append(bag[m], p0)
      <4>1. Dequeued \subseteq Item
        BY <1>0 DEF Dequeued, First, Item
      <4> QED BY <1>0, <2>1, <4>1 DEF Load
    <3>2. Len(bag'[m]) = Len(bag[m]) + 1
      BY <1>0, <3>1
    <3>3. Len(bag[m]) < BagCap
      BY <1>1, <2>1 DEF Load, At
    <3>4. pc'[m] = "load"
      BY <1>0, <2>1 DEF Load, Goto
    <3> QED BY <1>0, <1>1, <3>2, <3>3, <3>4
  <2>2. CASE LoadWait(m)
    <3>1. bag'[m] = bag[m] /\ Len(bag[m]) < BagCap
      BY <2>2 DEF LoadWait, motoVars
    <3> QED BY <1>1, <3>1
  <2>3. CASE LoadWoken(m)
    <3>1. pc[m] = "loadWait" /\ (bag'[m] = bag[m] \/ bag'[m] = << >>)
      BY <1>0, <2>3 DEF LoadWoken, At
    <3>2. Len(<< >>) = 0 /\ 0 <= Len(bag[m])
      BY <1>1
    <3>3. Len(bag'[m]) <= Len(bag[m])
      BY <1>1, <3>1, <3>2
    <3> QED BY <1>0, <1>1, <3>1, <3>2
  <2>4. CASE ~Load(m) /\ ~LoadWait(m) /\ ~LoadWoken(m)
    <3>1. bag'[m] = bag[m] \/ bag'[m] = << >>
      BY <1>0, <1>3, <2>4 DEF Moto, LoadBroke, Leave, Left, Stay, Ride, Travel, Back, Report, EmptyBag, motoVars
    <3>2. pc'[m] \notin {"loadWait", "loadBroke"}
      <4>1. CASE Ride(m) \/ Back(m)
        BY <1>0, <4>1 DEF Ride, Back, EmptyBag, EndRound, Exit, Goto
      <4>2. CASE ~Ride(m) /\ ~Back(m)
        <5>1. \E l \in {"load", "left", "exit", "ride", "stay", "back"} : Goto(m, l)
          BY <1>3, <2>4, <4>2, Zenon DEF Moto, LoadBroke, Leave, Left, Stay, Travel, Report, EmptyBag, EndRound, Exit
        <5> QED BY <1>0, <5>1 DEF Goto
      <4> QED BY <4>1, <4>2
    <3>3. Len(<< >>) = 0
      OBVIOUS
    <3> QED BY <1>0, <1>1, <3>1, <3>2, <3>3
  <2> QED BY <2>1, <2>2, <2>3, <2>4
<1>4. ASSUME NEW n \in Motos \ {m}, Moto(n) PROVE bag'[m] = bag[m] /\ pc'[m] = pc[m]
  <2>1. /\ bag'[m] = bag[m] /\ \E l : Goto(n, l)
    BY <1>0, <1>4 DEF Moto, LoadWait, LoadWoken, Load, LoadBroke, Leave, Left, Stay, Ride, Travel, Back, Report, EmptyBag,
                EndRound, Exit, Sleep, motoVars
  <2> QED BY <1>0, <2>1 DEF Goto
<1>5. ASSUME NEW c \in Cooks, Cook(c) PROVE bag'[m] = bag[m] /\ pc'[m] = pc[m]
  <2>1. bag' = bag
    BY <1>5 DEF Cook, WaitForOrder, TakeOrder, OrderWoken, WaitForApparatus, TakeApparatus, Claim, ApparatusWoken,
                OvenFull, Retake, PlacePide, OvenWoken, Quit, Release, ReleaseElse, StartTimer, outside, motoVars
  <2>2. preparePide[c] \in Pides \/ ~StartTimer(c)
    BY DEF StartTimer, At, IndInv, CookHasPide, InHand
  <2>3. (\E l : Goto(c, l)) \/ (StartTimer(c) /\ pc' = ArmTimer(c))
    BY <1>0, <1>5 DEF Cook, WaitForOrder, TakeOrder, OrderWoken, WaitForApparatus, TakeApparatus, Claim, ApparatusWoken,
                OvenFull, Retake, PlacePide, OvenWoken, Quit, Release, ReleaseElse, StartTimer, Sleep, Goto
  <2> QED BY <1>0, <2>1, <2>2, <2>3 DEF Goto, ArmTimer
<1>6. ASSUME NEW t \in Pides, Timer(t) PROVE bag'[m] = bag[m] /\ pc'[m] = pc[m]
  <2>1. bag' = bag /\ \E l : Goto(t, l)
    BY <1>6 DEF Timer, TimerWait, TimerTake, TimerWoken, OvenEmpty, TakeOut, TakeOutWoken, GiveBack, PreparedFull,
                Hand, HandWoken, TimerEnd, Sleep, outside, motoVars
  <2> QED BY <1>0, <2>1 DEF Goto
<1>7. ASSUME MainThread \/ Burn \/ (\E c \in Clients : Connect(c) \/ Hear(c) \/ Cancel(c)) \/ UNCHANGED vars
      PROVE  bag'[m] = bag[m] /\ (pc'[m] = pc[m] \/ pc'[m] = "down")
  <2>1. bag' = bag /\ (Down \/ pc' = pc \/ \E l : Goto(Main, l))
    BY <1>7 DEF MainThread, Accept, ReceiveInfo, StoreSocket, StoreSize, ReceiveOrders, PutOrder, OrdersFull, CountOrder, ServeCancelled, Served, Join,
                Burn, BurnEnds, BurnSets, BurnServes, Connect, Hear, Cancel, Sleep, shop, motoVars, vars
  <2> QED BY <1>0, <2>1 DEF Down, Goto
<1> QED BY <1>2, <1>3, <1>4, <1>5, <1>6, <1>7 DEF Next

\* At the start no timer has a pide and all bags are empty.
LEMMA StartsEmpty == Init => Present /\ TimerEmpty /\ LastOrder /\ BagRoom
<1> SUFFICES ASSUME Init PROVE Present /\ TimerEmpty /\ LastOrder /\ BagRoom
  OBVIOUS
<1>1. Present
  <2>1. \A p \in Pides : p[1] \in Clients
    BY PideParts
  <2> QED BY <2>1 DEF Init, Present, NotYet
<1>2. TimerEmpty /\ LastOrder
  BY DEF Init, TimerEmpty, LastOrder
<1>3. \A m \in Motos : bag[m] = << >> /\ pc[m] = "load"
  BY ShopAssumption DEF Init, Threads
<1>4. Len(<< >>) = 0 /\ BagCap \in Nat
  BY ShopAssumption
<1>5. BagRoom
  BY <1>3, <1>4 DEF BagRoom
<1> QED BY <1>1, <1>2, <1>5

\* What main has not yet put, and what it has.
LEMMA OrderedMeans ==
    ASSUME IndInv, Arrivals, Open, LastOrder, NEW p \in Pides
    PROVE  NotYet(p) <=> ~Ordered(p)
<1>0. /\ cur \in Clients \cup {Nobody} /\ newOrder \in Nat \ {0} /\ Nobody \notin Clients
      /\ p[1] \in Clients /\ p[2] \in Nat /\ Size[p[1]] \in Nat /\ 1 <= p[2] /\ p[2] <= Size[p[1]]
      /\ pc[Main] \in {"accept", "info", "socket", "size", "orders", "put", "putWait", "count", "serve"}
  BY PideNumber, ShopAssumption DEF IndInv, TypeOK, Open
<1>1. CASE p[1] # cur
  BY <1>1 DEF NotYet, Ordered
<1>2. CASE p[1] = cur
  <2>1. client[cur] # "idle" /\ cur \notin backlog
    BY <1>0, <1>2 DEF Arrivals
  <2>2. CASE pc[Main] \in Early
    BY <1>2, <2>1, <2>2 DEF NotYet, Early, Ordered, At
  <2>3. CASE pc[Main] \in {"put", "putWait"}
    <3>1. p[2] >= newOrder <=> ~(p[2] < newOrder)
      BY <1>0
    <3> QED BY <1>2, <2>1, <2>3, <3>1 DEF NotYet, Early, Ordered, At
  <2>4. CASE pc[Main] = "count"
    <3>1. p[2] > newOrder <=> ~(p[2] < newOrder \/ p[2] = newOrder)
      BY <1>0
    <3> QED BY <1>2, <2>1, <2>4, <3>1 DEF NotYet, Early, Ordered, At
  <2>5. CASE pc[Main] \in {"accept", "serve"}
    <3>1. newOrder = Size[cur] + 1
      BY <1>0, <1>2, <2>5 DEF LastOrder
    <3>2. p[2] < newOrder
      BY <1>0, <1>2, <3>1
    <3> QED BY <1>2, <2>1, <2>5, <3>2 DEF NotYet, Early, Ordered, At
  <2> QED BY <1>0, <2>2, <2>3, <2>4, <2>5 DEF Early
<1> QED BY <1>1, <1>2

\* The place of a pide in a bag is one of the bag's BagCap places.
LEMMA BagCounts ==
    ASSUME IndInv, OnePlace, BagRoom, NEW p \in Pides
    PROVE  Holds("bag", p) <=> BagPlaces(p) # {}
<1>1. ASSUME Holds("bag", p) PROVE BagPlaces(p) # {}
  <2>0. PICK m \in Motos : \E i \in Pending(m) : bag[m][i] = p
    BY <1>1 DEF Holds, InBag
  <2>1. PICK i \in Pending(m) : bag[m][i] = p
    BY <2>0
  <2>2. Pending(m) \subseteq 1..Len(bag[m])
    BY DEF Pending, IndInv, TypeOK
  <2>3. i \in 1..BagCap
    <3>1. Len(bag[m]) \in Nat /\ Len(bag[m]) <= BagCap /\ BagCap \in Nat
      BY ShopAssumption DEF IndInv, TypeOK, BagRoom
    <3> QED BY <2>2, <3>1
  <2>4. <<m, i>> \in BagPlaces(p)
    BY <2>1, <2>3 DEF BagPlaces
  <2> QED BY <2>4
<1> QED BY <1>1, CopiesCount

\* A pide that is ordered and somewhere is there once, and one that is not ordered is nowhere.
LEMMA ExactlyOne ==
    ASSUME IndInv, OnePlace, Open, LastOrder, BagRoom, NEW p \in Pides, NotYet(p) \/ \E s \in Spots : Holds(s, p)
    PROVE  Copies(p) = IF Ordered(p) THEN 1 ELSE 0
<1>1. NotYet(p) <=> ~Ordered(p)
  BY OrderedMeans DEF OnePlace
<1>2. \A s, z \in Spots : Holds(s, p) /\ Holds(z, p) => s = z
  BY DEF OnePlace, Apart
<1>3. \A s \in {"order", "oven", "prepared", "cook", "timer", "customer", "bag"} :
         \A z \in {"order", "oven", "prepared", "cook", "timer", "customer", "bag"} :
            Holds(s, p) /\ Holds(z, p) => s = z
  BY <1>2 DEF Spots
<1>4. Holds("bag", p) <=> BagPlaces(p) # {}
  BY BagCounts
<1>5. Ordered(p) => \E s \in Spots : Holds(s, p)
  BY <1>1
<1>6. ~Ordered(p) => \A s \in Spots : ~Holds(s, p)
  BY <1>1 DEF OnePlace, Apart
<1>7. Ordered(p) => \E s \in {"order", "oven", "prepared", "cook", "timer", "customer", "bag"} : Holds(s, p)
  BY <1>5 DEF Spots
<1>8. ~Ordered(p) => \A s \in {"order", "oven", "prepared", "cook", "timer", "customer", "bag"} : ~Holds(s, p)
  BY <1>6 DEF Spots
<1>9. Cardinality(BagPlaces(p)) = IF Holds("bag", p) THEN 1 ELSE 0
  BY <1>4, CopiesCount
<1>10. LET one(s) == IF Holds(s, p) THEN 1 ELSE 0
       IN  Copies(p) = one("order") + one("oven") + one("prepared") + one("cook") + one("timer")
                       + one("bag") + one("customer")
  BY <1>9, CopiesCount
<1> QED BY <1>3, <1>7, <1>8, <1>10

\* Without cancellations and shutdowns, whatever the interleaving, the orders and the capacities:
\* a pide that was ordered is in exactly one place. None is dropped at a full queue, overwritten
\* in a timer thread's hands, left in the oven or forgotten in a bag.
THEOREM NoPideLost == ASSUME NoSignals PROVE Spec => []PideConserved
<1> DEFINE I == IndInv /\ OnePlace /\ FirstTimer /\ Calm
           J == Present /\ TimerEmpty /\ LastOrder /\ BagRoom
<1>1. I /\ J /\ [Next]_vars => J'
  BY PresentKept, TimerEmptyKept, LastOrderKept, BagRoomKept, NothingDisturbs, CalmOpen DEF Undisturbed
<1>2. I /\ J => PideConserved
  BY ExactlyOne, CalmOpen DEF Present, PideConserved
<1> QED BY <1>1, <1>2, CalmShop, StartsEmpty, PTL DEF Spec

-----------------------------------------------------------------------------
(* With cancellations, until SIGINT. *)

\* A step of a thread of the shop that stays in it.
LEMMA OpenOn ==
    ASSUME IndInv, Open, NEW t \in Threads \ {Main}, NEW l, l \notin {"quit", "exit", "join", "down"},
           pc' = [pc EXCEPT ![t] = l], UNCHANGED <<cancelled, client, mail>>, ~Torn'
    PROVE  Open'
<1>1. pc \in [Threads -> PC] /\ Main \in Threads
  BY DEF IndInv, TypeOK, Threads
<1>2. \A u \in Threads : pc'[u] \notin {"quit", "exit", "join", "down"}
  BY <1>1 DEF Open
<1>3. pc'[Main] = pc[Main]
  BY <1>1
<1> QED BY <1>2, <1>3 DEF Open

\* A cook leaves an open shop at no step.
LEMMA CookOpen == ASSUME IndInv, Open, ~Torn', NEW c \in Cooks, Cook(c) PROVE Open'
<1>0. /\ pc \in [Threads -> PC] /\ Cooks \cup Pides \subseteq Threads /\ Main \in Threads \ (Cooks \cup Pides)
      /\ cancelled = FALSE /\ pc[c] # "quit"
  BY ShopAssumption DEF IndInv, TypeOK, Threads, Open
<1>1. UNCHANGED <<cancelled, client, mail>> /\ c \in Threads \ {Main}
  BY <1>0 DEF Cook, WaitForOrder, TakeOrder, OrderWoken, WaitForApparatus, TakeApparatus, Claim, ApparatusWoken,
              OvenFull, Retake, PlacePide, OvenWoken, Quit, Release, ReleaseElse, StartTimer, outside,
              flags, clientVars
<1>2. CASE ~(StartTimer(c) /\ pc' = ArmTimer(c))
  <2>1. \E l \in {"orderWait", "apparatus", "order", "apparatusWait", "apparatusBroke", "oven", "retake", "release",
                  "ovenWait", "ovenBroke", "startTimer", "releaseElse"} : pc' = [pc EXCEPT ![c] = l]
    <3>1. CASE StartTimer(c)
      BY <1>0, <1>2, <3>1 DEF StartTimer
    <3>2. CASE ~StartTimer(c)
      <4>1. \E l \in {"orderWait", "apparatus", "order", "apparatusWait", "apparatusBroke", "oven", "retake", "release",
                  "ovenWait", "ovenBroke", "startTimer", "releaseElse"} : Goto(c, l)
        BY <1>0, <3>2, Zenon DEF Cook, WaitForOrder, TakeOrder, OrderWoken, WaitForApparatus, TakeApparatus, Claim,
                ApparatusWoken, OvenFull, Retake, PlacePide, OvenWoken, Quit, Release, ReleaseElse, Sleep, At
      <4> QED BY <4>1 DEF Goto
    <3> QED BY <3>1, <3>2
  <2> QED BY <1>1, <2>1, OpenOn
<1>3. CASE StartTimer(c) /\ pc' = ArmTimer(c)
  <2>1. preparePide[c] \in Pides
    BY <1>3 DEF StartTimer, At, IndInv, CookHasPide, InHand
  <2>2. (\A u \in Threads : pc'[u] \in {pc[u], "order", "armed"}) /\ pc'[Main] = pc[Main]
    BY <1>0, <1>3, <2>1 DEF ArmTimer
  <2> QED BY <1>1, <2>2 DEF Open
<1> QED BY <1>2, <1>3

\* Nor does a timer thread.
LEMMA TimerOpen == ASSUME IndInv, Open, ~Torn', NEW t \in Pides, Timer(t) PROVE Open'
<1>0. t \in Threads \ {Main} /\ cancelled = FALSE
  BY ShopAssumption DEF Threads, Open
<1>1. UNCHANGED <<cancelled, client, mail>>
  BY DEF Timer, TimerWait, TimerTake, TimerWoken, OvenEmpty, TakeOut, TakeOutWoken, GiveBack, PreparedFull,
              Hand, HandWoken, TimerEnd, outside, flags, clientVars
<1>2. \E l \in {"timerWait", "takeOut", "done", "armed", "takeOutWait", "giveBack", "hand", "handWait", "handBroke",
                "handed"} : Goto(t, l)
  BY <1>0, Zenon DEF Timer, TimerWait, TimerTake, TimerWoken, OvenEmpty, TakeOut, TakeOutWoken, GiveBack, PreparedFull,
              Hand, HandWoken, TimerEnd, Sleep
<1> QED BY <1>0, <1>1, <1>2, OpenOn DEF Goto

\* Nor does a moto, and it tells nobody BURNED.
LEMMA MotoOpen == ASSUME IndInv, Open, ~Torn', NEW m \in Motos, Moto(m) PROVE Open'
<1>0. /\ pc \in [Threads -> PC] /\ m \in Threads \ {Main} /\ Main \in Threads /\ cancelled = FALSE
      /\ mail \in [Clients -> {"none", "DELIVERED", "BURNED"}]
  BY ShopAssumption DEF IndInv, TypeOK, Threads, Open
<1>1. UNCHANGED <<cancelled, client>>
  BY DEF Moto, LoadWait, LoadWoken, Load, LoadBroke, Leave, Left, Stay, Ride, Travel, Back, Report,
         EmptyBag, elsewhere, flags
<1>2. \E l \in {"loadWait", "loadBroke", "load", "left", "ride", "stay", "travel", "back", "report"} : Goto(m, l)
  <2>1. CASE Ride(m)
    BY <1>0, <2>1 DEF Ride
  <2>2. CASE Back(m)
    BY <1>0, <2>2 DEF Back, EmptyBag, EndRound
  <2>3. CASE ~Ride(m) /\ ~Back(m)
    BY <1>0, <2>3, Zenon DEF Moto, LoadWait, LoadWoken, Load, LoadBroke, Leave, Left, Stay, Travel, Report,
                EmptyBag, EndRound, Sleep
  <2> QED BY <2>1, <2>2, <2>3
<1>3. PICK l : pc' = [pc EXCEPT ![m] = l] /\ l \notin {"quit", "exit", "join", "down"}
  BY <1>2 DEF Goto
<1>4. (\A u \in Threads : pc'[u] \notin {"quit", "exit", "join", "down"}) /\ pc'[Main] = pc[Main]
  BY <1>0, <1>3 DEF Open
<1>5. mail' = mail \/ Tell("DELIVERED")
  BY DEF Moto, LoadWait, LoadWoken, Load, LoadBroke, Leave, Left, Stay, Ride, Travel, Back, Report
<1>6. \A c \in Clients : mail'[c] # "BURNED"
  BY <1>0, <1>5 DEF Tell, Open
<1> QED BY <1>1, <1>4, <1>6 DEF Open

\* Without SIGINT, the shop stays open.
LEMMA OpenKept == ~Burn /\ IndInv /\ Open /\ [Next]_vars => Open'
<1> SUFFICES ASSUME ~Burn, IndInv, Open, [Next]_vars PROVE Open'
  OBVIOUS
<1>0. /\ pc \in [Threads -> PC] /\ Main \in Threads /\ cancelled = FALSE
      /\ client \in [Clients -> {"idle", "waiting"} \cup Final]
      /\ mail \in [Clients -> {"none", "DELIVERED", "BURNED"}]
  BY DEF IndInv, TypeOK, Threads, Open
<1>t. ~Torn'
  BY TornMeans DEF Open
<1> USE <1>t
<1>1. CASE MainThread
  <2>1. UNCHANGED <<cancelled, client, mail>> /\ pc[Main] # "join"
    BY <1>1 DEF MainThread, Accept, ReceiveInfo, StoreSocket, StoreSize, ReceiveOrders, PutOrder, OrdersFull, CountOrder, ServeCancelled, Served, Join,
                flags, clientVars, Open
  <2>2. pc[Main] = "serve" => client[cur] # "BURNED"
    BY DEF Open, IndInv, OrderInRange
  <2>3. \E l \in {"accept", "info", "socket", "size", "orders", "put", "putWait", "count", "serve"} : Goto(Main, l)
    BY <1>1, <2>1, <2>2, Zenon DEF MainThread, Accept, ReceiveInfo, StoreSocket, StoreSize, ReceiveOrders, PutOrder, OrdersFull, CountOrder, ServeCancelled, Served, Join,
                Sleep, AfterOrders, At
  <2>4. PICK l \in {"accept", "info", "socket", "size", "orders", "put", "putWait", "count", "serve"} : pc' = [pc EXCEPT ![Main] = l]
    BY <2>3 DEF Goto
  <2>5. pc'[Main] = l /\ \A u \in Threads \ {Main} : pc'[u] = pc[u]
    BY <1>0, <2>4
  <2> QED BY <2>1, <2>5 DEF Open
<1>2. ASSUME NEW c \in Clients, Connect(c) \/ Hear(c) \/ Cancel(c) PROVE Open'
  <2>1. UNCHANGED <<cancelled, mail, pc>>
    BY <1>2 DEF Connect, Hear, Cancel, flags
  <2>2. \E w \in {"waiting", "CANCELLED", mail[c]} : client' = [client EXCEPT ![c] = w]
    BY <1>2 DEF Connect, Hear, Cancel
  <2> QED BY <1>0, <2>1, <2>2 DEF Open
<1>3. CASE UNCHANGED vars
  BY <1>3 DEF vars, flags, clientVars, Open
<1> QED BY <1>1, <1>2, <1>3, CookOpen, TimerOpen, MotoOpen DEF Next

\* The process ends for good.
LEMMA DownKept == IndInv /\ At(Main, "down") /\ [Next]_vars => At(Main, "down")'
<1> SUFFICES ASSUME IndInv, pc[Main] = "down", [Next]_vars PROVE pc'[Main] = "down"
  BY DEF At
<1>1. ~MainThread /\ ~Burn
  BY DEF MainThread, Accept, ReceiveInfo, StoreSocket, StoreSize, ReceiveOrders, PutOrder, OrdersFull, CountOrder,
         ServeCancelled, Served, Join, Burn, At
<1>2. CASE \E c \in Clients : Connect(c) \/ Hear(c) \/ Cancel(c)
  BY <1>2 DEF Connect, Hear, Cancel
<1> QED BY <1>1, <1>2, ThreadsOnly DEF Next

\* SIGINT cancels all, or ends the process.
Closed == cancelled \/ At(Main, "down")

\* Nothing takes that back.
LEMMA ClosedKept == IndInv /\ Closed /\ [Next]_vars => Closed'
  BY TornMeans, DownKept DEF Closed

\* SIGINT closes the shop.
LEMMA BurnCloses == IndInv /\ Burn => Closed'
<1>1. Main \in Threads
  BY DEF Threads
<1> QED BY <1>1 DEF Burn, BurnEnds, BurnSets, BurnServes, Down, Closed, At

\* A pide that is somewhere is counted, and one that is counted is somewhere.
LEMMA CopiesMean ==
    ASSUME IndInv, OnePlace, BagRoom, NEW p \in Pides
    PROVE  Copies(p) > 0 <=> \E s \in Spots : Holds(s, p)
<1>1. Cardinality(BagPlaces(p)) = IF Holds("bag", p) THEN 1 ELSE 0
  BY BagCounts, CopiesCount
<1>2. LET one(s) == IF Holds(s, p) THEN 1 ELSE 0
      IN  Copies(p) = one("order") + one("oven") + one("prepared") + one("cook") + one("timer")
                      + one("bag") + one("customer")
  BY <1>1, CopiesCount
<1>3. (\E s \in Spots : Holds(s, p)) <=> \/ Holds("order", p) \/ Holds("oven", p) \/ Holds("prepared", p)
                                          \/ Holds("cook", p) \/ Holds("timer", p) \/ Holds("bag", p)
                                          \/ Holds("customer", p)
  BY DEF Spots
<1> QED BY <1>2, <1>3

Counted == \A p \in Pides : Copies(p) > 0 <=> \E s \in Spots : Holds(s, p)

\* What the theorem rests on, until the shop closes.
Orderly == Open /\ OnePlace /\ FirstTimer /\ TimerEmpty /\ BagRoom

\* Whatever the threads, the orders, the capacities and the cancellations, SIGINT at any moment:
\* as long as it has not come, a step that starts with siparisIptal off loses no pide but the
\* one a cook or a timer thread, sent on by an earlier cancellation, drops at a full queue.
THEOREM LostAtBreakOnly == Spec => LostOnlyAtBreak
<1> DEFINE I == Closed \/ Orderly
           C == IndInv /\ OnePlace /\ BagRoom => Counted
<1>0. C
  BY CopiesMean DEF Counted
<1>1. Init => I
  BY NoPides, NoTimers, StartsCalm, CalmOpen, StartsEmpty DEF Orderly
<1>2. IndInv /\ I /\ [Next]_vars => I'
  <2> SUFFICES ASSUME IndInv, I, [Next]_vars PROVE I'
    OBVIOUS
  <2>1. CASE Closed
    BY <2>1, ClosedKept
  <2>2. CASE Burn
    BY <2>2, BurnCloses
  <2>3. CASE Orderly /\ ~Burn
    BY <2>3, OpenKept, OnePlaceKept, FirstTimerKept, TimerEmptyKept, BagRoomKept DEF Orderly, Open
  <2> QED BY <2>1, <2>2, <2>3
<1>3. IndInv /\ IndInv' /\ C /\ C' /\ I /\ [Next]_vars =>
         [~siparisIptal /\ ~cancelled /\ ~At(Main, "down")' =>
            \A p \in Pides : Copies(p) > 0 => Copies(p)' > 0 \/ LostAtBreak(p)]_vars
  <2> SUFFICES ASSUME IndInv, IndInv', C, C', I, [Next]_vars, ~siparisIptal, ~cancelled, ~At(Main, "down")',
                      NEW p \in Pides, Copies(p) > 0, ~LostAtBreak(p)
               PROVE  Copies(p)' > 0
    OBVIOUS
  <2>1. Orderly /\ siparisIptal = FALSE
    <3>1. ~Closed
      BY DownKept DEF Closed
    <3> QED BY <3>1 DEF IndInv, TypeOK
  <2>2. PICK s \in Spots : Holds(s, p)
    BY <2>1 DEF Orderly, Counted
  <2>3. \E z \in Spots : Holds(z, p)'
    BY <2>1, <2>2, HeldPasses DEF Orderly
  <2>4. OnePlace' /\ BagRoom'
    BY <2>1, OnePlaceKept, BagRoomKept DEF Orderly, Open
  <2> QED BY <2>3, <2>4 DEF Counted
<1> QED BY <1>0, <1>1, <1>2, <1>3, Inductive, PTL DEF Spec, LostOnlyAtBreak

-----------------------------------------------------------------------------
(* The books of the delivery. *)

\* The kitchen leaves the motos, main and the clients alone.
LEMMA OutsideRests ==
    ASSUME IndInv, (\E c \in Cooks : Cook(c)) \/ (\E t \in Pides : Timer(t)) \/ UNCHANGED vars
    PROVE  /\ UNCHANGED <<totalOrder, totalReceived, totalOrderSize, bag, trip, delivered, cur, newOrder>>
           /\ \A u \in Motos \cup {Main} : pc'[u] = pc[u]
<1>0. /\ pc \in [Threads -> PC] /\ Motos \cup {Main} \subseteq Threads
      /\ (Motos \cup {Main}) \cap (Cooks \cup Pides) = {}
  BY ShopAssumption DEF IndInv, TypeOK, Threads
<1>1. ASSUME NEW c \in Cooks, Cook(c)
      PROVE  UNCHANGED outside /\ \A u \in Motos \cup {Main} : pc'[u] = pc[u]
  <2>1. UNCHANGED outside
    BY <1>1 DEF Cook, WaitForOrder, TakeOrder, OrderWoken, WaitForApparatus, TakeApparatus, Claim, ApparatusWoken,
                OvenFull, Retake, PlacePide, OvenWoken, Quit, Release, ReleaseElse, StartTimer
  <2>2. preparePide[c] \in Pides \/ ~StartTimer(c)
    BY DEF StartTimer, At, IndInv, CookHasPide, InHand
  <2>3. (\E l : Goto(c, l)) \/ (StartTimer(c) /\ pc' = ArmTimer(c))
    BY <1>0, <1>1 DEF Cook, WaitForOrder, TakeOrder, OrderWoken, WaitForApparatus, TakeApparatus, Claim, ApparatusWoken,
                OvenFull, Retake, PlacePide, OvenWoken, Quit, Release, ReleaseElse, StartTimer, Sleep, Goto
  <2> QED BY <1>0, <2>1, <2>2, <2>3 DEF Goto, ArmTimer
<1>2. ASSUME NEW t \in Pides, Timer(t)
      PROVE  UNCHANGED outside /\ \A u \in Motos \cup {Main} : pc'[u] = pc[u]
  <2>1. UNCHANGED outside /\ \E l : Goto(t, l)
    BY <1>2 DEF Timer, TimerWait, TimerTake, TimerWoken, OvenEmpty, TakeOut, TakeOutWoken, GiveBack, PreparedFull,
                Hand, HandWoken, TimerEnd, Sleep
  <2> QED BY <1>0, <2>1 DEF Goto
<1>3. CASE UNCHANGED vars
  BY <1>3 DEF vars, counts, motoVars, mainVars
<1> QED BY <1>1, <1>2, <1>3 DEF outside, counts, motoVars, mainVars

\* The pides in the bags do not change with a step that leaves trips and bags alone.
LEMMA SameInBags ==
    ASSUME \A m \in Motos : Uncounted(m)' = Uncounted(m)
    PROVE  InBags' = InBags
  BY DEF InBags

\* What is counted, as numbers.
LEMMA BooksNumbers ==
    ASSUME IndInv, IsFiniteSet(Motos)
    PROVE  /\ totalOrder \in Int /\ totalReceived \in Nat /\ newOrder \in Nat
           /\ IsFiniteSet(InBags) /\ Cardinality(InBags) \in Nat
           /\ pc[Main] \in Serving => Size[cur] \in Nat
<1>1. pc[Main] \in Serving => cur \in Clients
  BY DEF IndInv, OrderInRange, Serving
<1>2. IsFiniteSet(1..BagCap)
  BY FS_Interval, ShopAssumption
<1>3. IsFiniteSet(Motos \X (1..BagCap))
  BY <1>2, FS_Product
<1>4. IsFiniteSet(InBags) /\ Cardinality(InBags) \in Nat
  BY <1>3, FS_Subset, FS_CardinalityType DEF InBags
<1> QED BY <1>1, <1>4, ShopAssumption DEF IndInv, TypeOK

Same == Accounted' = Accounted /\ UNCHANGED totalOrderSize

\* A moto takes a pide from preparedQueue and from totalOrder.
LEMMA LoadBooks ==
    ASSUME IndInv, BagRoom, IsFiniteSet(Motos), pc[Main] \in Serving, NEW m \in Motos, Load(m)
    PROVE  Same
<1>0. /\ pc \in [Threads -> PC] /\ Motos \subseteq Threads /\ bag \in [Motos -> Seq(Item)]
  BY ShopAssumption DEF IndInv, TypeOK, Threads
<1>1. PICK p0 \in Item : bag' = [bag EXCEPT ![m] = Append(bag[m], p0)]
  <2>1. Dequeued \subseteq Item
    BY DEF Dequeued, First, Item, IndInv, TypeOK
  <2> QED BY <2>1 DEF Load
<1>2. /\ pc[m] \in {"load", "loadBroke"} /\ pc' = [pc EXCEPT ![m] = "load"] /\ totalOrder' = totalOrder - 1
      /\ UNCHANGED <<totalReceived, totalOrderSize, trip, cur, newOrder>>
  BY DEF Load, At, Goto, elsewhere, mainVars
<1>3. PICK k \in Nat : k = Len(bag[m])
  BY <1>0
<1>4. DOMAIN bag[m] = 1..k /\ DOMAIN bag'[m] = 1..(k + 1) /\ k < BagCap /\ BagCap \in Nat
  <2>1. bag[m] \in Seq(Item) /\ bag'[m] = Append(bag[m], p0)
    BY <1>0, <1>1
  <2>2. k < BagCap
    BY <1>3 DEF Load, At, BagRoom
  <2> QED BY <1>3, <2>1, <2>2, ShopAssumption, AppendProperties
<1>5. pc'[m] = "load" /\ \A u \in Threads \ {m} : pc'[u] = pc[u]
  BY <1>0, <1>2
<1>6. \A n \in Motos \ {m} : Uncounted(n)' = Uncounted(n)
  <2>1. \A n \in Motos \ {m} : pc'[n] = pc[n] /\ bag'[n] = bag[n] /\ trip'[n] = trip[n]
    BY <1>0, <1>1, <1>2, <1>5
  <2> QED BY <2>1 DEF Uncounted, Pending, At
<1>7. Uncounted(m) = 1..k /\ Uncounted(m)' = 1..(k + 1)
  BY <1>2, <1>4, <1>5 DEF Uncounted, Pending, At
<1>8. InBags' = InBags \cup {<<m, k + 1>>} /\ <<m, k + 1>> \notin InBags
  <2>1. \A i : i \in 1..(k + 1) <=> i \in 1..k \/ i = k + 1
    BY <1>3
  <2>2. k + 1 \in 1..BagCap /\ k + 1 \notin 1..k
    BY <1>4
  <2>3. \A n \in Motos, i \in 1..BagCap :
            i \in Uncounted(n)' <=> i \in Uncounted(n) \/ (n = m /\ i = k + 1)
    BY <1>6, <1>7, <2>1
  <2>4. \A x \in Motos \X (1..BagCap) : x[2] \in Uncounted(x[1])' <=> x[2] \in Uncounted(x[1]) \/ x = <<m, k + 1>>
    BY <2>3
  <2> QED BY <1>7, <2>2, <2>4 DEF InBags
<1>9. Cardinality(InBags') = Cardinality(InBags) + 1
  BY <1>8, OneIn, BooksNumbers
<1>10. totalReceived + (Cardinality(InBags) + 1) + (totalOrder - 1) + (Size[cur] - newOrder + 1)
       = totalReceived + Cardinality(InBags) + totalOrder + (Size[cur] - newOrder + 1)
  BY BooksNumbers
<1> QED BY <1>2, <1>9, <1>10 DEF Same, Accounted

\* A moto that sets out for a customer counts the pide as received.
LEMMA RideBooks ==
    ASSUME IndInv, BagRoom, siparisIptal = FALSE, IsFiniteSet(Motos), pc[Main] \in Serving, NEW m \in Motos, Ride(m)
    PROVE  Same
<1>0. /\ pc \in [Threads -> PC] /\ Motos \subseteq Threads /\ bag \in [Motos -> Seq(Item)]
  BY ShopAssumption DEF IndInv, TypeOK, Threads
<1>1. /\ pc[m] = "ride" /\ pc' = [pc EXCEPT ![m] = "travel"] /\ totalReceived' = totalReceived + 1
      /\ UNCHANGED <<totalOrder, totalOrderSize, bag, trip, cur, newOrder>>
  BY DEF Ride, At, Goto, elsewhere, mainVars, motoVars
<1>2. PICK a \in Nat, k \in Nat : a = trip[m] /\ k = Len(bag[m]) /\ 1 <= a /\ a <= k /\ k <= BagCap
  BY <1>1 DEF IndInv, TypeOK, TripInBag, BagRoom
<1>3. pc'[m] = "travel" /\ \A u \in Threads \ {m} : pc'[u] = pc[u]
  BY <1>0, <1>1
<1>4. \A n \in Motos \ {m} : Uncounted(n)' = Uncounted(n)
  <2>1. \A n \in Motos \ {m} : pc'[n] = pc[n]
    BY <1>0, <1>3
  <2> QED BY <1>1, <2>1 DEF Uncounted, Pending, At
<1>5. Uncounted(m) = a..k /\ Uncounted(m)' = (a..k) \ {a}
  BY <1>1, <1>2, <1>3 DEF Uncounted, Pending, At
<1>6. InBags' = InBags \ {<<m, a>>} /\ <<m, a>> \in InBags
  <2>1. a \in 1..BagCap /\ a \in a..k
    BY <1>2, ShopAssumption
  <2>2. \A n \in Motos, i \in 1..BagCap :
            i \in Uncounted(n)' <=> i \in Uncounted(n) /\ ~(n = m /\ i = a)
    BY <1>4, <1>5
  <2>3. \A x \in Motos \X (1..BagCap) : x[2] \in Uncounted(x[1])' <=> x[2] \in Uncounted(x[1]) /\ x # <<m, a>>
    BY <2>2
  <2> QED BY <1>5, <2>1, <2>3 DEF InBags
<1>7. Cardinality(InBags') = Cardinality(InBags) - 1
  BY <1>6, OneOut, BooksNumbers
<1>8. (totalReceived + 1) + (Cardinality(InBags) - 1) + totalOrder + (Size[cur] - newOrder + 1)
      = totalReceived + Cardinality(InBags) + totalOrder + (Size[cur] - newOrder + 1)
  BY BooksNumbers
<1> QED BY <1>1, <1>7, <1>8 DEF Same, Accounted

\* The other steps of a moto leave the books as they are.
LEMMA MotoBooks ==
    ASSUME IndInv, Calm, NEW m \in Motos, Moto(m), ~Load(m), ~Ride(m)
    PROVE  Same
<1>0. /\ pc \in [Threads -> PC] /\ Motos \subseteq Threads
      /\ bag \in [Motos -> Seq(Item)] /\ trip \in [Motos -> Nat \ {0}]
      /\ siparisIptal = FALSE /\ cancelled = FALSE
  BY ShopAssumption DEF IndInv, TypeOK, Threads, Calm
<1>1. /\ UNCHANGED <<totalOrder, totalReceived, totalOrderSize, cur, newOrder>>
      /\ \E l : Goto(m, l)
  BY DEF Moto, LoadWait, LoadWoken, LoadBroke, Leave, Left, Stay, Travel, Back, Report, EmptyBag,
                EndRound, Exit, Sleep, elsewhere, counts, mainVars
<1>2. \A u \in Threads \ {m} : pc'[u] = pc[u]
  BY <1>0, <1>1 DEF Goto
<1>3. \A n \in Motos \ {m} : Uncounted(n)' = Uncounted(n)
  <2>1. \A n \in Motos \ {m} : bag'[n] = bag[n] /\ trip'[n] = trip[n]
    BY <1>0 DEF Moto, LoadWait, LoadWoken, LoadBroke, Leave, Left, Stay, Travel, Back, Report, EmptyBag, motoVars
  <2>2. \A n \in Motos \ {m} : pc'[n] = pc[n]
    BY <1>0, <1>2
  <2> QED BY <2>1, <2>2 DEF Uncounted, Pending, At
<1>4. Uncounted(m)' = Uncounted(m)
  <2>1. CASE LoadWait(m) \/ LoadBroke(m) \/ Leave(m) \/ LoadWoken(m) \/ Stay(m)
    <3>1. /\ pc[m] \in {"load", "loadBroke", "loadWait", "stay"} /\ bag' = bag
          /\ \E l \in {"loadWait", "load", "left", "loadBroke"} : Goto(m, l)
      BY <1>0, <2>1 DEF LoadWait, LoadBroke, Leave, LoadWoken, Stay, EndRound, At, Sleep, motoVars
    <3>2. pc'[m] \in {"loadWait", "load", "left", "loadBroke"}
      BY <1>0, <3>1 DEF Goto
    <3> QED BY <3>1, <3>2 DEF Uncounted, Pending, At
  <2>2. CASE Left(m)
    <3>1. pc[m] = "left" /\ bag' = bag /\ (pc'[m] = "stay" \/ (pc'[m] = "ride" /\ trip'[m] = 1))
      BY <1>0, <2>2 DEF Left, At, Goto
    <3>2. 1..Len(bag[m]) = DOMAIN bag[m]
      BY <1>0
    <3> QED BY <3>1, <3>2 DEF Uncounted, Pending, At
  <2>3. CASE Travel(m)
    <3>1. PICK a \in Nat, k \in Nat : a = trip[m] /\ k = Len(bag[m]) /\ a <= k
      BY <2>3 DEF Travel, At, IndInv, TypeOK, TripInBag
    <3>2. /\ pc[m] = "travel" /\ bag' = bag
          /\ \/ trip'[m] = a + 1 /\ pc'[m] = "ride"
             \/ pc'[m] = "back" /\ a = k
      BY <1>0, <2>3, <3>1 DEF Travel, At, Goto
    <3>3. Uncounted(m) = (a..k) \ {a}
      BY <3>1, <3>2 DEF Uncounted, Pending, At
    <3>4. CASE pc'[m] = "ride"
      <4>1. Uncounted(m)' = (a + 1)..k
        BY <3>1, <3>2, <3>4 DEF Uncounted, Pending, At
      <4>2. (a + 1)..k = (a..k) \ {a}
        BY <3>1
      <4> QED BY <3>3, <4>1, <4>2
    <3>5. CASE pc'[m] = "back"
      <4>1. Uncounted(m)' = {}
        BY <3>5 DEF Uncounted, Pending, At
      <4>2. (a..k) \ {a} = {}
        BY <3>1, <3>2, <3>5
      <4> QED BY <3>3, <4>1, <4>2
    <3> QED BY <3>2, <3>4, <3>5
  <2>4. CASE Back(m) \/ Report(m)
    <3>1. /\ pc[m] \in {"back", "report"} /\ (pc'[m] = "report" \/ (pc'[m] = "load" /\ bag'[m] = << >>))
      BY <1>0, <2>4 DEF Back, Report, EmptyBag, EndRound, At, Goto
    <3> QED BY <3>1 DEF Uncounted, Pending, At
  <2> QED BY <2>1, <2>2, <2>3, <2>4 DEF Moto
<1>5. InBags' = InBags
  BY <1>3, <1>4, SameInBags
<1> QED BY <1>1, <1>5 DEF Same, Accounted

\* While it serves a client, main changes what it has put and what totalOrder says together.
LEMMA MainBooks ==
    ASSUME Undisturbed, IndInv, IsFiniteSet(Motos), pc[Main] \in Serving, pc'[Main] \in Serving,
           MainThread \/ Burn \/ \E c \in Clients : Connect(c) \/ Hear(c) \/ Cancel(c)
    PROVE  Same
<1>0. pc \in [Threads -> PC] /\ Motos \cup {Main} \subseteq Threads /\ Main \notin Motos
  BY ShopAssumption DEF IndInv, TypeOK, Threads
<1>1. PutOrder \/ OrdersFull \/ CountOrder \/ \E c \in Clients : Connect(c) \/ Hear(c) \/ Cancel(c)
  <2>1. ~Accept /\ ~ReceiveInfo /\ ~StoreSocket /\ ~StoreSize /\ ~ReceiveOrders /\ ~Join /\ ~Burn /\ ~ServeCancelled
    BY DEF Accept, ReceiveInfo, StoreSocket, StoreSize, ReceiveOrders, Join, At, Serving, Undisturbed
  <2>2. ~Served
    BY <1>0 DEF Served, Goto, Serving
  <2> QED BY <2>1, <2>2 DEF MainThread
<1>2. bag' = bag /\ trip' = trip /\ (pc' = pc \/ \E l : Goto(Main, l))
  BY <1>1 DEF PutOrder, OrdersFull, CountOrder, Connect, Hear, Cancel, Sleep, shop, motoVars
<1>3. InBags' = InBags
  <2>1. \A n \in Motos : pc'[n] = pc[n]
    BY <1>0, <1>2 DEF Goto
  <2>2. \A n \in Motos : Uncounted(n)' = Uncounted(n)
    BY <1>2, <2>1 DEF Uncounted, Pending, At
  <2> QED BY <2>2, SameInBags
<1>4. CASE CountOrder
  <2>1. totalOrder' = totalOrder + 1 /\ newOrder' = newOrder + 1 /\ UNCHANGED <<totalReceived, totalOrderSize, cur>>
    BY <1>4 DEF CountOrder
  <2>2. totalReceived + Cardinality(InBags) + (totalOrder + 1) + (Size[cur] - (newOrder + 1) + 1)
        = totalReceived + Cardinality(InBags) + totalOrder + (Size[cur] - newOrder + 1)
    BY BooksNumbers
  <2> QED BY <1>3, <2>1, <2>2 DEF Same, Accounted
<1>5. CASE ~CountOrder
  <2>1. UNCHANGED <<totalOrder, totalReceived, totalOrderSize, cur, newOrder>>
    BY <1>1, <1>5 DEF PutOrder, OrdersFull, Connect, Hear, Cancel, counts, mainVars
  <2> QED BY <1>3, <2>1 DEF Same, Accounted
<1> QED BY <1>4, <1>5

\* Without cancellations and shutdowns, for any number of motos and clients: while main serves a
\* client no step changes what is accounted for, though the motos take from totalOrder without
\* knowing whether main has counted the pide they hold.
THEOREM BooksBalance == ASSUME NoSignals, IsFiniteSet(Motos) PROVE Spec => BooksKept
<1>1. IndInv /\ Calm /\ BagRoom /\ [Next]_vars =>
         [pc[Main] \in Serving /\ pc'[Main] \in Serving => Accounted' = Accounted /\ UNCHANGED totalOrderSize]_vars
  <2> SUFFICES ASSUME IndInv, Calm, BagRoom, [Next]_vars, pc[Main] \in Serving, pc'[Main] \in Serving PROVE Same
    BY DEF Same
  <2>1. CASE (\E c \in Cooks : Cook(c)) \/ (\E t \in Pides : Timer(t)) \/ UNCHANGED vars
    <3>1. /\ UNCHANGED <<totalOrder, totalReceived, totalOrderSize, bag, trip, delivered, cur, newOrder>>
          /\ \A u \in Motos \cup {Main} : pc'[u] = pc[u]
      BY <2>1, OutsideRests
    <3>2. ASSUME NEW n \in Motos PROVE Uncounted(n)' = Uncounted(n)
      <4>1. pc'[n] = pc[n]
        BY <3>1
      <4> QED BY <3>1, <4>1 DEF Uncounted, Pending, At
    <3>3. InBags' = InBags
      BY <3>2, SameInBags
    <3> QED BY <3>1, <3>3 DEF Same, Accounted
  <2>2. CASE \E m \in Motos : Moto(m)
    BY <2>2, LoadBooks, RideBooks, MotoBooks DEF Calm
  <2>3. CASE MainThread \/ Burn \/ \E c \in Clients : Connect(c) \/ Hear(c) \/ Cancel(c)
    BY <2>3, MainBooks, NothingDisturbs
  <2> QED BY <2>1, <2>2, <2>3 DEF Next
<1>2. IndInv /\ BagRoom /\ [Next]_vars => BagRoom'
  BY BagRoomKept
<1> QED BY <1>1, <1>2, CalmShop, StartsEmpty, PTL DEF Spec, BooksKept

-----------------------------------------------------------------------------
(* What totalOrder counts. *)

\* The places of a pide between main and the bags.
Way == {"order", "cook", "oven", "timer", "prepared"}
OnTheWay(p) == \E s \in Way : Holds(s, p)

\* Such pides are the ones that are counted.
LEMMA ToComeMeans ==
    ASSUME OnePlace, NEW p \in Pides
    PROVE  p \in ToCome <=> OnTheWay(p)
<1> DEFINE one(s) == IF Holds(s, p) THEN 1 ELSE 0
<1>1. In(orderQueue, p) = one("order") /\ In(ovenQueue, p) = one("oven") /\ In(preparedQueue, p) = one("prepared")
  BY InCounts DEF OnePlace, QueuesOnce, Holds
<1>2. /\ Cardinality({c \in Cooks : HeldByCook(c, p)}) = one("cook")
      /\ Cardinality({t \in Pides : sicakPide[t] = p}) = one("timer")
  BY HandsCount
<1>3. p \in ToCome <=> one("order") + one("oven") + one("prepared") + one("cook") + one("timer") > 0
  BY <1>1, <1>2 DEF ToCome
<1>4. OnTheWay(p) <=> \/ Holds("order", p) \/ Holds("oven", p) \/ Holds("prepared", p)
                      \/ Holds("cook", p) \/ Holds("timer", p)
  BY DEF OnTheWay, Way
<1> QED BY <1>3, <1>4

Coming == \A p \in Pides : p \in ToCome <=> OnTheWay(p)

\* Finitely many clients order finitely many pides.
LEMMA PidesFinite == ASSUME IsFiniteSet(Clients) PROVE IsFiniteSet(Pides)
<1> DEFINE own == [c \in Clients |-> {c} \X (1..Size[c])]
           sets == {own[c] : c \in Clients}
<1>1. own \in Surjection(Clients, sets)
  BY DEF Surjection
<1>2. IsFiniteSet(sets)
  BY <1>1, FS_Surjection
<1>3. ASSUME NEW c \in Clients PROVE IsFiniteSet(own[c])
  <2>1. Size[c] \in Nat
    BY ShopAssumption
  <2>2. IsFiniteSet(1..Size[c])
    <3> DEFINE n == Size[c]
    <3>1. n \in Int
      BY <2>1
    <3> HIDE DEF n
    <3>2. IsFiniteSet(1..n)
      BY <3>1, FS_Interval
    <3> QED BY <3>2 DEF n
  <2>3. IsFiniteSet({c})
    BY FS_Singleton
  <2> QED BY <2>2, <2>3, FS_Product
<1>4. IsFiniteSet(UNION sets)
  BY <1>2, <1>3, FS_UNION
<1> QED BY <1>4 DEF Pides

\* A pide goes into a bag only when a moto loads it, and only then off the way.
LEMMA WayKept ==
    ASSUME Undisturbed, IndInv, OnePlace, Calm, TimerEmpty, [Next]_vars, NEW p \in Pides, OnTheWay(p),
           \A m \in Motos : Load(m) => preparedQueue = << >> \/ p # Head(preparedQueue)
    PROVE  OnTheWay(p)'
<1>0. /\ pc \in [Threads -> PC] /\ Motos \cup {Main} \subseteq Threads /\ Main \notin Motos
      /\ siparisIptal = FALSE /\ cancelled = FALSE /\ ~Torn /\ preparedQueue \in Seq(Item)
      /\ Motos \cap (Cooks \cup Pides) = {} /\ Cooks \cup Pides \subseteq Threads
  BY ShopAssumption DEF IndInv, TypeOK, Threads, Calm
<1>1. PICK s \in Way : Holds(s, p)
  BY DEF OnTheWay
<1>2. s \in Spots /\ Spots = Way \cup {"bag", "customer"} /\ s \notin {"bag", "customer"}
  BY DEF Way, Spots
<1>3. CASE \E m \in Motos : Moto(m)
  <2>1. PICK m \in Motos : Moto(m)
    BY <1>3
  <2>2. UNCHANGED <<orderQueue, ovenQueue, preparePide, sicakPide>> /\ \E l : Goto(m, l)
    BY <2>1 DEF Moto, LoadWait, LoadWoken, Load, LoadBroke, Leave, Left, Stay, Ride, Travel, Back, Report, EmptyBag,
                EndRound, Exit, Sleep, elsewhere, kitchen, cookVars
  <2>3. \A c \in Cooks : pc'[c] = pc[c]
    BY <1>0, <2>2 DEF Goto
  <2>4. AtCook(p) => AtCook(p)'
    BY <2>2, <2>3 DEF AtCook, HeldByCook
  <2>5. InQueue(preparedQueue, p) => InQueue(preparedQueue', p)
    <3>1. CASE Load(m)
      <4>1. preparedQueue' = IF preparedQueue = << >> THEN preparedQueue ELSE Tail(preparedQueue)
        BY <1>0, <3>1 DEF Load, Raced, Rest
      <4> QED BY <1>0, <3>1, <4>1, TailQueue
    <3>2. CASE ~Load(m)
      BY <2>1, <3>2 DEF Moto, LoadWait, LoadWoken, LoadBroke, Leave, Left, Stay, Ride, Travel, Back, Report, EmptyBag
    <3> QED BY <3>1, <3>2
  <2>6. Holds(s, p)'
    BY <1>1, <1>2, <2>2, <2>4, <2>5 DEF Holds, AtTimer, InQueue
  <2> QED BY <2>6 DEF OnTheWay
<1>4. CASE ~\E m \in Motos : Moto(m)
  <2>1. UNCHANGED <<bag, trip, delivered>> /\ \A u \in Motos : pc'[u] = pc[u]
    <3>1. CASE (\E c \in Cooks : Cook(c)) \/ (\E t \in Pides : Timer(t)) \/ UNCHANGED vars
      BY <3>1, OutsideRests
    <3>2. CASE MainThread \/ \E c \in Clients : Connect(c) \/ Hear(c) \/ Cancel(c)
      <4>1. ~Join
        BY DEF Join, At, Calm
      <4>2. UNCHANGED <<bag, trip, delivered>> /\ (pc' = pc \/ \E l : Goto(Main, l))
        BY <3>2, <4>1 DEF MainThread, Accept, ReceiveInfo, StoreSocket, StoreSize, ReceiveOrders, PutOrder, OrdersFull,
                CountOrder, ServeCancelled, Served, Connect, Hear, Cancel, Sleep, shop, motoVars
      <4> QED BY <1>0, <4>2 DEF Goto
    <3> QED BY <1>4, <3>1, <3>2 DEF Next, Undisturbed
  <2>2. \A m \in Motos : Pending(m)' = Pending(m)
    BY <2>1 DEF Pending
  <2>3. \A z \in {"bag", "customer"} : Holds(z, p)' => Holds(z, p)
    BY <2>1, <2>2 DEF Holds, InBag
  <2>4. ~At(Main, "down")'
    BY CalmKept DEF Calm, At
  <2>5. Open /\ ~LostAtBreak(p)
    BY CalmOpen DEF Calm, Broken, Threads, LostAtBreak, At
  <2>6. PICK z \in Spots : Holds(z, p)'
    BY <1>0, <1>1, <1>2, <2>4, <2>5, HeldPasses
  <2>7. z \in Way
    BY <1>1, <1>2, <2>3, <2>6 DEF OnePlace, Apart
  <2> QED BY <2>6, <2>7 DEF OnTheWay
<1> QED BY <1>3, <1>4

\* A moto that loads takes one off totalOrder, and one pide off the way at most.
LEMMA LoadToCome ==
    ASSUME Undisturbed, IndInv, OnePlace, OnePlace', Calm, TimerEmpty, [Next]_vars, Coming, Coming', IsFiniteSet(Pides),
           OrdersToCome, NEW m \in Motos, Load(m)
    PROVE  OrdersToCome'
<1>1. /\ totalOrder \in Int /\ totalOrder > 0 /\ totalOrder' = totalOrder - 1
      /\ pc'[Main] = pc[Main]
  <2>1. /\ totalOrder \in Int /\ pc \in [Threads -> PC] /\ Main # m /\ Goto(m, "load")
        /\ totalOrder' = totalOrder - 1 /\ (totalOrder > 0 \/ totalOrder # 0) /\ Main \in Threads
    BY ShopAssumption DEF Load, IndInv, TypeOK, Threads
  <2> QED BY <2>1 DEF OrdersToCome, Goto
<1>2. PICK p0 : p0 = Head(preparedQueue)
  OBVIOUS
<1>3. \A p \in Pides : OnTheWay(p) /\ p # p0 => OnTheWay(p)'
  BY <1>2, WayKept
<1>4. ToCome \ {p0} \subseteq ToCome'
  <2>1. \A p \in Pides : p \in ToCome <=> OnTheWay(p)
    BY DEF Coming
  <2>2. \A p \in Pides : p \in ToCome' <=> OnTheWay(p)'
    BY DEF Coming
  <2> QED BY <1>3, <2>1, <2>2 DEF ToCome
<1>5. IsFiniteSet(ToCome) /\ IsFiniteSet(ToCome')
  BY FS_Subset DEF ToCome
<1>6. /\ Cardinality(ToCome) \in Nat /\ Cardinality(ToCome') \in Nat
      /\ Cardinality(ToCome) <= Cardinality(ToCome') + 1
  <2>1. IsFiniteSet(ToCome \ {p0}) /\ Cardinality(ToCome \ {p0}) <= Cardinality(ToCome')
    BY <1>4, <1>5, FS_Subset
  <2>2. Cardinality(ToCome \ {p0}) = IF p0 \in ToCome THEN Cardinality(ToCome) - 1 ELSE Cardinality(ToCome)
    BY <1>5, FS_RemoveElement
  <2>3. Cardinality(ToCome) \in Nat /\ Cardinality(ToCome') \in Nat
    BY <1>5, FS_CardinalityType
  <2> QED BY <2>1, <2>2, <2>3
<1> QED BY <1>1, <1>6 DEF OrdersToCome, At

\* Every other step keeps what is on the way, and main counts what it has put.
LEMMA RestToCome ==
    ASSUME Undisturbed, IndInv, OnePlace, OnePlace', Calm, TimerEmpty, [Next]_vars, Coming, Coming', IsFiniteSet(Pides),
           OrdersToCome, ~\E m \in Motos : Load(m)
    PROVE  OrdersToCome'
<1>0. /\ pc \in [Threads -> PC] /\ Main \in Threads \ (Cooks \cup Pides \cup Motos) /\ totalOrder \in Int
  BY ShopAssumption DEF IndInv, TypeOK, Threads
<1>1. ToCome \subseteq ToCome'
  <2>1. \A p \in Pides : p \in ToCome <=> OnTheWay(p)
    BY DEF Coming
  <2>2. \A p \in Pides : p \in ToCome' <=> OnTheWay(p)'
    BY DEF Coming
  <2>3. \A p \in Pides : OnTheWay(p) => OnTheWay(p)'
    BY WayKept
  <2> QED BY <2>1, <2>2, <2>3 DEF ToCome
<1>2. /\ IsFiniteSet(ToCome) /\ IsFiniteSet(ToCome')
      /\ Cardinality(ToCome) \in Nat /\ Cardinality(ToCome') \in Nat
      /\ Cardinality(ToCome) <= Cardinality(ToCome')
  <2>1. IsFiniteSet(ToCome) /\ IsFiniteSet(ToCome')
    BY FS_Subset DEF ToCome
  <2> QED BY <1>1, <2>1, FS_Subset, FS_CardinalityType
<1>3. CASE PutOrder
  <2>1. PICK p0 \in Pides : /\ NotYet(p0) /\ orderQueue' = Append(orderQueue, p0) /\ orderQueue \in Seq(Pides)
                            /\ pc[Main] = "put" /\ pc' = [pc EXCEPT ![Main] = "count"]
    BY <1>3, NextOrder DEF OnePlace
  <2>2. p0 \notin ToCome
    <3>1. \A s \in Way : ~Holds(s, p0)
      BY <2>1 DEF OnePlace, Apart, Way, Spots
    <3> QED BY <3>1 DEF OnTheWay, Coming
  <2>3. p0 \in ToCome'
    <3>1. InQueue(orderQueue', p0)
      BY <2>1, AppendQueue
    <3>2. Holds("order", p0)'
      BY <3>1 DEF Holds, InQueue
    <3>3. OnTheWay(p0)'
      BY <3>2 DEF OnTheWay, Way
    <3> QED BY <3>3 DEF Coming
  <2>4. Cardinality(ToCome \cup {p0}) = Cardinality(ToCome) + 1 /\ IsFiniteSet(ToCome \cup {p0})
    BY <1>2, <2>2, FS_AddElement
  <2>5. Cardinality(ToCome \cup {p0}) <= Cardinality(ToCome')
    BY <1>1, <1>2, <2>3, <2>4, FS_Subset
  <2>6. totalOrder' = totalOrder /\ pc'[Main] = "count"
    BY <1>0, <1>3, <2>1 DEF PutOrder, counts
  <2> QED BY <1>0, <1>2, <2>1, <2>4, <2>5, <2>6 DEF OrdersToCome, At
<1>4. CASE CountOrder
  <2>1. totalOrder' = totalOrder + 1 /\ pc[Main] = "count" /\ pc'[Main] # "count"
    BY <1>0, <1>4 DEF CountOrder, At, Goto, AfterOrders
  <2> QED BY <1>0, <1>2, <2>1 DEF OrdersToCome, At
<1>5. CASE ~PutOrder /\ ~CountOrder
  <2>1. totalOrder' = totalOrder /\ (pc'[Main] = "count" => pc[Main] = "count")
    <3>1. CASE (\E c \in Cooks : Cook(c)) \/ (\E t \in Pides : Timer(t)) \/ UNCHANGED vars
      <4>1. totalOrder' = totalOrder /\ pc'[Main] = pc[Main]
        BY <3>1, OutsideRests
      <4> QED BY <4>1
    <3>2. ASSUME NEW m \in Motos, Moto(m), ~Load(m) PROVE totalOrder' = totalOrder /\ pc'[Main] = pc[Main]
      <4>1. totalOrder' = totalOrder /\ \E l : Goto(m, l)
        BY <3>2 DEF Moto, LoadWait, LoadWoken, LoadBroke, Leave, Left, Stay, Ride, Travel, Back, Report, EmptyBag,
                EndRound, Exit, Sleep, counts
      <4> QED BY <1>0, <4>1 DEF Goto
    <3>3. ASSUME MainThread PROVE totalOrder' = totalOrder /\ pc'[Main] # "count"
      <4>1. ~Join /\ ~ServeCancelled
        BY DEF Join, At, Calm, Undisturbed
      <4>2. /\ totalOrder' = totalOrder
            /\ \E l \in {"accept", "info", "socket", "size", "orders", "put", "putWait", "serve", "join"} : Goto(Main, l)
        BY <1>5, <3>3, <4>1, Zenon DEF MainThread, Accept, ReceiveInfo, StoreSocket, StoreSize, ReceiveOrders, OrdersFull,
                Served, Sleep, AfterOrders, counts
      <4> QED BY <1>0, <4>2 DEF Goto
    <3>4. ASSUME NEW c \in Clients, Connect(c) \/ Hear(c) \/ Cancel(c) PROVE totalOrder' = totalOrder /\ pc' = pc
      BY <3>4 DEF Connect, Hear, Cancel, counts
    <3> QED BY <3>1, <3>2, <3>3, <3>4 DEF Next, Undisturbed
  <2> QED BY <1>0, <1>2, <2>1 DEF OrdersToCome, At
<1> QED BY <1>3, <1>4, <1>5

\* Without cancellations and shutdowns, for any number of motos and finitely many clients: what
\* totalOrder counts is still to come, so that a moto never waits for a pide that another has.
THEOREM OrdersStillToCome == ASSUME NoSignals, IsFiniteSet(Clients) PROVE Spec => []OrdersToCome
<1> DEFINE I == IndInv /\ OnePlace /\ FirstTimer /\ Calm
           J == TimerEmpty /\ OrdersToCome
           C == OnePlace => Coming
<1>0. C
  BY ToComeMeans DEF Coming
<1>1. Init => J
  <2> SUFFICES ASSUME Init PROVE J
    OBVIOUS
  <2>1. totalOrder = 0 /\ pc[Main] = "accept"
    BY ShopAssumption DEF Init, Threads
  <2>2. Cardinality(ToCome) \in Nat
    BY PidesFinite, FS_Subset, FS_CardinalityType DEF ToCome
  <2> QED BY <2>1, <2>2, StartsEmpty DEF OrdersToCome, At
<1>2. I /\ I' /\ C /\ C' /\ J /\ [Next]_vars => J'
  BY PidesFinite, LoadToCome, RestToCome, NothingDisturbs, TimerEmptyKept, CalmOpen DEF Undisturbed
<1> QED BY <1>0, <1>1, <1>2, CalmShop, PTL DEF Spec
=============================================================================
