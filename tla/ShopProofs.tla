----------------------------- MODULE ShopProofs -----------------------------
(***************************************************************************)
(* Type correctness of the PideShop model, for every number of cooks,      *)
(* motos, clients and pides, every capacity, and with cancellations and a  *)
(* shutdown at any moment.                                                 *)
(***************************************************************************)
EXTENDS ShopProperties, TLAPS

-----------------------------------------------------------------------------
(* What the condition variables and the jumps do to the types. *)

\* What waking, sleeping and moving on do to the threads' places and wait sets keeps their types.
LEMMA ControlType ==
    ASSUME pc \in [Threads -> PC], waiters \in [Conds -> SUBSET Threads]
    PROVE  /\ \A ks : Broadcast(ks) => waiters' \in [Conds -> SUBSET Threads]
           /\ \A ks : SignalApparatus(ks) => waiters' \in [Conds -> SUBSET Threads]
           /\ \A t \in Threads, k \in Conds, l \in PC :
                 Sleep(t, k, l) => /\ waiters' \in [Conds -> SUBSET Threads]
                                   /\ pc' \in [Threads -> PC]
           /\ \A t \in Threads, l \in PC : Goto(t, l) => pc' \in [Threads -> PC]
  <1>1. ASSUME NEW ks, Broadcast(ks) PROVE waiters' \in [Conds -> SUBSET Threads]
    BY <1>1 DEF Broadcast
  <1>2. ASSUME NEW ks, SignalApparatus(ks) PROVE waiters' \in [Conds -> SUBSET Threads]
    <2>1. waiters["apparatusCond"] \subseteq Threads
      BY DEF Conds
    <2>2. \A W \in Signalled : W \subseteq Threads
      BY <2>1 DEF Signalled
    <2> QED BY <1>2, <2>2 DEF SignalApparatus
  <1>3. ASSUME NEW t \in Threads, NEW k \in Conds, NEW l \in PC, Sleep(t, k, l)
        PROVE  waiters' \in [Conds -> SUBSET Threads] /\ pc' \in [Threads -> PC]
    BY <1>3 DEF Sleep, Goto
  <1>4. ASSUME NEW t \in Threads, NEW l \in PC, Goto(t, l) PROVE pc' \in [Threads -> PC]
    BY <1>4 DEF Goto
  <1> QED BY <1>1, <1>2, <1>3, <1>4

\* Locking and unlocking preparedMutex, torn or not, keep its type; so does what is left in it.
LEMMA LockType ==
    ASSUME preparedMutex \in Threads \cup {Nobody, Anybody}
    PROVE  /\ \A t \in Threads : Lock(t) => preparedMutex' \in Threads \cup {Nobody, Anybody}
           /\ \A t \in Threads : UnlockAgain(t) => preparedMutex' \in Threads \cup {Nobody, Anybody}
           /\ Unlock => preparedMutex' \in Threads \cup {Nobody, Anybody}
  BY DEF Lock, Unlock, UnlockAgain

(* The three strengthenings survive a step of another thread. *)

\* While motos and main stand still, trips stay in their bags and main within the order.
LEMMA KitchenFrame ==
    ASSUME ShopAssumption, IndInv, pc' \in [Threads -> PC],
           \A u \in Motos \cup {Main} : pc'[u] = pc[u],
           UNCHANGED <<bag, trip, cur, newOrder>>
    PROVE  TripInBag' /\ OrderInRange'
  BY DEF IndInv, TripInBag, OrderInRange

\* A cook that takes up no new work keeps the pide it has in hand.
LEMMA HandFrame ==
    ASSUME CookHasPide, UNCHANGED preparePide,
           \A c \in Cooks : pc'[c] \in InHand => pc[c] \in InHand
    PROVE  CookHasPide'
  BY DEF CookHasPide

(* Most steps of the kitchen touch only the control state and "aparatus". *)

\* A step of cook or timer that moves no pide -- a lock, a wait, the apparatus -- keeps the invariant.
LEMMA KitchenQuiet ==
    ASSUME ShopAssumption, IndInv,
           NEW t \in Cooks \cup Pides, NEW l \in PC,
           pc' = [pc EXCEPT ![t] = l],
           t \in Cooks /\ l \in InHand => pc[t] \in InHand,
           waiters' \in [Conds -> SUBSET Threads],
           aparatus' \in Int,
           ovenMutex' \in Threads \cup {Nobody}, preparedMutex' \in Threads \cup {Nobody, Anybody},
           UNCHANGED <<queues, cookVars, sicakPide, outside>>
    PROVE  IndInv'
  <1>1. pc' \in [Threads -> PC] /\ t \notin Motos \cup {Main}
    BY DEF IndInv, TypeOK, ShopAssumption, Threads
  <1>2. TypeOK'
    BY <1>1 DEF IndInv, TypeOK, queues, cookVars, outside, counts, motoVars, mainVars,
               clientVars, flags
  <1>3. CookHasPide'
    <2>1. \A c \in Cooks : pc'[c] \in InHand => pc[c] \in InHand
      BY DEF IndInv, TypeOK, Threads
    <2> QED BY <2>1, HandFrame DEF IndInv, cookVars
  <1>4. TripInBag' /\ OrderInRange'
    <2>1. \A u \in Motos \cup {Main} : pc'[u] = pc[u]
      BY <1>1 DEF IndInv, TypeOK, Threads
    <2> QED BY <1>1, <2>1, KitchenFrame DEF outside, motoVars, mainVars
  <1> QED BY <1>2, <1>3, <1>4 DEF IndInv

-----------------------------------------------------------------------------
\* Every step of a cook (pideShopAsci) keeps the invariant.
LEMMA CookStep ==
    ASSUME ShopAssumption, IndInv, NEW c \in Cooks, Cook(c)
    PROVE  IndInv'
  <1>0. /\ c \in Threads /\ c \in Cooks \cup Pides /\ c \notin Motos \cup {Main} \cup Pides
        /\ TypeOK /\ CookHasPide
    BY DEF ShopAssumption, Threads, IndInv
  <1>1. CASE WaitForOrder(c)
    <2>1. waiters' \in [Conds -> SUBSET Threads] /\ "orderWait" \in PC \ InHand
      BY <1>0, <1>1, ControlType DEF TypeOK, WaitForOrder, PC, Conds, InHand
    <2>2. /\ pc' = [pc EXCEPT ![c] = "orderWait"] /\ UNCHANGED <<aparatus, ovenMutex, preparedMutex>>
          /\ UNCHANGED <<queues, cookVars, sicakPide, outside>>
      BY <1>1 DEF WaitForOrder, Sleep, Goto
    <2> QED BY <1>0, <2>1, <2>2, KitchenQuiet DEF TypeOK
  <1>2. CASE OrderWoken(c)
    <2>1. waiters' \in [Conds -> SUBSET Threads]
      BY <1>0, <1>2, ControlType DEF TypeOK, OrderWoken
    <2>2. \E l \in PC \ InHand : pc' = [pc EXCEPT ![c] = l]
      BY <1>2 DEF OrderWoken, Goto, PC, InHand
    <2>3. UNCHANGED <<aparatus, ovenMutex, preparedMutex, queues, cookVars, sicakPide, outside>>
      BY <1>2 DEF OrderWoken
    <2> QED BY <1>0, <2>1, <2>2, <2>3, KitchenQuiet DEF TypeOK
  <1>3. CASE TakeOrder(c)
    <2>1. pc' \in [Threads -> PC] /\ waiters' \in [Conds -> SUBSET Threads]
      BY <1>0, <1>3, ControlType DEF TypeOK, TakeOrder, PC
    <2>2. preparePide'[c] \in Pides /\ preparePide' \in [Cooks -> Item] /\ orderQueue' \in Seq(Pides)
      BY <1>0, <1>3 DEF TypeOK, TakeOrder, First, Rest, Item
    <2>3. TypeOK'
      BY <1>0, <1>3, <2>1, <2>2 DEF TypeOK, TakeOrder, outside, counts, motoVars, mainVars,
                                    clientVars, flags
    <2>4. pc' = [pc EXCEPT ![c] = "apparatus"] /\ preparePide' = [preparePide EXCEPT ![c] = First(orderQueue)]
      BY <1>3 DEF TakeOrder, Goto
    <2>5. CookHasPide'
      <3>1. \A d \in Cooks \ {c} : pc'[d] = pc[d] /\ preparePide'[d] = preparePide[d]
        BY <1>0, <2>4 DEF TypeOK, Threads
      <3> QED BY <1>0, <2>2, <3>1 DEF CookHasPide
    <2>6. \A u \in Motos \cup {Main} : pc'[u] = pc[u]
      BY <1>0, <2>4 DEF TypeOK, Threads
    <2>7. TripInBag' /\ OrderInRange'
      BY <1>3, <2>1, <2>6, KitchenFrame DEF TakeOrder, outside, motoVars, mainVars
    <2> QED BY <2>3, <2>5, <2>7 DEF IndInv
  <1>4. CASE WaitForApparatus(c)
    <2>1. waiters' \in [Conds -> SUBSET Threads] /\ "apparatusWait" \in PC /\ pc[c] \in InHand
      BY <1>0, <1>4, ControlType DEF TypeOK, WaitForApparatus, At, PC, Conds, InHand
    <2>2. /\ pc' = [pc EXCEPT ![c] = "apparatusWait"]
          /\ UNCHANGED <<aparatus, ovenMutex, preparedMutex, queues, cookVars, sicakPide, outside>>
      BY <1>4 DEF WaitForApparatus, Sleep, Goto
    <2> QED BY <1>0, <2>1, <2>2, KitchenQuiet DEF TypeOK
  <1>5. CASE TakeApparatus(c)
    <2>0. Claim(c) /\ pc[c] \in InHand
      BY <1>5 DEF TakeApparatus, At, InHand
    <2>1. waiters' \in [Conds -> SUBSET Threads]
      BY <1>0, <2>0, ControlType DEF TypeOK, Claim
    <2>2. PICK l \in {"exit", "oven"} : pc' = [pc EXCEPT ![c] = l]
      BY <2>0 DEF Claim, Goto
    <2>3. /\ aparatus' \in Int /\ aparatAzaltildi' \in [Cooks -> BOOLEAN]
          /\ UNCHANGED <<ovenMutex, preparedMutex, queues, preparePide, sicakPide, outside>>
      <3>1. UNCHANGED <<ovenMutex, preparedMutex, queues, preparePide, sicakPide, outside>>
        BY <2>0 DEF Claim
      <3>2. \/ UNCHANGED <<aparatus, aparatAzaltildi>>
            \/ /\ aparatus' = aparatus - 1
               /\ aparatAzaltildi' = [aparatAzaltildi EXCEPT ![c] = TRUE]
        BY <2>0, Zenon DEF Claim
      <3>3. aparatus' \in Int
        BY <1>0, <3>2 DEF TypeOK
      <3>4. aparatAzaltildi' \in [Cooks -> BOOLEAN]
        BY <1>0, <3>2, Zenon DEF TypeOK
      <3> QED BY <3>1, <3>3, <3>4
    <2>4. pc' \in [Threads -> PC]
      BY <1>0, <2>2 DEF TypeOK, PC
    <2>5. TypeOK'
      BY <1>0, <2>1, <2>3, <2>4 DEF TypeOK, queues, outside, counts, motoVars, mainVars,
                                    clientVars, flags
    <2>6. \A d \in Cooks : pc'[d] \in InHand => pc[d] \in InHand
      BY <1>0, <2>0, <2>2 DEF TypeOK, Threads
    <2>7. CookHasPide'
      BY <1>0, <2>3, <2>6, HandFrame
    <2>8. \A u \in Motos \cup {Main} : pc'[u] = pc[u]
      BY <1>0, <2>2 DEF TypeOK, Threads
    <2>9. TripInBag' /\ OrderInRange'
      BY <2>3, <2>4, <2>8, KitchenFrame DEF outside, motoVars, mainVars
    <2> QED BY <2>5, <2>7, <2>9 DEF IndInv
  <1>6. CASE ApparatusWoken(c)
    <2>1. waiters' \in [Conds -> SUBSET Threads] /\ pc[c] \in InHand
      BY <1>0, <1>6, ControlType DEF TypeOK, ApparatusWoken, At, InHand
    <2>2. \E l \in PC : pc' = [pc EXCEPT ![c] = l]
      BY <1>6 DEF ApparatusWoken, Goto, PC
    <2>3. UNCHANGED <<aparatus, ovenMutex, preparedMutex, queues, cookVars, sicakPide, outside>>
      BY <1>6 DEF ApparatusWoken
    <2> QED BY <1>0, <2>1, <2>2, <2>3, KitchenQuiet DEF TypeOK
  <1>7. CASE OvenFull(c)
    <2>1. waiters' \in [Conds -> SUBSET Threads] /\ pc[c] \in InHand
      BY <1>0, <1>7, ControlType DEF TypeOK, OvenFull, ReturnApparatus, At, InHand
    <2>2. "retake" \in PC /\ pc' = [pc EXCEPT ![c] = "retake"]
      BY <1>7 DEF OvenFull, Goto, PC
    <2>3. /\ aparatus' \in Int /\ ovenMutex' \in Threads \cup {Nobody}
          /\ UNCHANGED <<preparedMutex, queues, cookVars, sicakPide, outside>>
      BY <1>0, <1>7 DEF TypeOK, OvenFull, ReturnApparatus
    <2> QED BY <1>0, <2>1, <2>2, <2>3, KitchenQuiet DEF TypeOK
  <1>8. CASE Retake(c)
    <2>1. waiters' \in [Conds -> SUBSET Threads]
      <3>1. \A W \in Signalled : W \subseteq Threads
        BY <1>0 DEF TypeOK, Signalled, Conds
      <3>2. PICK W \in Signalled :
               waiters' = [waiters EXCEPT !["apparatusCond"] = W, !["ovenCondEmpty"] = @ \cup {c}]
        BY <1>8 DEF Retake
      <3>3. waiters \in [Conds -> SUBSET Threads] /\ W \in SUBSET Threads
        BY <1>0, <3>1 DEF TypeOK
      <3> DEFINE w == [waiters EXCEPT !["apparatusCond"] = W]
      <3>4. w \in [Conds -> SUBSET Threads] /\ waiters' = [w EXCEPT !["ovenCondEmpty"] = @ \cup {c}]
        BY <3>2, <3>3
      <3> HIDE DEF w
      <3>5. w["ovenCondEmpty"] \cup {c} \in SUBSET Threads
        BY <1>0, <3>4 DEF Conds
      <3> QED BY <3>4, <3>5
    <2>2. /\ "ovenWait" \in PC /\ pc' = [pc EXCEPT ![c] = "ovenWait"] /\ pc[c] \in InHand
          /\ aparatus' \in Int /\ ovenMutex' \in Threads \cup {Nobody}
          /\ UNCHANGED <<preparedMutex, queues, cookVars, sicakPide, outside>>
      BY <1>0, <1>8 DEF TypeOK, Retake, Goto, PC, At, InHand
    <2> QED BY <1>0, <2>1, <2>2, KitchenQuiet DEF TypeOK
  <1>9. CASE PlacePide(c)
    <2>1. pc' \in [Threads -> PC] /\ waiters' \in [Conds -> SUBSET Threads]
      BY <1>0, <1>9, ControlType DEF TypeOK, PlacePide, PC
    <2>2. pc' = [pc EXCEPT ![c] = "release"] /\ pc[c] \in InHand /\ preparePide[c] \in Pides
      BY <1>0, <1>9 DEF PlacePide, Goto, At, CookHasPide, InHand
    <2>3. ovenQueue' \in Seq(Pides)
      BY <1>0, <1>9, <2>2 DEF TypeOK, PlacePide, Enqueue
    <2>4. TypeOK'
      BY <1>0, <1>9, <2>1, <2>3 DEF TypeOK, PlacePide, cookVars, outside, counts, motoVars,
                                    mainVars, clientVars, flags
    <2>5. CookHasPide'
      <3>1. \A d \in Cooks : pc'[d] \in InHand => pc[d] \in InHand
        BY <1>0, <2>2 DEF TypeOK, Threads
      <3> QED BY <1>0, <1>9, <3>1, HandFrame DEF PlacePide, cookVars
    <2>6. \A u \in Motos \cup {Main} : pc'[u] = pc[u]
      BY <1>0, <2>2 DEF TypeOK, Threads
    <2>7. TripInBag' /\ OrderInRange'
      BY <1>9, <2>1, <2>6, KitchenFrame DEF PlacePide, outside, motoVars, mainVars
    <2> QED BY <2>4, <2>5, <2>7 DEF IndInv
  <1>10. CASE OvenWoken(c)
    <2>1. waiters' \in [Conds -> SUBSET Threads] /\ pc[c] \in InHand
      BY <1>0, <1>10, ControlType DEF TypeOK, OvenWoken, At, InHand
    <2>2. \E l \in PC : pc' = [pc EXCEPT ![c] = l]
      BY <1>10 DEF OvenWoken, Goto, PC
    <2>3. /\ ovenMutex' \in Threads \cup {Nobody}
          /\ UNCHANGED <<aparatus, preparedMutex, queues, cookVars, sicakPide, outside>>
      BY <1>0, <1>10 DEF TypeOK, OvenWoken
    <2> QED BY <1>0, <2>1, <2>2, <2>3, KitchenQuiet DEF TypeOK
  <1>11. CASE Quit(c)
    <2>1. waiters' \in [Conds -> SUBSET Threads]
      BY <1>0, <1>11, ControlType DEF TypeOK, Quit, ReturnApparatus
    <2>2. "exit" \in PC \ InHand /\ pc' = [pc EXCEPT ![c] = "exit"]
      BY <1>11 DEF Quit, Goto, PC, InHand
    <2>3. aparatus' \in Int /\ UNCHANGED <<ovenMutex, preparedMutex, queues, cookVars, sicakPide, outside>>
      BY <1>0, <1>11 DEF TypeOK, Quit, ReturnApparatus
    <2> QED BY <1>0, <2>1, <2>2, <2>3, KitchenQuiet DEF TypeOK
  <1>12. CASE Release(c)
    <2>1. waiters' \in [Conds -> SUBSET Threads] /\ pc[c] \in InHand
      BY <1>0, <1>12, ControlType DEF TypeOK, Release, ReturnApparatus, At, InHand
    <2>2. \E l \in PC : pc' = [pc EXCEPT ![c] = l]
      BY <1>12 DEF Release, Goto, PC
    <2>3. aparatus' \in Int /\ UNCHANGED <<ovenMutex, preparedMutex, queues, cookVars, sicakPide, outside>>
      BY <1>0, <1>12 DEF TypeOK, Release, ReturnApparatus
    <2> QED BY <1>0, <2>1, <2>2, <2>3, KitchenQuiet DEF TypeOK
  <1>13. CASE ReleaseElse(c)
    <2>1. waiters' \in [Conds -> SUBSET Threads] /\ pc[c] \in InHand
      BY <1>0, <1>13, ControlType DEF TypeOK, ReleaseElse, ReturnApparatus, At, InHand
    <2>2. "startTimer" \in PC /\ pc' = [pc EXCEPT ![c] = "startTimer"]
      BY <1>13 DEF ReleaseElse, Goto, PC
    <2>3. aparatus' \in Int /\ UNCHANGED <<ovenMutex, preparedMutex, queues, cookVars, sicakPide, outside>>
      BY <1>0, <1>13 DEF TypeOK, ReleaseElse, ReturnApparatus
    <2> QED BY <1>0, <2>1, <2>2, <2>3, KitchenQuiet DEF TypeOK
  <1>14. CASE StartTimer(c)
    <2>1. waiters' \in [Conds -> SUBSET Threads]
      BY <1>0, <1>14, ControlType DEF TypeOK, StartTimer
    <2>2. preparePide[c] \in Pides /\ preparePide[c] \in Threads
      BY <1>0, <1>14 DEF StartTimer, At, CookHasPide, InHand, Threads
    <2>3. /\ pc' \in [Threads -> PC] /\ pc'[c] \notin InHand
          /\ \A u \in Threads \ (Pides \cup {c}) : pc'[u] = pc[u]
      <3>1. CASE Goto(c, "exit")
        BY <1>0, <3>1 DEF TypeOK, Goto, PC, InHand
      <3>2. CASE pc' = [pc EXCEPT ![c] = "order"]
        BY <1>0, <3>2 DEF TypeOK, PC, InHand
      <3>3. CASE pc' = ArmTimer(c)
        BY <1>0, <2>2, <3>3 DEF TypeOK, ArmTimer, PC, InHand
      <3> QED BY <1>14, <3>1, <3>2, <3>3 DEF StartTimer
    <2>4. /\ preparePide' \in [Cooks -> Item] /\ aparatAzaltildi' \in [Cooks -> BOOLEAN]
          /\ \A d \in Cooks \ {c} : preparePide'[d] = preparePide[d]
      BY <1>0, <1>14 DEF TypeOK, StartTimer, cookVars, Item
    <2>5. UNCHANGED <<ovenMutex, preparedMutex, queues, aparatus, sicakPide, outside>>
      BY <1>14 DEF StartTimer
    <2>6. TypeOK'
      BY <1>0, <2>1, <2>3, <2>4, <2>5 DEF TypeOK, queues, outside, counts, motoVars, mainVars,
                                          clientVars, flags
    <2>7. CookHasPide'
      <3>1. \A d \in Cooks \ {c} : pc'[d] = pc[d]
        BY <2>3 DEF ShopAssumption, Threads
      <3> QED BY <1>0, <2>3, <2>4, <3>1 DEF CookHasPide
    <2>8. \A u \in Motos \cup {Main} : pc'[u] = pc[u]
      BY <1>0, <2>3 DEF ShopAssumption, Threads
    <2>9. TripInBag' /\ OrderInRange'
      BY <2>3, <2>5, <2>8, KitchenFrame DEF outside, motoVars, mainVars
    <2> QED BY <2>6, <2>7, <2>9 DEF IndInv
  <1> QED
    BY <1>1, <1>2, <1>3, <1>4, <1>5, <1>6, <1>7, <1>8, <1>9, <1>10, <1>11, <1>12, <1>13, <1>14
    DEF Cook

-----------------------------------------------------------------------------
\* A timer's step takes no pide from a cook, a trip or main's order.
LEMMA TimerFrame ==
    ASSUME ShopAssumption, IndInv, NEW t \in Pides, NEW l \in PC,
           pc' = [pc EXCEPT ![t] = l], UNCHANGED <<preparePide, bag, trip, cur, newOrder>>
    PROVE  pc' \in [Threads -> PC] /\ CookHasPide' /\ TripInBag' /\ OrderInRange'
  <1>1. pc' \in [Threads -> PC] /\ \A u \in Cooks \cup Motos \cup {Main} : pc'[u] = pc[u]
    BY DEF IndInv, TypeOK, ShopAssumption, Threads
  <1>2. CookHasPide'
    BY <1>1, HandFrame DEF IndInv
  <1> QED BY <1>1, <1>2, KitchenFrame

\* Every step of a timer thread (timerHandler) keeps the invariant.
LEMMA TimerStep ==
    ASSUME ShopAssumption, IndInv, NEW t \in Pides, Timer(t)
    PROVE  IndInv'
  <1>0. t \in Threads /\ t \in Cooks \cup Pides /\ t \notin Cooks /\ TypeOK
    BY DEF ShopAssumption, Threads, IndInv
  <1>1. CASE TimerWait(t)
    <2>1. waiters' \in [Conds -> SUBSET Threads]
      BY <1>0, <1>1, ControlType DEF TypeOK, TimerWait, PC, Conds
    <2>2. \E l \in PC : pc' = [pc EXCEPT ![t] = l]
      BY <1>1 DEF TimerWait, Goto, PC, Sleep
    <2>3. /\ aparatus' \in Int
          /\ ovenMutex' \in Threads \cup {Nobody} /\ preparedMutex' \in Threads \cup {Nobody, Anybody}
          /\ UNCHANGED <<queues, cookVars, sicakPide, outside>>
      BY <1>0, <1>1 DEF TypeOK, TimerWait
    <2> QED BY <1>0, <2>1, <2>2, <2>3, KitchenQuiet
  <1>2. CASE TimerTake(t)
    <2>1. waiters' \in [Conds -> SUBSET Threads]
      BY <1>0, <1>2, ControlType DEF TypeOK, TimerTake
    <2>2. \E l \in PC : pc' = [pc EXCEPT ![t] = l]
      BY <1>2 DEF TimerTake, Goto, PC
    <2>3. /\ aparatus' \in Int
          /\ ovenMutex' \in Threads \cup {Nobody} /\ preparedMutex' \in Threads \cup {Nobody, Anybody}
          /\ UNCHANGED <<queues, cookVars, sicakPide, outside>>
      BY <1>0, <1>2 DEF TypeOK, TimerTake
    <2> QED BY <1>0, <2>1, <2>2, <2>3, KitchenQuiet
  <1>3. CASE TimerWoken(t)
    <2>1. waiters' \in [Conds -> SUBSET Threads]
      BY <1>0, <1>3, ControlType DEF TypeOK, TimerWoken
    <2>2. \E l \in PC : pc' = [pc EXCEPT ![t] = l]
      BY <1>3 DEF TimerWoken, Goto, PC
    <2>3. /\ aparatus' \in Int
          /\ ovenMutex' \in Threads \cup {Nobody} /\ preparedMutex' \in Threads \cup {Nobody, Anybody}
          /\ UNCHANGED <<queues, cookVars, sicakPide, outside>>
      BY <1>0, <1>3 DEF TypeOK, TimerWoken
    <2> QED BY <1>0, <2>1, <2>2, <2>3, KitchenQuiet
  <1>4. CASE OvenEmpty(t)
    <2>1. waiters' \in [Conds -> SUBSET Threads]
      BY <1>0, <1>4, ControlType DEF TypeOK, OvenEmpty, PC, Conds
    <2>2. \E l \in PC : pc' = [pc EXCEPT ![t] = l]
      BY <1>4 DEF OvenEmpty, Goto, PC, Sleep
    <2>3. /\ aparatus' \in Int
          /\ ovenMutex' \in Threads \cup {Nobody} /\ preparedMutex' \in Threads \cup {Nobody, Anybody}
          /\ UNCHANGED <<queues, cookVars, sicakPide, outside>>
      BY <1>0, <1>4 DEF TypeOK, OvenEmpty
    <2> QED BY <1>0, <2>1, <2>2, <2>3, KitchenQuiet
  <1>5. CASE TakeOut(t)
    <2>1. waiters' \in [Conds -> SUBSET Threads]
      BY <1>0, <1>5, ControlType DEF TypeOK, TakeOut
    <2>2. "giveBack" \in PC /\ pc' = [pc EXCEPT ![t] = "giveBack"]
      BY <1>5 DEF TakeOut, Goto, PC
    <2>3. ovenQueue' \in Seq(Pides) /\ First(ovenQueue) \in Item
      BY <1>0, <1>5 DEF TypeOK, TakeOut, First, Rest, Item
    <2>4. sicakPide' \in [Pides -> Item]
      BY <1>0, <1>5, <2>3 DEF TypeOK, TakeOut
    <2>5. UNCHANGED <<ovenMutex, preparedMutex, orderQueue, preparedQueue, aparatus, cookVars, outside>>
      BY <1>5 DEF TakeOut
    <2>6. pc' \in [Threads -> PC] /\ CookHasPide' /\ TripInBag' /\ OrderInRange'
      BY <2>2, <2>5, TimerFrame DEF cookVars, outside, motoVars, mainVars
    <2>7. TypeOK'
      BY <1>0, <2>1, <2>3, <2>4, <2>5, <2>6 DEF TypeOK, cookVars, outside, counts, motoVars,
                                                mainVars, clientVars, flags
    <2> QED BY <2>6, <2>7 DEF IndInv
  <1>6. CASE TakeOutWoken(t)
    <2>1. waiters' \in [Conds -> SUBSET Threads]
      BY <1>0, <1>6, ControlType DEF TypeOK, TakeOutWoken, ReturnApparatus
    <2>2. \E l \in PC : pc' = [pc EXCEPT ![t] = l]
      BY <1>6 DEF TakeOutWoken, Goto, PC
    <2>3. /\ aparatus' \in Int
          /\ ovenMutex' \in Threads \cup {Nobody} /\ preparedMutex' \in Threads \cup {Nobody, Anybody}
          /\ UNCHANGED <<queues, cookVars, sicakPide, outside>>
      BY <1>0, <1>6 DEF TypeOK, TakeOutWoken, ReturnApparatus
    <2> QED BY <1>0, <2>1, <2>2, <2>3, KitchenQuiet
  <1>7. CASE GiveBack(t)
    <2>1. waiters' \in [Conds -> SUBSET Threads]
      BY <1>0, <1>7, ControlType DEF TypeOK, GiveBack, ReturnApparatus
    <2>2. \E l \in PC : pc' = [pc EXCEPT ![t] = l]
      BY <1>7 DEF GiveBack, Goto, PC
    <2>3. /\ aparatus' \in Int
          /\ ovenMutex' \in Threads \cup {Nobody} /\ preparedMutex' \in Threads \cup {Nobody, Anybody}
          /\ UNCHANGED <<queues, cookVars, sicakPide, outside>>
      BY <1>0, <1>7 DEF TypeOK, GiveBack, ReturnApparatus
    <2> QED BY <1>0, <2>1, <2>2, <2>3, KitchenQuiet
  <1>8. CASE PreparedFull(t)
    <2>1. waiters' \in [Conds -> SUBSET Threads]
      BY <1>0, <1>8, ControlType DEF TypeOK, PreparedFull, PC, Conds
    <2>2. \E l \in PC : pc' = [pc EXCEPT ![t] = l]
      BY <1>8 DEF PreparedFull, Goto, PC, Sleep
    <2>3. /\ aparatus' \in Int
          /\ ovenMutex' \in Threads \cup {Nobody} /\ preparedMutex' \in Threads \cup {Nobody, Anybody}
          /\ UNCHANGED <<queues, cookVars, sicakPide, outside>>
      BY <1>0, <1>8 DEF TypeOK, PreparedFull
    <2> QED BY <1>0, <2>1, <2>2, <2>3, KitchenQuiet
  <1>9. CASE Hand(t)
    <2>1. waiters' \in [Conds -> SUBSET Threads]
      BY <1>0, <1>9, ControlType DEF TypeOK, Hand
    <2>2. "handed" \in PC /\ pc' = [pc EXCEPT ![t] = "handed"]
      BY <1>9 DEF Hand, Goto, PC
    <2>3. preparedQueue' \in Seq(Item)
      BY <1>0, <1>9 DEF TypeOK, Hand, Enqueue, Raced
    <2>4. sicakPide' \in [Pides -> Item] /\ preparedMutex' \in Threads \cup {Nobody, Anybody}
      BY <1>0, <1>9, LockType DEF TypeOK, Hand, Item
    <2>5. UNCHANGED <<ovenMutex, orderQueue, ovenQueue, aparatus, cookVars, outside>>
      BY <1>9 DEF Hand
    <2>6. pc' \in [Threads -> PC] /\ CookHasPide' /\ TripInBag' /\ OrderInRange'
      BY <2>2, <2>5, TimerFrame DEF cookVars, outside, motoVars, mainVars
    <2>7. TypeOK'
      BY <1>0, <2>1, <2>3, <2>4, <2>5, <2>6 DEF TypeOK, cookVars, outside, counts, motoVars,
                                                mainVars, clientVars, flags
    <2> QED BY <2>6, <2>7 DEF IndInv
  <1>10. CASE HandWoken(t)
    <2>1. waiters' \in [Conds -> SUBSET Threads]
      BY <1>0, <1>10, ControlType DEF TypeOK, HandWoken
    <2>2. \E l \in PC : pc' = [pc EXCEPT ![t] = l]
      BY <1>10 DEF HandWoken, Goto, PC
    <2>3. /\ aparatus' \in Int
          /\ ovenMutex' \in Threads \cup {Nobody} /\ preparedMutex' \in Threads \cup {Nobody, Anybody}
          /\ UNCHANGED <<queues, cookVars, sicakPide, outside>>
      BY <1>0, <1>10, LockType DEF TypeOK, HandWoken
    <2> QED BY <1>0, <2>1, <2>2, <2>3, KitchenQuiet
  <1>11. CASE TimerEnd(t)
    <2>1. waiters' \in [Conds -> SUBSET Threads]
      BY <1>0, <1>11, ControlType DEF TypeOK, TimerEnd
    <2>2. \E l \in PC : pc' = [pc EXCEPT ![t] = l]
      BY <1>11 DEF TimerEnd, Goto, PC
    <2>3. /\ aparatus' \in Int
          /\ ovenMutex' \in Threads \cup {Nobody} /\ preparedMutex' \in Threads \cup {Nobody, Anybody}
          /\ UNCHANGED <<queues, cookVars, sicakPide, outside>>
      BY <1>0, <1>11, LockType DEF TypeOK, TimerEnd
    <2> QED BY <1>0, <2>1, <2>2, <2>3, KitchenQuiet
  <1> QED
    BY <1>1, <1>2, <1>3, <1>4, <1>5, <1>6, <1>7, <1>8, <1>9, <1>10, <1>11 DEF Timer

-----------------------------------------------------------------------------
(* A moto leaves the kitchen's and main's books alone; "typed" collects what *)
(* is left to show of each of its steps.                                     *)

\* A moto's step keeps the invariant if what it writes has its type and its own trip is in its bag.
LEMMA MotoFrame ==
    ASSUME ShopAssumption, IndInv, NEW m \in Motos, NEW l \in PC,
           pc' = [pc EXCEPT ![m] = l],
           waiters' \in [Conds -> SUBSET Threads],
           preparedMutex' \in Threads \cup {Nobody, Anybody},
           preparedQueue' \in Seq(Item),
           totalOrder' \in Int, totalReceived' \in Nat, onlysendFlag' \in BOOLEAN,
           bag' \in [Motos -> Seq(Item)], flag' \in [Motos -> BOOLEAN],
           trip' \in [Motos -> Nat \ {0}], delivered' \subseteq Item,
           mail' \in [Clients -> {"none", "DELIVERED", "BURNED"}],
           UNCHANGED <<totalOrderSize, elsewhere>>,
           \A n \in Motos \ {m} : bag'[n] = bag[n] /\ trip'[n] = trip[n],
           l \in {"ride", "travel"} => trip'[m] <= Len(bag'[m])
    PROVE  IndInv'
  <1>1. /\ pc' \in [Threads -> PC]
        /\ \A u \in (Cooks \cup Motos \cup {Main}) \ {m} : pc'[u] = pc[u]
        /\ pc'[m] = l
    BY DEF IndInv, TypeOK, ShopAssumption, Threads
  <1>2. TypeOK'
    BY <1>1 DEF IndInv, TypeOK, elsewhere, kitchen, cookVars, mainVars, flags
  <1>3. CookHasPide'
    <2>1. \A c \in Cooks : pc'[c] = pc[c]
      BY <1>1 DEF ShopAssumption
    <2> QED BY <2>1, HandFrame DEF IndInv, elsewhere, kitchen, cookVars
  <1>4. TripInBag'
    BY <1>1 DEF IndInv, TripInBag
  <1>5. OrderInRange'
    <2>1. pc'[Main] = pc[Main]
      BY <1>1 DEF ShopAssumption
    <2> QED BY <2>1 DEF IndInv, OrderInRange, elsewhere, mainVars
  <1> QED BY <1>2, <1>3, <1>4, <1>5 DEF IndInv

\* A message sent to the client keeps the type of mail.
LEMMA TellType ==
    ASSUME TypeOK, NEW status \in {"DELIVERED", "BURNED"}, Tell(status)
    PROVE  mail' \in [Clients -> {"none", "DELIVERED", "BURNED"}]
  BY DEF TypeOK, Tell

\* Every step of a moto (pideShopMoto, delivery) keeps the invariant.
LEMMA MotoStep ==
    ASSUME ShopAssumption, IndInv, NEW m \in Motos, Moto(m)
    PROVE  IndInv'
  <1>0. m \in Threads /\ TypeOK /\ bag[m] \in Seq(Item)
    BY DEF Threads, IndInv, TypeOK
  <1>1. CASE LoadWait(m)
    <2>1. waiters' \in [Conds -> SUBSET Threads]
      BY <1>0, <1>1, ControlType DEF TypeOK, LoadWait, PC, Conds
    <2>2. "loadWait" \in PC /\ pc' = [pc EXCEPT ![m] = "loadWait"]
      BY <1>1 DEF LoadWait, Sleep, Goto, PC
    <2>3. /\ preparedMutex' \in Threads \cup {Nobody, Anybody}
          /\ UNCHANGED <<preparedQueue, counts, motoVars, mail, elsewhere>>
      BY <1>0, <1>1, LockType DEF TypeOK, LoadWait
    <2> QED BY <1>0, <2>1, <2>2, <2>3, MotoFrame DEF TypeOK, counts, motoVars
  <1>2. CASE LoadWoken(m)
    <2>1. waiters' \in [Conds -> SUBSET Threads]
      BY <1>0, <1>2, ControlType DEF TypeOK, LoadWoken
    <2>2. PICK l \in PC \ {"ride", "travel"} : pc' = [pc EXCEPT ![m] = l]
      BY <1>2 DEF LoadWoken, Goto, PC
    <2>3. bag' = bag \/ bag' = [bag EXCEPT ![m] = IF siparisIptal THEN << >> ELSE @]
      BY <1>2, Zenon DEF LoadWoken
    <2>4. bag' \in [Motos -> Seq(Item)] /\ \A n \in Motos \ {m} : bag'[n] = bag[n]
      <3>1. PICK b \in Seq(Item) : bag' = bag \/ bag' = [bag EXCEPT ![m] = b]
        <4>1. << >> \in Seq(Item)
          OBVIOUS
        <4> QED BY <1>0, <2>3, <4>1
      <3>2. bag \in [Motos -> Seq(Item)]
        BY <1>0 DEF TypeOK
      <3> QED BY <3>1, <3>2
    <2>5. /\ preparedMutex' \in Threads \cup {Nobody, Anybody}
          /\ UNCHANGED <<preparedQueue, counts, flag, trip, delivered, mail, elsewhere>>
      BY <1>0, <1>2, LockType DEF TypeOK, LoadWoken
    <2>6. /\ preparedQueue' \in Seq(Item) /\ delivered' \subseteq Item
          /\ totalOrder' \in Int /\ totalReceived' \in Nat /\ onlysendFlag' \in BOOLEAN
          /\ flag' \in [Motos -> BOOLEAN] /\ trip' \in [Motos -> Nat \ {0}]
          /\ mail' \in [Clients -> {"none", "DELIVERED", "BURNED"}]
          /\ UNCHANGED <<totalOrderSize, elsewhere, trip>>
      BY <1>0, <2>5 DEF TypeOK, counts
    <2> QED BY <2>1, <2>2, <2>4, <2>5, <2>6, MotoFrame
  <1>3. CASE Load(m)
    <2>1. "load" \in PC /\ pc' = [pc EXCEPT ![m] = "load"]
      BY <1>3 DEF Load, Goto, PC
    <2>2. Dequeued \subseteq Item /\ preparedQueue' \in Seq(Item)
      BY <1>0, <1>3 DEF TypeOK, Load, First, Rest, Item, Dequeued, Raced
    <2>3. bag' \in [Motos -> Seq(Item)] /\ \A n \in Motos \ {m} : bag'[n] = bag[n]
      <3>1. PICK p \in Dequeued : bag' = [bag EXCEPT ![m] = Append(@, p)]
        BY <1>3 DEF Load
      <3> QED BY <1>0, <2>2, <3>1 DEF TypeOK
    <2>4. /\ totalOrder' \in Int /\ flag' \in [Motos -> BOOLEAN]
          /\ preparedMutex' \in Threads \cup {Nobody, Anybody}
          /\ UNCHANGED <<waiters, totalReceived, totalOrderSize, onlysendFlag, trip,
                         delivered, mail, elsewhere>>
      BY <1>0, <1>3, LockType DEF TypeOK, Load
    <2> QED BY <1>0, <2>1, <2>2, <2>3, <2>4, MotoFrame DEF TypeOK
  <1>4. CASE LoadBroke(m)
    <2>1. "load" \in PC /\ pc' = [pc EXCEPT ![m] = "load"]
      BY <1>4 DEF LoadBroke, Goto, PC
    <2>2. /\ flag' \in [Motos -> BOOLEAN]
          /\ UNCHANGED <<waiters, preparedMutex, preparedQueue, counts, bag, trip,
                         delivered, mail, elsewhere>>
      BY <1>0, <1>4 DEF TypeOK, LoadBroke
    <2> QED BY <1>0, <2>1, <2>2, MotoFrame DEF TypeOK, counts
  <1>5. CASE Leave(m)
    <2>1. waiters' \in [Conds -> SUBSET Threads]
      BY <1>0, <1>5, ControlType DEF TypeOK, Leave
    <2>2. "left" \in PC /\ pc' = [pc EXCEPT ![m] = "left"]
      BY <1>5 DEF Leave, Goto, PC
    <2>3. /\ preparedMutex' \in Threads \cup {Nobody, Anybody}
          /\ UNCHANGED <<preparedQueue, counts, motoVars, mail, elsewhere>>
      BY <1>0, <1>5, LockType DEF TypeOK, Leave
    <2> QED BY <1>0, <2>1, <2>2, <2>3, MotoFrame DEF TypeOK, counts, motoVars
  <1>6. ASSUME EndRound(m)
        PROVE  /\ waiters' \in [Conds -> SUBSET Threads] /\ preparedMutex' \in Threads \cup {Nobody, Anybody}
               /\ \E l \in PC \ {"ride", "travel"} : pc' = [pc EXCEPT ![m] = l]
    BY <1>0, <1>6, ControlType, LockType DEF TypeOK, EndRound, Exit, Goto, PC
  <1>7. CASE Left(m)
    <2>1. waiters' \in [Conds -> SUBSET Threads] /\ preparedMutex' \in Threads \cup {Nobody, Anybody}
      BY <1>0, <1>7, ControlType, LockType DEF TypeOK, Left, Exit
    <2>2. UNCHANGED <<preparedQueue, counts, bag, flag, delivered, mail, elsewhere>>
      BY <1>7 DEF Left
    <2>3. CASE Goto(m, "ride") /\ trip' = [trip EXCEPT ![m] = 1] /\ Departs(m)
      <3>1. trip' \in [Motos -> Nat \ {0}] /\ trip'[m] = 1 /\ Len(bag[m]) >= 1
        BY <1>0, <2>3 DEF TypeOK, Departs
      <3>2. \A n \in Motos \ {m} : trip'[n] = trip[n]
        BY <1>0, <2>3 DEF TypeOK
      <3>3. "ride" \in PC /\ pc' = [pc EXCEPT ![m] = "ride"]
        BY <2>3 DEF Goto, PC
      <3> QED BY <1>0, <2>1, <2>2, <3>1, <3>2, <3>3, MotoFrame DEF TypeOK, counts
    <2>4. CASE UNCHANGED trip /\ (Goto(m, "exit") \/ Goto(m, "stay"))
      <3>1. PICK l \in PC \ {"ride", "travel"} : pc' = [pc EXCEPT ![m] = l]
        BY <2>4 DEF Goto, PC
      <3> QED BY <1>0, <2>1, <2>2, <2>4, <3>1, MotoFrame DEF TypeOK, counts
    <2> QED BY <1>7, <2>3, <2>4 DEF Left, Exit
  <1>8. CASE Stay(m)
    <2>1. EndRound(m) /\ UNCHANGED <<preparedQueue, counts, trip, delivered, mail, elsewhere>>
      BY <1>8 DEF Stay
    <2>2. /\ bag' \in [Motos -> Seq(Item)] /\ flag' \in [Motos -> BOOLEAN]
          /\ \A n \in Motos \ {m} : bag'[n] = bag[n]
      BY <1>0, <1>8 DEF TypeOK, Stay
    <2> QED BY <1>0, <1>6, <2>1, <2>2, MotoFrame DEF TypeOK, counts
  <1>9. CASE Ride(m)
    <2>1. PICK l \in {"back", "travel"} : At(m, "ride") /\ pc' = [pc EXCEPT ![m] = l]
      BY <1>9 DEF Ride, Goto
    <2>2. /\ totalReceived' \in Nat
          /\ UNCHANGED <<waiters, preparedMutex, preparedQueue, totalOrder, totalOrderSize,
                         onlysendFlag, motoVars, mail, elsewhere>>
      BY <1>0, <1>9 DEF TypeOK, Ride
    <2>3. l \in PC /\ trip[m] <= Len(bag[m])
      BY <2>1 DEF IndInv, TripInBag, At, PC
    <2> QED BY <1>0, <2>1, <2>2, <2>3, MotoFrame DEF TypeOK, motoVars
  <1>10. CASE Travel(m)
    <2>1. trip[m] \in 1..Len(bag[m])
      BY <1>0, <1>10 DEF IndInv, TripInBag, Travel, At, TypeOK
    <2>2. delivered' \subseteq Item
      BY <1>0, <1>10, <2>1 DEF TypeOK, Travel
    <2>3. UNCHANGED <<waiters, preparedMutex, preparedQueue, counts, bag, flag, mail, elsewhere>>
      BY <1>10 DEF Travel
    <2>4. CASE trip[m] < Len(bag[m]) /\ trip' = [trip EXCEPT ![m] = @ + 1] /\ Goto(m, "ride")
      <3>1. trip' \in [Motos -> Nat \ {0}] /\ trip'[m] <= Len(bag[m])
        BY <1>0, <2>1, <2>4 DEF TypeOK
      <3>2. \A n \in Motos \ {m} : trip'[n] = trip[n]
        BY <1>0, <2>4 DEF TypeOK
      <3>3. "ride" \in PC /\ pc' = [pc EXCEPT ![m] = "ride"]
        BY <2>4 DEF Goto, PC
      <3>4. /\ waiters' \in [Conds -> SUBSET Threads]
            /\ preparedMutex' \in Threads \cup {Nobody, Anybody}
            /\ bag' = bag /\ trip'[m] <= Len(bag[m])
        BY <1>0, <2>3, <3>1 DEF TypeOK
      <3>5. /\ preparedQueue' \in Seq(Item) /\ delivered' \subseteq Item
            /\ totalOrder' \in Int /\ totalReceived' \in Nat /\ onlysendFlag' \in BOOLEAN
            /\ flag' \in [Motos -> BOOLEAN] /\ bag' \in [Motos -> Seq(Item)]
            /\ mail' \in [Clients -> {"none", "DELIVERED", "BURNED"}]
            /\ UNCHANGED <<totalOrderSize, elsewhere>>
        BY <1>0, <2>2, <2>3 DEF TypeOK, counts
      <3> QED BY <3>1, <3>2, <3>3, <3>4, <3>5, MotoFrame
    <2>5. CASE Goto(m, "back") /\ UNCHANGED trip
      <3>1. "back" \in PC /\ pc' = [pc EXCEPT ![m] = "back"]
        BY <2>5 DEF Goto, PC
      <3> QED BY <1>0, <2>2, <2>3, <2>5, <3>1, MotoFrame DEF TypeOK, counts
    <2> QED BY <1>10, <2>4, <2>5 DEF Travel
  <1>11. ASSUME EmptyBag(m), mail' \in [Clients -> {"none", "DELIVERED", "BURNED"}],
                onlysendFlag' \in BOOLEAN
         PROVE  IndInv'
    <2>1. EndRound(m) /\ UNCHANGED <<preparedQueue, totalOrder, totalReceived, totalOrderSize, trip,
                                    delivered, elsewhere>>
      BY <1>11 DEF EmptyBag
    <2>2. /\ bag' \in [Motos -> Seq(Item)] /\ flag' \in [Motos -> BOOLEAN]
          /\ \A n \in Motos \ {m} : bag'[n] = bag[n]
      BY <1>0, <1>11 DEF TypeOK, EmptyBag
    <2> QED BY <1>0, <1>6, <1>11, <2>1, <2>2, MotoFrame DEF TypeOK
  <1>12. CASE Back(m)
    <2>1. CASE EmptyBag(m) /\ UNCHANGED <<onlysendFlag, mail>>
      BY <1>0, <1>11, <2>1 DEF TypeOK
    <2>2. CASE /\ Goto(m, IF cancelled THEN "exit" ELSE "report")
               /\ UNCHANGED <<waiters, preparedMutex, preparedQueue, counts, motoVars, mail, elsewhere>>
      <3>1. PICK l \in {"exit", "report"} : Goto(m, l)
        BY <2>2
      <3>2. l \in PC \ {"ride", "travel"} /\ pc' = [pc EXCEPT ![m] = l]
        BY <3>1 DEF Goto, PC
      <3> QED BY <1>0, <2>2, <3>2, MotoFrame DEF TypeOK, counts, motoVars
    <2> QED BY <1>12, <2>1, <2>2 DEF Back
  <1>13. CASE Report(m)
    <2>1. mail' \in [Clients -> {"none", "DELIVERED", "BURNED"}] /\ onlysendFlag' \in BOOLEAN
      BY <1>0, <1>13, TellType DEF TypeOK, Report
    <2> QED BY <1>11, <1>13, <2>1 DEF Report
  <1> QED
    BY <1>1, <1>2, <1>3, <1>4, <1>5, <1>7, <1>8, <1>9, <1>10, <1>12, <1>13 DEF Moto

-----------------------------------------------------------------------------
\* Main's step takes no pide from a cook or a bag.
LEMMA MainFrame ==
    ASSUME ShopAssumption, IndInv, NEW l \in PC, pc' = [pc EXCEPT ![Main] = l],
           UNCHANGED <<preparePide, bag, trip>>
    PROVE  pc' \in [Threads -> PC] /\ pc'[Main] = l /\ CookHasPide' /\ TripInBag'
  <1>1. /\ pc' \in [Threads -> PC] /\ pc'[Main] = l
        /\ \A u \in Cooks \cup Motos : pc'[u] = pc[u]
    BY DEF IndInv, TypeOK, ShopAssumption, Threads
  <1>2. CookHasPide'
    BY <1>1, HandFrame DEF IndInv
  <1>3. TripInBag'
    BY <1>1 DEF IndInv, TripInBag
  <1> QED BY <1>1, <1>2, <1>3

\* Main's joins keep the places of the threads, the pides in hand, the trips and the order.
LEMMA DownType ==
    ASSUME Down
    PROVE  pc' \in [Threads -> PC] /\ CookHasPide' /\ TripInBag' /\ OrderInRange'
  BY DEF Down, PC, CookHasPide, TripInBag, OrderInRange, Early, Threads, InHand

\* Every step of main (accept, the order, the verdict of the client) keeps the invariant.
LEMMA MainStep ==
    ASSUME ShopAssumption, IndInv, MainThread
    PROVE  IndInv'
  <1>0. Main \in Threads /\ TypeOK /\ OrderInRange
    BY DEF Threads, IndInv
  <1> USE DEF shop, cookVars, motoVars
  <1>1. CASE Accept
    <2>1. "info" \in PC /\ pc' = [pc EXCEPT ![Main] = "info"]
      BY <1>1 DEF Accept, Goto, PC
    <2>2. pc' \in [Threads -> PC] /\ pc'[Main] = "info" /\ CookHasPide' /\ TripInBag'
      BY <1>1, <2>1, MainFrame DEF Accept
    <2>3. cur' \in Clients /\ backlog' \subseteq Clients
      BY <1>0, <1>1 DEF TypeOK, Accept
    <2>4. TypeOK'
      BY <1>0, <1>1, <2>2, <2>3 DEF TypeOK, Accept
    <2>5. OrderInRange'
      BY <2>2, <2>3 DEF OrderInRange
    <2> QED BY <2>2, <2>4, <2>5 DEF IndInv
  <1>9. CASE ReceiveInfo \/ StoreSocket \/ StoreSize
    <2>1. cur \in Clients /\ Size[cur] \in Nat
      BY <1>0, <1>9 DEF ReceiveInfo, StoreSocket, StoreSize, At, OrderInRange, Early, ShopAssumption
    <2>2. PICK l \in {"socket", "size", "orders"} : pc' = [pc EXCEPT ![Main] = l]
      BY <1>9 DEF ReceiveInfo, StoreSocket, StoreSize, Goto
    <2>3. l \in PC
      BY <2>2 DEF PC
    <2>4. pc' \in [Threads -> PC] /\ pc'[Main] = l /\ CookHasPide' /\ TripInBag'
      BY <1>9, <2>2, <2>3, MainFrame DEF ReceiveInfo, StoreSocket, StoreSize
    <2>5. TypeOK'
      BY <1>0, <1>9, <2>1, <2>4 DEF TypeOK, ReceiveInfo, StoreSocket, StoreSize, flags, counts,
                                    mainVars, clientVars
    <2>6. OrderInRange'
      BY <1>9, <2>1, <2>2, <2>4 DEF OrderInRange, ReceiveInfo, StoreSocket, StoreSize, mainVars
    <2> QED BY <2>4, <2>5, <2>6 DEF IndInv
  <1>2. CASE ReceiveOrders
    <2>1. cur \in Clients
      BY <1>0, <1>2 DEF ReceiveOrders, At, OrderInRange, Early
    <2>2. /\ AfterOrders(1) \in {"put", "serve"} /\ AfterOrders(1) \in PC
          /\ AfterOrders(1) = "put" => 1 <= Size[cur]
      BY DEF AfterOrders, PC
    <2>3. pc' = [pc EXCEPT ![Main] = AfterOrders(1)]
      BY <1>2 DEF ReceiveOrders, Goto
    <2>4. pc' \in [Threads -> PC] /\ pc'[Main] = AfterOrders(1) /\ CookHasPide' /\ TripInBag'
      BY <1>2, <2>2, <2>3, MainFrame DEF ReceiveOrders
    <2>5. TypeOK'
      BY <1>0, <1>2, <2>1, <2>4 DEF TypeOK, ReceiveOrders, flags, clientVars
    <2>6. OrderInRange'
      BY <1>2, <2>1, <2>2, <2>4 DEF OrderInRange, ReceiveOrders
    <2> QED BY <2>4, <2>5, <2>6 DEF IndInv
  <1>3. CASE PutOrder
    <2>1. cur \in Clients /\ newOrder \in 1..Size[cur] /\ Size[cur] \in Nat
      BY <1>0, <1>3 DEF PutOrder, At, OrderInRange, TypeOK, ShopAssumption
    <2>2. <<cur, newOrder>> \in Pides
      BY <2>1 DEF Pides
    <2>3. orderQueue' \in Seq(Pides)
      BY <1>0, <1>3, <2>2 DEF TypeOK, PutOrder, Enqueue
    <2>4. waiters' \in [Conds -> SUBSET Threads]
      BY <1>0, <1>3, ControlType DEF TypeOK, PutOrder
    <2>5. "count" \in PC /\ pc' = [pc EXCEPT ![Main] = "count"]
      BY <1>3 DEF PutOrder, Goto, PC
    <2>6. pc' \in [Threads -> PC] /\ pc'[Main] = "count" /\ CookHasPide' /\ TripInBag'
      BY <1>3, <2>5, MainFrame DEF PutOrder
    <2>7. TypeOK'
      BY <1>0, <1>3, <2>3, <2>4, <2>6 DEF TypeOK, PutOrder, flags, counts, mainVars, clientVars
    <2>8. OrderInRange'
      BY <1>3, <2>1, <2>6 DEF OrderInRange, PutOrder, mainVars
    <2> QED BY <2>6, <2>7, <2>8 DEF IndInv
  <1>4. CASE OrdersFull
    <2>1. waiters' \in [Conds -> SUBSET Threads]
      BY <1>0, <1>4, ControlType DEF TypeOK, OrdersFull, Conds, PC
    <2>2. "putWait" \in PC /\ pc' = [pc EXCEPT ![Main] = "putWait"]
      BY <1>4 DEF OrdersFull, Sleep, Goto, PC
    <2>3. pc' \in [Threads -> PC] /\ pc'[Main] = "putWait" /\ CookHasPide' /\ TripInBag'
      BY <1>4, <2>2, MainFrame DEF OrdersFull
    <2>4. TypeOK'
      BY <1>0, <1>4, <2>1, <2>3 DEF TypeOK, OrdersFull, flags, counts, mainVars, clientVars
    <2>5. OrderInRange'
      BY <1>0, <1>4, <2>3 DEF OrderInRange, OrdersFull, At, mainVars
    <2> QED BY <2>3, <2>4, <2>5 DEF IndInv
  <1>5. CASE CountOrder
    <2>1. cur \in Clients /\ newOrder \in Nat \ {0} /\ Size[cur] \in Nat
      BY <1>0, <1>5 DEF CountOrder, At, OrderInRange, TypeOK, ShopAssumption
    <2>2. /\ AfterOrders(newOrder + 1) \in {"put", "serve"} /\ AfterOrders(newOrder + 1) \in PC
          /\ AfterOrders(newOrder + 1) = "put" => newOrder + 1 <= Size[cur]
      BY DEF AfterOrders, PC
    <2>3. pc' = [pc EXCEPT ![Main] = AfterOrders(newOrder + 1)]
      BY <1>5 DEF CountOrder, Goto
    <2>4. /\ pc' \in [Threads -> PC] /\ pc'[Main] = AfterOrders(newOrder + 1)
          /\ CookHasPide' /\ TripInBag'
      BY <1>5, <2>2, <2>3, MainFrame DEF CountOrder
    <2>5. TypeOK'
      BY <1>0, <1>5, <2>1, <2>4 DEF TypeOK, CountOrder, flags, clientVars
    <2>6. OrderInRange'
      BY <1>5, <2>1, <2>2, <2>4 DEF OrderInRange, CountOrder
    <2> QED BY <2>4, <2>5, <2>6 DEF IndInv
  <1>6. CASE ServeCancelled
    <2>1. waiters' \in [Conds -> SUBSET Threads]
      BY <1>0, <1>6, ControlType DEF TypeOK, ServeCancelled
    <2>2. "accept" \in PC /\ pc' = [pc EXCEPT ![Main] = "accept"]
      BY <1>6 DEF ServeCancelled, Goto, PC
    <2>3. pc' \in [Threads -> PC] /\ pc'[Main] = "accept" /\ CookHasPide' /\ TripInBag'
      BY <1>6, <2>2, MainFrame DEF ServeCancelled
    <2>4. TypeOK'
      BY <1>0, <1>6, <2>1, <2>3 DEF TypeOK, ServeCancelled, counts, clientVars
    <2>5. OrderInRange'
      BY <2>3 DEF OrderInRange, Early
    <2> QED BY <2>3, <2>4, <2>5 DEF IndInv
  <1>7. CASE Served
    <2>1. PICK l \in {"accept", "join"} : pc' = [pc EXCEPT ![Main] = l]
      BY <1>7 DEF Served, Goto
    <2>2. l \in PC
      BY <2>1 DEF PC
    <2>3. pc' \in [Threads -> PC] /\ pc'[Main] = l /\ CookHasPide' /\ TripInBag'
      BY <1>7, <2>1, <2>2, MainFrame DEF Served
    <2>4. TypeOK'
      BY <1>0, <1>7, <2>3 DEF TypeOK, Served, flags, counts, mainVars, clientVars
    <2>5. OrderInRange'
      BY <1>0, <1>7, <2>1, <2>3 DEF OrderInRange, Served, At, mainVars
    <2> QED BY <2>3, <2>4, <2>5 DEF IndInv
  <1>8. CASE Join
    <2>1. pc' \in [Threads -> PC] /\ CookHasPide' /\ TripInBag' /\ OrderInRange'
      BY <1>8, DownType DEF Join
    <2>2. TypeOK'
      BY <1>0, <1>8, <2>1 DEF TypeOK, Join, flags, counts, mainVars, clientVars
    <2> QED BY <2>1, <2>2 DEF IndInv
  <1> QED
    BY <1>1, <1>2, <1>3, <1>4, <1>5, <1>6, <1>7, <1>8, <1>9 DEF MainThread

\* SIGINT in the server keeps the invariant.
LEMMA BurnStep ==
    ASSUME ShopAssumption, IndInv, Burn
    PROVE  IndInv'
  <1>0. TypeOK /\ CookHasPide /\ TripInBag /\ OrderInRange
    BY DEF IndInv
  <1> USE DEF shop, cookVars, motoVars
  <1>1. CASE Down /\ UNCHANGED <<cancelled, waiters, mail, sockfd, counts, siparisIptal>>
    <2>1. pc' \in [Threads -> PC] /\ CookHasPide' /\ TripInBag' /\ OrderInRange'
      BY <1>1, DownType
    <2>2. TypeOK'
      BY <1>0, <1>1, <2>1 DEF TypeOK, Burn, counts
    <2> QED BY <2>1, <2>2 DEF IndInv
  <1>2. ASSUME UNCHANGED pc PROVE CookHasPide' /\ TripInBag' /\ OrderInRange'
    BY <1>0, <1>2 DEF Burn, CookHasPide, TripInBag, OrderInRange
  <1>3. CASE /\ Tell("BURNED") /\ cancelled' = TRUE
             /\ \E ks : SignalApparatus(ks)
             /\ UNCHANGED <<pc, sockfd, counts, siparisIptal>>
    <2>1. waiters' \in [Conds -> SUBSET Threads]
      BY <1>0, <1>3, ControlType DEF TypeOK
    <2>2. mail' \in [Clients -> {"none", "DELIVERED", "BURNED"}]
      BY <1>0, <1>3, TellType
    <2>3. TypeOK'
      BY <1>0, <1>3, <2>1, <2>2 DEF TypeOK, Burn, counts
    <2> QED BY <1>2, <1>3, <2>3 DEF IndInv
  <1>4. CASE /\ cancelled' = TRUE /\ siparisIptal' = TRUE
             /\ \E ks : Broadcast(ks)
             /\ sockfd' = Nobody
             /\ totalOrderSize' = 0 /\ totalReceived' = 0 /\ onlysendFlag' = TRUE
             /\ UNCHANGED <<pc, mail, totalOrder>>
    <2>1. waiters' \in [Conds -> SUBSET Threads]
      BY <1>0, <1>4, ControlType DEF TypeOK
    <2>2. TypeOK'
      BY <1>0, <1>4, <2>1 DEF TypeOK, Burn
    <2> QED BY <1>2, <1>4, <2>2 DEF IndInv
  <1> QED BY <1>1, <1>3, <1>4 DEF Burn, BurnEnds, BurnSets, BurnServes

\* A step of a client (connect, cancel, hear the server) keeps the invariant.
LEMMA ClientStep ==
    ASSUME IndInv, NEW c \in Clients, Connect(c) \/ Hear(c) \/ Cancel(c)
    PROVE  IndInv'
  <1>0. TypeOK /\ CookHasPide /\ TripInBag /\ OrderInRange
    BY DEF IndInv
  <1>1. UNCHANGED <<pc, waiters, shop, orderQueue, flags, counts, mainVars, mail>>
    BY DEF Connect, Hear, Cancel
  <1>2. client' \in [Clients -> {"idle", "waiting"} \cup Final] /\ backlog' \subseteq Clients
    BY <1>0 DEF TypeOK, Connect, Hear, Cancel, Final
  <1>3. TypeOK'
    BY <1>0, <1>1, <1>2 DEF TypeOK, shop, cookVars, motoVars, flags, counts, mainVars
  <1>4. CookHasPide' /\ TripInBag' /\ OrderInRange'
    BY <1>0, <1>1 DEF CookHasPide, TripInBag, OrderInRange, shop, cookVars, motoVars, mainVars
  <1> QED BY <1>3, <1>4 DEF IndInv

-----------------------------------------------------------------------------
\* The server starts in a state of the invariant.
LEMMA InitInv == ASSUME ShopAssumption, Init PROVE IndInv
  <1>1. pc \in [Threads -> PC] /\ waiters \in [Conds -> SUBSET Threads]
    BY DEF Init, PC
  <1>2. /\ << >> \in Seq(Pides) /\ << >> \in Seq(Item) /\ Phantom \in Item
        /\ aparatus \in Int
    BY DEF Init, Item, ShopAssumption
  <1>3. /\ preparePide \in [Cooks -> Item] /\ aparatAzaltildi \in [Cooks -> BOOLEAN]
        /\ sicakPide \in [Pides -> Item]
        /\ bag \in [Motos -> Seq(Item)] /\ flag \in [Motos -> BOOLEAN]
        /\ trip \in [Motos -> Nat \ {0}]
    BY <1>2 DEF Init
  <1>4. /\ client \in [Clients -> {"idle", "waiting"} \cup Final]
        /\ mail \in [Clients -> {"none", "DELIVERED", "BURNED"}]
    BY DEF Init
  <1>5. TypeOK
    <2>1. /\ ovenMutex \in Threads \cup {Nobody} /\ preparedMutex \in Threads \cup {Nobody, Anybody}
          /\ siparisIptal \in BOOLEAN /\ cancelled \in BOOLEAN /\ onlysendFlag \in BOOLEAN
          /\ sockfd \in Clients \cup {Nobody, 0} /\ cur \in Clients \cup {Nobody}
          /\ delivered \subseteq Item /\ backlog \subseteq Clients
      BY Zenon DEF Init
    <2>3. /\ totalOrder \in Int /\ totalReceived \in Nat /\ totalOrderSize \in Nat
          /\ newOrder \in Nat \ {0}
      BY DEF Init
    <2>2. orderQueue \in Seq(Pides) /\ ovenQueue \in Seq(Pides) /\ preparedQueue \in Seq(Item)
      BY <1>2 DEF Init
    <2> QED BY <1>1, <1>2, <1>3, <1>4, <2>1, <2>2, <2>3 DEF TypeOK
  <1>6. CookHasPide /\ TripInBag /\ OrderInRange
    BY DEF Init, CookHasPide, TripInBag, OrderInRange, Early, InHand, ShopAssumption, Threads
  <1> QED BY <1>5, <1>6 DEF IndInv

\* Every step of the shop keeps the invariant, and so does stuttering.
LEMMA NextInv == ASSUME ShopAssumption, IndInv, [Next]_vars PROVE IndInv'
  <1>1. CASE Next
    BY <1>1, CookStep, TimerStep, MotoStep, MainStep, BurnStep, ClientStep DEF Next
  <1>2. CASE UNCHANGED vars
    <2>1. TypeOK'
      BY <1>2 DEF IndInv, TypeOK, vars, queues, flags, counts, cookVars, motoVars, mainVars,
                  clientVars
    <2>2. CookHasPide' /\ TripInBag' /\ OrderInRange'
      BY <1>2 DEF IndInv, CookHasPide, TripInBag, OrderInRange, vars, cookVars, motoVars, mainVars
    <2> QED BY <2>1, <2>2 DEF IndInv
  <1> QED BY <1>1, <1>2

\* Whatever the interleaving of the threads, the cancellations and the
\* shutdown: a cook past the order queue has a pide, delivery() stays inside
\* its bag, main stays inside the client's order.
THEOREM Inductive == Spec => []IndInv
  <1>1. Init => IndInv
    BY ShopAssumption, InitInv
  <1>2. IndInv /\ [Next]_vars => IndInv'
    BY ShopAssumption, NextInv
  <1> QED BY <1>1, <1>2, PTL DEF Spec

\* Every variable of the server keeps its type.
THEOREM TypeCorrect == Spec => []TypeOK
  <1>1. IndInv => TypeOK
    BY DEF IndInv
  <1> QED BY <1>1, Inductive, PTL
=============================================================================
