------------------------------- MODULE Kitchen -------------------------------
(***************************************************************************)
(* The cooks (pideShopAsci) and the timer threads (timerHandler) of        *)
(* src/final/server.c.  Reads of siparisIptal and cancelled that another   *)
(* thread's write may separate are steps of their own.                     *)
(***************************************************************************)
EXTENDS ShopState

outside == <<counts, motoVars, mainVars, clientVars, flags>>

-----------------------------------------------------------------------------
(* A cook takes an order ... *)

WaitForOrder(c) ==
    /\ At(c, "order") /\ orderQueue = << >>
    /\ Sleep(c, "orderFull", "orderWait")
    /\ UNCHANGED <<ovenMutex, preparedMutex, queues, aparatus, cookVars, sicakPide, outside>>

TakeOrder(c) ==
    /\ At(c, "order") /\ orderQueue # << >>
    /\ preparePide' = [preparePide EXCEPT ![c] = First(orderQueue)]
    /\ orderQueue' = Rest(orderQueue)
    /\ Broadcast({"orderFull"})
    /\ Goto(c, "apparatus")
    /\ UNCHANGED <<ovenMutex, preparedMutex, ovenQueue, preparedQueue, aparatus,
                   aparatAzaltildi, sicakPide, outside>>

OrderWoken(c) ==
    /\ At(c, "orderWait") /\ Awake(c, "orderFull")
    /\ \/ cancelled /\ Broadcast({"orderFull"}) /\ Goto(c, "exit")
       \/ ~cancelled /\ Goto(c, "order") /\ UNCHANGED waiters
    /\ UNCHANGED <<ovenMutex, preparedMutex, queues, aparatus, cookVars, sicakPide, outside>>

(* ... an apparatus ... *)

Claim(c) ==
    /\ \/ /\ cancelled
          /\ SignalApparatus({}) /\ Goto(c, "exit")
          /\ UNCHANGED <<aparatus, aparatAzaltildi>>
       \/ /\ ~cancelled /\ ~siparisIptal
          /\ aparatus' = aparatus - 1
          /\ aparatAzaltildi' = [aparatAzaltildi EXCEPT ![c] = TRUE]
          /\ Broadcast({"apparatusCond"}) /\ Goto(c, "oven")
       \/ /\ ~cancelled /\ siparisIptal
          /\ Broadcast({"apparatusCond"}) /\ Goto(c, "oven")
          /\ UNCHANGED <<aparatus, aparatAzaltildi>>
    /\ UNCHANGED <<ovenMutex, preparedMutex, queues, preparePide, sicakPide, outside>>

WaitForApparatus(c) ==
    /\ At(c, "apparatus") /\ aparatus = 0
    /\ Sleep(c, "apparatusCond", "apparatusWait")
    /\ UNCHANGED <<ovenMutex, preparedMutex, queues, aparatus, cookVars, sicakPide, outside>>

TakeApparatus(c) ==
    \/ At(c, "apparatus") /\ aparatus # 0 /\ Claim(c)
    \/ At(c, "apparatusBroke") /\ Claim(c)   \* left the loop by "break"

ApparatusWoken(c) ==
    /\ At(c, "apparatusWait") /\ Awake(c, "apparatusCond")
    /\ \/ siparisIptal /\ Goto(c, "apparatusBroke") /\ UNCHANGED waiters
       \/ ~siparisIptal /\ cancelled /\ SignalApparatus({}) /\ Goto(c, "exit")
       \/ ~siparisIptal /\ ~cancelled /\ Goto(c, "apparatus") /\ UNCHANGED waiters
    /\ UNCHANGED <<ovenMutex, preparedMutex, queues, aparatus, cookVars, sicakPide, outside>>

(* ... and a place in the oven.  A cook that finds the oven full gives its *)
(* apparatus back and takes it again before it sleeps, ovenMutex held.     *)

OvenFull(c) ==
    /\ At(c, "oven") /\ ovenMutex = Nobody /\ IsFull(ovenQueue, OvenCap)
    /\ ReturnApparatus({})
    /\ ovenMutex' = c
    /\ Goto(c, "retake")
    /\ UNCHANGED <<preparedMutex, queues, cookVars, sicakPide, outside>>

\* Bug: the cook sleeps without the apparatus and gives one back when it wakes.
RetakeForgotten(c) ==
    /\ At(c, "retake")
    /\ Sleep(c, "ovenCondEmpty", "ovenWait")
    /\ ovenMutex' = Nobody
    /\ UNCHANGED <<aparatus, preparedMutex, queues, cookVars, sicakPide, outside>>

Retake(c) ==
    /\ At(c, "retake")
    /\ aparatus' = aparatus - 1
    /\ \E W \in Signalled :
          waiters' = [waiters EXCEPT !["apparatusCond"] = W,
                                     !["ovenCondEmpty"] = @ \cup {c}]
    /\ ovenMutex' = Nobody
    /\ Goto(c, "ovenWait")
    /\ UNCHANGED <<preparedMutex, queues, cookVars, sicakPide, outside>>

PlacePide(c) ==
    /\ \/ At(c, "oven") /\ ovenMutex = Nobody /\ ~IsFull(ovenQueue, OvenCap)
       \/ At(c, "ovenBroke")                 \* left the loop by "break"
    /\ ovenQueue' = IF siparisIptal THEN ovenQueue
                    ELSE Enqueue(ovenQueue, OvenCap, preparePide[c])
    /\ Broadcast({"ovenCondFull"})
    /\ ovenMutex' = Nobody
    /\ Goto(c, "release")
    /\ UNCHANGED <<preparedMutex, orderQueue, preparedQueue, aparatus, cookVars, sicakPide, outside>>

OvenWoken(c) ==
    /\ At(c, "ovenWait") /\ Awake(c, "ovenCondEmpty") /\ ovenMutex = Nobody
    /\ \/ siparisIptal /\ ovenMutex' = c /\ Goto(c, "ovenBroke") /\ UNCHANGED waiters
       \/ /\ ~siparisIptal /\ cancelled
          /\ Broadcast({"ovenCondFull"}) /\ Goto(c, "quit") /\ UNCHANGED ovenMutex
       \/ /\ ~siparisIptal /\ ~cancelled
          /\ Goto(c, "oven") /\ UNCHANGED <<ovenMutex, waiters>>
    /\ UNCHANGED <<preparedMutex, queues, aparatus, cookVars, sicakPide, outside>>

Quit(c) ==
    /\ At(c, "quit")
    /\ ReturnApparatus({})
    /\ Goto(c, "exit")
    /\ UNCHANGED <<ovenMutex, preparedMutex, queues, cookVars, sicakPide, outside>>

(* The two tests that decide whether the apparatus is given back. *)

Release(c) ==
    /\ At(c, "release")
    /\ \/ cancelled /\ Goto(c, "exit") /\ UNCHANGED <<aparatus, waiters>>
       \/ /\ ~cancelled /\ siparisIptal /\ aparatAzaltildi[c]
          /\ ReturnApparatus({}) /\ Goto(c, "startTimer")
       \/ /\ ~cancelled /\ ~(siparisIptal /\ aparatAzaltildi[c])
          /\ Goto(c, "releaseElse") /\ UNCHANGED <<aparatus, waiters>>
    /\ UNCHANGED <<ovenMutex, preparedMutex, queues, cookVars, sicakPide, outside>>

ReleaseElse(c) ==
    /\ At(c, "releaseElse")
    /\ \/ ~siparisIptal /\ ReturnApparatus({})
       \/ siparisIptal /\ UNCHANGED <<aparatus, waiters>>
    /\ Goto(c, "startTimer")
    /\ UNCHANGED <<ovenMutex, preparedMutex, queues, cookVars, sicakPide, outside>>

\* startTimer(): one shot, whatever cook it belongs to.
ArmTimer(c) == [pc EXCEPT ![c] = "order", ![preparePide[c]] = "armed"]

StartTimer(c) ==
    /\ At(c, "startTimer")
    /\ \/ /\ ~siparisIptal /\ cancelled
          /\ Broadcast({"orderFull"}) /\ Goto(c, "exit")
          /\ UNCHANGED cookVars
       \/ /\ siparisIptal \/ ~cancelled
          /\ pc' = IF siparisIptal THEN [pc EXCEPT ![c] = "order"]
                   ELSE ArmTimer(c)
          /\ preparePide' = [preparePide EXCEPT ![c] = Phantom]
          /\ aparatAzaltildi' = [aparatAzaltildi EXCEPT ![c] = FALSE]
          /\ UNCHANGED waiters
    /\ UNCHANGED <<ovenMutex, preparedMutex, queues, aparatus, sicakPide, outside>>

Cook(c) ==
    \/ WaitForOrder(c) \/ TakeOrder(c) \/ OrderWoken(c)
    \/ WaitForApparatus(c) \/ TakeApparatus(c) \/ ApparatusWoken(c)
    \/ OvenFull(c) \/ Retake(c) \/ PlacePide(c) \/ OvenWoken(c) \/ Quit(c)
    \/ Release(c) \/ ReleaseElse(c) \/ StartTimer(c)

-----------------------------------------------------------------------------
(* A timer thread, from the expiry of its timer on. *)

TimerWait(t) ==
    /\ At(t, "armed") /\ aparatus = 0
    /\ Sleep(t, "apparatusCond", "timerWait")
    /\ UNCHANGED <<ovenMutex, preparedMutex, queues, aparatus, cookVars, sicakPide, outside>>

TimerTake(t) ==
    /\ \/ At(t, "armed") /\ aparatus # 0
       \/ At(t, "timerWait") /\ Awake(t, "apparatusCond") /\ siparisIptal
    /\ aparatus' = aparatus - 1
    /\ SignalApparatus({})
    /\ Goto(t, "takeOut")
    /\ UNCHANGED <<ovenMutex, preparedMutex, queues, cookVars, sicakPide, outside>>

TimerWoken(t) ==
    /\ At(t, "timerWait") /\ Awake(t, "apparatusCond") /\ ~siparisIptal
    /\ \/ cancelled /\ SignalApparatus({}) /\ Goto(t, "done")
       \/ ~cancelled /\ Goto(t, "armed") /\ UNCHANGED waiters
    /\ UNCHANGED <<ovenMutex, preparedMutex, queues, aparatus, cookVars, sicakPide, outside>>

OvenEmpty(t) ==
    /\ At(t, "takeOut") /\ ovenMutex = Nobody /\ ovenQueue = << >>
    /\ Sleep(t, "ovenCondFull", "takeOutWait")
    /\ UNCHANGED <<ovenMutex, preparedMutex, queues, aparatus, cookVars, sicakPide, outside>>

TakeOut(t) ==
    /\ ovenMutex = Nobody
    /\ \/ At(t, "takeOut") /\ ovenQueue # << >>
       \/ At(t, "takeOutWait") /\ Awake(t, "ovenCondFull") /\ siparisIptal
    /\ sicakPide' = [sicakPide EXCEPT ![t] = First(ovenQueue)]
    /\ ovenQueue' = Rest(ovenQueue)
    /\ Broadcast({"ovenCondEmpty"})
    /\ Goto(t, "giveBack")
    /\ UNCHANGED <<ovenMutex, preparedMutex, orderQueue, preparedQueue, aparatus, cookVars, outside>>

TakeOutWoken(t) ==
    /\ At(t, "takeOutWait") /\ Awake(t, "ovenCondFull") /\ ovenMutex = Nobody
    /\ ~siparisIptal
    /\ \/ cancelled /\ ReturnApparatus({"ovenCondEmpty"}) /\ Goto(t, "done")
       \/ ~cancelled /\ Goto(t, "takeOut") /\ UNCHANGED <<aparatus, waiters>>
    /\ UNCHANGED <<ovenMutex, preparedMutex, queues, cookVars, sicakPide, outside>>

GiveBack(t) ==
    /\ At(t, "giveBack")
    /\ ReturnApparatus({})
    /\ Goto(t, "hand")
    /\ UNCHANGED <<ovenMutex, preparedMutex, queues, cookVars, sicakPide, outside>>

PreparedFull(t) ==
    /\ At(t, "hand") /\ CanLock /\ (Torn \/ IsFull(preparedQueue, QueueCap))
    /\ Sleep(t, "preparedEmpty", "handWait")
    /\ UNCHANGED <<ovenMutex, preparedMutex, queues, aparatus, cookVars, sicakPide, outside>>

Hand(t) ==
    /\ \/ At(t, "hand") /\ CanLock /\ (Torn \/ ~IsFull(preparedQueue, QueueCap))
       \/ At(t, "handBroke")                 \* left the loop by "break"
    /\ preparedQueue' = Raced(IF siparisIptal THEN preparedQueue
                              ELSE Enqueue(preparedQueue, QueueCap, sicakPide[t]))
    /\ sicakPide' = [sicakPide EXCEPT ![t] = Phantom]
    /\ Broadcast({"preparedFull"})
    /\ Unlock
    /\ Goto(t, "handed")
    /\ UNCHANGED <<ovenMutex, orderQueue, ovenQueue, aparatus, cookVars, outside>>

HandWoken(t) ==
    /\ At(t, "handWait") /\ Awake(t, "preparedEmpty") /\ CanLock
    /\ \/ siparisIptal /\ Lock(t) /\ Goto(t, "handBroke") /\ UNCHANGED waiters
       \/ /\ ~siparisIptal /\ cancelled
          /\ Broadcast({"preparedFull"}) /\ Goto(t, "done") /\ UNCHANGED preparedMutex
       \/ /\ ~siparisIptal /\ ~cancelled
          /\ Goto(t, "hand") /\ UNCHANGED <<waiters, preparedMutex>>
    /\ UNCHANGED <<ovenMutex, queues, aparatus, cookVars, sicakPide, outside>>

\* With cancelled set, preparedMutex is unlocked once more.
TimerEnd(t) ==
    /\ At(t, "handed")
    /\ \/ cancelled /\ Broadcast({"preparedFull"}) /\ UnlockAgain(t)
       \/ ~cancelled /\ UNCHANGED <<waiters, preparedMutex>>
    /\ Goto(t, "done")
    /\ UNCHANGED <<ovenMutex, queues, aparatus, cookVars, sicakPide, outside>>

Timer(t) ==
    \/ TimerWait(t) \/ TimerTake(t) \/ TimerWoken(t)
    \/ OvenEmpty(t) \/ TakeOut(t) \/ TakeOutWoken(t) \/ GiveBack(t)
    \/ PreparedFull(t) \/ Hand(t) \/ HandWoken(t) \/ TimerEnd(t)
=============================================================================
