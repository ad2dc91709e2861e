------------------------------ MODULE Delivery ------------------------------
(***************************************************************************)
(* The delivery threads of src/final/server.c: pideShopMoto fills a bag    *)
(* from preparedQueue, delivery() makes the trip.                          *)
(***************************************************************************)
EXTENDS ShopState

kitchen == <<orderQueue, ovenQueue, aparatus, ovenMutex, cookVars, sicakPide>>
elsewhere == <<kitchen, mainVars, client, backlog, flags>>

-----------------------------------------------------------------------------
(* Filling the bag, preparedMutex held from one pide to the next. *)

LoadWait(m) ==
    /\ At(m, "load") /\ (CanLock \/ preparedMutex = m)
    /\ totalOrder > 0 /\ Len(bag[m]) < BagCap /\ (Torn \/ preparedQueue = << >>)
    /\ Sleep(m, "preparedFull", "loadWait")
    /\ Unlock
    /\ UNCHANGED <<preparedQueue, counts, motoVars, mail, elsewhere>>

LoadWoken(m) ==
    /\ At(m, "loadWait") /\ Awake(m, "preparedFull") /\ CanLock
    /\ \/ /\ totalOrder = 0
          /\ Lock(m) /\ Goto(m, "loadBroke")
          /\ UNCHANGED <<waiters, bag>>
       \/ /\ totalOrder # 0
          /\ bag' = [bag EXCEPT ![m] = IF siparisIptal THEN << >> ELSE @]
          /\ \/ /\ cancelled
                /\ Broadcast({"preparedEmpty"}) /\ Goto(m, "exit")
                /\ UNCHANGED preparedMutex
             \/ /\ ~cancelled
                /\ Lock(m) /\ Goto(m, "load") /\ UNCHANGED waiters
    /\ UNCHANGED <<preparedQueue, counts, flag, trip, delivered, mail, elsewhere>>

\* Bug: totalOrder-- is missing.
LoadUncounted(m) ==
    /\ At(m, "load") /\ (CanLock \/ preparedMutex = m)
    /\ totalOrder > 0 /\ Len(bag[m]) < BagCap /\ preparedQueue # << >> /\ ~siparisIptal
    /\ bag' = [bag EXCEPT ![m] = Append(@, First(preparedQueue))]
    /\ preparedQueue' = Rest(preparedQueue)
    /\ flag' = [flag EXCEPT ![m] = TRUE]
    /\ Lock(m)
    /\ UNCHANGED <<pc, waiters, counts, trip, delivered, mail, elsewhere>>

\* First(preparedQueue) is Phantom when "loadBroke" found totalOrder at 0 and
\* main has raised it since.
Load(m) ==
    /\ \/ /\ At(m, "load") /\ (CanLock \/ preparedMutex = m)
          /\ totalOrder > 0 /\ Len(bag[m]) < BagCap /\ (Torn \/ preparedQueue # << >>)
       \/ At(m, "loadBroke") /\ totalOrder # 0
    /\ ~siparisIptal
    /\ \E p \in Dequeued : bag' = [bag EXCEPT ![m] = Append(@, p)]
    /\ preparedQueue' = Raced(Rest(preparedQueue))
    /\ totalOrder' = totalOrder - 1
    /\ flag' = [flag EXCEPT ![m] = TRUE]
    /\ Lock(m)
    /\ Goto(m, "load")
    /\ UNCHANGED <<waiters, totalReceived, totalOrderSize, onlysendFlag, trip,
                   delivered, mail, elsewhere>>

LoadBroke(m) ==
    /\ At(m, "loadBroke") /\ ~siparisIptal /\ totalOrder = 0 /\ bag[m] # << >>
    /\ flag' = [flag EXCEPT ![m] = TRUE]
    /\ Goto(m, "load")
    /\ UNCHANGED <<waiters, preparedMutex, preparedQueue, counts, bag, trip,
                   delivered, mail, elsewhere>>

Leave(m) ==
    /\ \/ /\ At(m, "load") /\ (CanLock \/ preparedMutex = m)
          /\ \/ totalOrder <= 0 \/ Len(bag[m]) >= BagCap
             \/ (Torn \/ preparedQueue # << >>) /\ siparisIptal
       \/ At(m, "loadBroke") /\ (siparisIptal \/ (totalOrder = 0 /\ bag[m] = << >>))
    /\ Broadcast({"preparedEmpty", "preparedFull"})
    /\ Unlock
    /\ Goto(m, "left")
    /\ UNCHANGED <<preparedQueue, counts, motoVars, mail, elsewhere>>

\* With cancelled set, preparedMutex is unlocked once more, held or not.
Exit(m) ==
    /\ Broadcast({"preparedEmpty"})
    /\ UnlockAgain(m)
    /\ Goto(m, "exit")

EndRound(m) ==
    \/ cancelled /\ Exit(m)
    \/ ~cancelled /\ Goto(m, "load") /\ UNCHANGED <<waiters, preparedMutex>>

Departs(m) == flag[m] /\ ~siparisIptal /\ bag[m] # << >>

\* Bug: the trip starts at bag[-1].
LeftFromZero(m) ==
    /\ At(m, "left") /\ Departs(m)
    /\ Goto(m, "ride") /\ trip' = [trip EXCEPT ![m] = 0]
    /\ UNCHANGED <<waiters, preparedMutex, preparedQueue, counts, bag, flag, delivered, mail, elsewhere>>

Left(m) ==
    /\ At(m, "left")
    /\ \/ cancelled /\ Exit(m) /\ UNCHANGED trip
       \/ /\ ~cancelled /\ Departs(m)
          /\ Goto(m, "ride") /\ trip' = [trip EXCEPT ![m] = 1]
          /\ UNCHANGED <<waiters, preparedMutex>>
       \/ /\ ~cancelled /\ ~Departs(m)
          /\ Goto(m, "stay") /\ UNCHANGED <<waiters, preparedMutex, trip>>
    /\ UNCHANGED <<preparedQueue, counts, bag, flag, delivered, mail, elsewhere>>

Stay(m) ==
    /\ At(m, "stay")
    /\ bag' = [bag EXCEPT ![m] = IF siparisIptal THEN << >> ELSE @]
    /\ flag' = [flag EXCEPT ![m] = FALSE]
    /\ EndRound(m)
    /\ UNCHANGED <<preparedQueue, counts, trip, delivered, mail, elsewhere>>

-----------------------------------------------------------------------------
(* delivery(): a pide is counted when the moto sets out for it, and the    *)
(* customer has it when the ride is over; with siparisIptal set the rest   *)
(* of the bag is thrown away.                                              *)

Ride(m) ==
    /\ At(m, "ride")
    /\ totalReceived' = totalReceived + 1
    /\ Goto(m, IF siparisIptal THEN "back" ELSE "travel")
    /\ UNCHANGED <<waiters, preparedMutex, preparedQueue, totalOrder, totalOrderSize,
                   onlysendFlag, motoVars, mail, elsewhere>>

Travel(m) ==
    /\ At(m, "travel")
    /\ delivered' = delivered \cup {bag[m][trip[m]]}
    /\ \/ /\ trip[m] < Len(bag[m])
          /\ trip' = [trip EXCEPT ![m] = @ + 1] /\ Goto(m, "ride")
       \/ trip[m] = Len(bag[m]) /\ Goto(m, "back") /\ UNCHANGED trip
    /\ UNCHANGED <<waiters, preparedMutex, preparedQueue, counts, bag, flag, mail, elsewhere>>

\* bag_count = 0 and flag = 0 on the way out of the round.
EmptyBag(m) ==
    /\ bag' = [bag EXCEPT ![m] = << >>]
    /\ flag' = [flag EXCEPT ![m] = FALSE]
    /\ EndRound(m)
    /\ UNCHANGED <<preparedQueue, totalOrder, totalReceived, totalOrderSize, trip,
                   delivered, elsewhere>>

Back(m) ==
    /\ At(m, "back")
    /\ \/ /\ ~siparisIptal
          /\ Goto(m, IF cancelled THEN "exit" ELSE "report")
          /\ UNCHANGED <<waiters, preparedMutex, preparedQueue, counts, motoVars, mail, elsewhere>>
       \/ siparisIptal /\ EmptyBag(m) /\ UNCHANGED <<onlysendFlag, mail>>

\* What send() does for the client at the other end; a client acts on the
\* first DELIVERED or BURNED it reads and leaves.
Tell(status) ==
    mail' = IF sockfd \in Clients /\ client[sockfd] = "waiting" /\ mail[sockfd] = "none"
            THEN [mail EXCEPT ![sockfd] = status] ELSE mail

\* Bug: the first moto that is back reports, whatever is still to be delivered.
ReportEarly(m) ==
    /\ At(m, "report")
    /\ IF onlysendFlag THEN Tell("DELIVERED") ELSE UNCHANGED mail
    /\ onlysendFlag' = FALSE
    /\ EmptyBag(m)

Report(m) ==
    /\ At(m, "report")
    /\ \/ /\ onlysendFlag /\ totalReceived = totalOrderSize
          /\ Tell("DELIVERED") /\ onlysendFlag' = FALSE
       \/ /\ ~onlysendFlag \/ totalReceived # totalOrderSize
          /\ UNCHANGED <<mail, onlysendFlag>>
    /\ EmptyBag(m)

Moto(m) ==
    \/ LoadWait(m) \/ LoadWoken(m) \/ Load(m) \/ LoadBroke(m) \/ Leave(m)
    \/ Left(m) \/ Stay(m) \/ Ride(m) \/ Travel(m) \/ Back(m) \/ Report(m)
=============================================================================
