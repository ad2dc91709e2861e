----------------------------- MODULE ParkingLot -----------------------------
(***************************************************************************)
(* The parking lot of src/hw3_2024/hw3.c: a car owner brings one vehicle   *)
(* after the other, an attendant per kind parks it; they hand over with    *)
(* two semaphores per kind.  The semaphores are named: they outlive a      *)
(* process that is killed, and sem_open() takes them as they are.          *)
(*                                                                         *)
(* Linux delivers SIGINT to the main thread, which waits in pthread_join:  *)
(* it interrupts no sem_wait.                                              *)
(***************************************************************************)
EXTENDS Integers

CONSTANTS
    Kinds,          \* automobile, pickup
    FirstPosted,    \* the kind whose attendant is released first at the end
    Cap,            \* places for each kind, 8 and 4 in the code
    MayInterrupt,   \* whether SIGINT may come
    MaxKills        \* how often the process may be killed and started again

ASSUME ParkingAssumption ==
    /\ FirstPosted \in Kinds /\ Cap \in [Kinds -> Nat]
    /\ MayInterrupt \in BOOLEAN /\ MaxKills \in Nat

VARIABLES
    runStatus,
    mFree,                \* mFree_automobile, mFree_pickup
    newVehicle, inCharge, \* the semaphores: newAutomobile, inChargeforAutomobile ...
    owner, kind, seen,    \* carOwner: where it is, its vehicle, what it read of mFree
    attendant, read,      \* carAttendant*: where each is, what it read of mFree
    kills, stale          \* history: tokens left in the semaphores by the last kill

sems  == <<newVehicle, inCharge>>
ownerVars == <<owner, kind, seen>>
attendantVars == <<attendant, read>>
vars == <<runStatus, mFree, sems, ownerVars, attendantVars, kills, stale>>

Post(sem, k) == sem' = [sem EXCEPT ![k] = @ + 1]
Wait(sem, k) == sem[k] > 0 /\ sem' = [sem EXCEPT ![k] = @ - 1]

\* What main() starts with; the semaphores apart.
Started ==
    /\ runStatus' = TRUE /\ mFree' = Cap
    /\ owner' = "top" /\ UNCHANGED <<kind, seen, read>>
    /\ attendant' = [k \in Kinds |-> "top"]

Init ==
    /\ runStatus = TRUE /\ mFree = Cap
    /\ newVehicle = [k \in Kinds |-> 0] /\ inCharge = [k \in Kinds |-> 0]
    /\ owner = "top" /\ kind = FirstPosted /\ seen = 0
    /\ attendant = [k \in Kinds |-> "top"] /\ read = [k \in Kinds |-> 0]
    /\ kills = 0 /\ stale = [k \in Kinds |-> 0]

-----------------------------------------------------------------------------
(* carOwner *)

\* Bug: the owner does not look whether there is a place.
ArriveUnchecked(k) ==
    /\ owner = "top" /\ runStatus
    /\ kind' = k
    /\ owner' = "enter"
    /\ UNCHANGED <<seen, runStatus, mFree, sems, attendantVars, kills, stale>>

\* The loop test and the draw of the next vehicle.
Arrive(k) ==
    /\ owner = "top" /\ runStatus
    /\ kind' = k
    /\ owner' = IF mFree[k] > 0 THEN "enter" ELSE "sleep"
    /\ UNCHANGED <<seen, runStatus, mFree, sems, attendantVars, kills, stale>>

Enter ==
    /\ owner = "enter"
    /\ Post(newVehicle, kind)
    /\ owner' = "wait"
    /\ UNCHANGED <<kind, seen, runStatus, mFree, inCharge, attendantVars, kills, stale>>

HandOver ==
    /\ owner = "wait" /\ Wait(inCharge, kind)
    /\ owner' = "sleep"
    /\ UNCHANGED <<kind, seen, runStatus, mFree, newVehicle, attendantVars, kills, stale>>

\* After sleep(5), now and then a vehicle leaves; mFree++ is a load and a store.
Evict(k) ==
    /\ owner = "sleep" /\ mFree[k] < Cap[k]
    /\ kind' = k /\ seen' = mFree[k]
    /\ owner' = "evict"
    /\ UNCHANGED <<runStatus, mFree, sems, attendantVars, kills, stale>>

Evicted ==
    /\ owner = "evict"
    /\ mFree' = [mFree EXCEPT ![kind] = seen + 1]
    /\ owner' = "top"
    /\ UNCHANGED <<kind, seen, runStatus, sems, attendantVars, kills, stale>>

KeepAll ==
    /\ owner = "sleep"
    /\ owner' = "top"
    /\ UNCHANGED <<kind, seen, runStatus, mFree, sems, attendantVars, kills, stale>>

\* The two posts that let the attendants out of sem_wait.
Leave ==
    /\ \/ /\ owner = "top" /\ ~runStatus
          /\ owner' = "last" /\ Post(newVehicle, FirstPosted)
       \/ /\ owner = "last"
          /\ owner' = "end"
          /\ newVehicle' = [k \in Kinds |-> IF k = FirstPosted THEN newVehicle[k]
                                            ELSE newVehicle[k] + 1]
    /\ UNCHANGED <<kind, seen, runStatus, mFree, inCharge, attendantVars, kills, stale>>

Owner ==
    \/ \E k \in Kinds : Arrive(k) \/ Evict(k)
    \/ Enter \/ HandOver \/ Evicted \/ KeepAll \/ Leave

-----------------------------------------------------------------------------
(* carAttendantAutomobile, carAttendantPickup *)

LoopTop(k) ==
    /\ attendant[k] = "top"
    /\ attendant' = [attendant EXCEPT ![k] = IF runStatus THEN "wait" ELSE "end"]
    /\ UNCHANGED <<read, runStatus, mFree, sems, ownerVars, kills, stale>>

Fetch(k) ==
    /\ attendant[k] = "wait" /\ Wait(newVehicle, k)
    /\ attendant' = [attendant EXCEPT ![k] = "look"]
    /\ UNCHANGED <<read, runStatus, mFree, inCharge, ownerVars, kills, stale>>

Look(k) ==
    /\ attendant[k] = "look"
    /\ read' = [read EXCEPT ![k] = mFree[k]]
    /\ attendant' = [attendant EXCEPT ![k] = "park"]
    /\ UNCHANGED <<runStatus, mFree, sems, ownerVars, kills, stale>>

\* Bug: the place is taken even when there is none.
ParkAnyway(k) ==
    /\ attendant[k] = "park"
    /\ mFree' = [mFree EXCEPT ![k] = read[k] - 1]
    /\ attendant' = [attendant EXCEPT ![k] = "post"]
    /\ UNCHANGED <<read, runStatus, sems, ownerVars, kills, stale>>

Park(k) ==
    /\ attendant[k] = "park"
    /\ mFree' = [mFree EXCEPT ![k] = IF read[k] > 0 THEN read[k] - 1 ELSE @]
    /\ attendant' = [attendant EXCEPT ![k] = "post"]
    /\ UNCHANGED <<read, runStatus, sems, ownerVars, kills, stale>>

\* Bug: the attendant forgets to let the owner go.
ReleaseForgotten(k) ==
    /\ attendant[k] = "post"
    /\ attendant' = [attendant EXCEPT ![k] = "top"]
    /\ UNCHANGED <<read, runStatus, mFree, sems, ownerVars, kills, stale>>

Release(k) ==
    /\ attendant[k] = "post"
    /\ Post(inCharge, k)
    /\ attendant' = [attendant EXCEPT ![k] = "top"]
    /\ UNCHANGED <<read, runStatus, mFree, newVehicle, ownerVars, kills, stale>>

Attendant(k) == LoopTop(k) \/ Fetch(k) \/ Look(k) \/ Park(k) \/ Release(k)

-----------------------------------------------------------------------------
(* main and the signal handler. *)

Interrupt ==
    /\ MayInterrupt /\ runStatus
    /\ runStatus' = FALSE
    /\ UNCHANGED <<mFree, sems, ownerVars, attendantVars, kills, stale>>

\* The process is killed and started again; only the semaphores survive.
Kill ==
    /\ kills < MaxKills
    /\ kills' = kills + 1
    /\ stale' = [k \in Kinds |-> newVehicle[k] + inCharge[k]]
    /\ Started
    /\ UNCHANGED sems

\* After the joins the semaphores are unlinked and the program ends.
Ended == owner = "end" /\ \A k \in Kinds : attendant[k] = "end"

Next ==
    \/ Owner \/ (\E k \in Kinds : Attendant(k))
    \/ Interrupt \/ (~Ended /\ Kill) \/ (Ended /\ UNCHANGED vars)

Spec == Init /\ [][Next]_vars

\* The scheduler runs every thread that is not blocked.
FairSpec == Spec /\ WF_vars(Owner) /\ \A k \in Kinds : WF_vars(Attendant(k))

-----------------------------------------------------------------------------
(* Properties *)

\* Every variable of hw3.c stays in its range; the lot is never overfull.
TypeOK ==
    /\ runStatus \in BOOLEAN
    /\ mFree \in [Kinds -> Nat] /\ \A k \in Kinds : mFree[k] <= Cap[k]
    /\ newVehicle \in [Kinds -> Nat] /\ inCharge \in [Kinds -> Nat]
    /\ owner \in {"top", "enter", "wait", "sleep", "evict", "last", "end"}
    /\ kind \in Kinds /\ seen \in Nat
    /\ attendant \in [Kinds -> {"top", "wait", "look", "park", "post", "end"}]
    /\ read \in [Kinds -> Nat]
    /\ kills \in 0..MaxKills /\ stale \in [Kinds -> Nat]

Handling(k) == attendant[k] \in {"look", "park", "post"}
LetGo(k) == owner = "end" \/ (owner = "last" /\ k = FirstPosted)

\* One token goes round per kind while the owner waits for it, and none at other
\* times: owner and attendant take turns.  The exceptions are the token that the
\* owner posts to end the program and those a killed process left behind.
Handshake ==
    \A k \in Kinds :
        newVehicle[k] + inCharge[k] + (IF Handling(k) THEN 1 ELSE 0)
            = (IF owner = "wait" /\ kind = k THEN 1 ELSE 0)
              + (IF LetGo(k) THEN 1 ELSE 0) + stale[k]

\* The place the owner saw free is still free when the attendant parks the
\* vehicle: what the owner read before its post is not stale.
RoomToPark ==
    \A k \in Kinds :
        stale[k] = 0 /\ ~LetGo(k) =>
            /\ attendant[k] = "look" => mFree[k] > 0
            /\ attendant[k] = "park" => read[k] > 0 /\ read[k] = mFree[k]

\* What RoomToPark rests on: the values read are no more than there are places,
\* and the owner does not let its place go before the vehicle is parked.
ReadsFit == (owner = "evict" => seen < Cap[kind]) /\ \A k \in Kinds : read[k] <= Cap[k]

PlaceKept ==
    \A k \in Kinds :
        stale[k] = 0 /\ ~LetGo(k) /\ kind = k =>
            /\ owner = "enter" => mFree[k] > 0
            /\ owner = "wait" /\ newVehicle[k] > 0 => mFree[k] > 0

IndInv == TypeOK /\ ReadsFit /\ Handshake /\ PlaceKept /\ RoomToPark

\* Until SIGINT a vehicle that came in is parked in the end, and its owner can go
\* on, whatever an earlier process left in the semaphores.
OwnerServed == owner = "wait" /\ runStatus ~> owner # "wait" \/ ~runStatus

-----------------------------------------------------------------------------
(* What the code does not do. *)

\* An attendant is only busy with a vehicle whose owner waits for it: no vehicle
\* is parked twice or as the other kind.
NoGhostVehicle == \A k \in Kinds : Handling(k) => owner = "wait" /\ kind = k

\* SIGINT ends the three threads.
Terminates == ~runStatus ~> Ended
=============================================================================
