--------------------------- MODULE ParkingProofs ---------------------------
(***************************************************************************)
(* The turns of owner and attendants in ParkingLot, for any kinds of       *)
(* vehicles, any number of places, and a process killed any number of      *)
(* times.                                                                  *)
(***************************************************************************)
EXTENDS ParkingLot, TLAPS

USE ParkingAssumption

\* The program starts in a state of the invariant.
LEMMA InitInv == Init => IndInv
  BY DEF Init, IndInv, TypeOK, ReadsFit, Handshake, PlaceKept, RoomToPark, LetGo, Handling

\* A step of the car owner keeps the turns.
LEMMA OwnerInv == IndInv /\ Owner => IndInv'
<1> SUFFICES ASSUME IndInv, Owner PROVE IndInv'  OBVIOUS
<1> USE DEF IndInv, TypeOK, ReadsFit, Handshake, PlaceKept, RoomToPark, LetGo, Handling, sems, attendantVars
<1>1. ASSUME NEW k \in Kinds, Arrive(k) PROVE IndInv'
  BY <1>1 DEF Arrive
<1>2. ASSUME NEW k \in Kinds, Evict(k) PROVE IndInv'
  BY <1>2 DEF Evict
<1>3. CASE Enter
  BY <1>3 DEF Enter, Post
<1>4. CASE HandOver
  BY <1>4 DEF HandOver, Wait
<1>5. CASE Evicted
  BY <1>5 DEF Evicted
<1>6. CASE KeepAll
  BY <1>6 DEF KeepAll
<1>7. CASE Leave
  <2>1. CASE owner = "top"
    BY <1>7, <2>1 DEF Leave, Post
  <2>2. CASE owner = "last"
    <3>1. TypeOK' /\ ReadsFit'  BY <1>7, <2>2 DEF Leave
    <3>2. Handshake'  BY <1>7, <2>2 DEF Leave
    <3>3. PlaceKept' /\ RoomToPark'  BY <1>7, <2>2 DEF Leave
    <3> QED  BY <3>1, <3>2, <3>3
  <2> QED  BY <1>7, <2>1, <2>2 DEF Leave
<1> QED  BY <1>1, <1>2, <1>3, <1>4, <1>5, <1>6, <1>7 DEF Owner

\* A step of an attendant keeps the turns.
LEMMA AttendantInv == ASSUME NEW k \in Kinds, IndInv, Attendant(k) PROVE IndInv'
<1> USE DEF IndInv, TypeOK, ReadsFit, Handshake, PlaceKept, RoomToPark, LetGo, Handling, sems, ownerVars
<1>1. CASE LoopTop(k)
  BY <1>1 DEF LoopTop
<1>2. CASE Fetch(k)
  BY <1>2 DEF Fetch, Wait
<1>3. CASE Look(k)
  BY <1>3 DEF Look
<1>4. CASE Park(k)
  BY <1>4 DEF Park
<1>5. CASE Release(k)
  BY <1>5 DEF Release, Post
<1> QED  BY <1>1, <1>2, <1>3, <1>4, <1>5 DEF Attendant

\* A kill moves what is in the semaphores to what the next process finds there.
LEMMA KillInv == IndInv /\ Kill => IndInv'
  BY DEF Kill, Started, IndInv, TypeOK, ReadsFit, Handshake, PlaceKept, RoomToPark, LetGo, Handling, sems

\* IndInv is an invariant of the parking lot.
THEOREM Inductive == Spec => []IndInv
<1>1. IndInv /\ [Next]_vars => IndInv'
  <2> SUFFICES ASSUME IndInv, [Next]_vars PROVE IndInv'  OBVIOUS
  <2>1. CASE Interrupt
    BY <2>1 DEF Interrupt, IndInv, TypeOK, ReadsFit, Handshake, PlaceKept, RoomToPark, LetGo, Handling,
                sems, ownerVars, attendantVars
  <2>2. CASE UNCHANGED vars
    BY <2>2 DEF vars, IndInv, TypeOK, ReadsFit, Handshake, PlaceKept, RoomToPark, LetGo, Handling,
                sems, ownerVars, attendantVars
  <2> QED  BY <2>1, <2>2, OwnerInv, AttendantInv, KillInv DEF Next
<1> QED  BY <1>1, InitInv, PTL DEF Spec

\* Owner and attendant take turns on the two semaphores of a kind.
THEOREM Turns == Spec => []Handshake
<1>1. IndInv => Handshake  BY DEF IndInv
<1> QED  BY <1>1, Inductive, PTL

\* A vehicle that comes in finds the place that its owner saw.
THEOREM PlaceForVehicle == Spec => []RoomToPark
<1>1. IndInv => RoomToPark  BY DEF IndInv
<1> QED  BY <1>1, Inductive, PTL
=============================================================================
