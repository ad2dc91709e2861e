----------------------------- MODULE SumProofs -----------------------------
(***************************************************************************)
(* What is proved of SumMultiply, for any number of runs of the program:   *)
(* the total is that of the run's own array, and no third run in a row     *)
(* fails on FIFOs that were left.                                          *)
(***************************************************************************)
EXTENDS SumProperties, FiniteSetTheorems, TLAPS

\* The runs come one after the other.
InOrder ==
    \A q, r \in Runs : q < r /\ parent[r] # "off" => parent[q] \in Gone \ {"off"}

\* The counters of the handler tell how many children have been reaped.
Reaped(r) == (IF child1[r] = "reaped" THEN 1 ELSE 0) + (IF child2[r] = "reaped" THEN 1 ELSE 0)
Counted == \A r \in Runs : signalCnt[r] = Reaped(r) /\ spawnedProcess[r] = 2 - Reaped(r)

\* No run after r is past one of those steps.
NoneBeyond(r, steps) == \A q \in Runs : q > r => parent[q] \in steps

\* A run that failed on a FIFO left the first name free, one that failed just after it both.
Removed ==
    \A r \in Runs : parent[r] = "failed" =>
        /\ NoneBeyond(r, {"off", "mkfirst"}) => path.first = 0
        /\ \A s \in Runs :
            s = r + 1 /\ parent[s] = "failed" /\ NoneBeyond(s, {"off", "mkfirst", "mksec"})
                => path.sec = 0

\* Where a parent is that has not made its second FIFO.
NotMade == {"off", "mkfirst", "mksec", "failed"}

\* No child is there before it is forked.
Unforked ==
    \A r \in Runs :
        /\ parent[r] \in NotMade \cup {"fork1"} => child1[r] = "off"
        /\ parent[r] \in NotMade \cup {"fork1", "openfirst", "writefirst", "fork2"} => child2[r] = "off"

\* The second name stands for the FIFO of the last run that made one.
LastMade ==
    /\ path.sec # 0 => parent[path.sec] \notin NotMade \cup {"ended"}
    /\ \A r \in Runs : path.sec # 0 /\ r > path.sec => parent[r] \in NotMade

\* A first child finds the second FIFO of its own run, or one that a killed run came
\* before; one whose sum is in a FIFO has ended.
OwnFifo ==
    \A q \in Runs :
        /\ child1[q] \in {"opensec", "writesec"} =>
            sec_of[q] \in Runs /\ (~KilledBefore(sec_of[q]) => sec_of[q] = q)
        /\ \A m \in secFifo[q] : m[1] = "sum" => child1[m[2]] \in {"zombie", "reaped"}

\* The second FIFO of a run that none disturbed holds messages of that run alone, and a
\* second child that has printed found a sum there.
OwnMessages ==
    \A r \in Runs :
        /\ ~KilledBefore(r) => secFifo[r] \subseteq {<<"multiply", r>>, <<"sum", r>>}
        /\ child2[r] \in {"zombie", "reaped"} => \E m \in secFifo[r] : m[1] = "sum"

\* A parent that leaves by itself has a first child that has written, or none.
FirstDone ==
    \A r \in Runs : parent[r] \in {"unlink", "ended"} /\ ~KilledBefore(r) =>
        child1[r] \in {"off", "zombie", "reaped"}

\* The inductive invariant.
IndInv == TypeOK /\ Counted /\ Unforked /\ InOrder /\ Removed /\ LastMade /\ OwnFifo /\ OwnMessages
          /\ FirstDone /\ ResultRight /\ StartsAgain

-----------------------------------------------------------------------------
USE RunsAssumption

\* The children that the handler reaps, counted.
LEMMA ZombiesCounted ==
    ASSUME NEW r, NEW a, NEW b, child1[r] = a, child2[r] = b
    PROVE  Cardinality(Zombies(r)) = (IF a = "zombie" THEN 1 ELSE 0) + (IF b = "zombie" THEN 1 ELSE 0)
<1> DEFINE one == <<1, "zombie">>
           two == <<2, "zombie">>
<1>1. Zombies(r) = (IF a = "zombie" THEN {one} ELSE {}) \cup (IF b = "zombie" THEN {two} ELSE {})
  BY DEF Zombies
<1>2. IsFiniteSet({}) /\ Cardinality({}) = 0  BY FS_EmptySet
<1>3. IsFiniteSet({one}) /\ Cardinality({one}) = 1  BY FS_Singleton
<1>4. Cardinality({two}) = 1  BY FS_Singleton
<1>5. two \notin {one}  OBVIOUS
<1> HIDE DEF one, two
<1>6. Cardinality({one} \cup {two}) = Cardinality({one}) + 1
  BY <1>3, <1>5, FS_AddElement
<1>7. CASE a = "zombie" /\ b = "zombie"  BY <1>1, <1>3, <1>6, <1>7
<1>8. CASE a = "zombie" /\ b # "zombie"
  <2>1. Zombies(r) = {one}  BY <1>1, <1>8
  <2> QED  BY <1>3, <1>8, <2>1
<1>9. CASE a # "zombie" /\ b = "zombie"
  <2>1. Zombies(r) = {two}  BY <1>1, <1>9
  <2> QED  BY <1>4, <1>9, <2>1
<1>10. CASE a # "zombie" /\ b # "zombie"
  <2>1. Zombies(r) = {}  BY <1>1, <1>10
  <2> QED  BY <1>2, <1>10, <2>1
<1> QED  BY <1>7, <1>8, <1>9, <1>10

\* The first run starts in a state of the invariant.
LEMMA InitInv == Init => IndInv
<1> SUFFICES ASSUME Init PROVE IndInv  OBVIOUS
<1> USE DEF Init, Runs, Gone
<1>1. TypeOK  BY DEF TypeOK
<1>2. Counted /\ Unforked  BY DEF Counted, Reaped, Unforked, NotMade
<1>3. InOrder /\ Removed /\ LastMade /\ FirstDone /\ StartsAgain  BY DEF StartsAgain, InOrder, Removed, LastMade, NotMade, FirstDone
<1>4. OwnFifo /\ OwnMessages /\ ResultRight  BY DEF OwnFifo, OwnMessages, ResultRight
<1> QED  BY <1>1, <1>2, <1>3, <1>4 DEF IndInv

\* Types and counters: the handler adds to one counter what it takes from the other.
LEMMA TypeInv == TypeOK /\ Counted /\ Unforked /\ Next => TypeOK' /\ Counted' /\ Unforked'
<1> SUFFICES ASSUME TypeOK, Counted, Unforked, NEW r \in Runs,
                    Start(r) \/ Parent(r) \/ Interrupt(r) \/ Child1(r) \/ Child2(r)
             PROVE  TypeOK' /\ Counted' /\ Unforked'
  BY DEF Next
<1> USE DEF TypeOK, Counted, Reaped, Unforked, NotMade, Gone, ParentTo, Child1To, Child2To, Exits
<1>1. CASE Start(r)  BY <1>1 DEF Start
<1>2. CASE MakeFirst(r)
   <2>1. path' \in [{"first", "sec"} -> 0..MaxRuns]  BY <1>2 DEF MakeFirst, Runs
   <2> QED BY <1>2, <2>1 DEF MakeFirst
<1>3. CASE MakeSec(r)
   <2>1. path' \in [{"first", "sec"} -> 0..MaxRuns]  BY <1>3 DEF MakeSec, Runs
   <2> QED BY <1>3, <2>1 DEF MakeSec
<1>4. CASE ForkFirst(r)  BY <1>4 DEF ForkFirst
<1>5. CASE OpenFirst(r)  BY <1>5 DEF OpenFirst
<1>6. CASE WriteFirst(r)  BY <1>6 DEF WriteFirst
<1>7. CASE ForkSecond(r)  BY <1>7 DEF ForkSecond
<1>8. CASE OpenSec(r)  BY <1>8 DEF OpenSec, Met
<1>9. CASE WriteSec(r)  BY <1>9 DEF WriteSec
<1>10. CASE WaitTest(r)  BY <1>10 DEF WaitTest
<1>11. CASE Suspend(r)  BY <1>11 DEF Suspend
<1>12. CASE WaitAgain(r)  BY <1>12 DEF WaitAgain
<1>13. CASE Unlink(r)
   <2>1. path' \in [{"first", "sec"} -> 0..MaxRuns]  BY <1>13 DEF Unlink
   <2> QED BY <1>13, <2>1 DEF Unlink
<1>14. CASE Interrupt(r)  BY <1>14 DEF Interrupt
<1>15. CASE SigchldHandler(r)
  <2>1. PICK z \in 0..2 : /\ z = Cardinality(Zombies(r))
                          /\ z = (IF child1[r] = "zombie" THEN 1 ELSE 0) + (IF child2[r] = "zombie" THEN 1 ELSE 0)
    BY ZombiesCounted
  <2>2. Counted'  BY <1>15, <2>1 DEF SigchldHandler
  <2>3. signalCnt' \in [Runs -> 0..2] /\ spawnedProcess' \in [Runs -> 0..2]
    <3>1. DOMAIN signalCnt' = Runs /\ DOMAIN spawnedProcess' = Runs  BY <1>15 DEF SigchldHandler
    <3>2. signalCnt' = [q \in Runs |-> signalCnt'[q]] /\ spawnedProcess' = [q \in Runs |-> spawnedProcess'[q]]
      BY <1>15, <3>1 DEF SigchldHandler
    <3>3. \A q \in Runs : signalCnt'[q] \in 0..2 /\ spawnedProcess'[q] \in 0..2  BY <2>2
    <3> QED  BY <3>2, <3>3
  <2>4. TypeOK' /\ Unforked'  BY <1>15, <2>3 DEF SigchldHandler
  <2> QED  BY <2>2, <2>4
<1>16. CASE Child1(r)
  <2>1. CASE Child1Wakes(r)  BY <2>1 DEF Child1Wakes
  <2>2. CASE Child1Read(r)  BY <2>2 DEF Child1Read
  <2>3. CASE Child1Find(r)  BY <2>3 DEF Child1Find
  <2>4. CASE Child1Open(r)  BY <2>4 DEF Child1Open, Met
  <2>5. CASE Child1Write(r)
    <3>1. <<"sum", r>> \in {"multiply", "sum"} \X Runs  OBVIOUS
    <3>2. secFifo' \in [Runs -> SUBSET ({"multiply", "sum"} \X Runs)]  BY <2>5, <3>1 DEF Child1Write
    <3> QED  BY <2>5, <3>2 DEF Child1Write
  <2> QED  BY <1>16, <2>1, <2>2, <2>3, <2>4, <2>5 DEF Child1
<1>17. CASE Child2(r)
  <2>1. CASE Child2Wakes(r)  BY <2>1 DEF Child2Wakes
  <2>2. CASE Child2Read(r)
    <3>1. secFifo[r] \in SUBSET ({"multiply", "sum"} \X Runs)  OBVIOUS
    <3>2. result' \in [Runs -> SUBSET ({"multiply", "sum"} \X Runs)]  BY <2>2, <3>1 DEF Child2Read
    <3> QED  BY <2>2, <3>2 DEF Child2Read
  <2> QED  BY <1>17, <2>1, <2>2 DEF Child2
<1> QED  BY <1>1, <1>2, <1>3, <1>4, <1>5, <1>6, <1>7, <1>8, <1>9, <1>10, <1>11, <1>12, <1>13, <1>14, <1>15, <1>16, <1>17 DEF Parent

\* The runs come one after the other, and what a run did to the names of its FIFOs stays
\* so until the next one gets to that step.
LEMMA OrderInv == TypeOK /\ InOrder /\ Removed /\ LastMade /\ Next => InOrder' /\ Removed' /\ LastMade'
<1> SUFFICES ASSUME TypeOK, InOrder, Removed, LastMade, NEW r \in Runs,
                    Start(r) \/ Parent(r) \/ Interrupt(r) \/ Child1(r) \/ Child2(r)
             PROVE  InOrder' /\ Removed' /\ LastMade'
  BY DEF Next
<1> USE DEF InOrder, Removed, NoneBeyond, LastMade, NotMade, Gone, Runs, ParentTo
<1>0. parent \in [Runs -> Gone \cup {"mkfirst", "mksec", "fork1", "openfirst", "writefirst",
                                      "fork2", "opensec", "writesec", "test", "tested", "suspend",
                                      "woken", "unlink"}]
      /\ path \in [{"first", "sec"} -> 0..MaxRuns]
  BY DEF TypeOK
<1>1. CASE Start(r)  BY <1>0, <1>1 DEF Start
<1>2. CASE MakeFirst(r)
  <2>1. CASE ParentTo(r, "mkfirst", "mksec") /\ path.first = 0 /\ path' = [path EXCEPT !.first = r]
    BY <1>0, <2>1
  <2>2. CASE ParentTo(r, "mkfirst", "failed") /\ path.first # 0 /\ path' = [path EXCEPT !.first = 0]
    <3>1. path'.first = 0 /\ path'.sec = path.sec  BY <1>0, <2>2
    <3>2. \A q \in Runs : q > r => parent[q] = "off"  BY <1>0, <2>2
    <3>3. \A q \in Runs : r = q + 1 => parent[q] # "failed"  BY <1>0, <2>2, <3>2
    <3>4. InOrder' /\ LastMade'  BY <1>0, <2>2, <3>1
    <3>5. ASSUME NEW q \in Runs, NEW s \in Runs, s = q + 1, parent'[q] = "failed", parent'[s] = "failed",
                 NoneBeyond(s, {"off", "mkfirst", "mksec"})'
          PROVE  path'.sec = 0
      <4>1. s # r /\ q # r  BY <1>0, <2>2, <3>2, <3>3, <3>5
      <4>2. parent[q] = "failed" /\ parent[s] = "failed"  BY <1>0, <2>2, <3>5, <4>1
      <4>3. NoneBeyond(s, {"off", "mkfirst", "mksec"})  BY <1>0, <2>2, <3>5
      <4> QED  BY <3>1, <3>5, <4>2, <4>3
    <3>6. Removed'  BY <3>1, <3>5
    <3> QED  BY <3>4, <3>6
  <2> QED  BY <1>2, <2>1, <2>2 DEF MakeFirst
<1>3. CASE MakeSec(r)
  <2>1. CASE ParentTo(r, "mksec", "fork1") /\ path.sec = 0 /\ path' = [path EXCEPT !.sec = r]
    <3>1. path'.first = path.first /\ path'.sec = r  BY <1>0, <2>1
    <3>2. InOrder' /\ Removed'  BY <1>0, <2>1, <3>1
    <3>3. LastMade'  BY <1>0, <2>1, <3>1
    <3> QED  BY <3>2, <3>3
  <2>2. CASE ParentTo(r, "mksec", "failed") /\ path' = [first |-> 0, sec |-> 0]
    BY <1>0, <2>2
  <2> QED  BY <1>3, <2>1, <2>2 DEF MakeSec
<1>4. CASE ForkFirst(r)  BY <1>0, <1>4 DEF ForkFirst
<1>5. CASE OpenFirst(r)  BY <1>0, <1>5 DEF OpenFirst
<1>6. CASE WriteFirst(r)  BY <1>0, <1>6 DEF WriteFirst
<1>7. CASE ForkSecond(r)  BY <1>0, <1>7 DEF ForkSecond
<1>8. CASE OpenSec(r)  BY <1>0, <1>8 DEF OpenSec
<1>9. CASE WriteSec(r)  BY <1>0, <1>9 DEF WriteSec
<1>10. CASE WaitTest(r)  BY <1>0, <1>10 DEF WaitTest
<1>11. CASE Suspend(r)  BY <1>0, <1>11 DEF Suspend
<1>12. CASE WaitAgain(r)  BY <1>0, <1>12 DEF WaitAgain
<1>13. CASE Unlink(r)  BY <1>0, <1>13 DEF Unlink
<1>14. CASE Interrupt(r)  BY <1>0, <1>14 DEF Interrupt
<1>15. CASE SigchldHandler(r)  BY <1>0, <1>15 DEF SigchldHandler
<1>16. CASE Child1(r)
  BY <1>16 DEF Child1, Child1Wakes, Child1Read, Child1Find, Child1Open, Child1Write
<1>17. CASE Child2(r)  BY <1>17 DEF Child2, Child2Wakes, Child2Read
<1> QED  BY <1>1, <1>2, <1>3, <1>4, <1>5, <1>6, <1>7, <1>8, <1>9, <1>10, <1>11, <1>12, <1>13,
            <1>14, <1>15, <1>16, <1>17 DEF Parent

\* A third run finds both names free: the first of two that failed freed the first name,
\* so the second can only have failed on the second name, and freed both.
LEMMA StartsAgainInv == TypeOK /\ InOrder /\ Removed /\ StartsAgain /\ Next => StartsAgain'
<1> SUFFICES ASSUME TypeOK, InOrder, Removed, StartsAgain, NEW r \in Runs,
                    Start(r) \/ Parent(r) \/ Interrupt(r) \/ Child1(r) \/ Child2(r),
                    NEW s \in Runs, s + 1 \in Runs, s + 2 \in Runs,
                    parent'[s] = "failed", parent'[s + 1] = "failed", parent'[s + 2] = "failed"
             PROVE  FALSE
  BY DEF Next, StartsAgain
<1> USE DEF ParentTo
<1>0. /\ \A q \in Runs : q # r => parent'[q] = parent[q]
      /\ parent'[r] = "failed" /\ parent[r] # "failed" =>
            \/ parent[r] = "mkfirst" /\ path.first # 0
            \/ parent[r] = "mksec" /\ path.sec # 0
  <2>1. CASE Child1(r) \/ Child2(r)
    BY <2>1 DEF Child1, Child1Wakes, Child1Read, Child1Find, Child1Open, Child1Write, Child2, Child2Wakes, Child2Read
  <2>2. CASE Start(r) \/ Parent(r) \/ Interrupt(r)
    BY <2>2 DEF TypeOK, Start, Parent, Interrupt, MakeFirst, MakeSec, ForkFirst, OpenFirst, WriteFirst,
     ForkSecond, OpenSec, WriteSec, WaitTest, Suspend, WaitAgain, Unlink, SigchldHandler
  <2> QED  BY <2>1, <2>2
<1>1. parent[r] \in {"mkfirst", "mksec"} /\ r \in {s, s + 1, s + 2} /\ parent'[r] = "failed"
  <2>1. parent[s] # "failed" \/ parent[s + 1] # "failed" \/ parent[s + 2] # "failed"
    BY DEF StartsAgain
  <2> QED  BY <1>0, <2>1
<1>2. r = s + 2
  <2>1. \A q \in Runs : q > r => parent[q] = "off"  BY <1>1 DEF InOrder, Gone
  <2> QED  BY <1>0, <1>1, <2>1 DEF Runs
<1>3. parent[s] = "failed" /\ parent[s + 1] = "failed"  BY <1>0, <1>2 DEF Runs
<1>4. \A q \in Runs : q > r => parent[q] = "off"  BY <1>1 DEF InOrder, Gone
<1>5. \A q \in Runs : q > s + 1 => q >= r  BY <1>2 DEF Runs
<1>6. CASE parent[r] = "mkfirst"
  <2>1. NoneBeyond(s + 1, {"off", "mkfirst"})  BY <1>2, <1>4, <1>5, <1>6 DEF NoneBeyond, Runs
  <2> QED  BY <1>0, <1>1, <1>3, <1>6, <2>1 DEF Removed
<1>7. CASE parent[r] = "mksec"
  <2>1. NoneBeyond(s + 1, {"off", "mkfirst", "mksec"})  BY <1>2, <1>4, <1>5, <1>7 DEF NoneBeyond, Runs
  <2> QED  BY <1>0, <1>1, <1>3, <1>7, <2>1 DEF Removed
<1> QED  BY <1>1, <1>6, <1>7

\* A parent that was killed stays so: a run once disturbed is disturbed for good.
LEMMA KilledStays == ASSUME TypeOK, Next, NEW r \in Runs, KilledBefore(r) PROVE KilledBefore(r)'
<1>1. PICK q \in Runs : q < r /\ parent[q] = "killed"  BY DEF KilledBefore
<1>2. SUFFICES parent'[q] = "killed"  BY <1>1 DEF KilledBefore
<1>3. PICK s \in Runs : Start(s) \/ Parent(s) \/ Interrupt(s) \/ Child1(s) \/ Child2(s)  BY DEF Next
<1>4. CASE Child1(s) \/ Child2(s)
  BY <1>1, <1>4 DEF Child1, Child1Wakes, Child1Read, Child1Find, Child1Open, Child1Write, Child2,
     Child2Wakes, Child2Read
<1>5. CASE Start(s) \/ Parent(s) \/ Interrupt(s)
  BY <1>1, <1>5 DEF TypeOK, Gone, Start, Parent, Interrupt, MakeFirst, MakeSec, ForkFirst, OpenFirst, WriteFirst,
     ForkSecond, OpenSec, WriteSec, WaitTest, Suspend, WaitAgain, Unlink, SigchldHandler, ParentTo
<1> QED  BY <1>3, <1>4, <1>5

\* What disturbs a run disturbs those after it.
LEMMA KilledLater == ASSUME NEW q \in Runs, NEW r \in Runs, q <= r, KilledBefore(q) PROVE KilledBefore(r)
  BY DEF KilledBefore, Runs

\* The name of the second FIFO leads a first child to that of its own run.
LEMMA FindsOwn ==
    ASSUME TypeOK, Unforked, InOrder, LastMade, FirstDone, NEW r \in Runs,
           child1[r] \in {"sleep", "openfirst", "read", "find"}, path.sec # 0
    PROVE  path.sec \in Runs /\ (~KilledBefore(path.sec) => path.sec = r)
<1> USE DEF NotMade
<1>1. path.sec \in Runs  BY DEF TypeOK, Runs
<1>2. parent[r] \notin NotMade  BY DEF Unforked
<1>3. r <= path.sec  BY <1>1, <1>2 DEF LastMade, Runs
<1>4. CASE r < path.sec /\ ~KilledBefore(path.sec)
  <2>1. parent[r] \in Gone \ {"off"}  BY <1>1, <1>4 DEF InOrder, LastMade
  <2>2. parent[r] = "ended"  BY <1>1, <1>2, <1>4, <2>1 DEF Gone, KilledBefore
  <2>3. ~KilledBefore(r)  BY <1>1, <1>3, <1>4, KilledLater
  <2> QED  BY <2>2, <2>3 DEF FirstDone
<1> QED  BY <1>1, <1>3, <1>4 DEF Runs

\* The first child of a run that none disturbed has its own second FIFO open, and no
\* sum is in a FIFO while its writer goes on.
LEMMA OwnFifoInv == IndInv /\ Next => OwnFifo'
<1> SUFFICES ASSUME IndInv, Next, NEW r \in Runs,
                    Start(r) \/ Parent(r) \/ Interrupt(r) \/ Child1(r) \/ Child2(r)
             PROVE  OwnFifo'
  BY DEF Next
<1>a. \A q \in Runs : KilledBefore(q) => KilledBefore(q)'  BY KilledStays DEF IndInv
<1>b. TypeOK /\ OwnFifo  BY DEF IndInv
<1> USE DEF OwnFifo, Child1To
<1>1. CASE UNCHANGED <<child1, sec_of, secFifo>>  BY <1>1, <1>a, <1>b
<1>2. CASE ForkFirst(r)
  <2>1. CASE child1' = [child1 EXCEPT ![r] = "sleep"]
    <3>1. child1[r] = "off"  BY <1>2 DEF ForkFirst, ParentTo, IndInv, Unforked
    <3> QED  BY <1>2, <2>1, <3>1, <1>a, <1>b DEF ForkFirst, TypeOK
  <2> QED  BY <1>2, <2>1, <1>1 DEF ForkFirst
<1>3. CASE OpenFirst(r)  BY <1>3, <1>a, <1>b DEF OpenFirst, TypeOK
<1>4. CASE WriteSec(r)
  <2>1. \A q \in Runs : \A m \in secFifo'[q] : m \in secFifo[q] \/ m = <<"multiply", r>>
    BY <1>4, <1>b DEF WriteSec, TypeOK
  <2> QED  BY <1>4, <2>1, <1>a, <1>b DEF WriteSec
<1>5. CASE SigchldHandler(r)  BY <1>5, <1>a, <1>b DEF SigchldHandler, TypeOK
<1>6. CASE Child1Wakes(r)  BY <1>6, <1>a, <1>b DEF Child1Wakes, TypeOK
<1>7. CASE Child1Read(r)  BY <1>7, <1>a, <1>b DEF Child1Read, TypeOK
<1>8. CASE Child1Find(r)
  <2>1. CASE path.sec = 0  BY <1>8, <2>1, <1>a, <1>b DEF Child1Find, TypeOK
  <2>2. CASE path.sec # 0
    <3>1. path.sec \in Runs /\ (~KilledBefore(path.sec) => path.sec = r)
      BY <1>8, <2>2, FindsOwn DEF Child1Find, IndInv
    <3> QED  BY <1>8, <2>2, <3>1, <1>a, <1>b DEF Child1Find, TypeOK
  <2> QED  BY <2>1, <2>2
<1>9. CASE Child1Open(r)  BY <1>9, <1>a, <1>b DEF Child1Open, TypeOK
<1>10. CASE Child1Write(r)
  <2>1. \A q \in Runs : \A m \in secFifo'[q] : m \in secFifo[q] \/ m = <<"sum", r>>
    BY <1>10, <1>b DEF Child1Write, TypeOK
  <2> QED  BY <1>10, <2>1, <1>a, <1>b DEF Child1Write, TypeOK
<1> QED
  BY <1>1, <1>2, <1>3, <1>4, <1>5, <1>6, <1>7, <1>8, <1>9, <1>10
  DEF Start, Parent, Interrupt, MakeFirst, MakeSec, WriteFirst, ForkSecond, OpenSec, WaitTest, Suspend, WaitAgain,
      Unlink, Child1, Child2, Child2Wakes, Child2Read

\* Only the parent and the first child of a run that none disturbed write to its second
\* FIFO, and the second child leaves with the sum there.
LEMMA OwnMessagesInv == IndInv /\ Next => OwnMessages' /\ ResultRight'
<1> SUFFICES ASSUME IndInv, Next, NEW r \in Runs,
                    Start(r) \/ Parent(r) \/ Interrupt(r) \/ Child1(r) \/ Child2(r)
             PROVE  OwnMessages' /\ ResultRight'
  BY DEF Next
<1>a. \A q \in Runs : KilledBefore(q) => KilledBefore(q)'  BY KilledStays DEF IndInv
<1>b. TypeOK /\ OwnMessages /\ ResultRight  BY DEF IndInv
<1> USE DEF OwnMessages, ResultRight, Child2To
<1>1. CASE UNCHANGED <<child2, secFifo, result>>  BY <1>1, <1>a, <1>b
<1>2. CASE ForkSecond(r)  BY <1>2, <1>a, <1>b DEF ForkSecond, TypeOK
<1>3. CASE OpenSec(r)  BY <1>3, <1>a, <1>b DEF OpenSec, Met, TypeOK
<1>4. CASE WriteSec(r)
  <2>1. secFifo' = [secFifo EXCEPT ![r] = @ \cup {<<"multiply", r>>}] /\ UNCHANGED <<child2, result>>
    BY <1>4 DEF WriteSec
  <2> QED  BY <2>1, <1>a, <1>b DEF TypeOK
<1>5. CASE SigchldHandler(r)  BY <1>5, <1>a, <1>b DEF SigchldHandler, TypeOK
<1>6. CASE Child1Open(r)  BY <1>6, <1>a, <1>b DEF Child1Open, Met, TypeOK
<1>7. CASE Child1Write(r)
  <2>1. ~KilledBefore(sec_of[r]) => sec_of[r] = r
    BY <1>7 DEF Child1Write, Child1To, IndInv, OwnFifo
  <2>2. secFifo' = [secFifo EXCEPT ![sec_of[r]] = @ \cup {<<"sum", r>>}] /\ UNCHANGED <<child2, result>>
    BY <1>7 DEF Child1Write
  <2> QED  BY <2>1, <2>2, <1>a, <1>b DEF TypeOK
<1>8. CASE Child2Wakes(r)  BY <1>8, <1>a, <1>b DEF Child2Wakes, TypeOK
<1>9. CASE Child2Read(r)
  <2>1. PICK m \in secFifo[r], n \in secFifo[r] : m[1] = "multiply" /\ n[1] = "sum"
    BY <1>9 DEF Child2Read
  <2>2. ~KilledBefore(r) => secFifo[r] = {<<"multiply", r>>, <<"sum", r>>}  BY <1>b, <2>1
  <2>3. OwnMessages'  BY <1>9, <2>1, <1>a, <1>b DEF Child2Read, TypeOK
  <2>4. ResultRight'  BY <1>9, <2>2, <1>a, <1>b DEF Child2Read, TypeOK
  <2> QED  BY <2>3, <2>4
<1> QED
  BY <1>1, <1>2, <1>3, <1>4, <1>5, <1>6, <1>7, <1>8, <1>9
  DEF Start, Parent, Interrupt, MakeFirst, MakeSec, ForkFirst, OpenFirst, WriteFirst, WaitTest, Suspend, WaitAgain,
      Unlink, Child1, Child1Wakes, Child1Read, Child1Find, Child2

\* A parent that has reaped one child of two leaves no first child that still writes.
LEMMA FirstDoneInv == IndInv /\ Next => FirstDone'
<1> SUFFICES ASSUME IndInv, Next, NEW r \in Runs,
                    Start(r) \/ Parent(r) \/ Interrupt(r) \/ Child1(r) \/ Child2(r)
             PROVE  FirstDone'
  BY DEF Next
<1>a. \A q \in Runs : KilledBefore(q) => KilledBefore(q)'  BY KilledStays DEF IndInv
<1>b. TypeOK /\ FirstDone  BY DEF IndInv
<1> USE DEF FirstDone, ParentTo, Child1To
<1>1. CASE UNCHANGED <<parent, child1>>  BY <1>1, <1>a, <1>b
<1>2. CASE Start(r) \/ MakeFirst(r) \/ MakeSec(r) \/ WriteFirst(r) \/ ForkSecond(r) \/ OpenSec(r)
           \/ WriteSec(r) \/ Suspend(r) \/ Interrupt(r) \/ Unlink(r)
  BY <1>2, <1>a, <1>b DEF Start, MakeFirst, MakeSec, WriteFirst, ForkSecond, OpenSec, WriteSec, Suspend, Interrupt,
     Unlink, TypeOK
<1>3. CASE ForkFirst(r)
  <2>1. child1[r] = "off"  BY <1>3 DEF ForkFirst, IndInv, Unforked
  <2> QED  BY <1>3, <2>1, <1>a, <1>b DEF ForkFirst, TypeOK
<1>4. CASE OpenFirst(r)  BY <1>4, <1>a, <1>b DEF OpenFirst, TypeOK
<1>5. CASE WaitTest(r)
  <2>1. spawnedProcess[r] = 0 => child1[r] = "reaped"  BY DEF IndInv, Counted, Reaped
  <2> QED  BY <1>5, <2>1, <1>a, <1>b DEF WaitTest, TypeOK
<1>6. CASE WaitAgain(r)
  <2>1. ASSUME spawnedProcess[r] = signalCnt[r], ~KilledBefore(r), child1[r] # "reaped"
        PROVE  child1[r] = "zombie"
    <3>1. child2[r] = "reaped"  BY <2>1 DEF IndInv, Counted, Reaped
    <3>2. PICK m \in secFifo[r] : m[1] = "sum"  BY <3>1 DEF IndInv, OwnMessages
    <3>3. m = <<"sum", r>>  BY <2>1, <3>2 DEF IndInv, OwnMessages
    <3> QED  BY <2>1, <3>3 DEF IndInv, OwnFifo
  <2> QED  BY <1>6, <2>1, <1>a, <1>b DEF WaitAgain, TypeOK
<1>7. CASE SigchldHandler(r)  BY <1>7, <1>a, <1>b DEF SigchldHandler, TypeOK
<1>8. CASE Child1(r)
  BY <1>8, <1>a, <1>b DEF Child1, Child1Wakes, Child1Read, Child1Find, Child1Open, Child1Write, TypeOK
<1> QED
  BY <1>1, <1>2, <1>3, <1>4, <1>5, <1>6, <1>7, <1>8 DEF Parent, Child2, Child2Wakes, Child2Read

\* Every step keeps the invariant.
LEMMA Inductive == Spec => []IndInv
<1>1. IndInv /\ [Next]_vars => IndInv'
  <2> SUFFICES ASSUME IndInv, [Next]_vars PROVE IndInv'  OBVIOUS
  <2>1. CASE Next
    BY <2>1, TypeInv, OrderInv, StartsAgainInv, OwnFifoInv, OwnMessagesInv, FirstDoneInv DEF IndInv
  <2>2. CASE UNCHANGED vars
    BY <2>2 DEF vars, IndInv, TypeOK, Counted, Reaped, Unforked, InOrder, Removed, NoneBeyond, LastMade, OwnFifo,
       OwnMessages, FirstDone, ResultRight, StartsAgain, KilledBefore
  <2> QED  BY <2>1, <2>2
<1> QED  BY <1>1, InitInv, PTL DEF Spec

\* Every variable of hw2.c stays in its range, and so do the counters of the SIGCHLD
\* handler, though signals are not counted.
THEOREM SumTypeOK == Spec => []TypeOK
<1>1. IndInv => TypeOK  BY DEF IndInv
<1> QED  BY <1>1, Inductive, PTL

\* A run that no killed run came before prints the total of its own array, though its
\* parent may leave, and remove the FIFOs, when one child of two is reaped.
THEOREM SumResultRight == Spec => []ResultRight
<1>1. IndInv => ResultRight  BY DEF IndInv
<1> QED  BY <1>1, Inductive, PTL

\* FIFOs that a killed run left in /tmp make at most two runs in a row fail.
THEOREM SumStartsAgain == Spec => []StartsAgain
<1>1. IndInv => StartsAgain  BY DEF IndInv
<1> QED  BY <1>1, Inductive, PTL
=============================================================================
