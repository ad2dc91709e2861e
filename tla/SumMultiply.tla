---------------------------- MODULE SumMultiply ----------------------------
(***************************************************************************)
(* hw2_2024: a parent sends an array through one FIFO to a first child,    *)
(* which sends its sum through a second FIFO to a second child; the parent *)
(* sends the array there too, and the second child prints the total.       *)
(*                                                                         *)
(* The program is run again and again, and one run may leave FIFOs in /tmp *)
(* and children behind.  A run starts when the parent of the one before it *)
(* has gone.  A FIFO is named by the run that made it, and so are the      *)
(* array and its sum.                                                      *)
(***************************************************************************)
EXTENDS Naturals, FiniteSets

CONSTANT MaxRuns      \* bound: how often the program is run
ASSUME RunsAssumption == MaxRuns \in Nat

Runs == 1..MaxRuns
Gone == {"off", "failed", "ended", "killed"}    \* states of a parent that does not run

VARIABLES
    path,           \* which FIFO the names firstFifo and secFifo stand for, 0 if none
    parent,         \* where the parent of each run is
    child1, child2, \* where its children are
    sec_of,         \* the second FIFO that child1 opens
    secFifo,        \* what was written to the second FIFO of each run
    sigchld,        \* whether a SIGCHLD is pending for the parent
    signalCnt, spawnedProcess,    \* the counters of the handler
    result          \* what the second child has read when it prints the total

vars == <<path, parent, child1, child2, sec_of, secFifo, sigchld, signalCnt,
          spawnedProcess, result>>

Init ==
    /\ path = [first |-> 0, sec |-> 0]
    /\ parent = [r \in Runs |-> "off"]
    /\ child1 = [r \in Runs |-> "off"] /\ child2 = [r \in Runs |-> "off"]
    /\ sec_of = [r \in Runs |-> 0] /\ secFifo = [r \in Runs |-> {}]
    /\ sigchld = [r \in Runs |-> FALSE]
    /\ signalCnt = [r \in Runs |-> 0] /\ spawnedProcess = [r \in Runs |-> 2]
    /\ result = [r \in Runs |-> {}]

ParentTo(r, from, to) == parent[r] = from /\ parent' = [parent EXCEPT ![r] = to]
Child1To(r, from, to) == child1[r] = from /\ child1' = [child1 EXCEPT ![r] = to]
Child2To(r, from, to) == child2[r] = from /\ child2' = [child2 EXCEPT ![r] = to]

-----------------------------------------------------------------------------
(* The parent: main. *)

Start(r) ==
    /\ ParentTo(r, "off", "mkfirst")
    /\ \A q \in Runs : q < r => parent[q] \in Gone \ {"off"}
    /\ UNCHANGED <<path, child1, child2, sec_of, secFifo, sigchld, signalCnt,
                   spawnedProcess, result>>

\* mkfifo(FIRST_CHILD_FIFO): a file of that name is removed, and the program returns.
MakeFirst(r) ==
    /\ \/ ParentTo(r, "mkfirst", "mksec") /\ path.first = 0 /\ path' = [path EXCEPT !.first = r]
       \/ ParentTo(r, "mkfirst", "failed") /\ path.first # 0 /\ path' = [path EXCEPT !.first = 0]
    /\ UNCHANGED <<child1, child2, sec_of, secFifo, sigchld, signalCnt, spawnedProcess, result>>

\* Bug: a second mkfifo that fails leaves the first FIFO there.
MakeSecLeaves(r) ==
    /\ \/ ParentTo(r, "mksec", "fork1") /\ path.sec = 0 /\ path' = [path EXCEPT !.sec = r]
       \/ ParentTo(r, "mksec", "failed") /\ path.sec # 0 /\ path' = [path EXCEPT !.sec = 0]
    /\ UNCHANGED <<child1, child2, sec_of, secFifo, sigchld, signalCnt, spawnedProcess, result>>

MakeSec(r) ==
    /\ \/ ParentTo(r, "mksec", "fork1") /\ path.sec = 0 /\ path' = [path EXCEPT !.sec = r]
       \/ /\ ParentTo(r, "mksec", "failed") /\ path.sec # 0
          /\ path' = [first |-> 0, sec |-> 0]
    /\ UNCHANGED <<child1, child2, sec_of, secFifo, sigchld, signalCnt, spawnedProcess, result>>

\* The first fork; if it fails the parent skips all but the unlinks.
ForkFirst(r) ==
    /\ \/ ParentTo(r, "fork1", "openfirst") /\ child1' = [child1 EXCEPT ![r] = "sleep"]
       \/ ParentTo(r, "fork1", "unlink") /\ UNCHANGED child1
    /\ UNCHANGED <<path, child2, sec_of, secFifo, sigchld, signalCnt, spawnedProcess, result>>

\* Both ends block in open() until the other is there.
OpenFirst(r) ==
    /\ ParentTo(r, "openfirst", "writefirst") /\ Child1To(r, "openfirst", "read")
    /\ UNCHANGED <<path, child2, sec_of, secFifo, sigchld, signalCnt, spawnedProcess, result>>

\* The array is written and the FIFO closed.
WriteFirst(r) ==
    /\ ParentTo(r, "writefirst", "fork2")
    /\ UNCHANGED <<path, child1, child2, sec_of, secFifo, sigchld, signalCnt,
                   spawnedProcess, result>>

\* The second fork; if it fails the parent waits all the same.
ForkSecond(r) ==
    /\ \/ ParentTo(r, "fork2", "opensec") /\ child2' = [child2 EXCEPT ![r] = "sleep"]
       \/ ParentTo(r, "fork2", "test") /\ UNCHANGED child2
    /\ UNCHANGED <<path, child1, sec_of, secFifo, sigchld, signalCnt, spawnedProcess, result>>

\* A reader of the second FIFO of run r is there: an open() for writing returns, and
\* with it that of the reader.
Met(r) ==
    /\ child2[r] \in {"opensec", "read"}
    /\ child2' = [child2 EXCEPT ![r] = "read"]

OpenSec(r) ==
    /\ ParentTo(r, "opensec", "writesec") /\ Met(r)
    /\ UNCHANGED <<path, child1, sec_of, secFifo, sigchld, signalCnt, spawnedProcess, result>>

\* The array and the word multiply.
WriteSec(r) ==
    /\ ParentTo(r, "writesec", "test")
    /\ secFifo' = [secFifo EXCEPT ![r] = @ \cup {<<"multiply", r>>}]
    /\ UNCHANGED <<path, child1, child2, sec_of, sigchld, signalCnt, spawnedProcess, result>>

\* Bug: the parent leaves while no child has been reaped.
WaitTestNone(r) ==
    /\ \/ ParentTo(r, "test", "unlink")
       \/ ParentTo(r, "test", "tested") /\ spawnedProcess[r] # 0
    /\ UNCHANGED <<path, child1, child2, sec_of, secFifo, sigchld, signalCnt,
                   spawnedProcess, result>>

WaitTest(r) ==
    /\ \/ ParentTo(r, "test", "unlink") /\ spawnedProcess[r] = 0
       \/ ParentTo(r, "test", "tested") /\ spawnedProcess[r] # 0
    /\ UNCHANGED <<path, child1, child2, sec_of, secFifo, sigchld, signalCnt,
                   spawnedProcess, result>>

\* SIGCHLD is not blocked between the test and sigsuspend: the handler may run here.
Suspend(r) ==
    /\ ParentTo(r, "tested", "suspend")
    /\ UNCHANGED <<path, child1, child2, sec_of, secFifo, sigchld, signalCnt,
                   spawnedProcess, result>>

\* After sigsuspend and sleep(2).  The two counters agree when one child is reaped.
WaitAgain(r) ==
    /\ \/ ParentTo(r, "woken", "unlink") /\ spawnedProcess[r] = signalCnt[r]
       \/ ParentTo(r, "woken", "test") /\ spawnedProcess[r] # signalCnt[r]
    /\ UNCHANGED <<path, child1, child2, sec_of, secFifo, sigchld, signalCnt,
                   spawnedProcess, result>>

Unlink(r) ==
    /\ ParentTo(r, "unlink", "ended")
    /\ path' = [first |-> 0, sec |-> 0]
    /\ UNCHANGED <<child1, child2, sec_of, secFifo, sigchld, signalCnt, spawnedProcess, result>>

\* SIGINT is blocked but in sigsuspend, where its default action ends the parent.
Interrupt(r) ==
    /\ ParentTo(r, "suspend", "killed")
    /\ UNCHANGED <<path, child1, child2, sec_of, secFifo, sigchld, signalCnt,
                   spawnedProcess, result>>

Zombies(r) == {c \in {<<1, child1[r]>>, <<2, child2[r]>>} : c[2] = "zombie"}

\* Bug: the handler reaps one child for each signal.
SigchldHandlerOnce(r) ==
    /\ parent[r] \notin Gone /\ sigchld[r]
    /\ sigchld' = [sigchld EXCEPT ![r] = FALSE]
    /\ Zombies(r) # {}
    /\ LET c == CHOOSE z \in Zombies(r) : TRUE
       IN  /\ child1' = [child1 EXCEPT ![r] = IF c[1] = 1 THEN "reaped" ELSE @]
           /\ child2' = [child2 EXCEPT ![r] = IF c[1] = 2 THEN "reaped" ELSE @]
    /\ signalCnt' = [signalCnt EXCEPT ![r] = @ + 1]
    /\ spawnedProcess' = [spawnedProcess EXCEPT ![r] = @ - 1]
    /\ parent' = [parent EXCEPT ![r] = IF @ = "suspend" THEN "woken" ELSE @]
    /\ UNCHANGED <<path, sec_of, secFifo, result>>

\* The handler reaps every child that has ended, since signals are not counted, and
\* sigsuspend returns.
SigchldHandler(r) ==
    /\ parent[r] \notin Gone /\ sigchld[r]
    /\ sigchld' = [sigchld EXCEPT ![r] = FALSE]
    /\ child1' = [child1 EXCEPT ![r] = IF @ = "zombie" THEN "reaped" ELSE @]
    /\ child2' = [child2 EXCEPT ![r] = IF @ = "zombie" THEN "reaped" ELSE @]
    /\ signalCnt' = [signalCnt EXCEPT ![r] = @ + Cardinality(Zombies(r))]
    /\ spawnedProcess' = [spawnedProcess EXCEPT ![r] = @ - Cardinality(Zombies(r))]
    /\ parent' = [parent EXCEPT ![r] = IF @ = "suspend" THEN "woken" ELSE @]
    /\ UNCHANGED <<path, sec_of, secFifo, result>>

Parent(r) ==
    \/ MakeFirst(r) \/ MakeSec(r) \/ ForkFirst(r) \/ OpenFirst(r) \/ WriteFirst(r)
    \/ ForkSecond(r) \/ OpenSec(r) \/ WriteSec(r) \/ WaitTest(r) \/ Suspend(r)
    \/ WaitAgain(r) \/ Unlink(r) \/ SigchldHandler(r)

-----------------------------------------------------------------------------
(* The first child. *)

Exits(r) == sigchld' = [sigchld EXCEPT ![r] = TRUE]

Child1Wakes(r) ==
    /\ Child1To(r, "sleep", "openfirst")
    /\ UNCHANGED <<path, parent, child2, sec_of, secFifo, sigchld, signalCnt,
                   spawnedProcess, result>>

\* readOneByOne reads to the end of the first FIFO: the parent has closed it.
Child1Read(r) ==
    /\ Child1To(r, "read", "find") /\ parent[r] # "writefirst"
    /\ UNCHANGED <<path, parent, child2, sec_of, secFifo, sigchld, signalCnt,
                   spawnedProcess, result>>

\* open(SEC_CHILD_FIFO) looks up the name, which may be gone or stand for another FIFO.
Child1Find(r) ==
    /\ \/ /\ Child1To(r, "find", "opensec") /\ path.sec # 0
          /\ sec_of' = [sec_of EXCEPT ![r] = path.sec] /\ UNCHANGED sigchld
       \/ /\ Child1To(r, "find", "zombie") /\ path.sec = 0
          /\ Exits(r) /\ UNCHANGED sec_of
    /\ UNCHANGED <<path, parent, child2, secFifo, signalCnt, spawnedProcess, result>>

Child1Open(r) ==
    /\ Child1To(r, "opensec", "writesec") /\ Met(sec_of[r])
    /\ UNCHANGED <<path, parent, sec_of, secFifo, sigchld, signalCnt, spawnedProcess, result>>

\* The sum and a "!" are written and the FIFO closed.
Child1Write(r) ==
    /\ Child1To(r, "writesec", "zombie") /\ Exits(r)
    /\ secFifo' = [secFifo EXCEPT ![sec_of[r]] = @ \cup {<<"sum", r>>}]
    /\ UNCHANGED <<path, parent, child2, sec_of, signalCnt, spawnedProcess, result>>

Child1(r) == Child1Wakes(r) \/ Child1Read(r) \/ Child1Find(r) \/ Child1Open(r) \/ Child1Write(r)

-----------------------------------------------------------------------------
(* The second child. *)

\* The FIFO of that name is that of its own run: the parent waits in open() for it.
Child2Wakes(r) ==
    /\ Child2To(r, "sleep", "opensec") /\ path.sec = r
    /\ UNCHANGED <<path, parent, child1, sec_of, secFifo, sigchld, signalCnt,
                   spawnedProcess, result>>

\* No one has the second FIFO of run r open for writing.
AtEnd(r) ==
    /\ parent[r] # "writesec"
    /\ \A q \in Runs : ~(child1[q] = "writesec" /\ sec_of[q] = r)

\* Bug: one of the two delimiters is enough.
Child2ReadEither(r) ==
    /\ Child2To(r, "read", "zombie") /\ Exits(r) /\ AtEnd(r)
    /\ secFifo[r] # {}
    /\ result' = [result EXCEPT ![r] = secFifo[r]]
    /\ UNCHANGED <<path, parent, child1, sec_of, secFifo, signalCnt, spawnedProcess>>

\* readOneByOne_Custom reads on at the end of the FIFO, until it has seen a "," and a
\* "!".  The total does not depend on which came first.
Child2Read(r) ==
    /\ Child2To(r, "read", "zombie") /\ Exits(r) /\ AtEnd(r)
    /\ \A kind \in {"multiply", "sum"} : \E m \in secFifo[r] : m[1] = kind
    /\ result' = [result EXCEPT ![r] = secFifo[r]]
    /\ UNCHANGED <<path, parent, child1, sec_of, secFifo, signalCnt, spawnedProcess>>

Child2(r) == Child2Wakes(r) \/ Child2Read(r)

Next == \E r \in Runs : Start(r) \/ Parent(r) \/ Interrupt(r) \/ Child1(r) \/ Child2(r)

Spec == Init /\ [][Next]_vars

\* The scheduler runs every process; no one has to start or interrupt the program.
FairSpec ==
    Spec /\ \A r \in Runs : WF_vars(Parent(r)) /\ WF_vars(Child1(r)) /\ WF_vars(Child2(r))
=============================================================================
