--------------------------- MODULE SumProperties ---------------------------
(***************************************************************************)
(* What a run of hw2_2024 promises, and what the runs before it may break. *)
(***************************************************************************)
EXTENDS SumMultiply

\* Every variable of hw2.c stays in its range.
TypeOK ==
    /\ path \in [{"first", "sec"} -> 0..MaxRuns]
    /\ parent \in [Runs -> Gone \cup {"mkfirst", "mksec", "fork1", "openfirst", "writefirst",
                                      "fork2", "opensec", "writesec", "test", "tested", "suspend",
                                      "woken", "unlink"}]
    /\ child1 \in [Runs -> {"off", "sleep", "openfirst", "read", "find", "opensec",
                            "writesec", "zombie", "reaped"}]
    /\ child2 \in [Runs -> {"off", "sleep", "opensec", "read", "zombie", "reaped"}]
    /\ sec_of \in [Runs -> 0..MaxRuns]
    /\ secFifo \in [Runs -> SUBSET ({"multiply", "sum"} \X Runs)]
    /\ sigchld \in [Runs -> BOOLEAN]
    /\ signalCnt \in [Runs -> 0..2] /\ spawnedProcess \in [Runs -> 0..2]
    /\ result \in [Runs -> SUBSET ({"multiply", "sum"} \X Runs)]

\* A run that SIGINT ended leaves its FIFOs and its children behind.
KilledBefore(r) == \E q \in Runs : q < r /\ parent[q] = "killed"

\* The total is that of the run's own array, in whatever order the two writers
\* of the second FIFO come: a run is disturbed by none that ended by itself, though
\* its parent leaves, and removes the FIFOs, when one child of two is reaped.
ResultRight ==
    \A r \in Runs :
        result[r] # {} /\ ~KilledBefore(r) => result[r] = {<<"multiply", r>>, <<"sum", r>>}

\* No more than two runs in a row fail because of FIFOs that were left: the first
\* removes the first FIFO, the second both.
StartsAgain ==
    \A r \in Runs : {r, r + 1, r + 2} \subseteq Runs =>
        \E q \in {r, r + 1, r + 2} : parent[q] # "failed"

\* When both forks succeed the total is printed, unless SIGINT ends the parent: the
\* first child finds a second FIFO in time, and the second waits for both writers.
ResultComes ==
    \A r \in Runs : child2[r] # "off" ~> result[r] # {} \/ parent[r] = "killed"

\* The second fork failed: nobody will read the second FIFO, and the first child waits
\* in open() for a reader.
WriterStuck(r) == parent[r] = "suspend" /\ child2[r] = "off" /\ child1[r] = "opensec"

\* Both children were reaped between the test of spawnedProcess and sigsuspend.
SleptTooLate(r) == parent[r] = "suspend" /\ spawnedProcess[r] = 0

\* A parent that sleeps in sigsuspend ends, unless it sleeps for one of two reasons: the
\* second fork failed, or no child was left when it fell asleep.  No SIGCHLD is lost but
\* one that comes before sigsuspend, although two children may make one signal.
ParentEnds ==
    \A r \in Runs :
        parent[r] = "suspend" /\ ~KilledBefore(r)
          ~> parent[r] \in {"ended", "killed"} \/ WriterStuck(r) \/ SleptTooLate(r)
=============================================================================
