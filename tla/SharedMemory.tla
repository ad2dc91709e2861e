---------------------------- MODULE SharedMemory ----------------------------
(***************************************************************************)
(* File transfers of the neHos file server: producerr() and consumerrr()   *)
(* of src/midterm/common.c.  A process is one end of a transfer.  All the  *)
(* transfers, uploads and downloads of all clients, go through the same    *)
(* shared memory and the same two named semaphores.                        *)
(***************************************************************************)
EXTENDS Integers, Sequences

CONSTANTS
    Procs,          \* processes that call producerr or consumerrr
    Files,          \* files; a block of data is named by the file it is from
    FileLen,        \* the blocks of each file; the last byte of the memory stays zero
    Missing,        \* the files that fopen("r") fails on
    Unwritable,     \* the files that fopen("w") fails on, where their directory is missing
    BUFFER_SIZE,    \* blocks
    Nul,            \* a zeroed block
    Left            \* what earlier servers may have left behind

AllMade == {"SHM_NAME", "SEM_MUTEX_NAME", "SEM_FULL_NAME"}

\* Nobody unlinks memory and semaphores.  A producer that was killed may have left some of
\* them, which it makes in this order, the semaphores as they were made.
Remains ==
    {l \in [made : {{}, {"SHM_NAME"}, {"SHM_NAME", "SEM_MUTEX_NAME"}, AllMade},
            producer_sem : Nat, consumer_sem : Nat, text : Files] :
        l.made = AllMade \/ (l.producer_sem = 1 /\ l.consumer_sem = 0 /\ FileLen[l.text] = 0)}

ASSUME MemoryAssumption ==
    /\ FileLen \in [Files -> 0..BUFFER_SIZE - 1] /\ Missing \cup Unwritable \subseteq Files
    /\ BUFFER_SIZE \in Nat \ {0} /\ Nul \notin Files
    /\ Left \subseteq Remains

VARIABLES
    made,           \* which of the memory and the two semaphores exist
    shm,
    producer_sem, consumer_sem,
    at,             \* where each process is in its transfer
    file,           \* the file it was called with
    got             \* history: what it has written as a consumer, in order

semVars == <<made, producer_sem, consumer_sem>>
transferVars == <<semVars, shm, at, file, got>>

Blocks == 1..BUFFER_SIZE
ZeroShm == [i \in Blocks |-> Nul]

\* What memcpy of a buffer full of f leaves in the memory.
Copied(f) == [i \in Blocks |-> IF i <= FileLen[f] THEN f ELSE shm[i]]

TransferInit ==
    /\ \E l \in Left :
          /\ made = l.made /\ producer_sem = l.producer_sem /\ consumer_sem = l.consumer_sem
          /\ shm = [i \in Blocks |-> IF i <= FileLen[l.text] THEN l.text ELSE Nul]
    /\ at = [p \in Procs |-> "idle"]
    /\ got = [p \in Procs |-> << >>]

Goto(p, place) == at' = [at EXCEPT ![p] = place]

-----------------------------------------------------------------------------
(* producerr *)

Makes(p, from, what, to) ==
    /\ at[p] = from /\ Goto(p, to)
    /\ made' = made \cup {what}
    /\ UNCHANGED <<shm, producer_sem, consumer_sem, file, got>>

\* shm_open(O_CREAT) and sem_open(O_CREAT) twice; new semaphores are 1 and 0, new memory zero.
ProdOpen(p) ==
    \/ Makes(p, "open", "SHM_NAME", "clear")
    \/ Makes(p, "mutex", "SEM_MUTEX_NAME", "full")
    \/ Makes(p, "full", "SEM_FULL_NAME", "file")

\* memset, under no semaphore.
ProdClear(p) ==
    /\ at[p] = "clear" /\ Goto(p, "mutex")
    /\ shm' = ZeroShm
    /\ UNCHANGED <<semVars, file, got>>

\* exit(EXIT_FAILURE) if fopen fails.
ProdFile(p) ==
    /\ at[p] = "file" /\ Goto(p, IF file[p] \in Missing THEN "failed" ELSE "take")
    /\ UNCHANGED <<semVars, shm, file, got>>

\* Bug: the producer does not wait.
ProdTakeAtOnce(p) ==
    /\ at[p] = "take" /\ Goto(p, "copy")
    /\ producer_sem' = producer_sem - 1
    /\ UNCHANGED <<made, consumer_sem, shm, file, got>>

ProdTake(p) ==
    /\ at[p] = "take" /\ Goto(p, "copy")
    /\ producer_sem > 0 /\ producer_sem' = producer_sem - 1
    /\ UNCHANGED <<made, consumer_sem, shm, file, got>>

\* Bug: the consumer is not told.
ProdCopySilent(p) ==
    /\ at[p] = "copy" /\ Goto(p, "done")
    /\ shm' = Copied(file[p])
    /\ UNCHANGED <<semVars, file, got>>

\* Bug: the token of the other semaphore is given.
ProdCopyBack(p) ==
    /\ at[p] = "copy" /\ Goto(p, "done")
    /\ shm' = Copied(file[p])
    /\ producer_sem' = producer_sem + 1 /\ consumer_sem' = consumer_sem + 1
    /\ UNCHANGED <<made, file, got>>

ProdCopy(p) ==
    /\ at[p] = "copy" /\ Goto(p, "done")
    /\ shm' = Copied(file[p])
    /\ consumer_sem' = consumer_sem + 1
    /\ UNCHANGED <<made, producer_sem, file, got>>

-----------------------------------------------------------------------------
(* consumerrr *)

\* After sleep(4), shm_open and sem_open without O_CREAT, and fopen("w").  As they are made
\* in the order in which they are opened here, one look at them will do.  The first two and
\* fopen call exit(EXIT_FAILURE) when they fail; the third does not, and sem_wait(SEM_FAILED)
\* ends the process instead.  In no case has the process taken or given a token.
ConsOpen(p) ==
    /\ at[p] = "sleep"
    /\ Goto(p, IF made = AllMade /\ file[p] \notin Unwritable THEN "get" ELSE "lost")
    /\ UNCHANGED <<semVars, shm, file, got>>

ConsTake(p) ==
    /\ at[p] = "get" /\ Goto(p, "write")
    /\ consumer_sem > 0 /\ consumer_sem' = consumer_sem - 1
    /\ UNCHANGED <<made, producer_sem, shm, file, got>>

\* fprintf("%s") stops at the first zero.
Text == LET full == {i \in Blocks : \A j \in 1..i : shm[j] # Nul}
        IN  [i \in full |-> shm[i]]

\* Bug: the producer is not let in again.
ConsWriteSilent(p) ==
    /\ at[p] = "write" /\ Goto(p, "done")
    /\ got' = [got EXCEPT ![p] = Text]
    /\ UNCHANGED <<semVars, shm, file>>

ConsWrite(p) ==
    /\ at[p] = "write" /\ Goto(p, "done")
    /\ got' = [got EXCEPT ![p] = Text]
    /\ producer_sem' = producer_sem + 1
    /\ UNCHANGED <<made, consumer_sem, shm, file>>

\* A signal handler that runs during sem_wait makes it return without a token.
TakeInterrupted(p) ==
    /\ at[p] \in {"take", "get"}
    /\ Goto(p, IF at[p] = "take" THEN "copy" ELSE "write")
    /\ UNCHANGED <<semVars, shm, file, got>>

Transfer(p) ==
    \/ ProdOpen(p) \/ ProdClear(p) \/ ProdFile(p) \/ ProdTake(p) \/ ProdCopy(p)
    \/ ConsOpen(p) \/ ConsTake(p) \/ ConsWrite(p)
=============================================================================
