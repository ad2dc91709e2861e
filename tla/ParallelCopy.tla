---------------------------- MODULE ParallelCopy ----------------------------
(***************************************************************************)
(* The parallel directory copy of                                          *)
(* src/hw4_2024/put_your_codes_here/1801042624_main.c and queue.c: one     *)
(* manager walks the source tree (copyAll) and puts each regular file into *)
(* a ring buffer; the workers (consumer) take files out and copy them.     *)
(*                                                                         *)
(* A critical section under buffer_mutex is one step, so the mutex has an  *)
(* owner only when copyAll returns without unlocking it.                   *)
(***************************************************************************)
EXTENDS Integers, Sequences, FiniteSets

CONSTANTS
    Files, Dirs, Top,   \* the regular files and directories; the source directory
    Contents,           \* what each directory holds
    Broken,             \* the files open() may fail on, the directories opendir() fails on
    Faulty,             \* the files whose read() or write() may fail
    Blocks,             \* length of each file, in read()s
    Workers, Manager, Nobody,
    MAX_BUFF_SIZE,      \* capacity of the ring buffer
    MayInterrupt        \* whether SIGINT may come

ASSUME CopyAssumption ==
    /\ Top \in Dirs /\ Files \cap Dirs = {} /\ IsFiniteSet(Files \cup Dirs)
    /\ Contents \in [Dirs -> SUBSET (Files \cup Dirs)]
    /\ \A d, e \in Dirs : d # e => Contents[d] \cap Contents[e] = {}
    /\ Broken \subseteq Files \cup Dirs /\ Faulty \subseteq Files
    /\ Blocks \in [Files -> Nat]
    /\ IsFiniteSet(Workers) /\ Workers # {} /\ Manager \notin Workers
    /\ Nobody \notin Files \cup Workers \cup {Manager}
    /\ MAX_BUFF_SIZE \in Nat \ {0} /\ MayInterrupt \in BOOLEAN

VARIABLES
    buffer, counter, last, buffer_size_counter,   \* the ring buffer of queue.c
    buffer_mutex, asleep,    \* its owner; the threads waiting on full or empty
    running_status, done,
    stack,                   \* the open directories of copyAll, innermost first
    unread,                  \* what readdir has still to return of each directory
    mgr, entry,              \* where the manager is, the file it has in hand
    directory_count, regular_file_count,
    pc, item,                \* where each worker is, the file it copies
    blocksRead,              \* how much of each file has been read
    written, missed,         \* history: the blocks write() wrote, and those it did not
    closed,                  \* history: the files whose copy has been closed
    totalBytesCopied, sum,   \* the statistic; what a worker has read of it
    joined                   \* main is past its last pthread_join

ring == <<buffer, counter, last, buffer_size_counter>>
walk == <<stack, unread, mgr, entry, directory_count, regular_file_count>>
work == <<pc, item, blocksRead, written, missed, closed, totalBytesCopied, sum>>
vars == <<ring, walk, work, buffer_mutex, asleep, running_status, done, joined>>

Init ==
    /\ buffer = [i \in 0..MAX_BUFF_SIZE-1 |-> Nobody]
    /\ counter = 0 /\ last = 0 /\ buffer_size_counter = 0
    /\ buffer_mutex = Nobody /\ asleep = {}
    /\ running_status = TRUE /\ done = FALSE
    /\ stack = IF Top \in Broken THEN << >> ELSE <<Top>>
    /\ unread = Contents
    /\ mgr = "scan" /\ entry = Nobody
    /\ directory_count = 0 /\ regular_file_count = 0
    /\ pc = [w \in Workers |-> "top"]
    /\ item = [w \in Workers |-> Nobody]
    /\ blocksRead = [f \in Files |-> 0] /\ written = {} /\ missed = {} /\ closed = {}
    /\ totalBytesCopied = 0 /\ sum = [w \in Workers |-> 0]
    /\ joined = FALSE

-----------------------------------------------------------------------------
(* queue.c *)

\* Bug: the index is not wrapped until one place too late.
AfterLate(i) == IF i = MAX_BUFF_SIZE THEN 0 ELSE i + 1
After(i) == (i + 1) % MAX_BUFF_SIZE

enqueue(f) ==
    /\ buffer' = [buffer EXCEPT ![last] = f]
    /\ last' = After(last)
    /\ UNCHANGED counter

\* Bug: counter is not advanced.
dequeueStuck(w) ==
    /\ item' = [item EXCEPT ![w] = buffer[counter]]
    /\ UNCHANGED <<buffer, last, counter>>

dequeue(w) ==
    /\ item' = [item EXCEPT ![w] = buffer[counter]]
    /\ counter' = After(counter)
    /\ UNCHANGED <<buffer, last>>

-----------------------------------------------------------------------------
(* The manager: copyAll. *)

\* The loop condition of copyAll: readdir comes first.
Read(x) ==
    /\ mgr = "scan" /\ stack # << >> /\ running_status
    /\ x \in unread[Head(stack)]
    /\ unread' = [unread EXCEPT ![Head(stack)] = @ \ {x}]

EnterDirectory(d) ==
    /\ Read(d)
    /\ directory_count' = directory_count + 1
    /\ stack' = IF d \in Broken THEN stack ELSE <<d>> \o stack
    /\ UNCHANGED <<mgr, entry, regular_file_count, ring, work, buffer_mutex,
                   asleep, running_status, done, joined>>

PickFile(f) ==
    /\ Read(f)
    /\ regular_file_count' = regular_file_count + 1
    /\ entry' = f /\ mgr' = "put"
    /\ UNCHANGED <<stack, directory_count, ring, work, buffer_mutex,
                   asleep, running_status, done, joined>>

LeaveDirectory ==
    /\ mgr = "scan" /\ stack # << >>
    /\ ~running_status \/ unread[Head(stack)] = {}
    /\ stack' = Tail(stack)
    /\ UNCHANGED <<unread, mgr, entry, directory_count, regular_file_count, ring,
                   work, buffer_mutex, asleep, running_status, done, joined>>

\* The manager at pthread_mutex_lock or back from pthread_cond_wait.
HasBuffer == mgr = "put" /\ Manager \notin asleep /\ buffer_mutex = Nobody

WaitForRoom ==
    /\ HasBuffer /\ buffer_size_counter = MAX_BUFF_SIZE
    /\ asleep' = asleep \cup {Manager}
    /\ UNCHANGED <<ring, walk, work, buffer_mutex, running_status, done, joined>>

\* Bug: the waiting workers are not woken.
PutSilent ==
    /\ HasBuffer /\ buffer_size_counter # MAX_BUFF_SIZE
    /\ enqueue(entry)
    /\ buffer_size_counter' = buffer_size_counter + 1
    /\ mgr' = "scan"
    /\ UNCHANGED <<stack, unread, entry, directory_count, regular_file_count, work,
                   asleep, buffer_mutex, running_status, done, joined>>

Put ==
    /\ HasBuffer /\ buffer_size_counter # MAX_BUFF_SIZE
    /\ enqueue(entry)
    /\ buffer_size_counter' = buffer_size_counter + 1
    /\ asleep' = asleep \ Workers
    /\ mgr' = "scan"
    /\ UNCHANGED <<stack, unread, entry, directory_count, regular_file_count, work,
                   buffer_mutex, running_status, done, joined>>

\* copyAll returns to its caller, buffer_mutex locked.
OpenFails ==
    /\ HasBuffer /\ buffer_size_counter # MAX_BUFF_SIZE /\ entry \in Broken
    /\ buffer_mutex' = Manager
    /\ stack' = Tail(stack)
    /\ mgr' = "scan"
    /\ UNCHANGED <<unread, entry, directory_count, regular_file_count, ring, work,
                   asleep, running_status, done, joined>>

\* manager(), after copyAll.
FinishManager ==
    /\ mgr = "scan" /\ stack = << >> /\ buffer_mutex = Nobody
    /\ done' = TRUE
    /\ asleep' = asleep \ Workers
    /\ mgr' = "end"
    /\ UNCHANGED <<stack, unread, entry, directory_count, regular_file_count, ring,
                   work, buffer_mutex, running_status, joined>>

ManagerStep ==
    \/ \E d \in Dirs : EnterDirectory(d)
    \/ \E f \in Files : PickFile(f)
    \/ LeaveDirectory \/ WaitForRoom \/ Put \/ OpenFails \/ FinishManager

-----------------------------------------------------------------------------
(* A worker: consumer. *)

\* Bug: a worker leaves as soon as the manager is done.
GoOnHasty == running_status /\ ~done
\* The loop condition; done and buffer_size_counter are read without the mutex.
GoOn == running_status /\ (~done \/ buffer_size_counter # 0)

LoopTop(w) ==
    /\ pc[w] = "top"
    /\ pc' = [pc EXCEPT ![w] = IF GoOn THEN "take" ELSE "end"]
    /\ UNCHANGED <<item, blocksRead, written, missed, closed, totalBytesCopied, sum, ring, walk,
                   buffer_mutex, asleep, running_status, done, joined>>

Locks(w) == pc[w] = "take" /\ w \notin asleep /\ buffer_mutex = Nobody

WaitForFile(w) ==
    /\ Locks(w) /\ buffer_size_counter = 0 /\ ~done
    /\ asleep' = asleep \cup {w}
    /\ UNCHANGED <<ring, walk, work, buffer_mutex, running_status, done, joined>>

NothingMore(w) ==
    /\ Locks(w) /\ buffer_size_counter = 0 /\ done
    /\ asleep' = asleep \ {Manager}
    /\ pc' = [pc EXCEPT ![w] = "end"]
    /\ UNCHANGED <<item, blocksRead, written, missed, closed, totalBytesCopied, sum, ring, walk,
                   buffer_mutex, running_status, done, joined>>

Take(w) ==
    /\ Locks(w) /\ buffer_size_counter # 0
    /\ dequeue(w)
    /\ buffer_size_counter' = buffer_size_counter - 1
    /\ asleep' = asleep \ {Manager}
    /\ pc' = [pc EXCEPT ![w] = "copy"]
    /\ UNCHANGED <<blocksRead, written, missed, closed, totalBytesCopied, sum, walk, buffer_mutex,
                   running_status, done, joined>>

\* read() returns a block; totalBytesCopied += bytes_read is a load and a store, under no
\* mutex.
ReadBlock(w) ==
    /\ pc[w] = "copy" /\ blocksRead[item[w]] < Blocks[item[w]]
    /\ blocksRead' = [blocksRead EXCEPT ![item[w]] = @ + 1]
    /\ sum' = [sum EXCEPT ![w] = totalBytesCopied]
    /\ pc' = [pc EXCEPT ![w] = "count"]
    /\ UNCHANGED <<item, written, missed, closed, totalBytesCopied, ring, walk, buffer_mutex,
                   asleep, running_status, done, joined>>

\* Bug: a block is counted twice.
CountBlockTwice(w) ==
    /\ pc[w] = "count"
    /\ totalBytesCopied' = sum[w] + 2
    /\ pc' = [pc EXCEPT ![w] = "write"]
    /\ UNCHANGED <<item, blocksRead, written, missed, closed, sum, ring, walk, buffer_mutex,
                   asleep, running_status, done, joined>>

CountBlock(w) ==
    /\ pc[w] = "count"
    /\ totalBytesCopied' = sum[w] + 1
    /\ pc' = [pc EXCEPT ![w] = "write"]
    /\ UNCHANGED <<item, blocksRead, written, missed, closed, sum, ring, walk, buffer_mutex,
                   asleep, running_status, done, joined>>

\* After a write() that fails or falls short the loop goes on with the next block.
WriteBlock(w) ==
    /\ pc[w] = "write"
    /\ LET block == <<item[w], blocksRead[item[w]]>>
       IN  \/ written' = written \cup {block} /\ missed' = missed
           \/ item[w] \in Faulty /\ missed' = missed \cup {block} /\ written' = written
    /\ pc' = [pc EXCEPT ![w] = "copy"]
    /\ UNCHANGED <<item, blocksRead, closed, totalBytesCopied, sum, ring, walk, buffer_mutex,
                   asleep, running_status, done, joined>>

\* read() has come to the end of the file, or fails, which ends the loop the same way.
CloseFile(w) ==
    /\ pc[w] = "copy" /\ (blocksRead[item[w]] = Blocks[item[w]] \/ item[w] \in Faulty)
    /\ closed' = closed \cup {item[w]}
    /\ item' = [item EXCEPT ![w] = Nobody]
    /\ pc' = [pc EXCEPT ![w] = "top"]
    /\ UNCHANGED <<blocksRead, written, missed, totalBytesCopied, sum, ring, walk, buffer_mutex,
                   asleep, running_status, done, joined>>

WorkerStep(w) ==
    \/ LoopTop(w) \/ WaitForFile(w) \/ NothingMore(w) \/ Take(w)
    \/ ReadBlock(w) \/ CountBlock(w) \/ WriteBlock(w) \/ CloseFile(w)

-----------------------------------------------------------------------------
(* main and the signal handler. *)

Join ==
    /\ ~joined /\ mgr = "end" /\ \A w \in Workers : pc[w] = "end"
    /\ joined' = TRUE
    /\ UNCHANGED <<ring, walk, work, buffer_mutex, asleep, running_status, done>>

Interrupt ==
    /\ MayInterrupt /\ running_status /\ ~joined
    /\ running_status' = FALSE
    /\ UNCHANGED <<ring, walk, work, buffer_mutex, asleep, done, joined>>

Stopped == joined /\ UNCHANGED vars

Next ==
    \/ ManagerStep \/ Join \/ Interrupt \/ Stopped
    \/ \E w \in Workers : WorkerStep(w)

Spec == Init /\ [][Next]_vars

\* Every thread that is not blocked runs; the mutex is free between steps.
FairSpec ==
    /\ Spec /\ WF_vars(ManagerStep) /\ WF_vars(Join)
    /\ \A w \in Workers : WF_vars(WorkerStep(w))
=============================================================================
