--------------------------- MODULE CopyProperties ---------------------------
(***************************************************************************)
(* What the parallel copy should guarantee.                                *)
(***************************************************************************)
EXTENDS ParallelCopy

\* The variables of main.c and queue.c stay in their ranges.
TypeOK ==
    /\ buffer \in [0..MAX_BUFF_SIZE-1 -> Files \cup {Nobody}]
    /\ counter \in 0..MAX_BUFF_SIZE-1 /\ last \in 0..MAX_BUFF_SIZE-1
    /\ buffer_size_counter \in 0..MAX_BUFF_SIZE
    /\ buffer_mutex \in {Nobody, Manager} /\ asleep \subseteq Workers \cup {Manager}
    /\ running_status \in BOOLEAN /\ done \in BOOLEAN /\ joined \in BOOLEAN
    /\ stack \in Seq(Dirs) /\ unread \in [Dirs -> SUBSET (Files \cup Dirs)]
    /\ mgr \in {"scan", "put", "end"} /\ entry \in Files \cup {Nobody}
    /\ directory_count \in Nat /\ regular_file_count \in Nat
    /\ pc \in [Workers -> {"top", "take", "copy", "count", "write", "end"}]
    /\ item \in [Workers -> Files \cup {Nobody}]
    /\ blocksRead \in [Files -> Nat] /\ closed \subseteq Files
    /\ totalBytesCopied \in Nat /\ sum \in [Workers -> Nat]

\* The files in the ring buffer, oldest first.
Slot(i) == (counter + i) % MAX_BUFF_SIZE
Content == [i \in 1..buffer_size_counter |-> buffer[Slot(i - 1)]]

\* last is the place after the newest file, and the occupied places hold files:
\* the three counters that manager and workers update agree with one another.
RingShape ==
    /\ last = Slot(buffer_size_counter)
    /\ \A i \in DOMAIN Content : Content[i] \in Files

Held(f) ==
    (IF mgr = "put" /\ entry = f THEN 1 ELSE 0)
    + Cardinality({i \in DOMAIN Content : Content[i] = f})
    + Cardinality({w \in Workers : item[w] = f})
    + (IF f \in closed THEN 1 ELSE 0)

\* The mutex stays with the manager once a file it picked could not be opened.
OpenFailed == buffer_mutex = Manager

\* A file that readdir has returned and open() opened is in exactly one place,
\* in the manager's hands, the buffer, a worker's hands or copied: none is
\* overwritten in the ring, copied by two workers or left behind, even when
\* SIGINT stops the walk.
FileInOnePlace ==
    \A d \in Dirs : \A f \in Contents[d] \cap Files :
        LET unseen == f \in unread[d]
        IN  /\ Held(f) <= IF unseen THEN 0 ELSE 1
            /\ Held(f) = 0 => unseen \/ (f \in Broken /\ OpenFailed)

\* The facts that make FileInOnePlace hold, one by one, without the counting.
Found(f)   == \A d \in Dirs : f \notin unread[d]
InHand(f)  == mgr = "put" /\ entry = f
InRing(f)  == \E i \in DOMAIN Content : Content[i] = f
AtWorker(f) == \E w \in Workers : item[w] = f

\* The places exclude one another, and each holds a file once.
Exclusive ==
    /\ \A i, j \in DOMAIN Content : Content[i] = Content[j] => i = j
    /\ \A w, v \in Workers : item[w] = item[v] /\ item[w] # Nobody => w = v
    /\ \A f \in Files :
        /\ InHand(f) \/ InRing(f) \/ AtWorker(f) \/ f \in closed => Found(f)
        /\ InHand(f) => ~InRing(f) /\ ~AtWorker(f) /\ f \notin closed
        /\ InRing(f) => ~AtWorker(f) /\ f \notin closed
        /\ AtWorker(f) => f \notin closed

\* readdir returns what is in the directory; the manager and the workers have
\* a file in their hands where their code uses one.
HandsFilled ==
    /\ \A d \in Dirs : unread[d] \subseteq Contents[d]
    /\ mgr = "put" => entry \in Files /\ stack # << >>
    /\ \A w \in Workers : item[w] = Nobody <=> pc[w] \notin {"copy", "count", "write"}

\* A copy starts when a worker has the file and does not read past its end.
WithinFile ==
    /\ \A f \in Files : AtWorker(f) \/ f \in closed \/ blocksRead[f] = 0
    /\ \A f \in Files : blocksRead[f] <= Blocks[f]

\* A block that was read has been written, has been missed by a write(), or is the last that
\* a worker read.
BlocksRead  == UNION {{f} \X (1..blocksRead[f]) : f \in Files}
BlockInHand(b) == \E w \in Workers :
    pc[w] \in {"count", "write"} /\ b = <<item[w], blocksRead[item[w]]>>
BlocksKept  == \A b \in BlocksRead : b \in written \cup missed \/ BlockInHand(b)

\* These are inductive, for any tree, buffer and number of workers, with failing calls and
\* SIGINT at any moment.
IndInv == TypeOK /\ RingShape /\ Exclusive /\ HandsFilled /\ WithinFile /\ BlocksKept

\* The statistic counts what was read, not what was written. It never exceeds the blocks
\* read, however the threads' loads and stores of totalBytesCopied interleave; and when main
\* prints it, it exceeds the blocks in the copies by no more than those that a failing or
\* short write() missed.
BytesAtMost ==
    /\ totalBytesCopied <= Cardinality(BlocksRead)
    /\ joined => totalBytesCopied <= Cardinality(written \cup missed)

\* The sources that copyAll can reach: the smallest set with the source directory and what
\* is in its directories, but for the directories that opendir() fails on.
Entries == Files \cup Dirs
Closed(S) ==
    /\ Top \in S \cup Broken
    /\ \A d \in S \cap Dirs : Contents[d] \ (Broken \cap Dirs) \subseteq S
Sources   == {x \in Entries : \A S \in SUBSET Entries : Closed(S) => x \in S}
Reachable == Sources \cap Files

\* What the state is of the job: the files not yet handed over, those that workers hold, and
\* whether main is past its joins without SIGINT.
ToFind  == {f \in Reachable : ~InRing(f) /\ ~AtWorker(f) /\ f \notin closed}
Copying == {item[w] : w \in Workers} \ {Nobody}
Ended   == joined /\ running_status

\* The threads do the job of CopyJob: bounded queue in the order the files were
\* found, each handled once, and main gets past its joins, unless SIGINT came, only
\* when all have been.
Job == INSTANCE CopyJob WITH
    AllFiles <- Reachable, Capacity <- MAX_BUFF_SIZE,
    toFind <- ToFind, queue <- Content, copying <- Copying, copies <- closed, ended <- Ended
JobSpec == Job!Spec

\* The copy comes to an end, unless SIGINT comes or an open fails: no worker sleeps
\* through the end of the walk, and the manager does not wait for room no one makes.
Terminates == <>(joined \/ ~running_status \/ OpenFailed)
=============================================================================
