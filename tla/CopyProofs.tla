----------------------------- MODULE CopyProofs -----------------------------
(***************************************************************************)
(* Proofs about the parallel copy: the ring buffer behaves as a queue,     *)
(* and no file is lost or copied twice, for every directory tree, buffer   *)
(* size and number of workers, with calls that fail and SIGINT.            *)
(***************************************************************************)
EXTENDS CopyProperties, FiniteSetTheorems, SequenceTheorems, TLAPS

M == MAX_BUFF_SIZE

-----------------------------------------------------------------------------
(* The ring buffer. *)

\* One step along the ring comes back to 0 at the end.
LEMMA AfterValue ==
    ASSUME NEW i \in 0..M-1
    PROVE  After(i) = IF i + 1 = M THEN 0 ELSE i + 1
<1> USE CopyAssumption DEF M, After
<1>1. CASE i + 1 = M BY <1>1, SMT
<1>2. CASE i + 1 # M BY <1>2, SMT
<1> QED BY <1>1, <1>2

\* Up to a full turn from counter, Slot wraps at most once.
LEMMA SlotValue ==
    ASSUME counter \in 0..M-1, NEW i \in 0..M
    PROVE  Slot(i) = IF counter + i >= M THEN counter + i - M ELSE counter + i
<1> USE CopyAssumption DEF M, Slot
<1>1. CASE counter + i >= M BY <1>1, SMT
<1>2. CASE counter + i < M BY <1>2, SMT
<1> QED BY <1>1, <1>2

\* enqueue appends to the content and leaves the ring in shape.
LEMMA PutContent ==
    ASSUME TypeOK, RingShape, NEW f \in Files, enqueue(f),
           buffer_size_counter # M, buffer_size_counter' = buffer_size_counter + 1
    PROVE  /\ RingShape'
           /\ DOMAIN Content = 1..buffer_size_counter
           /\ DOMAIN Content' = 1..(buffer_size_counter + 1)
           /\ \A i \in 1..buffer_size_counter : Content'[i] = Content[i]
           /\ Content'[buffer_size_counter + 1] = f
<1>n. PICK n \in Nat : n = buffer_size_counter
  BY CopyAssumption DEF TypeOK
<1>0. /\ n = buffer_size_counter
      /\ counter \in 0..M-1 /\ last \in 0..M-1 /\ n \in 0..M-1 /\ M \in Nat \ {0}
      /\ counter' = counter /\ buffer' = [buffer EXCEPT ![last] = f] /\ last' = After(last)
      /\ buffer \in [0..M-1 -> Files \cup {Nobody}] /\ buffer_size_counter' = n + 1
  BY <1>n, CopyAssumption DEF TypeOK, M, enqueue
<1>1. \A i \in 0..M : Slot(i)' = Slot(i)
  BY <1>0 DEF Slot
<1>2. \A i \in 0..n-1 : Slot(i) \in 0..M-1 /\ Slot(i) # Slot(n)
  BY <1>0, SlotValue
<1>3. last = Slot(n)
  BY <1>0 DEF RingShape
<1>4. \A i \in 1..n : Content'[i] = Content[i]
  <2> TAKE i \in 1..n
  <2>1. i - 1 \in 0..n-1 /\ i \in 1..(n + 1) /\ i - 1 \in 0..M BY <1>0
  <2>2. Content'[i] = buffer'[Slot(i - 1)] BY <1>0, <2>1, <1>1 DEF Content
  <2>3. buffer'[Slot(i - 1)] = buffer[Slot(i - 1)] BY <2>1, <1>0, <1>2, <1>3
  <2> QED BY <1>0, <2>2, <2>3 DEF Content
<1>5. Content'[n + 1] = f
  <2>0. n + 1 \in 1..(n + 1) /\ (n + 1) - 1 = n BY <1>0
  <2>1. Content'[n + 1] = buffer'[Slot(n)'] BY <1>0, <2>0 DEF Content
  <2> QED BY <2>1, <1>0, <1>1, <1>3
<1>6. DOMAIN Content = 1..n /\ DOMAIN Content' = 1..(n + 1)
  BY <1>0 DEF Content
<1>7. last' = Slot(n + 1)'
  <2>1. last' = IF last + 1 = M THEN 0 ELSE last + 1 BY <1>0, AfterValue
  <2>2. last = IF counter + n >= M THEN counter + n - M ELSE counter + n
    BY <1>0, <1>3, SlotValue
  <2>3. Slot(n + 1) = IF counter + n + 1 >= M THEN counter + n + 1 - M ELSE counter + n + 1
    <3>1. n + 1 \in 0..M BY <1>0
    <3>2. Slot(n + 1) = IF counter + (n + 1) >= M THEN counter + (n + 1) - M ELSE counter + (n + 1)
      BY <1>0, <3>1, SlotValue
    <3> QED BY <1>0, <3>2
  <2>4. Slot(n + 1)' = Slot(n + 1) BY <1>0 DEF Slot
  <2> QED BY <1>0, <2>1, <2>2, <2>3, <2>4
<1>8. \A i \in DOMAIN Content' : Content'[i] \in Files
  BY <1>0, <1>4, <1>5, <1>6 DEF RingShape
<1> QED BY <1>4, <1>5, <1>6, <1>7, <1>8, <1>0 DEF RingShape

\* dequeue takes the oldest file off the content.
LEMMA TakeContent ==
    ASSUME TypeOK, RingShape, NEW w \in Workers, dequeue(w),
           buffer_size_counter # 0, buffer_size_counter' = buffer_size_counter - 1
    PROVE  /\ RingShape'
           /\ DOMAIN Content = 1..buffer_size_counter
           /\ DOMAIN Content' = 1..(buffer_size_counter - 1)
           /\ \A i \in 1..(buffer_size_counter - 1) : Content'[i] = Content[i + 1]
           /\ Content[1] \in Files /\ item' = [item EXCEPT ![w] = Content[1]]
<1>n. PICK n \in Nat : n = buffer_size_counter
  BY CopyAssumption DEF TypeOK
<1>0. /\ n = buffer_size_counter
      /\ counter \in 0..M-1 /\ last \in 0..M-1 /\ n \in 1..M /\ M \in Nat \ {0}
      /\ counter' = After(counter) /\ buffer' = buffer /\ last' = last
      /\ item' = [item EXCEPT ![w] = buffer[counter]] /\ buffer_size_counter' = n - 1
  BY <1>n, CopyAssumption DEF TypeOK, M, dequeue
<1>1. counter' = (IF counter + 1 = M THEN 0 ELSE counter + 1) /\ counter' \in 0..M-1
  BY <1>0, AfterValue
<1>2. \A i \in 0..M-1 : Slot(i)' = Slot(i + 1)
  <2> TAKE i \in 0..M-1
  <2>1. i + 1 \in 0..M BY <1>0
  <2>2. Slot(i + 1) = IF counter + (i + 1) >= M THEN counter + (i + 1) - M ELSE counter + (i + 1)
    BY <1>0, <2>1, SlotValue
  <2>3. Slot(i)' = (counter' + i) % M BY DEF Slot, M
  <2>4. (counter' + i) % M = IF counter' + i >= M THEN counter' + i - M ELSE counter' + i
    <3>1. CASE counter' + i >= M BY <1>0, <1>1, <3>1, SMT
    <3>2. CASE counter' + i < M BY <1>0, <1>1, <3>2, SMT
    <3> QED BY <1>0, <1>1, <3>1, <3>2
  <2> QED BY <1>0, <1>1, <2>2, <2>3, <2>4
<1>3. DOMAIN Content = 1..n /\ DOMAIN Content' = 1..(n - 1)
  BY <1>0 DEF Content
<1>4. \A i \in 1..(n - 1) : Content'[i] = Content[i + 1]
  <2> TAKE i \in 1..(n - 1)
  <2>1. i \in 1..(n - 1) /\ i + 1 \in 1..n /\ i - 1 \in 0..M-1 /\ (i + 1) - 1 = i /\ (i - 1) + 1 = i
    BY <1>0
  <2>2. Content'[i] = buffer'[Slot(i - 1)'] BY <1>0, <2>1 DEF Content
  <2>3. Content[i + 1] = buffer[Slot(i)] BY <1>0, <2>1 DEF Content
  <2> QED BY <1>0, <1>2, <2>1, <2>2, <2>3
<1>5. Content[1] = buffer[counter] /\ Content[1] \in Files
  <2>1. 1 \in 1..n /\ 1 - 1 = 0 /\ 0 \in 0..M BY <1>0
  <2>2. Slot(0) = counter BY <1>0, <2>1, SlotValue
  <2> QED BY <1>0, <2>1, <2>2, <1>3 DEF Content, RingShape
<1>6. last' = Slot(n - 1)'
  <2>1. n - 1 \in 0..M-1 /\ (n - 1) + 1 = n BY <1>0
  <2>2. Slot(n - 1)' = Slot(n) BY <1>2, <2>1
  <2>3. last = Slot(n) BY <1>0 DEF RingShape
  <2> QED BY <1>0, <2>2, <2>3
<1>7. \A i \in DOMAIN Content' : Content'[i] \in Files
  <2> SUFFICES ASSUME NEW i \in 1..(n - 1) PROVE Content'[i] \in Files
    BY <1>3
  <2>1. i + 1 \in 1..n BY <1>0
  <2> QED BY <2>1, <1>3, <1>4 DEF RingShape
<1> QED BY <1>0, <1>3, <1>4, <1>5, <1>6, <1>7 DEF RingShape

-----------------------------------------------------------------------------
(* The invariant. *)

\* Steps that move no file keep the files where they are.
LEMMA FilesStay ==
    ASSUME IndInv, UNCHANGED <<ring, item, closed>>,
           \A d \in Dirs : unread'[d] \subseteq unread[d],
           mgr' = "put" => mgr = "put" /\ entry' = entry
    PROVE  RingShape' /\ Exclusive'
<1>1. Content' = Content /\ RingShape'
  BY DEF IndInv, RingShape, Content, Slot, ring
<1>2. ASSUME NEW f \in Files
      PROVE  /\ Found(f) => Found(f)'
             /\ InHand(f)' => InHand(f)
             /\ InRing(f)' <=> InRing(f)
             /\ AtWorker(f)' <=> AtWorker(f)
  BY <1>1, <1>2 DEF Found, InHand, InRing, AtWorker
<1>3. item' = item /\ closed' = closed
  OBVIOUS
<1> QED BY <1>1, <1>2, <1>3 DEF IndInv, Exclusive

\* The steps of the manager that put no file in the ring.
LEMMA WalkInv ==
    ASSUME IndInv, \/ \E d \in Dirs : EnterDirectory(d)
                   \/ LeaveDirectory \/ WaitForRoom \/ OpenFails \/ FinishManager
    PROVE  IndInv'
<1> USE DEF ring, walk, work
<1>1. TypeOK'
  <2>1. ASSUME NEW d \in Dirs, EnterDirectory(d) PROVE TypeOK'
    <3>1. stack' \in Seq(Dirs)
      BY <2>1 DEF EnterDirectory, IndInv, TypeOK
    <3>2. unread' \in [Dirs -> SUBSET (Files \cup Dirs)]
      BY <2>1 DEF EnterDirectory, Read, IndInv, TypeOK
    <3> QED BY <2>1, <3>1, <3>2 DEF EnterDirectory, Read, IndInv, TypeOK
  <2>2. CASE LeaveDirectory BY <2>2 DEF LeaveDirectory, IndInv, TypeOK
  <2>3. CASE WaitForRoom BY <2>3 DEF WaitForRoom, IndInv, TypeOK
  <2>4. CASE OpenFails
    <3>1. stack # << >> /\ stack' = Tail(stack)
      BY <2>4 DEF OpenFails, HasBuffer, IndInv, HandsFilled
    <3>2. stack' \in Seq(Dirs) BY <3>1 DEF IndInv, TypeOK
    <3> QED BY <2>4, <3>2 DEF OpenFails, IndInv, TypeOK
  <2>5. CASE FinishManager BY <2>5 DEF FinishManager, IndInv, TypeOK
  <2> QED BY <2>1, <2>2, <2>3, <2>4, <2>5
<1>2. UNCHANGED <<ring, work>>
      /\ (mgr' = "put" => mgr = "put" /\ entry' = entry /\ stack' = stack)
  BY DEF EnterDirectory, Read, LeaveDirectory, WaitForRoom, OpenFails, FinishManager
<1>3. \A d \in Dirs : unread'[d] \subseteq unread[d]
  BY DEF EnterDirectory, Read, LeaveDirectory, WaitForRoom, OpenFails, FinishManager,
         IndInv, TypeOK
<1>4. RingShape' /\ Exclusive'
  BY <1>2, <1>3, FilesStay
<1>5. HandsFilled'
  BY <1>2, <1>3 DEF IndInv, HandsFilled
<1>6. WithinFile' /\ BlocksKept'
  BY <1>2 DEF IndInv, WithinFile, BlocksKept, BlocksRead, BlockInHand, AtWorker
<1> QED BY <1>1, <1>4, <1>5, <1>6 DEF IndInv

\* A file that readdir returns is nowhere yet, and in no other directory.
LEMMA PickInv ==
    ASSUME IndInv, NEW f \in Files, PickFile(f)
    PROVE  IndInv'
<1> USE DEF ring, work
<1> DEFINE d == Head(stack)
<1>1. d \in Dirs /\ f \in unread[d] /\ f \in Contents[d]
  BY DEF PickFile, Read, IndInv, TypeOK, HandsFilled
<1>2. unread' = [unread EXCEPT ![d] = @ \ {f}] /\ entry' = f /\ mgr = "scan" /\ mgr' = "put"
      /\ stack' = stack /\ stack # << >>
      /\ UNCHANGED <<ring, work>>
  BY DEF PickFile, Read
<1>3. TypeOK'
  <2>1. unread' \in [Dirs -> SUBSET (Files \cup Dirs)]
    BY <1>2 DEF IndInv, TypeOK
  <2> QED BY <2>1 DEF PickFile, Read, IndInv, TypeOK
<1>4. \A e \in Dirs : unread'[e] \subseteq unread[e]
  BY <1>2 DEF IndInv, TypeOK
<1>5. ~Found(f)
  BY <1>1 DEF Found
<1>6. Found(f)'
  <2>1. f \notin unread'[d]
    BY <1>1, <1>2 DEF IndInv, TypeOK
  <2>2. \A e \in Dirs \ {d} : f \notin Contents[e]
    BY <1>1, CopyAssumption
  <2>3. \A e \in Dirs \ {d} : f \notin unread'[e]
    BY <2>2, <1>4 DEF IndInv, HandsFilled
  <2> QED BY <2>1, <2>3 DEF Found
<1>7. Content' = Content /\ RingShape'
  BY <1>2 DEF IndInv, RingShape, Content, Slot
<1>8. ASSUME NEW g \in Files
      PROVE  /\ Found(g) => Found(g)'
             /\ InHand(g)' <=> g = f
             /\ InRing(g)' <=> InRing(g)
             /\ AtWorker(g)' <=> AtWorker(g)
  BY <1>2, <1>4, <1>7 DEF Found, InHand, InRing, AtWorker
<1>9. ~InRing(f) /\ ~AtWorker(f) /\ f \notin closed
  BY <1>5 DEF IndInv, Exclusive
<1>10. Exclusive'
  <2>1. \A w, v \in Workers : item'[w] = item'[v] /\ item'[w] # Nobody => w = v
    BY <1>2 DEF IndInv, Exclusive
  <2>2. \A i, j \in DOMAIN Content' : Content'[i] = Content'[j] => i = j
    BY <1>7 DEF IndInv, Exclusive
  <2>3. closed' = closed BY <1>2
  <2> QED BY <2>1, <2>2, <2>3, <1>6, <1>8, <1>9 DEF IndInv, Exclusive
<1>11. HandsFilled'
  BY <1>2, <1>4 DEF IndInv, HandsFilled
<1>12. WithinFile' /\ BlocksKept'
  BY <1>2 DEF IndInv, WithinFile, BlocksKept, BlocksRead, BlockInHand, AtWorker
<1> QED BY <1>3, <1>7, <1>10, <1>11, <1>12 DEF IndInv

\* The file in the manager's hands goes to the end of the ring.
LEMMA PutInv ==
    ASSUME IndInv, Put
    PROVE  IndInv'
<1> USE DEF work
<1>0. entry \in Files /\ InHand(entry) /\ Manager \notin Workers
  BY CopyAssumption DEF Put, HasBuffer, IndInv, HandsFilled, InHand
<1>1. /\ mgr' = "scan" /\ unread' = unread /\ UNCHANGED work
      /\ enqueue(entry) /\ buffer_size_counter # M
      /\ buffer_size_counter' = buffer_size_counter + 1
  BY DEF Put, M
<1>2. /\ RingShape'
      /\ DOMAIN Content = 1..buffer_size_counter
      /\ DOMAIN Content' = 1..(buffer_size_counter + 1)
      /\ \A i \in 1..buffer_size_counter : Content'[i] = Content[i]
      /\ Content'[buffer_size_counter + 1] = entry
  BY <1>0, <1>1, PutContent DEF IndInv
<1>3. PICK n \in Nat : n = buffer_size_counter /\ n < M
  BY <1>1, CopyAssumption DEF IndInv, TypeOK, M
<1>4. TypeOK'
  <2>1. last' \in 0..MAX_BUFF_SIZE-1
    BY <1>1, AfterValue, CopyAssumption DEF enqueue, IndInv, TypeOK, M
  <2>2. buffer_size_counter' \in 0..MAX_BUFF_SIZE
    BY <1>1, <1>3, CopyAssumption DEF M
  <2>3. buffer' \in [0..MAX_BUFF_SIZE-1 -> Files \cup {Nobody}]
    BY <1>0, <1>1 DEF enqueue, IndInv, TypeOK
  <2> QED BY <2>1, <2>2, <2>3 DEF Put, enqueue, IndInv, TypeOK
<1>5. ASSUME NEW f \in Files
      PROVE  /\ Found(f)' <=> Found(f)
             /\ ~InHand(f)'
             /\ InRing(f)' => InRing(f) \/ f = entry
             /\ AtWorker(f)' <=> AtWorker(f)
  BY <1>1, <1>2, <1>3 DEF Found, InHand, InRing, AtWorker
<1>6. \A i, j \in DOMAIN Content' : Content'[i] = Content'[j] => i = j
  <2>1. \A i \in 1..n : Content[i] # entry
    BY <1>0, <1>2, <1>3 DEF IndInv, Exclusive, InRing
  <2>2. \A i, j \in 1..n : Content[i] = Content[j] => i = j
    BY <1>2, <1>3 DEF IndInv, Exclusive
  <2>3. DOMAIN Content' = 1..n \cup {n + 1} BY <1>2, <1>3
  <2> QED BY <2>1, <2>2, <2>3, <1>2, <1>3
<1>7. Exclusive'
  <2>1. \A w, v \in Workers : item'[w] = item'[v] /\ item'[w] # Nobody => w = v
    BY <1>1 DEF IndInv, Exclusive
  <2>2. closed' = closed BY <1>1
  <2> QED BY <1>0, <1>5, <1>6, <2>1, <2>2 DEF IndInv, Exclusive
<1>8. HandsFilled' /\ WithinFile' /\ BlocksKept'
  BY <1>1 DEF IndInv, HandsFilled, WithinFile, BlocksKept, BlocksRead, BlockInHand, AtWorker
<1> QED BY <1>2, <1>4, <1>7, <1>8 DEF IndInv

\* The oldest file of the ring goes to the worker.
LEMMA TakeInv ==
    ASSUME IndInv, NEW w \in Workers, Take(w)
    PROVE  IndInv'
<1> USE DEF walk
<1>1. /\ UNCHANGED <<walk, blocksRead, written, missed, closed>> /\ pc[w] = "take"
      /\ pc' = [pc EXCEPT ![w] = "copy"]
      /\ dequeue(w) /\ buffer_size_counter # 0
      /\ buffer_size_counter' = buffer_size_counter - 1
  BY DEF Take, Locks
<1>2. /\ RingShape'
      /\ DOMAIN Content = 1..buffer_size_counter
      /\ DOMAIN Content' = 1..(buffer_size_counter - 1)
      /\ \A i \in 1..(buffer_size_counter - 1) : Content'[i] = Content[i + 1]
      /\ Content[1] \in Files /\ item' = [item EXCEPT ![w] = Content[1]]
  BY <1>1, TakeContent DEF IndInv
<1>3. PICK n \in Nat : n = buffer_size_counter /\ n # 0
  BY <1>1, CopyAssumption DEF IndInv, TypeOK
<1>4. PICK g \in Files : g = Content[1]
  BY <1>2
<1>5. InRing(g) /\ ~AtWorker(g) /\ ~InHand(g) /\ g \notin closed /\ Found(g)
  <2>1. InRing(g) BY <1>2, <1>3, <1>4 DEF InRing
  <2> QED BY <2>1 DEF IndInv, Exclusive
<1>6. TypeOK'
  <2>1. counter' \in 0..MAX_BUFF_SIZE-1
    BY <1>1, AfterValue, CopyAssumption DEF dequeue, IndInv, TypeOK, M
  <2>2. buffer_size_counter' \in 0..MAX_BUFF_SIZE
    BY <1>1, CopyAssumption DEF IndInv, TypeOK
  <2>3. item' \in [Workers -> Files \cup {Nobody}]
    BY <1>2 DEF IndInv, TypeOK
  <2>4. pc' \in [Workers -> {"top", "take", "copy", "count", "write", "end"}]
    BY <1>1 DEF IndInv, TypeOK
  <2> QED BY <2>1, <2>2, <2>3, <2>4 DEF Take, dequeue, IndInv, TypeOK
<1>7. item[w] = Nobody /\ item'[w] = g /\ \A v \in Workers \ {w} : item'[v] = item[v]
  BY <1>1, <1>2, <1>4 DEF IndInv, HandsFilled, TypeOK
<1>8. \A i \in 1..(n - 1) : Content'[i] = Content[i + 1] /\ Content'[i] # g
  <2> TAKE i \in 1..(n - 1)
  <2>1. i + 1 \in 1..n /\ 1 \in 1..n /\ i + 1 # 1 BY <1>3
  <2>2. Content'[i] = Content[i + 1] BY <1>2, <1>3
  <2>3. Content[i + 1] # Content[1] BY <2>1, <1>2, <1>3 DEF IndInv, Exclusive
  <2> QED BY <2>2, <2>3, <1>4
<1>9. ASSUME NEW f \in Files
      PROVE  /\ Found(f)' <=> Found(f)
             /\ InHand(f)' <=> InHand(f)
             /\ InRing(f)' => InRing(f) /\ f # g
             /\ AtWorker(f)' => AtWorker(f) \/ f = g
  <2>1. InRing(f)' => InRing(f) /\ f # g
    <3> SUFFICES ASSUME NEW i \in 1..(n - 1), Content'[i] = f
                 PROVE  InRing(f) /\ f # g
      BY <1>2, <1>3 DEF InRing
    <3>1. i + 1 \in DOMAIN Content BY <1>2, <1>3
    <3> QED BY <3>1, <1>8 DEF InRing
  <2>2. AtWorker(f)' => AtWorker(f) \/ f = g
    BY <1>7 DEF AtWorker
  <2> QED BY <2>1, <2>2, <1>1 DEF Found, InHand
<1>10. \A i, j \in DOMAIN Content' : Content'[i] = Content'[j] => i = j
  <2> SUFFICES ASSUME NEW i \in 1..(n - 1), NEW j \in 1..(n - 1), Content'[i] = Content'[j]
               PROVE  i = j
    BY <1>2, <1>3
  <2>1. i + 1 \in 1..n /\ j + 1 \in 1..n BY <1>3
  <2>2. Content[i + 1] = Content[j + 1] BY <1>8
  <2>3. i + 1 = j + 1 BY <2>1, <2>2, <1>2, <1>3 DEF IndInv, Exclusive
  <2> QED BY <2>3
<1>11. Exclusive'
  <2>1. \A u, v \in Workers : item'[u] = item'[v] /\ item'[u] # Nobody => u = v
    BY <1>5, <1>7 DEF IndInv, Exclusive, AtWorker
  <2>2. closed' = closed BY <1>1
  <2> QED BY <1>5, <1>9, <1>10, <2>1, <2>2 DEF IndInv, Exclusive
<1>12. HandsFilled'
  <2>1. g # Nobody BY CopyAssumption
  <2> QED BY <1>1, <1>7, <2>1 DEF IndInv, HandsFilled, TypeOK
<1>13. WithinFile'
  <2>1. \A f \in Files : AtWorker(f)' \/ f \in closed \/ blocksRead[f] = 0
    BY <1>7, CopyAssumption DEF IndInv, WithinFile, AtWorker
  <2> QED BY <1>1, <2>1 DEF IndInv, WithinFile
<1>14. BlocksKept'
  <2>1. \A b : BlockInHand(b) => BlockInHand(b)'
    <3> SUFFICES ASSUME NEW b, NEW v \in Workers,
                        pc[v] \in {"count", "write"}, b = <<item[v], blocksRead[item[v]]>>
                 PROVE  BlockInHand(b)'
      BY DEF BlockInHand
    <3>1. v # w BY <1>1
    <3>2. pc'[v] = pc[v] /\ item'[v] = item[v] BY <3>1, <1>1, <1>7 DEF IndInv, TypeOK
    <3> QED BY <3>2, <1>1 DEF BlockInHand
  <2> QED BY <2>1, <1>1 DEF IndInv, BlocksKept, BlocksRead
<1> QED BY <1>2, <1>6, <1>11, <1>12, <1>13, <1>14 DEF IndInv

\* The blocks read of one file are one more, of the others the same.
LEMMA OneMoreRead ==
    ASSUME IndInv, NEW w \in Workers, ReadBlock(w)
    PROVE  LET b == <<item[w], blocksRead[item[w]] + 1>>
           IN  BlocksRead' = BlocksRead \cup {b} /\ b \notin BlocksRead
<1>1. PICK g \in Files : g = item[w]
  BY DEF ReadBlock, IndInv, HandsFilled, TypeOK
<1>2. /\ blocksRead[g] \in Nat /\ blocksRead'[g] = blocksRead[g] + 1
      /\ \A f \in Files \ {g} : blocksRead'[f] = blocksRead[f]
  BY <1>1 DEF ReadBlock, IndInv, TypeOK
<1>3. PICK b \in Nat : b = blocksRead[g] + 1 /\ 1..b = (1..blocksRead[g]) \cup {b}
                       /\ b \notin 1..blocksRead[g]
  BY <1>2
<1>4. BlocksRead' = BlocksRead \cup {<<g, b>>}
  <2>1. {g} \X (1..blocksRead'[g]) = ({g} \X (1..blocksRead[g])) \cup {<<g, b>>}
    BY <1>2, <1>3
  <2>2. \A f \in Files : f # g => {f} \X (1..blocksRead'[f]) = {f} \X (1..blocksRead[f])
    BY <1>2
  <2>3. \A x : x \in BlocksRead' <=> \E f \in Files : x \in {f} \X (1..blocksRead'[f])
    BY DEF BlocksRead
  <2>4. \A x : x \in BlocksRead <=> \E f \in Files : x \in {f} \X (1..blocksRead[f])
    BY DEF BlocksRead
  <2> QED BY <2>1, <2>2, <2>3, <2>4
<1>5. <<g, b>> \notin BlocksRead
  BY <1>3 DEF BlocksRead
<1> QED BY <1>1, <1>3, <1>4, <1>5

\* A worker that reads, counts or writes a block moves no file.
LEMMA CopyInv ==
    ASSUME IndInv, NEW w \in Workers, ReadBlock(w) \/ CountBlock(w) \/ WriteBlock(w)
    PROVE  IndInv'
<1> USE DEF ring, walk
<1>1. UNCHANGED <<ring, walk, item, closed>> /\ pc[w] \in {"copy", "count", "write"}
      /\ pc'[w] \in {"copy", "count", "write"} /\ \A v \in Workers \ {w} : pc'[v] = pc[v]
  BY DEF ReadBlock, CountBlock, WriteBlock, IndInv, TypeOK
<1>2. PICK g \in Files : g = item[w]
  BY <1>1 DEF IndInv, HandsFilled, TypeOK
<1>3. RingShape' /\ Exclusive'
  BY <1>1, FilesStay
<1>4. HandsFilled'
  BY <1>1 DEF IndInv, HandsFilled
<1>5. AtWorker(g) /\ \A v \in Workers \ {w} : item[v] # g
  BY <1>2, CopyAssumption DEF IndInv, Exclusive, AtWorker
<1>6. blocksRead[g] \in Nat /\ Blocks[g] \in Nat
  BY CopyAssumption DEF IndInv, TypeOK
<1>7. CASE ReadBlock(w)
  <2>1. TypeOK'
    <3>1. blocksRead' = [blocksRead EXCEPT ![g] = blocksRead[g] + 1] /\ sum' = [sum EXCEPT ![w] = totalBytesCopied]
          /\ pc' = [pc EXCEPT ![w] = "count"]
      BY <1>2, <1>7 DEF ReadBlock
    <3>2. blocksRead' \in [Files -> Nat] /\ sum' \in [Workers -> Nat]
          /\ pc' \in [Workers -> {"top", "take", "copy", "count", "write", "end"}]
      BY <3>1, <1>6 DEF IndInv, TypeOK
    <3> QED BY <1>7, <3>2 DEF ReadBlock, IndInv, TypeOK
  <2>2. /\ blocksRead'[g] = blocksRead[g] + 1 /\ blocksRead[g] < Blocks[g]
        /\ \A f \in Files \ {g} : blocksRead'[f] = blocksRead[f]
        /\ pc'[w] = "count" /\ written' = written /\ missed' = missed /\ pc[w] = "copy"
    BY <1>2, <1>7 DEF ReadBlock, IndInv, TypeOK
  <2>3. WithinFile'
    <3>1. \A f \in Files : AtWorker(f)' \/ f \in closed' \/ blocksRead'[f] = 0
      BY <1>1, <1>5, <2>2 DEF IndInv, WithinFile, AtWorker
    <3>2. \A f \in Files : blocksRead'[f] <= Blocks[f]
      BY <1>6, <2>2 DEF IndInv, WithinFile
    <3> QED BY <3>1, <3>2 DEF WithinFile
  <2>n. PICK n : n = <<g, blocksRead[g] + 1>>
    OBVIOUS
  <2>4. BlockInHand(n)'
    <3>1. pc'[w] = "count" /\ n = <<item'[w], blocksRead'[item'[w]]>>
      BY <1>1, <1>2, <2>2, <2>n
    <3> QED BY <3>1 DEF BlockInHand
  <2>5. \A b : BlockInHand(b) => BlockInHand(b)'
    <3> SUFFICES ASSUME NEW b, NEW v \in Workers,
                        pc[v] \in {"count", "write"}, b = <<item[v], blocksRead[item[v]]>>
                 PROVE  BlockInHand(b)'
      BY DEF BlockInHand
    <3>1. v # w /\ item[v] \in Files \ {g}
      BY <1>5, <2>2 DEF IndInv, HandsFilled, TypeOK
    <3> QED BY <3>1, <1>1, <2>2 DEF BlockInHand
  <2>6. BlocksKept'
    <3>1. BlocksRead' = BlocksRead \cup {n}
      BY <1>2, <1>7, <2>n, OneMoreRead
    <3> QED BY <2>2, <2>4, <2>5, <3>1 DEF IndInv, BlocksKept
  <2> QED BY <2>1, <2>3, <2>6, <1>3, <1>4 DEF IndInv
<1>8. CASE CountBlock(w)
  <2>1. TypeOK' /\ UNCHANGED <<blocksRead, written, missed>> /\ pc[w] = "count" /\ pc'[w] = "write"
    BY <1>8 DEF CountBlock, IndInv, TypeOK
  <2>2. WithinFile'
    BY <1>1, <2>1 DEF IndInv, WithinFile, AtWorker
  <2>3. \A b : BlockInHand(b) => BlockInHand(b)'
    BY <1>1, <2>1 DEF BlockInHand
  <2>4. BlocksKept'
    BY <2>1, <2>3 DEF IndInv, BlocksKept, BlocksRead
  <2> QED BY <2>1, <2>2, <2>4, <1>3, <1>4 DEF IndInv
<1>9. CASE WriteBlock(w)
  <2>1. TypeOK' /\ UNCHANGED blocksRead
    BY <1>9 DEF WriteBlock, IndInv, TypeOK
  <2>2. WithinFile'
    BY <1>1, <2>1 DEF IndInv, WithinFile, AtWorker
  <2>3. written' \cup missed' = written \cup missed \cup {<<g, blocksRead[g]>>}
    BY <1>2, <1>9 DEF WriteBlock
  <2>4. \A b : BlockInHand(b) => BlockInHand(b)' \/ b = <<g, blocksRead[g]>>
    BY <1>1, <1>2, <2>1 DEF BlockInHand
  <2>5. BlocksRead' = BlocksRead
    BY <2>1 DEF BlocksRead
  <2>6. BlocksKept'
    BY <2>3, <2>4, <2>5 DEF IndInv, BlocksKept
  <2> QED BY <2>1, <2>2, <2>6, <1>3, <1>4 DEF IndInv
<1> QED BY <1>7, <1>8, <1>9

\* A worker closes its file when read() returns no more of it.
LEMMA CloseInv ==
    ASSUME IndInv, NEW w \in Workers, CloseFile(w)
    PROVE  IndInv'
<1> USE DEF ring, walk
<1>1. UNCHANGED <<ring, walk, blocksRead, written, missed>> /\ pc[w] = "copy"
      /\ pc' = [pc EXCEPT ![w] = "top"] /\ item' = [item EXCEPT ![w] = Nobody]
      /\ closed' = closed \cup {item[w]}
  BY DEF CloseFile
<1>2. PICK g \in Files : g = item[w]
  BY <1>1 DEF IndInv, HandsFilled, TypeOK
<1>3. item'[w] = Nobody /\ pc'[w] = "top" /\ Nobody \notin Files
      /\ \A v \in Workers \ {w} : item'[v] = item[v] /\ pc'[v] = pc[v]
  BY <1>1, CopyAssumption DEF IndInv, TypeOK
<1>4. TypeOK'
  BY <1>1, <1>2, <1>3 DEF CloseFile, IndInv, TypeOK
<1>5. Content' = Content /\ RingShape'
  BY <1>1 DEF IndInv, RingShape, Content, Slot
<1>6. AtWorker(g) /\ \A v \in Workers \ {w} : item[v] # g
  BY <1>2, CopyAssumption DEF IndInv, Exclusive, AtWorker
<1>7. ASSUME NEW f \in Files
      PROVE  /\ Found(f)' <=> Found(f)
             /\ InHand(f)' <=> InHand(f)
             /\ InRing(f)' <=> InRing(f)
             /\ AtWorker(f)' <=> AtWorker(f) /\ f # g
             /\ f \in closed' <=> f \in closed \/ f = g
  BY <1>1, <1>2, <1>3, <1>5, <1>6 DEF Found, InHand, InRing, AtWorker
<1>8. Exclusive'
  <2>1. \A u, v \in Workers : item'[u] = item'[v] /\ item'[u] # Nobody => u = v
    BY <1>3 DEF IndInv, Exclusive
  <2>2. \A i, j \in DOMAIN Content' : Content'[i] = Content'[j] => i = j
    BY <1>5 DEF IndInv, Exclusive
  <2> QED BY <1>6, <1>7, <2>1, <2>2 DEF IndInv, Exclusive
<1>9. HandsFilled'
  BY <1>1, <1>3 DEF IndInv, HandsFilled
<1>10. WithinFile'
  <2>1. \A f \in Files : AtWorker(f)' \/ f \in closed' \/ blocksRead'[f] = 0
    BY <1>1, <1>7 DEF IndInv, WithinFile
  <2> QED BY <2>1, <1>1 DEF IndInv, WithinFile
<1>11. BlocksKept'
  <2>1. \A b : BlockInHand(b) => BlockInHand(b)'
    BY <1>1, <1>3 DEF BlockInHand
  <2> QED BY <2>1, <1>1 DEF IndInv, BlocksKept, BlocksRead
<1> QED BY <1>4, <1>5, <1>8, <1>9, <1>10, <1>11 DEF IndInv

\* The steps that move neither a file nor a block.
LEMMA IdleInv ==
    ASSUME IndInv, \/ Join \/ Interrupt \/ UNCHANGED vars
                   \/ \E w \in Workers : LoopTop(w) \/ WaitForFile(w) \/ NothingMore(w)
    PROVE  IndInv'
<1> USE DEF ring, walk, work, vars
<1>1. UNCHANGED <<ring, walk, item, closed, blocksRead, written, missed>>
  BY DEF Join, Interrupt, LoopTop, WaitForFile, NothingMore
<1>2. \A v \in Workers : \/ pc'[v] = pc[v]
                         \/ {pc[v], pc'[v]} \subseteq {"top", "take", "end"}
  BY DEF Join, Interrupt, LoopTop, WaitForFile, NothingMore, Locks, IndInv, TypeOK
<1>3. TypeOK'
  <2>1. ASSUME NEW w \in Workers, LoopTop(w) \/ WaitForFile(w) \/ NothingMore(w)
        PROVE  TypeOK'
    <3>1. pc' \in [Workers -> {"top", "take", "copy", "count", "write", "end"}]
      BY <2>1 DEF LoopTop, WaitForFile, NothingMore, IndInv, TypeOK
    <3> QED BY <2>1, <3>1 DEF LoopTop, WaitForFile, NothingMore, IndInv, TypeOK
  <2> QED BY <2>1 DEF Join, Interrupt, IndInv, TypeOK
<1>4. RingShape' /\ Exclusive'
  BY <1>1, FilesStay
<1>5. HandsFilled'
  BY <1>1, <1>2 DEF IndInv, HandsFilled
<1>6. WithinFile'
  BY <1>1 DEF IndInv, WithinFile, AtWorker
<1>7. BlocksKept'
  <2>1. \A b : BlockInHand(b) => BlockInHand(b)'
    BY <1>1, <1>2 DEF BlockInHand
  <2> QED BY <2>1, <1>1 DEF IndInv, BlocksKept, BlocksRead
<1> QED BY <1>3, <1>4, <1>5, <1>6, <1>7 DEF IndInv

\* In the initial state no file has been found.
LEMMA InitInv == Init => IndInv
<1> SUFFICES ASSUME Init PROVE IndInv
  OBVIOUS
<1>1. 0 \in 0..M-1 /\ M \in Nat \ {0}
  BY CopyAssumption DEF M
<1>2. TypeOK
  <2>1. stack \in Seq(Dirs) BY CopyAssumption DEF Init
  <2>2. unread \in [Dirs -> SUBSET (Files \cup Dirs)] BY CopyAssumption DEF Init
  <2>3. buffer \in [0..MAX_BUFF_SIZE-1 -> Files \cup {Nobody}] BY DEF Init
  <2>4. counter \in 0..MAX_BUFF_SIZE-1 /\ last \in 0..MAX_BUFF_SIZE-1
        /\ buffer_size_counter \in 0..MAX_BUFF_SIZE
    BY <1>1 DEF Init, M
  <2> QED BY <2>1, <2>2, <2>3, <2>4 DEF Init, TypeOK
<1>3. Content = << >> /\ DOMAIN Content = {}
  BY DEF Init, Content
<1>4. RingShape
  <2>1. Slot(0) = 0 BY <1>1, SlotValue DEF Init
  <2> QED BY <1>3, <2>1 DEF Init, RingShape
<1>5. Exclusive
  BY <1>3, CopyAssumption DEF Init, Exclusive, InHand, InRing, AtWorker
<1>6. HandsFilled /\ WithinFile /\ BlocksKept
  BY CopyAssumption DEF Init, HandsFilled, WithinFile, BlocksKept, BlocksRead
<1> QED BY <1>2, <1>4, <1>5, <1>6 DEF IndInv

\* Whatever the tree, the buffer and the number of workers, the facts behind
\* FileInOnePlace hold at every step of the manager, the workers and SIGINT.
THEOREM Inductive == Spec => []IndInv
<1>1. IndInv /\ [Next]_vars => IndInv'
  BY WalkInv, PickInv, PutInv, TakeInv, CopyInv, CloseInv, IdleInv
     DEF Next, ManagerStep, WorkerStep, Stopped
<1> QED BY InitInv, <1>1, PTL DEF Spec

\* The counters of manager and workers agree with one another: the ring buffer
\* is a queue.
THEOREM RingInShape == Spec => []RingShape
<1>1. IndInv => RingShape BY DEF IndInv
<1> QED BY Inductive, <1>1, PTL

-----------------------------------------------------------------------------
(* No file is lost. *)

Placed(f) == InHand(f) \/ InRing(f) \/ AtWorker(f) \/ f \in closed

\* A file that readdir has returned is somewhere, unless open() failed on it.
Kept ==
    \A d \in Dirs : \A f \in Contents[d] \cap Files :
        f \notin unread[d] => Placed(f) \/ (f \in Broken /\ OpenFailed)

\* What the steps do to the content of the ring, in terms of the places of the files.
LEMMA PutPlaces ==
    ASSUME IndInv, Put
    PROVE  /\ entry \in Files
           /\ \A f \in Files : /\ InRing(f)' <=> InRing(f) \/ f = entry
                               /\ AtWorker(f)' <=> AtWorker(f)
                               /\ InHand(f) => f = entry
                               /\ ~InHand(f)'
           /\ Content \in Seq(Files) /\ Content' = Append(Content, entry)
<1>0. entry \in Files /\ TypeOK /\ RingShape
  BY DEF Put, HasBuffer, IndInv, HandsFilled
<1>1. /\ RingShape'
      /\ DOMAIN Content = 1..buffer_size_counter
      /\ DOMAIN Content' = 1..(buffer_size_counter + 1)
      /\ \A i \in 1..buffer_size_counter : Content'[i] = Content[i]
      /\ Content'[buffer_size_counter + 1] = entry
  BY <1>0, PutContent DEF Put, M
<1>2. PICK n \in Nat : n = buffer_size_counter
  BY <1>0, CopyAssumption DEF TypeOK
<1>3. \A i \in 1..n : Content[i] \in Files
  BY <1>0, <1>1, <1>2 DEF RingShape
<1>4. Content \in Seq(Files) /\ Len(Content) = n
  BY <1>1, <1>2, <1>3 DEF Content
<1>5. Content' \in Seq(Files) /\ Len(Content') = n + 1
  <2>1. buffer_size_counter' = n + 1
    BY <1>2 DEF Put
  <2>2. \A i \in 1..(n + 1) : Content'[i] \in Files
    BY <1>1, <1>2 DEF RingShape
  <2> QED BY <2>1, <2>2 DEF Content
<1>6. Content' = Append(Content, entry)
  <2> DEFINE a == Append(Content, entry)
  <2>1. /\ a \in Seq(Files) /\ Len(a) = n + 1 /\ a[n + 1] = entry
        /\ \A i \in 1..n : a[i] = Content[i]
    BY <1>0, <1>4, AppendProperties
  <2>2. \A i \in 1..(n + 1) : Content'[i] = a[i]
    BY <1>1, <1>2, <2>1
  <2> HIDE DEF a
  <2>3. Content' = a
    BY <1>5, <2>1, <2>2, SeqEqual
  <2> QED BY <2>3 DEF a
<1>7. n + 1 \in DOMAIN Content' /\ Content'[n + 1] = entry
  BY <1>1, <1>2
<1>8. ASSUME NEW f \in Files PROVE InRing(f)' <=> InRing(f) \/ f = entry
  BY <1>1, <1>2, <1>7 DEF InRing
<1>9. ASSUME NEW f \in Files
      PROVE  (AtWorker(f)' <=> AtWorker(f)) /\ (InHand(f) => f = entry) /\ ~InHand(f)'
  BY DEF Put, work, AtWorker, InHand
<1> QED BY <1>0, <1>4, <1>6, <1>8, <1>9

\* The oldest file leaves the ring and is at the worker.
LEMMA TakePlaces ==
    ASSUME IndInv, NEW w \in Workers, Take(w)
    PROVE  LET g == Content[1]
           IN  /\ g \in Files /\ InRing(g) /\ g # Nobody
               /\ item' = [item EXCEPT ![w] = g] /\ item[w] = Nobody
               /\ \A f \in Files : /\ InRing(f) => InRing(f)' \/ f = g
                                   /\ InRing(f)' => InRing(f)
                                   /\ AtWorker(f)' <=> AtWorker(f) \/ f = g
                                   /\ InHand(f)' <=> InHand(f)
               /\ Content \in Seq(Files) /\ Content # << >>
               /\ g = Head(Content) /\ Content' = Tail(Content)
<1> DEFINE g == Content[1]
<1>0. TypeOK /\ RingShape /\ buffer_size_counter # 0 /\ dequeue(w) /\ pc[w] = "take"
      /\ buffer_size_counter' = buffer_size_counter - 1
  BY DEF Take, Locks, IndInv
<1>1. /\ RingShape'
      /\ DOMAIN Content = 1..buffer_size_counter
      /\ DOMAIN Content' = 1..(buffer_size_counter - 1)
      /\ \A i \in 1..(buffer_size_counter - 1) : Content'[i] = Content[i + 1]
      /\ g \in Files /\ item' = [item EXCEPT ![w] = g]
  BY <1>0, TakeContent
<1>2. PICK n \in Nat : n = buffer_size_counter /\ n # 0
  BY <1>0, CopyAssumption DEF TypeOK
<1>3. Content \in Seq(Files) /\ Len(Content) = n /\ Content # << >>
  <2>1. \A i \in 1..n : Content[i] \in Files
    BY <1>0, <1>1, <1>2 DEF RingShape
  <2>2. Content \in Seq(Files) /\ Len(Content) = n
    BY <1>1, <1>2, <2>1 DEF Content
  <2> QED BY <1>2, <2>2
<1>4. Content' \in Seq(Files) /\ Len(Content') = n - 1
  <2>1. buffer_size_counter' = n - 1 /\ n - 1 \in Nat
    BY <1>0, <1>2
  <2>2. \A i \in 1..(n - 1) : Content'[i] \in Files
    BY <1>1, <1>2 DEF RingShape
  <2> QED BY <2>1, <2>2 DEF Content
<1>5. g = Head(Content) /\ Content' = Tail(Content)
  <2> DEFINE t == Tail(Content)
  <2>1. /\ t \in Seq(Files) /\ Len(t) = n - 1 /\ \A i \in 1..Len(t) : t[i] = Content[i + 1]
    BY <1>3, HeadTailProperties
  <2>2. \A i \in 1..(n - 1) : Content'[i] = t[i]
    BY <1>1, <1>2, <2>1
  <2> HIDE DEF t
  <2>3. Content' = t
    BY <1>4, <2>1, <2>2, SeqEqual
  <2>4. g = Head(Content)
    BY <1>3
  <2> QED BY <2>3, <2>4 DEF t
<1>6. InRing(g)
  BY <1>1, <1>2 DEF InRing
<1>7. item[w] = Nobody /\ g # Nobody
  BY <1>0, <1>1, CopyAssumption DEF IndInv, HandsFilled
<1>8. \A f \in Files : AtWorker(f)' <=> AtWorker(f) \/ f = g
  <2>1. item'[w] = g /\ \A v \in Workers \ {w} : item'[v] = item[v]
    BY <1>0, <1>1 DEF TypeOK
  <2> HIDE DEF g
  <2> QED BY <1>7, <2>1, CopyAssumption DEF AtWorker
<1>9. ASSUME NEW f \in Files, InRing(f) PROVE InRing(f)' \/ f = g
  <2>1. PICK i \in 1..n : Content[i] = f
    BY <1>1, <1>2, <1>9 DEF InRing
  <2>2. CASE i = 1 BY <2>1, <2>2
  <2>3. CASE i # 1
    <3>1. i - 1 \in 1..(n - 1) /\ (i - 1) + 1 = i
      BY <2>1, <2>3, <1>2
    <3>2. Content'[i - 1] = f
      BY <1>1, <1>2, <2>1, <3>1
    <3> QED BY <1>1, <1>2, <3>1, <3>2 DEF InRing
  <2> QED BY <2>2, <2>3
<1>10. ASSUME NEW f \in Files, InRing(f)' PROVE InRing(f)
  <2>1. PICK i \in 1..(n - 1) : Content'[i] = f
    BY <1>1, <1>2, <1>10 DEF InRing
  <2>2. i + 1 \in DOMAIN Content /\ Content[i + 1] = f
    BY <1>1, <1>2, <2>1
  <2> QED BY <2>2 DEF InRing
<1>11. \A f \in Files : InHand(f)' <=> InHand(f)
  BY DEF Take, walk, InHand
<1> HIDE DEF g
<1>12. /\ g \in Files /\ InRing(g) /\ g # Nobody
       /\ item' = [item EXCEPT ![w] = g] /\ item[w] = Nobody
       /\ \A f \in Files : /\ InRing(f) => InRing(f)' \/ f = g
                           /\ InRing(f)' => InRing(f)
                           /\ AtWorker(f)' <=> AtWorker(f) \/ f = g
                           /\ InHand(f)' <=> InHand(f)
       /\ Content \in Seq(Files) /\ Content # << >>
       /\ g = Head(Content) /\ Content' = Tail(Content)
  BY <1>1, <1>3, <1>5, <1>6, <1>7, <1>8, <1>9, <1>10, <1>11
<1> QED BY <1>12 DEF g

\* The file of the worker is closed.
LEMMA ClosePlaces ==
    ASSUME IndInv, NEW w \in Workers, CloseFile(w)
    PROVE  /\ item[w] \in Files /\ AtWorker(item[w]) /\ item' = [item EXCEPT ![w] = Nobody]
           /\ closed' = closed \cup {item[w]} /\ Content' = Content
           /\ \A f \in Files : /\ InRing(f)' <=> InRing(f)
                               /\ AtWorker(f)' <=> AtWorker(f) /\ f # item[w]
                               /\ InHand(f)' <=> InHand(f)
<1>1. pc[w] = "copy" /\ item' = [item EXCEPT ![w] = Nobody] /\ closed' = closed \cup {item[w]}
      /\ UNCHANGED <<ring, walk>>
  BY DEF CloseFile
<1>2. item[w] \in Files /\ AtWorker(item[w])
  BY <1>1 DEF IndInv, HandsFilled, TypeOK, AtWorker
<1>3. Content' = Content
  BY <1>1 DEF ring, Content, Slot
<1>4. item'[w] = Nobody /\ \A v \in Workers \ {w} : item'[v] = item[v] /\ item[v] # item[w]
  BY <1>1, <1>2, CopyAssumption DEF IndInv, TypeOK, Exclusive
<1>5. \A f \in Files : AtWorker(f)' <=> AtWorker(f) /\ f # item[w]
  BY <1>4, CopyAssumption DEF AtWorker
<1> QED BY <1>1, <1>2, <1>3, <1>5 DEF InRing, InHand, walk

\* All other steps but the walk's own leave the places alone.
LEMMA OtherPlaces ==
    ASSUME UNCHANGED <<ring, item, closed>>
    PROVE  /\ Content' = Content
           /\ \A f : (InRing(f)' <=> InRing(f)) /\ (AtWorker(f)' <=> AtWorker(f))
  BY DEF ring, Content, Slot, InRing, AtWorker

\* Each step takes a file from one place to another, and readdir into the manager's hands.
LEMMA KeptInv == IndInv /\ Kept /\ [Next]_vars => Kept'
<1> SUFFICES ASSUME IndInv, Kept, [Next]_vars PROVE Kept'
  OBVIOUS
<1>a. ASSUME \A f \in Files : Placed(f) => Placed(f)', unread' = unread, OpenFailed => OpenFailed'
      PROVE  Kept'
  BY <1>a DEF Kept
<1>1. ASSUME NEW d \in Dirs, EnterDirectory(d) PROVE Kept'
  <2>1. UNCHANGED <<ring, item, closed, mgr, entry, buffer_mutex>>
    BY <1>1 DEF EnterDirectory, work
  <2>2. \A f \in Files : Placed(f) => Placed(f)'
    BY <2>1, OtherPlaces DEF Placed, InHand
  <2>3. d \notin Files
    BY CopyAssumption
  <2>4. \A e \in Dirs : \A f \in Files : f \notin unread'[e] => f \notin unread[e]
    BY <1>1, <2>3 DEF EnterDirectory, Read, IndInv, TypeOK
  <2> QED BY <2>1, <2>2, <2>4 DEF Kept, OpenFailed
<1>2. ASSUME NEW g \in Files, PickFile(g) PROVE Kept'
  <2>1. UNCHANGED <<ring, item, closed, buffer_mutex>> /\ mgr = "scan" /\ mgr' = "put" /\ entry' = g
    BY <1>2 DEF PickFile, Read, work
  <2>2. \A f \in Files : Placed(f) => Placed(f)'
    BY <2>1, OtherPlaces DEF Placed, InHand
  <2>3. Placed(g)'
    BY <2>1 DEF Placed, InHand
  <2>4. \A e \in Dirs : \A f \in Files \ {g} : f \notin unread'[e] => f \notin unread[e]
    BY <1>2 DEF PickFile, Read, IndInv, TypeOK
  <2> QED BY <2>1, <2>2, <2>3, <2>4 DEF Kept, OpenFailed
<1>3. CASE LeaveDirectory \/ WaitForRoom \/ FinishManager
  <2>1. UNCHANGED <<ring, item, closed, unread, entry, buffer_mutex>>
        /\ (mgr = "put" => mgr' = "put")
    BY <1>3 DEF LeaveDirectory, WaitForRoom, FinishManager, work, walk
  <2> QED BY <1>a, <2>1, OtherPlaces DEF Placed, InHand, OpenFailed
<1>4. CASE Put
  <2>1. UNCHANGED <<closed, unread, buffer_mutex>>
    BY <1>4 DEF Put, work
  <2> QED BY <1>4, <1>a, <2>1, PutPlaces DEF Placed, OpenFailed
<1>5. CASE OpenFails
  <2>1. UNCHANGED <<ring, item, closed, unread>> /\ OpenFailed' /\ entry \in Broken
    BY <1>5 DEF OpenFails, work, OpenFailed
  <2>2. \A f \in Files : Placed(f) => Placed(f)' \/ f = entry
    BY <2>1, OtherPlaces DEF Placed, InHand
  <2> QED BY <2>1, <2>2 DEF Kept
<1>6. ASSUME NEW w \in Workers, Take(w) PROVE Kept'
  <2>1. UNCHANGED <<closed, unread, buffer_mutex>>
    BY <1>6 DEF Take, walk
  <2> QED BY <1>6, <1>a, <2>1, TakePlaces DEF Placed, OpenFailed
<1>7. ASSUME NEW w \in Workers, CloseFile(w) PROVE Kept'
  <2>1. UNCHANGED <<unread, buffer_mutex>>
    BY <1>7 DEF CloseFile, walk
  <2> QED BY <1>7, <1>a, <2>1, ClosePlaces DEF Placed, OpenFailed
<1>8. CASE \/ Join \/ Interrupt \/ UNCHANGED vars
           \/ \E w \in Workers : LoopTop(w) \/ WaitForFile(w) \/ NothingMore(w) \/ ReadBlock(w) \/ CountBlock(w)
              \/ WriteBlock(w)
  <2>1. UNCHANGED <<ring, item, closed, unread, entry, mgr, buffer_mutex>>
    BY <1>8 DEF Join, Interrupt, LoopTop, WaitForFile, NothingMore, ReadBlock, CountBlock, WriteBlock, vars, walk, work
  <2> QED BY <1>a, <2>1, OtherPlaces DEF Placed, InHand, OpenFailed
<1> QED
  BY <1>1, <1>2, <1>3, <1>4, <1>5, <1>6, <1>7, <1>8 DEF Next, ManagerStep, WorkerStep, Stopped

\* A set whose elements are all the same has one element at most.
LEMMA AtMostOne ==
    ASSUME NEW S, \A x, y \in S : x = y
    PROVE  Cardinality(S) = IF S = {} THEN 0 ELSE 1
<1>1. CASE S = {} BY <1>1, FS_EmptySet
<1>2. CASE S # {}
  <2>1. PICK x \in S : TRUE BY <1>2
  <2>2. S = {x} BY <2>1
  <2> QED BY <1>2, <2>2, FS_Singleton
<1> QED BY <1>1, <1>2

\* Whatever the tree, the buffer and the number of workers: a file that readdir has returned
\* is in the hands of the manager, in the ring, at a worker or copied, and in one of them only.
THEOREM NoFileLost == Spec => []FileInOnePlace
<1>1. Init => Kept
  BY DEF Init, Kept
<1>2. ASSUME IndInv, Kept PROVE FileInOnePlace
  <2> SUFFICES ASSUME NEW d \in Dirs, NEW f \in Contents[d] \cap Files
               PROVE  /\ Held(f) <= IF f \in unread[d] THEN 0 ELSE 1
                      /\ Held(f) = 0 => f \in unread[d] \/ (f \in Broken /\ OpenFailed)
    BY DEF FileInOnePlace
  <2> DEFINE inRing == {i \in DOMAIN Content : Content[i] = f}
             atWorkers == {w \in Workers : item[w] = f}
  <2>1. Cardinality(inRing) = IF InRing(f) THEN 1 ELSE 0
    <3>1. \A i, j \in inRing : i = j
      BY <1>2 DEF IndInv, Exclusive
    <3>2. InRing(f) <=> inRing # {}
      BY DEF InRing
    <3> HIDE DEF inRing
    <3> QED BY <3>1, <3>2, AtMostOne
  <2>2. Cardinality(atWorkers) = IF AtWorker(f) THEN 1 ELSE 0
    <3>1. \A v, w \in atWorkers : v = w
      BY <1>2, CopyAssumption DEF IndInv, Exclusive
    <3>2. AtWorker(f) <=> atWorkers # {}
      BY DEF AtWorker
    <3> HIDE DEF atWorkers
    <3> QED BY <3>1, <3>2, AtMostOne
  <2>3. Held(f) = (IF InHand(f) THEN 1 ELSE 0) + (IF InRing(f) THEN 1 ELSE 0)
                    + (IF AtWorker(f) THEN 1 ELSE 0) + (IF f \in closed THEN 1 ELSE 0)
    BY <2>1, <2>2 DEF Held, InHand
  <2>4. /\ InHand(f) => ~InRing(f) /\ ~AtWorker(f) /\ f \notin closed
        /\ InRing(f) => ~AtWorker(f) /\ f \notin closed
        /\ AtWorker(f) => f \notin closed
        /\ Placed(f) => f \notin unread[d]
    BY <1>2 DEF IndInv, Exclusive, Placed, Found
  <2>5. f \notin unread[d] => Placed(f) \/ (f \in Broken /\ OpenFailed)
    BY <1>2 DEF Kept
  <2>6. Held(f) = IF Placed(f) THEN 1 ELSE 0
    BY <2>3, <2>4 DEF Placed
  <2> QED BY <2>4, <2>5, <2>6
<1> QED BY <1>1, <1>2, KeptInv, Inductive, PTL DEF Spec

-----------------------------------------------------------------------------
(* The statistic. *)

\* What a worker has loaded of the statistic leaves room for the block that it counts next.
Statistic ==
    /\ IsFiniteSet(BlocksRead) /\ totalBytesCopied <= Cardinality(BlocksRead)
    /\ \A w \in Workers : pc[w] = "count" => sum[w] + 1 <= Cardinality(BlocksRead)

\* One block more has been read, and the statistic is loaded.
LEMMA ReadStatistic ==
    ASSUME IndInv, Statistic, NEW w \in Workers, ReadBlock(w)
    PROVE  Statistic'
<1>1. PICK n \in Nat : n = Cardinality(BlocksRead)
  BY FS_CardinalityType DEF Statistic
<1>2. PICK b : BlocksRead' = BlocksRead \cup {b} /\ b \notin BlocksRead
  BY OneMoreRead
<1>3. IsFiniteSet(BlocksRead') /\ Cardinality(BlocksRead') = n + 1
  BY <1>1, <1>2, FS_AddElement DEF Statistic
<1>4. /\ totalBytesCopied \in Nat /\ totalBytesCopied' = totalBytesCopied /\ totalBytesCopied <= n
      /\ \A v \in Workers : \/ sum'[v] = totalBytesCopied
                            \/ pc'[v] = pc[v] /\ sum'[v] = sum[v]
  BY <1>1 DEF ReadBlock, Statistic, IndInv, TypeOK
<1>5. ASSUME NEW v \in Workers, pc'[v] = "count" PROVE sum'[v] + 1 <= n + 1
  <2>1. CASE sum'[v] = totalBytesCopied BY <2>1, <1>1, <1>4
  <2>2. CASE pc'[v] = pc[v] /\ sum'[v] = sum[v]
    <3>1. sum[v] \in Nat /\ sum[v] + 1 <= n BY <2>2, <1>1, <1>5 DEF Statistic, IndInv, TypeOK
    <3> QED BY <3>1, <2>2, <1>1
  <2> QED BY <2>1, <2>2, <1>4
<1> QED BY <1>1, <1>3, <1>4, <1>5 DEF Statistic

LEMMA StatisticInv == IndInv /\ Statistic /\ [Next]_vars => Statistic'
<1> SUFFICES ASSUME IndInv, Statistic, [Next]_vars PROVE Statistic'
  OBVIOUS
<1>1. ASSUME NEW w \in Workers, CountBlock(w) PROVE Statistic'
  <2>1. BlocksRead' = BlocksRead /\ totalBytesCopied' = sum[w] + 1 /\ pc[w] = "count" /\ sum' = sum
        /\ \A v \in Workers : pc'[v] = "count" => pc[v] = "count"
    BY <1>1 DEF CountBlock, BlocksRead, IndInv, TypeOK
  <2> QED BY <2>1 DEF Statistic
<1>2. ASSUME NEW w \in Workers, WriteBlock(w) PROVE Statistic'
  <2>1. BlocksRead' = BlocksRead /\ totalBytesCopied' = totalBytesCopied /\ sum' = sum
        /\ \A v \in Workers : pc'[v] = "count" => pc[v] = "count"
    BY <1>2 DEF WriteBlock, BlocksRead, IndInv, TypeOK
  <2> QED BY <2>1 DEF Statistic
<1>3. CASE ~\E w \in Workers : ReadBlock(w) \/ CountBlock(w) \/ WriteBlock(w)
  <2>1. UNCHANGED <<blocksRead, totalBytesCopied, sum>>
    BY <1>3 DEF Next, ManagerStep, WorkerStep, Stopped, EnterDirectory, PickFile, LeaveDirectory, WaitForRoom,
                Put, OpenFails, FinishManager, LoopTop, WaitForFile, NothingMore, Take, CloseFile, Join,
                Interrupt, vars, work
  <2>2. \A v \in Workers : pc'[v] = "count" => pc[v] = "count"
    BY <1>3 DEF Next, ManagerStep, WorkerStep, Stopped, EnterDirectory, PickFile, LeaveDirectory, WaitForRoom,
                Put, OpenFails, FinishManager, LoopTop, WaitForFile, NothingMore, Take, CloseFile, Join,
                Interrupt, vars, work, IndInv, TypeOK
  <2> QED BY <2>1, <2>2 DEF Statistic, BlocksRead
<1> QED BY <1>1, <1>2, <1>3, ReadStatistic

\* Workers that have ended have no block in their hands.
Settled == joined => \A w \in Workers : pc[w] = "end"

LEMMA SettledInv == IndInv /\ Settled /\ [Next]_vars => Settled'
<1> SUFFICES ASSUME IndInv, Settled, [Next]_vars PROVE Settled'
  OBVIOUS
<1>1. \A w \in Workers : pc[w] = "end" => pc'[w] = "end"
  BY DEF Next, ManagerStep, WorkerStep, Stopped, EnterDirectory, PickFile, LeaveDirectory, WaitForRoom,
         Put, OpenFails, FinishManager, LoopTop, WaitForFile, NothingMore, Take, ReadBlock, CountBlock,
         WriteBlock, CloseFile, Join, Interrupt, Locks, vars, work, IndInv, TypeOK
<1>2. CASE Join
  BY <1>1, <1>2 DEF Join, Settled
<1>3. CASE ~Join
  <2>1. joined' = joined
    BY <1>3 DEF Next, ManagerStep, WorkerStep, Stopped, EnterDirectory, PickFile, LeaveDirectory, WaitForRoom,
                Put, OpenFails, FinishManager, LoopTop, WaitForFile, NothingMore, Take, ReadBlock, CountBlock,
                WriteBlock, CloseFile, Interrupt, vars
  <2> QED BY <2>1, <1>1 DEF Settled
<1> QED BY <1>2, <1>3

\* write() concerns blocks that have been read.
Handled == IsFiniteSet(written \cup missed)

LEMMA HandledInv == Handled /\ [Next]_vars => Handled'
<1> SUFFICES ASSUME Handled, [Next]_vars PROVE Handled'
  OBVIOUS
<1>1. ASSUME NEW w \in Workers, WriteBlock(w) PROVE Handled'
  <2>1. written' \cup missed' = written \cup missed \cup {<<item[w], blocksRead[item[w]]>>}
    BY <1>1 DEF WriteBlock
  <2> QED BY <2>1, FS_AddElement DEF Handled
<1>2. CASE ~\E w \in Workers : WriteBlock(w)
  <2>1. UNCHANGED <<written, missed>>
    BY <1>2 DEF Next, ManagerStep, WorkerStep, Stopped, EnterDirectory, PickFile, LeaveDirectory, WaitForRoom,
                Put, OpenFails, FinishManager, LoopTop, WaitForFile, NothingMore, Take, ReadBlock, CountBlock,
                CloseFile, Join, Interrupt, vars, work
  <2> QED BY <2>1 DEF Handled
<1> QED BY <1>1, <1>2

\* However the loads and stores of the workers interleave, and whichever calls fail, the
\* statistic does not exceed the blocks that have been read, and what main prints exceeds the
\* blocks in the copies by no more than what write() missed.
THEOREM StatisticBounded == Spec => []BytesAtMost
<1>1. Init => Statistic /\ Settled /\ Handled
  <2> SUFFICES ASSUME Init PROVE Statistic /\ Settled /\ Handled
    OBVIOUS
  <2>1. BlocksRead = {} /\ written \cup missed = {}
    BY DEF Init, BlocksRead
  <2> QED BY <2>1, FS_EmptySet DEF Init, Statistic, Settled, Handled
<1>2. IndInv /\ Statistic /\ Settled /\ Handled => BytesAtMost
  <2> SUFFICES ASSUME IndInv, Statistic, Settled, Handled, joined
               PROVE  totalBytesCopied <= Cardinality(written \cup missed)
    BY DEF Statistic, BytesAtMost
  <2>1. BlocksRead \subseteq written \cup missed
    BY DEF Settled, IndInv, BlocksKept, BlockInHand
  <2>2. /\ Cardinality(BlocksRead) <= Cardinality(written \cup missed)
        /\ Cardinality(BlocksRead) \in Nat /\ Cardinality(written \cup missed) \in Nat
    BY <2>1, FS_Subset, FS_CardinalityType DEF Handled
  <2> QED BY <2>2 DEF Statistic, IndInv, TypeOK
<1> QED BY <1>1, <1>2, StatisticInv, SettledInv, HandledInv, Inductive, PTL DEF Spec

-----------------------------------------------------------------------------
(* The refinement of CopyJob. *)

\* What copyAll opens and hands over can be reached.
Reached ==
    /\ \A i \in DOMAIN stack : stack[i] \in Sources
    /\ \A f \in Files : Placed(f) => f \in Reachable

\* copyAll has been called for directory d.
Entered(d) == d \notin Broken /\ (d = Top \/ \E e \in Dirs : d \in Contents[e] \ unread[e])

\* It returns from a directory when readdir is at its end, unless SIGINT or open() stopped it.
Visited ==
    running_status /\ ~OpenFailed =>
        \A d \in Dirs : Entered(d) => unread[d] = {} \/ \E i \in DOMAIN stack : stack[i] = d

\* done is set at the end of the walk, and workers leave then, when the ring is empty.
Ends ==
    /\ done <=> mgr = "end"
    /\ mgr = "end" => stack = << >> /\ ~OpenFailed
    /\ running_status => \A w \in Workers : pc[w] = "end" => done /\ buffer_size_counter = 0

\* The sources are closed themselves.
LEMMA SourcesClosed == Closed(Sources) /\ Sources \subseteq Entries
<1>1. Top \in Sources \cup Broken
  BY CopyAssumption DEF Sources, Closed, Entries
<1>2. ASSUME NEW d \in Sources \cap Dirs, NEW x \in Contents[d] \ (Broken \cap Dirs) PROVE x \in Sources
  <2>1. x \in Entries
    BY CopyAssumption DEF Entries
  <2>2. \A S \in SUBSET Entries : Closed(S) => x \in S
    BY DEF Sources, Closed
  <2> QED BY <2>1, <2>2 DEF Sources
<1> QED BY <1>1, <1>2 DEF Closed, Sources

\* The directory on top of the stack is a source, and so is what it contains.
LEMMA TopOfStack ==
    ASSUME TypeOK, HandsFilled, Reached, NEW x, Read(x)
    PROVE  /\ Head(stack) \in Dirs /\ stack # << >> /\ x \in Contents[Head(stack)]
           /\ unread' = [unread EXCEPT ![Head(stack)] = @ \ {x}]
           /\ x \notin Broken \cap Dirs => x \in Sources
<1>1. stack # << >> /\ stack \in Seq(Dirs) /\ x \in unread[Head(stack)]
      /\ unread' = [unread EXCEPT ![Head(stack)] = @ \ {x}]
  BY DEF Read, TypeOK
<1>2. 1 \in DOMAIN stack /\ stack[1] = Head(stack) /\ Head(stack) \in Dirs
  BY <1>1
<1>3. Head(stack) \in Sources
  BY <1>2 DEF Reached
<1>4. x \in Contents[Head(stack)]
  BY <1>1, <1>2 DEF HandsFilled
<1> QED BY <1>1, <1>2, <1>3, <1>4, SourcesClosed DEF Closed

\* One directory more on the stack.
LEMMA Pushed ==
    ASSUME stack \in Seq(Dirs), NEW d \in Dirs, stack' = <<d>> \o stack
    PROVE  /\ \A i \in DOMAIN stack' : stack'[i] = d \/ \E j \in DOMAIN stack : stack'[i] = stack[j]
           /\ \E i \in DOMAIN stack' : stack'[i] = d
           /\ \A j \in DOMAIN stack : \E i \in DOMAIN stack' : stack'[i] = stack[j]
<1>1. /\ Len(stack) \in Nat /\ DOMAIN stack = 1..Len(stack) /\ DOMAIN stack' = 1..(Len(stack) + 1)
      /\ stack'[1] = d /\ \A i \in 1..(Len(stack) + 1) : i # 1 => stack'[i] = stack[i - 1]
  OBVIOUS
<1>2. ASSUME NEW j \in DOMAIN stack PROVE j + 1 \in DOMAIN stack' /\ stack'[j + 1] = stack[j]
  <2>1. j + 1 \in 1..(Len(stack) + 1) /\ j + 1 # 1 /\ (j + 1) - 1 = j
    BY <1>1
  <2> QED BY <1>1, <2>1
<1>3. ASSUME NEW i \in DOMAIN stack', i # 1 PROVE i - 1 \in DOMAIN stack /\ stack'[i] = stack[i - 1]
  BY <1>1, <1>3
<1>4. ASSUME NEW i \in DOMAIN stack' PROVE stack'[i] = d \/ \E j \in DOMAIN stack : stack'[i] = stack[j]
  <2>1. CASE i = 1 BY <1>1, <2>1
  <2>2. CASE i # 1 BY <1>3, <2>2
  <2> QED BY <2>1, <2>2
<1>5. ASSUME NEW j \in DOMAIN stack PROVE \E i \in DOMAIN stack' : stack'[i] = stack[j]
  BY <1>2, <1>5
<1>6. 1 \in DOMAIN stack'
  BY <1>1
<1>7. \E i \in DOMAIN stack' : stack'[i] = d
  BY <1>1, <1>6
<1> QED BY <1>4, <1>5, <1>7

\* The innermost directory is left.
LEMMA Popped ==
    ASSUME stack \in Seq(Dirs), stack # << >>, stack' = Tail(stack)
    PROVE  /\ \A i \in DOMAIN stack' : \E j \in DOMAIN stack : stack'[i] = stack[j]
           /\ \A j \in DOMAIN stack : stack[j] = Head(stack) \/ \E i \in DOMAIN stack' : stack'[i] = stack[j]
<1>1. /\ Len(stack) \in Nat /\ DOMAIN stack = 1..Len(stack) /\ DOMAIN stack' = 1..(Len(stack) - 1)
      /\ stack[1] = Head(stack) /\ \A i \in 1..(Len(stack) - 1) : stack'[i] = stack[i + 1]
  OBVIOUS
<1>2. ASSUME NEW i \in DOMAIN stack' PROVE i + 1 \in DOMAIN stack /\ stack'[i] = stack[i + 1]
  BY <1>1
<1>3. ASSUME NEW j \in DOMAIN stack, j # 1 PROVE j - 1 \in DOMAIN stack' /\ stack'[j - 1] = stack[j]
  <2>1. j - 1 \in 1..(Len(stack) - 1) /\ (j - 1) + 1 = j
    BY <1>1, <1>3
  <2> QED BY <1>1, <2>1
<1>4. ASSUME NEW i \in DOMAIN stack' PROVE \E j \in DOMAIN stack : stack'[i] = stack[j]
  BY <1>2, <1>4
<1>5. ASSUME NEW j \in DOMAIN stack PROVE stack[j] = Head(stack) \/ \E i \in DOMAIN stack' : stack'[i] = stack[j]
  <2>1. CASE j = 1 BY <1>1, <2>1
  <2>2. CASE j # 1 BY <1>3, <2>2
  <2> QED BY <2>1, <2>2
<1> QED BY <1>4, <1>5

\* Only what is reachable is opened and handed over.
LEMMA ReachedInv == IndInv /\ Reached /\ [Next]_vars => Reached'
<1> SUFFICES ASSUME IndInv, Reached, [Next]_vars PROVE Reached'
  OBVIOUS
<1>t. stack \in Seq(Dirs) /\ TypeOK /\ HandsFilled
  BY DEF IndInv, TypeOK
<1>a. ASSUME \A f \in Files : Placed(f)' => Placed(f), stack' = stack PROVE Reached'
  BY <1>a DEF Reached
<1>b. ASSUME UNCHANGED <<ring, item, closed>>, mgr' = "put" => mgr = "put" /\ entry' = entry
      PROVE  \A f \in Files : Placed(f)' => Placed(f)
  BY <1>b, OtherPlaces DEF Placed, InHand
<1>1. ASSUME NEW d \in Dirs, EnterDirectory(d) PROVE Reached'
  <2>1. \A f \in Files : Placed(f)' => Placed(f)
    BY <1>1, <1>b DEF EnterDirectory, work
  <2>2. d \notin Broken => d \in Sources
    BY <1>1, <1>t, TopOfStack DEF EnterDirectory
  <2>3. CASE d \in Broken
    BY <1>1, <1>a, <2>1, <2>3 DEF EnterDirectory
  <2>4. CASE d \notin Broken
    <3>1. stack' = <<d>> \o stack
      BY <1>1, <2>4 DEF EnterDirectory
    <3>2. \A i \in DOMAIN stack' : stack'[i] = d \/ \E j \in DOMAIN stack : stack'[i] = stack[j]
      BY <1>t, <3>1, Pushed
    <3> QED BY <2>1, <2>2, <2>4, <3>2 DEF Reached
  <2> QED BY <2>3, <2>4
<1>2. ASSUME NEW g \in Files, PickFile(g) PROVE Reached'
  <2>1. UNCHANGED <<ring, item, closed, stack>> /\ entry' = g
    BY <1>2 DEF PickFile, work
  <2>2. \A f \in Files : Placed(f)' => Placed(f) \/ f = g
    BY <2>1, OtherPlaces DEF Placed, InHand
  <2>3. g \in Reachable
    BY <1>2, <1>t, TopOfStack, CopyAssumption DEF PickFile, Reachable
  <2> QED BY <2>1, <2>2, <2>3 DEF Reached
<1>3. CASE LeaveDirectory \/ OpenFails
  <2>1. \A f \in Files : Placed(f)' => Placed(f)
    BY <1>3, <1>b DEF LeaveDirectory, OpenFails, work
  <2>2. stack # << >> /\ stack' = Tail(stack)
    BY <1>3, <1>t DEF LeaveDirectory, OpenFails, HasBuffer, HandsFilled
  <2>3. \A i \in DOMAIN stack' : \E j \in DOMAIN stack : stack'[i] = stack[j]
    BY <1>t, <2>2, Popped
  <2> QED BY <2>1, <2>3 DEF Reached
<1>4. CASE Put
  <2>1. UNCHANGED <<closed, stack>> /\ mgr = "put"
    BY <1>4 DEF Put, work, HasBuffer
  <2> QED BY <1>4, <1>a, <2>1, PutPlaces DEF Placed, InHand
<1>5. ASSUME NEW w \in Workers, Take(w) PROVE Reached'
  <2>1. UNCHANGED <<closed, stack>>
    BY <1>5 DEF Take, walk
  <2> QED BY <1>5, <1>a, <2>1, TakePlaces DEF Placed
<1>6. ASSUME NEW w \in Workers, CloseFile(w) PROVE Reached'
  <2>1. UNCHANGED stack
    BY <1>6 DEF CloseFile, walk
  <2> QED BY <1>6, <1>a, <2>1, ClosePlaces DEF Placed
<1>7. CASE \/ WaitForRoom \/ FinishManager \/ Join \/ Interrupt \/ UNCHANGED vars
           \/ \E w \in Workers : LoopTop(w) \/ WaitForFile(w) \/ NothingMore(w) \/ ReadBlock(w) \/ CountBlock(w)
              \/ WriteBlock(w)
  <2>1. UNCHANGED <<ring, item, closed, stack>> /\ (mgr' = "put" => mgr = "put" /\ entry' = entry)
    BY <1>7 DEF WaitForRoom, FinishManager, Join, Interrupt, LoopTop, WaitForFile, NothingMore, ReadBlock,
                CountBlock, WriteBlock, vars, walk, work
  <2> QED BY <1>a, <1>b, <2>1
<1> QED
  BY <1>1, <1>2, <1>3, <1>4, <1>5, <1>6, <1>7 DEF Next, ManagerStep, WorkerStep, Stopped

\* A directory stays on the stack until all of it has been returned.
LEMMA VisitedInv == IndInv /\ Reached /\ Visited /\ [Next]_vars => Visited'
<1> SUFFICES ASSUME IndInv, Reached, Visited, [Next]_vars, running_status', ~OpenFailed' PROVE Visited'
  BY DEF Visited
<1>t. stack \in Seq(Dirs) /\ TypeOK /\ HandsFilled /\ unread \in [Dirs -> SUBSET (Files \cup Dirs)]
  BY DEF IndInv, TypeOK
<1>a. ASSUME running_status, ~OpenFailed, UNCHANGED <<stack, unread>> PROVE Visited'
  BY <1>a DEF Visited, Entered
<1>1. ASSUME NEW d \in Dirs, EnterDirectory(d) PROVE Visited'
  <2>1. running_status /\ ~OpenFailed
    BY <1>1 DEF EnterDirectory, OpenFailed
  <2>2. /\ Head(stack) \in Dirs /\ d \in Contents[Head(stack)]
        /\ unread' = [unread EXCEPT ![Head(stack)] = @ \ {d}]
    BY <1>1, <1>t, TopOfStack DEF EnterDirectory
  <2>3. \A e \in Dirs : unread'[e] \subseteq unread[e] /\ unread[e] \subseteq unread'[e] \cup {d}
    BY <1>t, <2>2
  <2>4. \A e \in Dirs : Entered(e)' => Entered(e) \/ (e = d /\ d \notin Broken)
    BY <2>3 DEF Entered
  <2>5. /\ d \notin Broken => \E i \in DOMAIN stack' : stack'[i] = d
        /\ \A j \in DOMAIN stack : \E i \in DOMAIN stack' : stack'[i] = stack[j]
    BY <1>1, <1>t, Pushed DEF EnterDirectory
  <2> QED BY <2>1, <2>3, <2>4, <2>5 DEF Visited
<1>2. ASSUME NEW g \in Files, PickFile(g) PROVE Visited'
  <2>1. running_status /\ ~OpenFailed /\ stack' = stack
    BY <1>2 DEF PickFile, OpenFailed
  <2>2. Head(stack) \in Dirs /\ unread' = [unread EXCEPT ![Head(stack)] = @ \ {g}]
    BY <1>2, <1>t, TopOfStack DEF PickFile
  <2>3. \A e \in Dirs : unread'[e] \subseteq unread[e] /\ unread[e] \subseteq unread'[e] \cup {g}
    BY <1>t, <2>2
  <2>4. \A e \in Dirs : Entered(e)' => Entered(e)
    BY <2>3, CopyAssumption DEF Entered
  <2> QED BY <2>1, <2>3, <2>4 DEF Visited
<1>3. CASE LeaveDirectory
  <2>1. /\ running_status /\ ~OpenFailed /\ unread' = unread /\ stack # << >> /\ stack' = Tail(stack)
        /\ unread[Head(stack)] = {}
    BY <1>3 DEF LeaveDirectory, OpenFailed
  <2>2. \A j \in DOMAIN stack : stack[j] = Head(stack) \/ \E i \in DOMAIN stack' : stack'[i] = stack[j]
    BY <1>t, <2>1, Popped
  <2> QED BY <2>1, <2>2 DEF Visited, Entered
<1>4. CASE OpenFails
  BY <1>4 DEF OpenFails, OpenFailed
<1>5. CASE \/ WaitForRoom \/ Put \/ FinishManager \/ Join \/ Interrupt \/ UNCHANGED vars
           \/ \E w \in Workers : WorkerStep(w)
  <2>1. running_status /\ ~OpenFailed /\ UNCHANGED <<stack, unread>>
    BY <1>5 DEF WaitForRoom, Put, FinishManager, Join, Interrupt, WorkerStep, LoopTop, WaitForFile, NothingMore,
                Take, ReadBlock, CountBlock, WriteBlock, CloseFile, vars, walk, OpenFailed
  <2> QED BY <1>a, <2>1
<1> QED
  BY <1>1, <1>2, <1>3, <1>4, <1>5 DEF Next, ManagerStep, Stopped

\* No worker leaves before the walk is over, unless SIGINT came.
LEMMA EndsInv == IndInv /\ Ends /\ [Next]_vars => Ends'
<1> SUFFICES ASSUME IndInv, Ends, [Next]_vars PROVE Ends'
  OBVIOUS
<1> USE DEF Ends, OpenFailed
<1>t. TypeOK /\ buffer_mutex \in {Nobody, Manager} /\ Nobody # Manager
  BY CopyAssumption DEF IndInv, TypeOK
<1>1. CASE \/ \E d \in Dirs : EnterDirectory(d)
           \/ \E f \in Files : PickFile(f)
           \/ LeaveDirectory \/ WaitForRoom \/ Put \/ OpenFails
  <2>1. mgr \in {"scan", "put"} /\ mgr' \in {"scan", "put"} /\ UNCHANGED <<done, pc, running_status>>
    BY <1>1 DEF EnterDirectory, PickFile, Read, LeaveDirectory, WaitForRoom, Put, OpenFails, HasBuffer, walk, work
  <2> QED BY <2>1
<1>2. CASE FinishManager
  BY <1>2, <1>t DEF FinishManager, ring, work
<1>3. ASSUME NEW w \in Workers, LoopTop(w) PROVE Ends'
  <2>1. UNCHANGED <<done, mgr, stack, buffer_mutex, running_status, buffer_size_counter>>
    BY <1>3 DEF LoopTop, walk, ring
  <2>2. \A v \in Workers : pc'[v] = "end" => pc[v] = "end" \/ ~GoOn
    BY <1>3, <1>t DEF LoopTop, TypeOK
  <2>3. done \in BOOLEAN /\ running_status \in BOOLEAN
    BY <1>t DEF TypeOK
  <2> QED BY <2>1, <2>2, <2>3 DEF GoOn
<1>4. ASSUME NEW w \in Workers, Take(w) PROVE Ends'
  <2>1. UNCHANGED <<done, mgr, stack, buffer_mutex, running_status>> /\ buffer_size_counter # 0
    BY <1>4 DEF Take, walk
  <2>2. \A v \in Workers : pc'[v] = "end" => pc[v] = "end"
    BY <1>4, <1>t DEF Take, TypeOK
  <2> QED BY <2>1, <2>2
<1>5. ASSUME NEW w \in Workers, NothingMore(w) PROVE Ends'
  <2>1. UNCHANGED <<done, mgr, stack, buffer_mutex, running_status, buffer_size_counter>>
        /\ done /\ buffer_size_counter = 0
    BY <1>5 DEF NothingMore, walk, ring
  <2> QED BY <2>1
<1>6. ASSUME NEW w \in Workers, \/ WaitForFile(w) \/ ReadBlock(w) \/ CountBlock(w)
                              \/ WriteBlock(w) \/ CloseFile(w)
      PROVE  Ends'
  <2>1. UNCHANGED <<done, mgr, stack, buffer_mutex, running_status, buffer_size_counter>>
    BY <1>6 DEF WaitForFile, ReadBlock, CountBlock, WriteBlock, CloseFile, walk, ring
  <2>2. \A v \in Workers : pc'[v] = "end" => pc[v] = "end"
    BY <1>6, <1>t DEF WaitForFile, ReadBlock, CountBlock, WriteBlock, CloseFile, work, TypeOK
  <2> QED BY <2>1, <2>2
<1>7. CASE Join \/ Interrupt \/ UNCHANGED vars
  <2>1. UNCHANGED <<done, mgr, stack, buffer_mutex, buffer_size_counter, pc>>
        /\ (running_status' => running_status)
    BY <1>7 DEF Join, Interrupt, vars, walk, ring, work
  <2> QED BY <2>1
<1> QED
  BY <1>1, <1>2, <1>3, <1>4, <1>5, <1>6, <1>7 DEF Next, ManagerStep, WorkerStep, Stopped

\* The job does not see the other steps.
LEMMA Unseen ==
    ASSUME UNCHANGED <<ring, item, closed>>, Ended' = Ended
    PROVE  UNCHANGED Job!jobVars
<1>1. Content' = Content /\ \A f : (InRing(f)' <=> InRing(f)) /\ (AtWorker(f)' <=> AtWorker(f))
  BY OtherPlaces
<1>2. ToFind' = ToFind
  BY <1>1 DEF ToFind
<1>3. Copying' = Copying
  BY DEF Copying
<1> QED BY <1>1, <1>2, <1>3 DEF Job!jobVars

\* enqueue under the mutex finds a file.
LEMMA PutFinds ==
    ASSUME IndInv, Reached, Put
    PROVE  entry \in Reachable /\ Job!Find(entry)
<1>1. /\ entry \in Files /\ Content \in Seq(Files) /\ Content' = Append(Content, entry)
      /\ \A f \in Files : /\ InRing(f)' <=> InRing(f) \/ f = entry
                          /\ AtWorker(f)' <=> AtWorker(f)
  BY PutPlaces
<1>2. UNCHANGED <<item, closed, joined, running_status>> /\ buffer_size_counter # MAX_BUFF_SIZE
      /\ InHand(entry)
  BY DEF Put, work, HasBuffer, InHand
<1>3. entry \in Reachable /\ Reachable \subseteq Files
  BY <1>1, <1>2 DEF Reached, Placed, Reachable
<1>4. ~InRing(entry) /\ ~AtWorker(entry) /\ entry \notin closed
  BY <1>1, <1>2 DEF IndInv, Exclusive
<1>5. entry \in ToFind
  BY <1>3, <1>4 DEF ToFind
<1>6. ToFind' = ToFind \ {entry}
  BY <1>1, <1>2, <1>3 DEF ToFind
<1>7. Len(Content) < MAX_BUFF_SIZE
  <2>1. buffer_size_counter \in 0..MAX_BUFF_SIZE /\ MAX_BUFF_SIZE \in Nat
    BY CopyAssumption DEF IndInv, TypeOK
  <2>2. Len(Content) = buffer_size_counter
    <3>1. DOMAIN Content = 1..buffer_size_counter
      BY DEF Content
    <3>2. DOMAIN Content = 1..Len(Content) /\ Len(Content) \in Nat
      BY <1>1
    <3> QED BY <2>1, <3>1, <3>2
  <2> QED BY <1>2, <2>1, <2>2
<1>8. UNCHANGED <<Copying, closed, Ended>>
  BY <1>2 DEF Copying, Ended
<1> QED BY <1>1, <1>3, <1>5, <1>6, <1>7, <1>8 DEF Job!Find

\* dequeue under the mutex hands one out.
LEMMA TakeHandsOut ==
    ASSUME IndInv, NEW w \in Workers, Take(w)
    PROVE  Job!HandOut
<1> DEFINE g == Content[1]
<1>1. /\ g \in Files /\ InRing(g) /\ g # Nobody
      /\ item' = [item EXCEPT ![w] = g] /\ item[w] = Nobody
      /\ \A f \in Files : /\ InRing(f) => InRing(f)' \/ f = g
                          /\ InRing(f)' => InRing(f)
                          /\ AtWorker(f)' <=> AtWorker(f) \/ f = g
      /\ Content # << >> /\ g = Head(Content) /\ Content' = Tail(Content)
  BY TakePlaces
<1> HIDE DEF g
<1>2. UNCHANGED <<closed, joined, running_status>>
  BY DEF Take
<1>3. ToFind' = ToFind
  BY <1>1, <1>2 DEF ToFind, Reachable
<1>4. Copying' = Copying \cup {g}
  <2>1. item'[w] = g /\ \A v \in Workers \ {w} : item'[v] = item[v]
    BY <1>1 DEF IndInv, TypeOK
  <2> QED BY <1>1, <2>1 DEF Copying
<1> QED BY <1>1, <1>2, <1>3, <1>4 DEF Job!HandOut, Ended

\* close of the two descriptors completes one.
LEMMA CloseCompletes ==
    ASSUME IndInv, Reached, NEW w \in Workers, CloseFile(w)
    PROVE  item[w] \in Reachable /\ Job!Complete(item[w])
<1>1. PICK g \in Files : g = item[w]
  BY ClosePlaces
<1>2. /\ AtWorker(g) /\ item' = [item EXCEPT ![w] = Nobody]
      /\ closed' = closed \cup {g} /\ Content' = Content
      /\ \A f \in Files : /\ InRing(f)' <=> InRing(f)
                          /\ AtWorker(f)' <=> AtWorker(f) /\ f # g
  BY <1>1, ClosePlaces
<1>3. UNCHANGED <<joined, running_status>>
  BY DEF CloseFile
<1>4. g \in Reachable
  BY <1>2 DEF Reached, Placed
<1>5. ToFind' = ToFind
  BY <1>2 DEF ToFind, Reachable
<1>6. Copying' = Copying \ {g} /\ g \in Copying
  <2>1. item'[w] = Nobody /\ \A v \in Workers \ {w} : item'[v] = item[v] /\ item[v] # g
    BY <1>1, <1>2, CopyAssumption DEF IndInv, TypeOK, Exclusive
  <2>2. g # Nobody
    BY CopyAssumption
  <2> QED BY <1>1, <2>1, <2>2 DEF Copying
<1> QED BY <1>1, <1>2, <1>3, <1>4, <1>5, <1>6 DEF Job!Complete, Ended

\* What copyAll has entered, and the files there, is closed when no directory has more.
LEMMA AllVisited ==
    ASSUME HandsFilled, Visited, running_status, ~OpenFailed, stack = << >>, NEW f \in Reachable
    PROVE  \E d \in Dirs : f \in Contents[d] \ unread[d]
<1> DEFINE found(x) == \E d \in Dirs : Entered(d) /\ x \in Contents[d]
           S == {x \in Entries : (x \in Dirs /\ Entered(x)) \/ (x \in Files /\ found(x))}
<1>1. \A d \in Dirs : Entered(d) => unread[d] = {}
  <2>1. DOMAIN stack = {}
    OBVIOUS
  <2> QED BY <2>1 DEF Visited
<1>2. Top \in S \cup Broken
  BY CopyAssumption DEF Entered, Entries
<1>3. ASSUME NEW d \in S \cap Dirs, NEW x \in Contents[d] \ (Broken \cap Dirs) PROVE x \in S
  <2>1. Entered(d) /\ d \in Dirs
    BY CopyAssumption
  <2>2. x \in Contents[d] \ unread[d]
    BY <1>1, <2>1
  <2>3. x \in Entries
    BY <2>1, CopyAssumption DEF Entries
  <2>4. x \in Dirs => Entered(x)
    BY <2>1, <2>2 DEF Entered
  <2>5. x \in Files => found(x)
    BY <2>1
  <2> QED BY <2>3, <2>4, <2>5 DEF Entries
<1>4. Closed(S) /\ S \in SUBSET Entries
  BY <1>2, <1>3 DEF Closed
<1>5. f \in S /\ f \in Files
  BY <1>4 DEF Reachable, Sources
<1>6. found(f)
  BY <1>5, CopyAssumption
<1> QED BY <1>1, <1>6

\* The joins come back, without SIGINT, when nothing is left.
LEMMA JoinEnds ==
    ASSUME IndInv, Kept, Visited, Ends, Join, running_status
    PROVE  Job!End
<1>1. PICK w \in Workers : pc[w] = "end"
  BY CopyAssumption DEF Join
<1>2. done /\ buffer_size_counter = 0 /\ stack = << >> /\ ~OpenFailed
  BY <1>1 DEF Ends, Join
<1>3. DOMAIN Content = {} /\ Content = << >>
  BY <1>2 DEF Content
<1>4. \A v \in Workers : item[v] = Nobody
  BY DEF Join, IndInv, HandsFilled
<1>5. Copying = {}
  BY <1>4 DEF Copying
<1>6. \A f \in Files : ~InRing(f) /\ ~AtWorker(f) /\ ~InHand(f)
  BY <1>3, <1>4, CopyAssumption DEF InRing, AtWorker, InHand, Join
<1>7. ASSUME NEW f \in Reachable PROVE f \in closed
  <2>1. PICK d \in Dirs : f \in Contents[d] \ unread[d]
    BY <1>2, <1>7, AllVisited DEF IndInv
  <2>2. f \in Files
    BY DEF Reachable
  <2> QED BY <1>2, <1>6, <2>1, <2>2 DEF Kept, Placed
<1>8. ToFind = {}
  BY <1>7 DEF ToFind
<1>9. UNCHANGED <<ring, item, closed>> /\ Ended'
  BY DEF Join, work, Ended
<1>10. UNCHANGED <<ToFind, Content, Copying, closed>>
  <2>1. Content' = Content /\ \A f : (InRing(f)' <=> InRing(f)) /\ (AtWorker(f)' <=> AtWorker(f))
    BY <1>9, OtherPlaces
  <2> QED BY <1>9, <2>1 DEF ToFind, Copying
<1>11. Ended' = TRUE
  BY <1>9 DEF Ended
<1> QED BY <1>3, <1>5, <1>8, <1>10, <1>11 DEF Job!End

\* Each step of the threads is a step of the job or none.
LEMMA JobStep ==
    IndInv /\ Kept /\ Reached /\ Visited /\ Ends /\ [Next]_vars => [Job!Next]_(Job!jobVars)
<1> SUFFICES ASSUME IndInv, Kept, Reached, Visited, Ends, [Next]_vars
             PROVE  Job!Next \/ UNCHANGED Job!jobVars
  OBVIOUS
<1>1. CASE Put
  BY <1>1, PutFinds DEF Job!Next
<1>2. ASSUME NEW w \in Workers, Take(w) PROVE Job!Next
  BY <1>2, TakeHandsOut DEF Job!Next
<1>3. ASSUME NEW w \in Workers, CloseFile(w) PROVE Job!Next
  BY <1>3, CloseCompletes DEF Job!Next
<1>4. CASE Join /\ running_status
  BY <1>4, JoinEnds DEF Job!Next
<1>5. CASE \/ Interrupt \/ (Join /\ ~running_status) \/ UNCHANGED vars
           \/ \E d \in Dirs : EnterDirectory(d)
           \/ \E f \in Files : PickFile(f)
           \/ LeaveDirectory \/ WaitForRoom \/ OpenFails \/ FinishManager
           \/ \E w \in Workers : LoopTop(w) \/ WaitForFile(w) \/ NothingMore(w) \/ ReadBlock(w) \/ CountBlock(w)
              \/ WriteBlock(w)
  <2>1. UNCHANGED <<ring, item, closed>>
    BY <1>5 DEF Interrupt, Join, vars, work, EnterDirectory, PickFile, LeaveDirectory, WaitForRoom, OpenFails,
                FinishManager, LoopTop, WaitForFile, NothingMore, ReadBlock, CountBlock, WriteBlock
  <2>2. UNCHANGED <<joined, running_status>> \/ (~Ended /\ ~Ended')
    BY <1>5 DEF Interrupt, Join, vars, EnterDirectory, PickFile, LeaveDirectory, WaitForRoom, OpenFails,
                FinishManager, LoopTop, WaitForFile, NothingMore, ReadBlock, CountBlock, WriteBlock, Ended
  <2>3. Ended' = Ended
    BY <2>2 DEF Ended
  <2> QED BY <2>1, <2>3, Unseen
<1> QED
  BY <1>1, <1>2, <1>3, <1>4, <1>5 DEF Next, ManagerStep, WorkerStep, Stopped

\* The threads do the job of CopyJob: whatever the tree, the buffer and the number of workers,
\* files are handed out in the order they were found, each is copied once, and the joins come
\* back without SIGINT only when every reachable file has been.
THEOREM ImplementsJob == Spec => JobSpec
<1>1. Init => Kept /\ Reached /\ Visited /\ Ends /\ Job!Init
  <2> SUFFICES ASSUME Init PROVE Kept /\ Reached /\ Visited /\ Ends /\ Job!Init
    OBVIOUS
  <2>1. Content = << >> /\ DOMAIN Content = {}
    BY DEF Init, Content
  <2>2. /\ \A f \in Files : ~InRing(f) /\ ~AtWorker(f) /\ ~InHand(f) /\ f \notin closed
        /\ Copying = {} /\ closed = {} /\ ~Ended
    BY <2>1, CopyAssumption DEF Init, InRing, AtWorker, InHand, Copying, Ended
  <2>3. \A f \in Files : ~Placed(f)
    BY <2>2 DEF Placed
  <2>4. Kept
    BY DEF Init, Kept
  <2>5. \A i \in DOMAIN stack : stack[i] = Top /\ Top \notin Broken
    BY DEF Init
  <2>6. Reached
    BY <2>3, <2>5, SourcesClosed DEF Reached, Closed
  <2>7. Visited
    <3>1. ASSUME NEW d \in Dirs, Entered(d) PROVE \E i \in DOMAIN stack : stack[i] = d
      <4>1. d = Top /\ stack = <<Top>>
        BY <3>1 DEF Init, Entered
      <4> QED BY <4>1
    <3> QED BY <3>1 DEF Visited
  <2>8. Ends
    BY CopyAssumption DEF Init, Ends
  <2>9. ToFind = Reachable
    BY <2>2 DEF ToFind, Reachable
  <2>10. Ended = FALSE
    BY DEF Init, Ended
  <2> QED BY <2>1, <2>2, <2>4, <2>6, <2>7, <2>8, <2>9, <2>10 DEF Job!Init
<1> QED
  BY <1>1, KeptInv, ReachedInv, VisitedInv, EndsInv, JobStep, Inductive, PTL DEF Spec, JobSpec, Job!Spec
=============================================================================
