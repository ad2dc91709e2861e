# Verification of the system-programming projects

TLA+ models, TLC runs and TLAPS proofs for the concurrent C programs of this
repository.  The repository holds a dozen small systems of one author (POSIX
threads, processes, FIFOs, sockets, shared memory); each is a component here.
The models are translated from the code; docs and reports are only used where a
run compares what they say with what the code does.

## 1. Inventory

| component | code | state it keeps | status |
|---|---|---|---|
| PideShop server and client | `final/server.c`, `queue.c`, `client.c` | order, oven and prepared queues, apparatus, counters of the delivery, `siparisIptal`, `cancelled`, the socket | modelled, partly |
| Parallel directory copy | `hw4_2024/put_your_codes_here/1801042624_main.c`, `queue.c` | ring buffer, `done`, `running_status`, statistics | modelled |
| Parking lot | `hw3_2024/hw3.c` | `mFree_*`, four named semaphores, `runStatus` | modelled |
| neHos file server | `midterm/server.c`, `client.c`, `common.c` | `clients[]`, `child[]`, `clientCounter`, FIFOs, shared memory and its semaphores, the file `temp` | modelled, partly |
| BibakBOX | `hw6/server/server.c`, `hw6/client/client.c` | the two directories, the lists of each side, the counters of rounds, the stream | modelled, partly |
| Sum and multiply | `hw2_2024/hw2.c`, `common.c` | two FIFOs (names and files), the children, the counters of the SIGCHLD handler | modelled, partly |
| Terminal emulator | `hw2/terminal_emulator.c` | pipes, descriptors of each process, children, the buffer of the line | modelled, partly |
| pCp | `hw5/copy.c`, `pCp.c` | a stack of files, `done`, counters | not modelled: the parallel copy with a stack for a ring |
| biboServer, first versions | `hw3/`, `hw4/` | forerunners of neHos | not modelled: neHos has the same protocol |
| Grade management, append/dup exercises, timer example | `hw1_2024/`, `hw1/`, `final/timer_example.c` | none that two actors share | not modelled: sequential I/O |

### PideShop

*Threads.* `main` accepts one client at a time and reads its orders; cooks
(`pideShopAsci`) take an order, an oven apparatus (3 of them) and a place in the
oven (6); each pide has a POSIX timer whose thread (`timerHandler`) takes an
apparatus, takes a pide out of the oven and puts it in the prepared queue; motos
(`pideShopMoto`) load up to 3 pides in a bag and ride (`delivery`).

*Interaction.* Five condition variables and their mutexes, three ring buffers,
the counters `totalOrder`, `totalReceived`, `totalOrderSize`, one flag per kind of
interruption: `siparisIptal` (the client cancelled, SIGUSR1) and `cancelled` (the
server is to stop, SIGINT), and one socket that main and the motos share.

*Hard.* The flags are read several times between two critical sections; waits that
are left by `break` go on without the condition; mutexes are unlocked twice on the
way out; motos count a pide when they set out for it; the next client is accepted
while the cancelled order is still in the queues.

*Correct means.* Every pide that was ordered is in exactly one place until it is
delivered; apparatus, timers and counters balance; a client is told DELIVERED only
when it has all its pides; every client is served; a cancellation harms nobody else.

### Parallel directory copy

*Threads.* A manager walks the source tree recursively and puts every regular file,
opened twice, in a ring buffer of `MAX_BUFF_SIZE`; workers take files out and copy
them block by block.  SIGINT clears `running_status`.

*Hard.* Indices and counter of the ring are updated by different functions; one path
leaves a critical section without unlocking; `done` and the counter are read without
the mutex; the statistic is added to without a mutex.

*Correct means.* Each file is copied once and whole; the ring behaves as a queue; the
threads end; SIGINT cuts no file short.

### Parking lot

*Threads.* A car owner, an attendant per kind of vehicle.  For each kind two *named*
semaphores pass a turn back and forth.  SIGINT clears `runStatus`.

*Hard.* `mFree_*` is read and written by two threads with nothing but the turns to
protect it; named semaphores outlive a process that was killed; `runStatus` is only
read between two waits.

*Correct means.* The threads take turns, a vehicle finds the place its owner saw, and
the owner is always let go.

### neHos file server

*Processes.* A parent reads connection requests from a FIFO and forks a child per client;
child and client take turns on two named semaphores over one FIFO per client, which both
read and write.  For an upload or a download the child forks a helper, and helper and
client are the two ends of a transfer over one global shared memory and one pair of global
semaphores, whichever client they belong to.

*Hard.* The handler of SIGCHLD changes `clientCounter` and `clients[]` while main does;
`child[]` is written after the fork; a handler of SIGINT that returns makes the client's
`sem_wait`, `read` and `open` fail, and the client goes on; transfers of different clients
meet in the memory; several commands and failures are never answered; all children use one
file `temp`.

*Correct means.* No more clients are admitted than the limit allows, the counter covers the
children, SIGINT leaves no child behind, client and child never read their own messages,
every command is answered, an upload arrives as it was sent.

### BibakBOX

*Processes.* A server thread and a client send each other, round after round, the list of the
files in their directories, create what they miss, and in the first round the server sends all
the files of its list.

*Hard.* Nothing marks the parts of the stream: each side must know from its own counters what
comes next.  The counter of a round is raised by the server only; the list is counted by a
global that a recursive walk overwrites; a side that has gone is noticed by accident.

*Correct means.* The two ends stay in step; a client that gets through a round has the server's
files; no contents are lost to both; nobody waits for ever.

### Sum and multiply

*Processes.* A parent, a first child that reads an array from one FIFO and writes its sum to
another, a second child that reads array and sum from there.  The handler of SIGCHLD counts.

*Hard.* Opens of FIFOs wait for each other; two writers share one reader; SIGCHLD is not
counted by the kernel and not blocked before `sigsuspend`; the names of FIFOs outlive a process
that SIGINT ended, and its children do; the parent leaves when one child of two is reaped.

*Correct means.* The total is that of the run's array and comes, the parent ends, leftovers do
not keep later runs from starting.

### Terminal emulator

*Processes.* A shell that makes the pipes of a line, forks a child per command, closes the pipes
behind it and waits, before it forks the next, as often as there are earlier commands.

*Hard.* Who holds which end of which pipe decides who is ended by SIGPIPE, who reads to an
end and who waits for ever; `wait` takes any child, those of earlier lines too; ctrl+c goes to
all of them, and makes `wait` and `read` return.

*Correct means.* Writers find their readers, the shell comes back, children are not left behind.

## 2. Modules

| module | models | extends |
|---|---|---|
| `ShopState` | constants, shared variables, ring buffers, `preparedMutex`, condition variables | |
| `Kitchen` | `pideShopAsci`, `timerHandler` | `ShopState` |
| `Delivery` | `pideShopMoto`, `delivery` | `ShopState` |
| `PideShop` | `main`, `handleClient`, `handler`, the clients; `Init`, `Next`, fairness | `Kitchen`, `Delivery` |
| `ShopService` | what a client is promised | |
| `ShopProperties` | type invariant, safety, liveness, refinement of `ShopService` | `PideShop` |
| `ShopProofs` | `TypeCorrect`, `Inductive` | `ShopProperties` |
| `ShopPideProofs` | `NeverTwice`, `LostAtBreakOnly`; without signals `NoApparatusLost`, `OvenHasTimers`, `NoPideLost`, `BooksBalance`, `OrdersStillToCome` | `ShopProofs` |
| `ParallelCopy` | `copyAll`, `manager`, `consumer`, `enqueue`, `dequeue`, `handler` | |
| `CopyJob` | what a copy promises: a bounded queue, each file once | |
| `CopyProperties` | properties, refinement of `CopyJob` | `ParallelCopy` |
| `CopyProofs` | `Inductive`, `RingInShape`, `NoFileLost`, `StatisticBounded`, `ImplementsJob` | `CopyProperties` |
| `ParkingLot` | `carOwner`, `carAttendant*`, `handler`, kill and restart | |
| `ParkingProofs` | `Inductive`, `Turns`, `PlaceForVehicle` | `ParkingLot` |
| `SharedMemory` | `producerr`, `consumerrr` | |
| `FileServer` | parent, children and clients of neHos, `sigchldhndlr`, the handlers of SIGINT | `SharedMemory` |
| `FileServerProperties` | types, safety, liveness | `FileServer` |
| `FileServerProofs` | `TypeCorrect`, `Inductive`, `Counted`, `Bounded`, `TakeTurns`, `ReadOther`, `Orphans`, `SharedMemoryOneInside` | `FileServerProperties` |
| `BibakBox` | `synchronize_server_side`, `take_files`, `compare`, the transfers, the client's `main` | |
| `BibakBoxProperties` | types, the stream, the first round, the end of a session | `BibakBox` |
| `BibakProofs` | `BibakTypeOK`, `BibakIndInv`, `BibakFirstRoundSync`, `BibakInStep`, `BibakFirstRoundKeeps` | `BibakBoxProperties` |
| `SumMultiply` | parent and children of `hw2.c`, `readOneByOne*`, `sigchldHandler` | |
| `SumProperties` | types, the total, restarts, liveness | `SumMultiply` |
| `SumProofs` | `SumTypeOK`, `SumResultRight`, `SumStartsAgain` | `SumProperties` |
| `Terminal` | `main` and `handler` of the emulator, commands as readers and writers | |
| `TerminalProperties` | types, readers, children left behind, the prompt | `Terminal` |
| `TerminalProofs` | `TerminalTypeOK`, `TerminalHasReader`, `TerminalFewLeft` | `TerminalProperties` |
| `MCPideShop`, `MCParallelCopy`, `MCParkingLot`, `MCFileServer`, `MCBibakBox`, `MCSumMultiply`, `MCTerminal` | instances for TLC | |

Definitions marked `\* Bug:` are not part of the models.  Each is a plausible mistake in
the definition that follows it, and each property fails when that mistake is put in.

### How the models correspond to the code

*Steps.* A critical section is one step unless the code waits, gives up the mutex or
reads a flag in it that another thread may write meanwhile; reads of `siparisIptal` and
`cancelled` that a write may separate are steps of their own.  `pc[t]` names the place in
the function.  A mutex has a variable only where a thread keeps it from one step to the
next (`ovenMutex`, `preparedMutex`; `buffer_mutex` in the copy).

*preparedMutex.* With `cancelled` set, threads unlock it without holding it (`server.c:327`, 587, 603),
which frees it under whoever is in `enqueue` or `dequeue`.  From then on (`Torn`) it keeps no thread
out, and `preparedQueue` may be in any state: any item comes out of it, more than once.

*main* receives `environmentInfo`, writes the socket into it, stores `totalOrderSize` and resets
`totalReceived` in four steps, between which a moto may act that is late from the client before
(`ReceiveInfo`, `StoreSocket`, `StoreSize`, `ReceiveOrders`).  SIGINT runs its handler in main, and
what it does depends on where main is: it ends the process before the first client and when it
interrupts `accept` or a `recv` that is tested (`BurnEnds`), and otherwise sets the flag (`BurnSets`);
after a cancellation main takes the failed `accept` for an empty client (`BurnServes`).

*Condition variables.* `waiters[k]` holds the threads asleep; a broadcast empties it, a
signal takes one away, chosen freely.  A woken thread takes its mutex again before it
looks.  Spurious wake-ups are not modelled: every wait but the ones left by `break` is in
a loop that tests again.

*Timers.* A timer is armed when its pide is in the oven and may expire at any moment
after that, so timers expire in any order.  The thread takes out the oldest pide, not
necessarily its own, as the code does.

*dequeue on an empty ring* returns a pointer nobody may use; the model calls it
`Phantom` and follows it into a moto's bag.

*The copy.* `readdir` returns the entries in any order; the recursion is the stack of
open directories.  Files have a length in blocks.  A worker reads a block and loads
`totalBytesCopied`, stores it, and writes the block, in three steps, because the code counts before it
writes (230, 231); `read` may fail, which ends the loop as the end of the file does, and `write` may fail
or fall short, which the code goes on after (`Faulty`, `missed`).

*The parking lot.* A step per semaphore operation; `mFree--` and `mFree++` are a load and
a store.  `Kill` starts the program anew on the semaphores as they are: `sem_open` with
`O_CREAT` ignores the initial value of a semaphore that exists.

*neHos.* `parent`, `cl[c]`, `ch[c]` and `at[p]` are the places of the parent, a client, its
child, and a process in a transfer; one `c` names the client process, its child, its FIFO
and its two semaphores.  A system call on something shared is a step, and so are
`clientCounter++`, whose load (`counted`) and store SIGCHLD may come between, and
`child[fork_count++]`.  SIGINT in a client is an action per call it makes fail.  Commands are
words with a file: `ask` is any command that is answered, `mute` any that is not
(`readF` without a line, `list` of a directory that cannot be opened, `arcServer`), `writeT`
the one that goes through `temp`.  `req.connect`, which the client never writes, holds
anything.  `kill` of a process that has ended does nothing: pids are not used again.
Memory and semaphores are never unlinked: `Left` says what earlier servers may have left, a part of
them, no token, a token of either semaphore, a text.  A starting producer makes memory, clears it, and
makes the semaphores in steps of their own, so that a consumer may find the memory without them; a
consumer that finds one missing, or whose `fopen` fails (`Unwritable`), exits with the place `lost`.

*BibakBOX.* A file is absent, empty, or has what its server or its client wrote: contents
matter as far as they can be lost.  Lists are sets of names and a mark for the "/" that the client's
names begin with from its second round on.  A list and a file are one message each, sent and
received in a step, unless `recv`, which has no `MSG_WAITALL`, takes less than an entry: the server then
goes on with a list that can be anything (`ServerReceiveShort`), in this round and, with what is left over,
in a later one, and the client opens names that can be any until a call fails (`ClientLost`).  `cut` says
that this has happened in the session.  After a read that fails, because the client has gone, the
server's `compare` works on what is on its stack before it ends (`ServerDies`).  What the client takes for
something else although entries are whole is `ClientMisreads`.
`Counted` is what `size_of_server_insides` may be after the recursive walk: with the one
subdirectory, all files or those of the directory itself.  `readdir` gives any order, so the server
may send its files in any.

*Sum and multiply.* FIFOs are named by the run that made them, names by `path`: `unlink` clears a
name, who has the file open keeps it.  `open` looks up the name, then waits on the file for the
other end.  Array, sum and total are named by their run too; `result` is the set of messages that the
total was made of.  `sigchld` is one bit, as the kernel's pending signal is, and the handler may run
between any two steps of the parent.  SIGINT is possible in `sigsuspend` only, where it is not blocked.

*Terminal emulator.* `fds` holds the ends of pipes that each process has open: a fork copies the
shell's, and what the child does before `execl` is one step, because it closes only its own.  A pipe
holds `Cap` units.  Commands are sources of so many units, filters, or read one unit (`head`); what
they do is external.  The wrong `close` of the last child (`terminal_emulator.c:123`) is in `Keeps`.

## 3. Runs

| run | question | result |
|---|---|---|
| `shop_serve` | do pides, apparatus, timers and `totalOrder` balance in every interleaving of two cooks, two motos and two timers at once, with an oven that is full at two? | yes, also while the counter of the apparatus is -1 and a moto has garbage in its bag |
| `shop_live` | with one moto, are two clients in a row both served and told so only then, do the books balance, and do the threads implement `ShopService`? | yes |
| `shop_cancel` | what do a cancellation and SIGINT lose, of whom, and can they duplicate a pide? | pides of the canceller, and at a full queue; nothing is there twice until SIGINT unlocks `preparedMutex` under another thread |
| `copy_tree` | is a tree copied as `CopyJob` says, no file lost or handled twice, with SIGINT, a directory that cannot be read, a file that may not open and one whose reads and writes may fail; is the printed total what was written, but for what writes missed; and do the threads end? | yes, they end without SIGINT and failing `open` |
| `nehos_serve` | do counter, `child[]`, turns and the shared memory stay right, with SIGINT in server and client, forks that fail, commands of each kind, and whatever an earlier server left? | yes, as far as the properties go (section 5) |
| `nehos_answer` | is one process at a time in the memory, is every command that has an answer answered, and do uploads end? | yes, if nobody is interrupted and no consumer gives up |
| `nehos_upload` | does an upload arrive as it was sent? | no: two at a time are mixed up |
| `parking` | do the threads take turns, with SIGINT and a killed predecessor? | yes |
| `bibak_sync` | do server and client keep in step, has a client after the first round what the server lists, are contents kept until the second round, and does a session end? | yes, as long as `recv` takes whole entries |
| `bibak_keep` | do the contents of a file survive on one side at least? | no: the second round empties common files on both |
| `sum_runs` | is the total right and does it come, does the parent end, and do leftovers of a run stop at most two later ones? | yes, but for what SIGINT leaves behind, and for a parent whose second fork failed or whose children were gone before it slept |
| `terminal_lines` | do commands find readers, are no more children left than counted for, does the shell come back? | yes, for the lines it can get through |

### Bounds, and why they are enough

*PideShop.* Two cooks are the fewest that compete for the oven and the apparatus, two motos the fewest
that take pides from one another.  In `shop_serve` three pides meet an oven of two: two timers are armed
at once, the oven is full, a cook waits, wakes and takes its apparatus again; with two apparatus the
counter goes to 0 and to -1, and a moto does drive off with garbage (TLC reports each of these when it
is stated as an invariant).  Cooks, and motos, are symmetric.  Two clients in a row are the fewest for
what the first one leaves behind (counters, flags, pides in queues).  SIGINT comes before the first client,
while the first client is the last that was accepted, or when main waits for the next (`BurnIn`); the proofs
have it at any moment.  In `shop_live` there are fewer cooks than apparatus: otherwise sleeping cooks
may hold all of them (section 5).  Orders larger than `orderQueue` (200 in the code) are left out: main
would wait for `orderEmpty`, which nobody signals.

*Copy.* A buffer of two wraps with three files; two workers compete for every file.  The
tree has a directory in a directory, one that `opendir` fails on, a file that `open` may fail on and one
that `read` and `write` may fail on.

*neHos.* Three clients of a server for one are the fewest of which one is refused
(`clientCounter > numClients` admits two); two of them type one command in `nehos_serve`, each
with its own choice, so that every kind of command meets every other kind of transfer, and one of
these may get one SIGINT; in `nehos_answer` a client types a second command after its
first.  Files of one and two blocks in a memory of three leave rests of one another.  What earlier servers have
left is no token, or memory without the semaphores, in `nehos_serve`, and in `nehos_answer` nothing or one
token of either semaphore, which is where uploads can end.  Files
that fill the memory are excluded (`MemoryAssumption`), because nothing then ends the string
the consumer prints.  Connections are no more than `MAX_CLIENT` (`ServerAssumption`): beyond
it `child[]` overflows.

*Parking.* Two and one places instead of eight and four: the lot fills up, and the
behaviour at a full lot and at an empty one is that of the larger lot.  One kill leaves
up to two tokens behind.  The proofs lift both bounds.

*BibakBOX.* Two names, one of them in a subdirectory, and every pair of directories over them: a
file can be on either side, on both, or in the part of the list that gets lost.  A list that can be anything
is any subset.  (Three names take TLC beyond its time; the proofs are for any number.)  All sessions are
alike after the second, which starts from what the first left.

*Sum and multiply.* Four runs are the fewest for one that SIGINT ends, the two that fail because of
it, and one that works, beside what is left of the first.

*Terminal emulator.* Lines of up to four commands: with one, two and three the waits are fewer than
or as many as the children, with four they are more.  A pipe of one unit and a command that writes
four fill two pipes and the hands between them.  Two lines let `wait` take a child of the line before.

### Fairness

`shop_live`: each thread is scheduled when it can go on (weak
fairness for main), and a mutex or a resource that becomes free again and again is granted
in the end (strong fairness for cooks, timers and motos: the kernel's mutexes do not
promise more, and a weaker assumption would refute liveness by starvation only).  Clients
connect and read their socket.  Nobody has to cancel or to interrupt.  All other components need
no more than weak fairness of each thread or process (the processes of a run of neHos wait for a
semaphore finitely often; each child of `hw2.c` and each command of a line runs); nobody has to
type, to start a program or to send a signal.  `CHECK_DEADLOCK FALSE` stands where the
programs may stop for good: after a cancellation or SIGINT (a pide left in the oven, a
thread asleep for ever), after an `open` that fails with `buffer_mutex` locked, when the last
session, run or line is over, and in the runs that expect a violation.

## 4. Proofs

All for any value of the constants that the named assumptions allow: any number of cooks, motos,
workers, clients, runs and lines, any sizes.  The assumptions, `ShopAssumption`, `CopyAssumption`,
`ParkingAssumption`, `MemoryAssumption`, `ServerAssumption`, `BoxAssumption`, `RunsAssumption` and
`TerminalAssumption`, say that sizes are natural numbers, that sets of threads and names do not overlap
and are finite where something counts them, and that there is a worker.  TLC evaluates each on the runs.

Some results on the shop have a hypothesis, `NoSignals` (nobody cancels, no SIGINT: `CanCancel = {} /\
BurnIn = {}`, as in `shop_serve` and `shop_live`), because they are false without it, as section 5 says, and
`OrdersStillToCome` and `BooksBalance` suppose that what they count is finite (clients; motos).  They
restrict the constants, not the behaviours of a shop that has these constants; the number of motos and
cooks is free in all of them.

*Shop, types.* `TypeOK` is not inductive: `preparePide[c]` may be `Phantom`, and a cook that put it
in the oven would arm the timer of a pide that does not exist.  `IndInv` adds what the code
relies on: a cook past the order has a pide in hand (`CookHasPide`), a trip stays in its
bag although other threads' cancellations empty bags (`TripInBag`), and main stays within
the order (`OrderInRange`).  `Inductive` proves `Spec => []IndInv` thread by thread:
`CookStep`, `TimerStep`, `MotoStep`, `MainStep`, `BurnStep`, `ClientStep`, on lemmas on
what wake-ups do to the types.  `TypeCorrect` follows.

*Shop, no pide twice.* `NeverTwice` has no hypothesis: cancellations, SIGINT and several motos
included.  The exception it makes is part of the property: after SIGINT a thread may unlock
`preparedMutex` under another one (`Torn`), and then the code does hand out pides twice.
`PideNotDuplicated` counts, and `OnePlace` says the same without counting: each of the
places (queues, cooks, oven, timers, bags, customer) holds a pide once, the places exclude one another,
and what has not been ordered yet is in none.  The last part needs that a client is accepted once
(`Arrivals`).  There is one lemma per thread; cancellation only takes away from places.

*Shop, balances (`NoSignals`).* Two facts first.  `Calm`: no flag is set and no thread has left its
loop.  `FirstTimer`: the cook that arms the timer of a pide is the only one, so that every timer is
armed once.  Then each count is kept with the set it counts: `Apparatuses` (who has an apparatus;
`aparatAzaltildi` tells whether a cook between the oven and its wait does, `Holding`), `Baking` (who
answers for a pide in the oven).  `Apparatuses` keeps
the sum over all threads although `aparatus` may become negative.  `NoPideLost` joins two halves:
every pide ordered is somewhere (`Present`), and `OnePlace`.  A pide would be lost where a thread
overwrites what it holds or leaves a bag that is full: `TimerEmpty`, `BagRoom` and `LastOrder` (main
leaves a client only when all its orders are put) say that this does not happen.

`BooksBalance` is an action property, step by step: a moto that loads, whatever it loads, moves one from
`totalOrder` to its bag, one that sets out for a customer moves one from its bag to `totalReceived`.
`OrdersStillToCome` needs that a pide that `totalOrder` counts is `OnTheWay` to the motos: every
step keeps it there (`WayKept`, from `HeldPasses`) but the `Load` of it, which lowers `totalOrder` too.

*Shop, what a cancellation loses.* `LostAtBreakOnly` has no hypothesis.  Until SIGINT (`Closed`) the shop is
`Orderly`, cancellations or not: `OnePlace`, every timer armed once, a timer thread empty-handed before it
takes a pide, room in the bags.  A step that finds `siparisIptal` off then passes a pide on (`HeldPasses`),
except from a cook or timer thread that has left its wait by `break` for a queue that is still full.

*Copy.* `IndInv` says that the four places of a file exclude one another (`Exclusive`), that the
hands are filled where the code uses them, that the ring's two indices and the counter agree
(`RingShape`), that a worker never reads past the end of its file (`WithinFile`), and that a block that was
read has been written or missed or is in a worker's hands (`BlocksKept`).  `RingInShape` is a part of it.
`NoFileLost` adds `Kept`: a file of a directory that the walk has been through is in one
place at least, unless it could not be opened or SIGINT cut the walk short.  `StatisticBounded` bounds
`totalBytesCopied` although additions are lost and blocks are counted before they are written: what the
stale loads may put back is never more than what was read (`Statistic`), and when all workers have ended
each block read was written or missed.  `ImplementsJob` is the step simulation of `CopyJob`; that the walk's end means
that every file was offered needs that the open directories form a path from the top (`Visited`), that
what is below a directory behind the walk is behind it too (`Reached`), and what the end of each thread
says of the flags (`Ends`).

*Parking.* `Handshake` (tokens in flight = turns owed) is inductive with the types, and
tokens left by killed processes are part of the count.  `RoomToPark` needs in addition
that the owner's reading of `mFree` stays true while it waits (`PlaceKept`) and that values
read fit the lot (`ReadsFit`).

*neHos.* `IndInv` has three parts.  Types, among them that a client is named in `req` when
it is counted.  `Admission`: `clientCounter` covers the children, what main has loaded of it is
not behind what the handler has made of it, and a client that asked for `tryConnect` is not
past the test of the limit in vain; `Counted` and `Bounded` follow.  `Session`: nothing is in
FIFO and semaphores before client and child meet (`Fresh`), there is one turn (`Turn`), and
who has it finds in the FIFO what the other wrote (`Exchange`, which says also that the FIFO
is empty at the prompt); `TakeTurns` and `ReadOther` follow.  `SessionKept` carries a session
over everybody else's steps.  A client that got SIGINT is out of these theorems: it does read
its own commands.  `Orphans` needs that every child that runs is in `child[]`, or is about to be put
there by the parent that forked it (`Recorded`), so that the handler of SIGINT reaches it.
`SharedMemoryOneInside` is mutual exclusion by two semaphores: while no client has been interrupted, and if
no more than one token was left behind, the tokens and the processes between `sem_wait` and `sem_post`
are one at most (`Tokens`), whoever exits or gives up meanwhile; `InsideTransfers` says that a client is
there in a transfer only.  The memset of a starting producer is under no semaphore and is not
part of the statement.

*BibakBOX.* The stream between server and client has no marks, so that who reads has to know what comes.
`Rounds` says, for every place of the server and of the client, where the other may be and what is on the
way; `Counts`, that the files on the way and those still to be sent are as many as the client expects,
although the server's count of its files may be wrong (`Counted`); `Coming` and `Found`, that every file
the client lacks is among them.  `BibakInStep` and `BibakFirstRoundSync` follow, for as long as entries are
taken whole.  `BibakFirstRoundKeeps` is an action property; it needs that what each side has listed keeps its
contents there, or is in the server's own list (`FirstSession`, `Theirs`), so that a `compare` empties only what
the other one has.

*Sum and multiply.* Runs overlap only by what a killed one leaves: names in `/tmp` and children.
`Removed` and `LastMade` say to which run the names may belong, `OwnFifo` that a child of a
run opens the run's own FIFOs unless one before it was killed, `OwnMessages` what is in them, `Counted` that the
handler's counters agree with the children it has reaped.  `SumResultRight` and `SumStartsAgain` are
conjuncts of the invariant.

*Terminal emulator.* `ShellHolds` says which ends of pipes the shell has open, command by command, and
`ReadsOpen` that a command which has not closed its input keeps the reading end open: `TerminalHasReader`
follows from these two.  `TerminalFewLeft` counts children against waits, over all lines (`LeftSoFar`).

*Only model-checked.* Liveness (`EventuallyServed`, `Terminates`, `OwnerServed`, `Answered`, `UploadsEnd`,
`SessionEnds`, `ResultComes`, `ParentEnds`, `PromptReturns`), which is out of the prover's reach; and what
the shop promises with one moto and one client that cancels only (`DeliveredMeansServed`, `ServiceSpec`,
`OthersConserved`): with more of them it is false, so that there is nothing to prove for every value of
the constants.


## 5. What the code does differently from its documents

Two have a run (section 3: `nehos_upload`, `bibak_keep`).  TLC shows
the following too, each on a small instance; they are kept as notes on the hazards rather than as
runs:

* the cook that waits for a place in the oven logs that it left the apparatus (`server.c:456`) but
  takes it again before it sleeps (460): with as many cooks as apparatus nobody can empty the oven;
* a pide of a cancelled order is not discarded, as the assignment says, if it was in a queue or in a
  cook's hands: it is delivered in the next client's round;
* workers of the copy do not end when `open` fails on a file: `1801042624_main.c:136` leaves
  `buffer_mutex` locked;
* `aparatus` goes to -1 (`server.c:460` takes without a test), and -1 is not 0: the waits
  for `aparatus == 0` let everybody through;
* a cook that went to the oven without an apparatus, the order being cancelled, gives one
  back if the next client has been accepted meanwhile (`server.c:491`);
* a pide whose order is cancelled between `server.c:477` and `498` stays in the oven, with
  no timer;
* after SIGINT, threads unlock `preparedMutex` a second time (`server.c:327`, 587, 603): two threads may
  then be in `queue.c:27-45` at once, and hand out a pide twice;
* with two motos, one that comes back late may find `totalReceived` and `totalOrderSize` between the
  stores of 612 and 614 and tell the next client DELIVERED before anything is made;
* with two motos, one may drive off with what `dequeue` returns on an empty queue: it leaves its
  wait because `totalOrder` is 0, and main raises it before the test of `server.c:557`;
* with two motos, or after a cancellation, DELIVERED is sent before the last pide arrives
  (`server.c:204` counts departures);
* additions to `totalBytesCopied` are lost (`1801042624_main.c:230`), and a block that `write` fails on, or
  writes in part, stays counted; a copy that a failing `read` or `write` leaves short is closed like any other;
* an attendant parks a vehicle nobody brought: after a kill, and at the end, when the two
  posts of `hw3.c:106` release it;
* SIGINT does not always end the parking lot: an attendant that reads `runStatus` before
  its `sem_wait` leaves, and the owner waits for it;
* a client of neHos waits for ever after `readF` without a line (`server.c:466`), after a
  `writeT` that finds `temp` gone (`server.c:352`), in a download of a file that does not
  exist (`common.c:241`), and in an upload when a consumer gave up before the memory existed
  (`common.c:274`) or could not write its file (`common.c:298`): the producer's token is then nobody's, and
  the next producer waits for it;
* a producer that starts clears the memory of a transfer under way (`common.c:225`);
* the decrement of `clientCounter` in the handler of SIGCHLD may be lost (`server.c:868`), and a place with it;
* neHos serves one client more than its argument says (`server.c:857`), `connect` never waits
  for a place, and SIGINT ends the first client only (`server.c:105` fills every place of
  `clients[]` with it);
* a file that only the client of BibakBOX has is created empty on the server and never sent
  (`server.c:412`); in the next session the server sends it back, empty;
* `recv` without `MSG_WAITALL` may take less than an entry of a list (`hw6/server/server.c:176`,
  `hw6/client/client.c:137`, 460), and no result is tested: `compare` then opens with `O_TRUNC` what
  is in uninitialized memory;
* when the second fork of `hw2.c` fails (363) the first child waits in `open` for a reader that never
  comes, and the parent for the child;
* `hw2.c` says "All childs are dead" when one of two is (410), sleeps for ever when both end between
  404 and 407, and after a SIGINT a new run may print a total made with the sum of an old one;
* the last command of a line in the terminal emulator never reads the end of its input
  (`terminal_emulator.c:123`), so that `sort` or `wc` there print nothing; a line of three commands
  whose second one writes more than a pipe holds stops the shell (230); ctrl+c at the prompt runs the
  first command of the last line again (58-60), although the handler says that it does nothing.

## 6. Not modelled

Of the shop: the statistics (`moto[].received`), the messages PREPARED and ON_DELIVERY,
the log, SIGPIPE, travelling times, `pthread_create` failing, SIGINT during the first `recv` of a client
(`server.c:787`, whose result is not tested).  Of the copy: the contents of blocks and their position in a copy
after a read or write that failed, the argument checks, types other than file and directory, the creation of the destination
directories.  Of the parking lot: `carID` and the log lines, `sem_open` failing.
Of neHos: what commands do to the files of the server (two `writeT` at once may mix lines in `temp`), the
log and its locks, the errors of `mkfifo`, those of `sem_open` and `shm_open` but for objects that do not
exist, files longer than the memory (only their beginning is sent), the unused `producer` and
`consumerr`. Of BibakBOX: a server that is killed (one that crashes is), how far the client gets with a
list or a file of which `recv` took a part (`ClientLost` has it end in one step, with any files emptied),
a second client at the same time (it overwrites `srv.fd` and shares the lists), modes and times of files,
`difference[64]`, functions that nobody calls. Of sum and multiply: the arithmetic, arrays that overflow
buffers of 32 and 12 bytes (`common.c:216, 287` never enlarge them), two runs at once. Of the terminal
emulator: the parsing of the line, more commands than `MAX_TOKENS`, `pipe` failing, the end of the
terminal's input, redirections (the shells that are executed do them).

pCp (`hw5`) is the earlier form of the parallel copy; what distinguishes it, a stack for the ring, is
no new interaction.  The first versions of the file server (`hw3`, `hw4`) have neHos' protocol without
its transfers.  Grade management forks one child at a time and waits for it; the append, dup and timer
exercises have a single thread.

## 7. Plan

1. An abstract specification of a session of neHos (one response per command), implemented
   by `FileServer` without interrupts; a second client of BibakBOX.
