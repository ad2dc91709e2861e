------------------------------ MODULE Terminal ------------------------------
(***************************************************************************)
(* The terminal emulator, hw2: it reads a line, makes the pipes between    *)
(* its commands, and forks a child for each command; before it goes on it  *)
(* closes the pipes of the earlier ones and waits for as many children as  *)
(* there are earlier commands.                                             *)
(*                                                                         *)
(* A command writes what Out says and reads nothing (a source), passes on  *)
(* all it reads ("filter"), or one unit of it ("head").  The process of    *)
(* command k of line l is <<l, k>>, and so is the pipe it writes to.       *)
(***************************************************************************)
EXTENDS Naturals, Sequences, FiniteSets

CONSTANTS
    Sources, Out,     \* commands that only write, and how many units each does
    Lines,            \* the lines that may be typed: sequences of commands
    Cap,              \* how many units a pipe holds
    MaxLines, MaxInts \* bounds: lines, and SIGINTs

ASSUME TerminalAssumption ==
    /\ {"filter", "head"} \cap Sources = {} /\ Out \in [Sources -> Nat]
    /\ \A c \in Lines : /\ Len(c) \in 1..4 /\ c[1] \in Sources
                        /\ \A k \in 2..Len(c) : c[k] \in {"filter", "head"}
    /\ Cap \in Nat \ {0} /\ MaxLines \in Nat /\ MaxInts \in Nat

Longest == 4      \* bound: commands of a line
Procs == (1..MaxLines) \X (1..Longest)
Shell == <<0, 0>>

VARIABLES
    sh,            \* where main is
    typed,         \* the lines so far
    i, waits,      \* the command main is at, and how often it has still to wait
    proc,          \* the state of each child
    fds,           \* the ends of pipes each process has open
    pipe,          \* how much is in each pipe
    holds,         \* what a child has still to write
    ints           \* the SIGINTs so far

vars == <<sh, typed, i, waits, proc, fds, pipe, holds, ints>>

line == Len(typed)
command_num == Len(typed[line])

Init ==
    /\ sh = "prompt" /\ typed = << >> /\ i = 0 /\ waits = 0
    /\ proc = [p \in Procs |-> "off"]
    /\ fds = [p \in Procs \cup {Shell} |-> {}]
    /\ pipe = [p \in Procs |-> 0] /\ holds = [p \in Procs |-> 0]
    /\ ints = 0

ShTo(from, to) == sh = from /\ sh' = to

Ends(l, ks) == ({l} \X ks) \X {"r", "w"}
Open(p, end) == \E q \in DOMAIN fds : <<p, end>> \in fds[q]
After(p)  == <<p[1], p[2] + 1>>
Before(p) == <<p[1], p[2] - 1>>
Kind(p)   == typed[p[1]][p[2]]
IsLast(p) == p[2] = Len(typed[p[1]])

-----------------------------------------------------------------------------
(* main *)

\* pipe() for all pairs of neighbours.
Begin(c) ==
    /\ line < MaxLines
    /\ typed' = Append(typed, c)
    /\ i' = 1
    /\ fds' = [fds EXCEPT ![Shell] = Ends(line + 1, 1..(Len(c) - 1))]

ReadLine(c) ==
    /\ ShTo("prompt", "fork") /\ Begin(c)
    /\ UNCHANGED <<waits, proc, pipe, holds, ints>>

\* :q
Quit ==
    /\ ShTo("prompt", "ended")
    /\ UNCHANGED <<typed, i, waits, proc, fds, pipe, holds, ints>>

Fork ==
    /\ ShTo("fork", "close")
    /\ proc' = [proc EXCEPT ![<<line, i>>] = "setup"]
    /\ fds' = [fds EXCEPT ![<<line, i>>] = fds[Shell]]
    /\ UNCHANGED <<typed, i, waits, pipe, holds, ints>>

\* exit(-1)
ForkFails ==
    /\ ShTo("fork", "ended")
    /\ fds' = [fds EXCEPT ![Shell] = {}]
    /\ UNCHANGED <<typed, i, waits, proc, pipe, holds, ints>>

\* Bug: the pipe to the next command is closed too.
ClosePipesEarly ==
    /\ ShTo("close", "wait")
    /\ fds' = [fds EXCEPT ![Shell] = @ \ Ends(line, 1..i)]
    /\ waits' = i - 1
    /\ UNCHANGED <<typed, i, proc, pipe, holds, ints>>

\* Bug: one wait too many.
ClosePipesWaitAll ==
    /\ ShTo("close", "wait")
    /\ fds' = [fds EXCEPT ![Shell] = @ \ Ends(line, 1..(i - 1))]
    /\ waits' = i
    /\ UNCHANGED <<typed, i, proc, pipe, holds, ints>>

\* Bug: one wait for each command but the first.
ClosePipesWaitOnce ==
    /\ ShTo("close", "wait")
    /\ fds' = [fds EXCEPT ![Shell] = @ \ Ends(line, 1..(i - 1))]
    /\ waits' = IF i = 1 THEN 0 ELSE 1
    /\ UNCHANGED <<typed, i, proc, pipe, holds, ints>>

\* The pipes before command i, and a wait for each command before it.
ClosePipes ==
    /\ ShTo("close", "wait")
    /\ fds' = [fds EXCEPT ![Shell] = @ \ Ends(line, 1..(i - 1))]
    /\ waits' = i - 1
    /\ UNCHANGED <<typed, i, proc, pipe, holds, ints>>

\* wait() takes any child, of this line or of an earlier one.
Wait ==
    /\ sh = "wait" /\ waits > 0
    /\ waits' = waits - 1
    /\ \/ \E p \in Procs : proc[p] = "zombie" /\ proc' = [proc EXCEPT ![p] = "reaped"]
       \/ /\ \A p \in Procs : proc[p] \in {"off", "reaped"}
          /\ UNCHANGED proc
    /\ UNCHANGED <<sh, typed, i, fds, pipe, holds, ints>>

NextCommand ==
    /\ waits = 0
    /\ \/ ShTo("wait", "fork") /\ i < command_num /\ i' = i + 1
       \/ ShTo("wait", "prompt") /\ i = command_num /\ i' = 0
    /\ UNCHANGED <<typed, waits, proc, fds, pipe, holds, ints>>

Main ==
    \/ Fork \/ ForkFails \/ ClosePipes \/ Wait \/ NextCommand

-----------------------------------------------------------------------------
(* The children. *)

\* The ends that command k of n does not close before execl.  The last one closes
\* descriptor 0 in place of the write end of the pipe it reads.
Keeps(l, k, n) ==
    IF n = 1 THEN {}
    ELSE IF k = 1 THEN {<< <<l, 1>>, "w">>}
    ELSE IF k = n THEN {<< <<l, k - 1>>, "r">>, << <<l, k - 1>>, "w">>}
    ELSE {<< <<l, k - 1>>, "r">>, << <<l, k>>, "w">>}

Exec(p) ==
    /\ proc[p] = "setup" /\ proc' = [proc EXCEPT ![p] = "run"]
    /\ fds' = [fds EXCEPT ![p] = @ \cap Keeps(p[1], p[2], Len(typed[p[1]]))]
    /\ holds' = [holds EXCEPT ![p] = IF Kind(p) \in Sources THEN Out[Kind(p)] ELSE 0]
    /\ UNCHANGED <<sh, typed, i, waits, pipe, ints>>

\* A child that ends closes all it has open.
Ended(p) ==
    /\ proc' = [proc EXCEPT ![p] = "zombie"]
    /\ fds' = [fds EXCEPT ![p] = {}]

\* A unit goes to the terminal or to the pipe if there is room; if no one can read
\* the pipe, SIGPIPE ends the command.
Write(p) ==
    /\ proc[p] \in {"run", "enough"} /\ holds[p] > 0
    /\ \/ /\ IsLast(p)
          /\ holds' = [holds EXCEPT ![p] = @ - 1]
          /\ UNCHANGED <<proc, fds, pipe>>
       \/ /\ ~IsLast(p) /\ Open(p, "r") /\ pipe[p] < Cap
          /\ holds' = [holds EXCEPT ![p] = @ - 1]
          /\ pipe' = [pipe EXCEPT ![p] = @ + 1]
          /\ UNCHANGED <<proc, fds>>
       \/ /\ ~IsLast(p) /\ ~Open(p, "r")
          /\ Ended(p)
          /\ UNCHANGED <<pipe, holds>>
    /\ UNCHANGED <<sh, typed, i, waits, ints>>

Read(p) ==
    /\ proc[p] = "run" /\ Kind(p) \notin Sources /\ holds[p] = 0
    /\ pipe[Before(p)] > 0
    /\ pipe' = [pipe EXCEPT ![Before(p)] = @ - 1]
    /\ holds' = [holds EXCEPT ![p] = 1]
    /\ proc' = [proc EXCEPT ![p] = IF Kind(p) = "head" THEN "enough" ELSE "run"]
    /\ UNCHANGED <<sh, typed, i, waits, fds, ints>>

\* A command ends when it has written all, or at the end of its input.
End(p) ==
    /\ holds[p] = 0
    /\ \/ proc[p] = "enough"
       \/ proc[p] = "run" /\ Kind(p) \in Sources
       \/ proc[p] = "run" /\ Kind(p) \notin Sources
            /\ pipe[Before(p)] = 0 /\ ~Open(Before(p), "w")
    /\ Ended(p)
    /\ UNCHANGED <<sh, typed, i, waits, pipe, holds, ints>>

Child(p) == Exec(p) \/ Write(p) \/ Read(p) \/ End(p)

-----------------------------------------------------------------------------
(* ctrl+c *)

\* The commands that run are ended.  handler() only prints, but a wait() that it
\* interrupts returns, and so does the read() of the next line: buff still holds the
\* first command of the last line, up to the first "|", which is run again.  (The zero
\* byte goes to buff[-1], which holds nothing; before the first line buff is not yet
\* written, and nothing is said of that case.)
Interrupt ==
    /\ ints < MaxInts /\ sh # "ended"
    /\ ints' = ints + 1
    /\ LET killed == {p \in Procs : proc[p] \in {"run", "enough"}}
           alive  == [p \in Procs \cup {Shell} |-> IF p \in killed THEN {} ELSE fds[p]]
       IN  /\ proc' = [p \in Procs |-> IF p \in killed THEN "zombie" ELSE proc[p]]
           /\ \/ /\ sh \in {"fork", "close", "wait"} /\ fds' = alive
                 /\ UNCHANGED <<sh, typed, i, waits>>
              \/ /\ sh = "wait" /\ waits > 0 /\ fds' = alive
                 /\ waits' = waits - 1
                 /\ UNCHANGED <<sh, typed, i>>
              \/ /\ sh = "prompt" /\ line \in 1..(MaxLines - 1) /\ fds' = alive
                 /\ sh' = "fork" /\ i' = 1
                 /\ typed' = Append(typed, <<typed[line][1]>>)
                 /\ UNCHANGED waits
    /\ UNCHANGED <<pipe, holds>>

Next ==
    \/ Quit \/ Main \/ Interrupt
    \/ \E c \in Lines : ReadLine(c)
    \/ \E p \in Procs : Child(p)

Spec == Init /\ [][Next]_vars

\* Every process runs; no one has to type a line or ctrl+c.
FairSpec == Spec /\ WF_vars(Main) /\ \A p \in Procs : WF_vars(Child(p))
=============================================================================
