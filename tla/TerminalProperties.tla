------------------------- MODULE TerminalProperties -------------------------
(***************************************************************************)
(* What the terminal emulator promises for lines of several commands.      *)
(***************************************************************************)
EXTENDS Terminal

\* Every variable of terminal_emulator.c stays in its range.
TypeOK ==
    /\ sh \in {"prompt", "fork", "close", "wait", "ended"}
    /\ Len(typed) <= MaxLines /\ i \in 0..Longest /\ waits \in 0..Longest
    /\ proc \in [Procs -> {"off", "setup", "run", "enough", "zombie", "reaped"}]
    /\ fds \in [Procs \cup {Shell} -> SUBSET (Procs \X {"r", "w"})]
    /\ pipe \in [Procs -> 0..Cap] /\ holds \in [Procs -> Nat] /\ ints \in 0..MaxInts

\* A command that writes to a pipe finds a reader until the next command has ended:
\* main keeps the pipe open while that command is not yet forked, and no command is
\* ended by SIGPIPE too early.
HasReader ==
    \A p \in Procs :
        /\ proc[p] \in {"run", "enough"} /\ ~IsLast(p)
        /\ proc[After(p)] \notin {"zombie", "reaped"}
        /\ sh # "ended"
        => Open(p, "r")

Left == {p \in Procs : proc[p] \notin {"off", "reaped"}}

\* Between two lines, children are left only of lines with one or two commands, for
\* which main waits once too little, and one for each wait that ctrl+c interrupted;
\* a line of three commands or more leaves none, though wait takes any child.
FewLeft ==
    sh = "prompt" =>
        Cardinality(Left) <= Cardinality({l \in DOMAIN typed : Len(typed[l]) <= 2}) + ints

\* How much command k of the line c writes.
Writes(c, k) ==
    LET heads == {j \in 2..k : c[j] = "head"}
    IN  IF heads # {} /\ Out[c[1]] > 1 THEN 1 ELSE Out[c[1]]

\* Lines that main gets through: two commands at most; or a last command that does not
\* wait for the end of its input, since it keeps the writing end of it, and commands
\* in the middle whose output fits into a pipe that nobody reads yet.
GetsThrough(c) ==
    \/ Len(c) <= 2
    \/ /\ c[Len(c)] = "head" /\ Out[c[1]] > 0
       /\ \A k \in 2..(Len(c) - 1) : Writes(c, k) <= Cap

\* main does not wait for ever, for children that wait for each other or for main:
\* it comes to the next line, unless ctrl+c ends a command whose output is awaited.
PromptReturns ==
    (sh \in {"fork", "close", "wait"} /\ GetsThrough(typed[line]))
      ~> sh \in {"prompt", "ended"} \/ ints > 0
=============================================================================
