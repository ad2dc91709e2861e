--------------------------- MODULE TerminalProofs ---------------------------
(***************************************************************************)
(* What is proved of Terminal, for any commands, lines of one to four of   *)
(* them, pipes of any size, and any number of lines and of SIGINTs: a      *)
(* command that writes has a reader, and few children are left behind.     *)
(***************************************************************************)
EXTENDS TerminalProperties, FiniteSetTheorems, TLAPS

\* A line is a line that may be typed, or the first command of the last one.
LinesTyped == typed \in Seq(Lines \cup {<<c>> : c \in Sources})

\* The command main is at is one of the line, and fewer waits are left than
\* there are commands up to it.
At ==
    /\ sh \in {"fork", "close", "wait"} => line >= 1 /\ i \in 1..command_num
    /\ sh = "prompt" => i = 0
    /\ waits > 0 => sh = "wait" /\ waits < i

\* There is a command p.
Within(p) == p[1] <= line /\ p[2] <= Len(typed[p[1]])

OnlyCommands == \A p \in Procs : proc[p] # "off" => Within(p)

\* Main has come past the fork of command p.
Forked(p) ==
    /\ Within(p)
    /\ p[1] = line => p[2] < i \/ (p[2] = i /\ sh \in {"close", "wait"}) \/ sh = "prompt"

ForkedSoFar == sh # "ended" => \A p \in Procs : proc[p] # "off" <=> Forked(p)

\* Main has the pipes open that commands not yet forked need.
ShellHolds ==
    fds[Shell] = IF sh \in {"fork", "close"} THEN Ends(line, (IF i = 1 THEN 1 ELSE i - 1)..(command_num - 1))
                 ELSE IF sh = "wait" THEN Ends(line, i..(command_num - 1))
                 ELSE {}

\* A command has the pipe open that it is to read.
ReadsOpen ==
    \A p \in Procs : proc[p] \in {"setup", "run", "enough"} /\ p[2] > 1 => <<Before(p), "r">> \in fds[p]

\* The lines with one or two commands up to line l.
ShortSet(l) == {k \in 1..l : Len(typed[k]) <= 2}
Short(l) == Cardinality(ShortSet(l))

\* How many children of this line are left, or less: a fork adds one, a wait takes one.
Extra ==
    IF sh = "fork" THEN IF i \in {2, 3} THEN 1 ELSE 0
    ELSE IF sh = "close" THEN IF i \in {2, 3} THEN 2 ELSE 1
    ELSE IF i \in {1, 2} THEN 1 + waits
    ELSE IF i = 3 THEN waits
    ELSE IF waits = 3 THEN 1 ELSE 0

\* The children left of all lines: FewLeft, also in the middle of a line.
LeftSoFar ==
    /\ sh \in {"fork", "close", "wait"} => Cardinality(Left) <= Short(line - 1) + Extra + ints
    /\ sh = "prompt" => Cardinality(Left) <= Short(line) + ints

\* The inductive invariant for who has which pipe open.
Structure == TypeOK /\ LinesTyped /\ At /\ OnlyCommands /\ ForkedSoFar /\ ShellHolds /\ ReadsOpen

-----------------------------------------------------------------------------
\* What is known of a line that was typed.
LEMMA LineFacts ==
    ASSUME LinesTyped, NEW l \in 1..line
    PROVE  /\ Len(typed[l]) \in 1..4 /\ typed[l][1] \in Sources
           /\ \A k \in 2..Len(typed[l]) : typed[l][k] \in {"filter", "head"}
<1>1. typed[l] \in Lines \cup {<<c>> : c \in Sources}  BY DEF LinesTyped, line
<1>2. CASE typed[l] \in Lines  BY <1>2, TerminalAssumption
<1>3. ASSUME NEW c \in Sources, typed[l] = <<c>> PROVE Len(typed[l]) = 1 /\ typed[l][1] \in Sources
  BY <1>3
<1> QED  BY <1>1, <1>2, <1>3

\* One line more.
LEMMA LineAdded ==
    ASSUME LinesTyped, NEW c, c \in Lines \cup {<<d>> : d \in Sources}, typed' = Append(typed, c)
    PROVE  /\ LinesTyped' /\ line' = line + 1 /\ line \in Nat
           /\ \A l \in 1..line : typed'[l] = typed[l]
           /\ typed'[line'] = c
<1> DEFINE S == Lines \cup {<<d>> : d \in Sources}
<1>1. typed \in Seq(S) /\ c \in S  BY DEF LinesTyped
<1>2. typed' \in Seq(S)  BY <1>1
<1> HIDE DEF S
<1>3. Len(typed') = Len(typed) + 1 /\ Len(typed) \in Nat  BY <1>1
<1>4. \A l \in 1..Len(typed) : typed'[l] = typed[l]  BY <1>1
<1>5. typed'[Len(typed) + 1] = c  BY <1>1
<1> QED  BY <1>2, <1>3, <1>4, <1>5 DEF LinesTyped, line, S

\* The terminal starts in the structure.
LEMMA InitStructure == Init => Structure
<1> USE TerminalAssumption
<1> SUFFICES ASSUME Init PROVE Structure  OBVIOUS
<1> USE DEF Init, Procs, Shell, Longest, line
<1>1. TypeOK /\ LinesTyped  BY DEF TypeOK, LinesTyped
<1>2. At /\ OnlyCommands /\ ForkedSoFar  BY DEF At, OnlyCommands, ForkedSoFar, Forked, Within
<1>3. ShellHolds /\ ReadsOpen  BY DEF ShellHolds, ReadsOpen
<1> QED  BY <1>1, <1>2, <1>3 DEF Structure

\* A command that is to be read is held open.
LEMMA StructureHasReader == Structure => HasReader
<1> SUFFICES ASSUME Structure, NEW p \in Procs, proc[p] \in {"run", "enough"}, ~IsLast(p),
                    proc[After(p)] \notin {"zombie", "reaped"}, sh # "ended"
             PROVE  Open(p, "r")
  BY DEF HasReader
<1>1. /\ DOMAIN fds = Procs \cup {Shell}
      /\ proc \in [Procs -> {"off", "setup", "run", "enough", "zombie", "reaped"}]
      /\ typed \in Seq(Lines \cup {<<c>> : c \in Sources})
  BY DEF Structure, TypeOK, LinesTyped
<1>2. PICK l \in 1..MaxLines, k \in 1..Longest : p = <<l, k>>  BY DEF Procs
<1>3. Within(p)  BY DEF Structure, OnlyCommands
<1>4. l \in 1..line /\ k + 1 <= Len(typed[l]) /\ k + 1 <= 4
  <2>1. line \in Nat  BY <1>1 DEF line
  <2>2. l \in 1..line /\ k <= Len(typed[l]) /\ k # Len(typed[l])  BY <1>2, <1>3, <2>1 DEF Within, IsLast
  <2>3. Len(typed[l]) \in 1..4  BY <2>2, LineFacts DEF Structure
  <2>4. k \in 1..4  BY DEF Longest
  <2>5. PICK n \in 1..4 : n = Len(typed[l])  BY <2>3
  <2>6. k <= n  BY <2>2, <2>5
  <2>7. k # n  BY <2>2, <2>5
  <2>8. k + 1 <= n /\ k + 1 <= 4  BY <2>4, <2>6, <2>7
  <2> QED  BY <2>2, <2>5, <2>8
<1>5. After(p) = <<l, k + 1>> /\ After(p) \in Procs /\ Before(After(p)) = p /\ Within(After(p))
  BY <1>2, <1>4 DEF After, Before, Procs, Longest, Within
<1>6. CASE proc[After(p)] \in {"setup", "run", "enough"}
  <2>1. <<p, "r">> \in fds[After(p)]  BY <1>2, <1>5, <1>6 DEF Structure, ReadsOpen
  <2> QED  BY <1>1, <1>5, <2>1 DEF Open
<1>7. CASE proc[After(p)] = "off"
  <2>1. Forked(p) /\ ~Forked(After(p))  BY <1>5, <1>7 DEF Structure, ForkedSoFar
  <2>2. l = line /\ sh \in {"fork", "close", "wait"} /\ i \in 1..command_num
    BY <1>2, <1>5, <2>1 DEF Forked, Structure, TypeOK, At
  <2>3. \/ k = i /\ sh \in {"close", "wait"}
        \/ k = i - 1 /\ sh = "fork"
    BY <1>2, <1>5, <2>1, <2>2 DEF Forked, command_num
  <2>4. k \in (IF sh \in {"fork", "close"} THEN IF i = 1 THEN 1 ELSE i - 1 ELSE i)..(command_num - 1)
    BY <1>1, <1>4, <2>2, <2>3, LineFacts DEF command_num, Structure
  <2>5. <<p, "r">> \in fds[Shell]
    BY <1>2, <2>2, <2>4 DEF Structure, ShellHolds, Ends
  <2> QED  BY <1>1, <2>5 DEF Open
<1> QED  BY <1>1, <1>5, <1>6, <1>7

\* Types.
LEMMA TypeInv == Structure /\ Next => TypeOK' /\ LinesTyped'
<1> SUFFICES ASSUME Structure, Next PROVE TypeOK' /\ LinesTyped'  OBVIOUS
<1> USE TerminalAssumption DEF TypeOK, ShTo
<1>0. TypeOK /\ LinesTyped /\ At  BY DEF Structure
<1>1. CASE Quit  BY <1>0, <1>1 DEF Quit, LinesTyped
<1>2. ASSUME NEW c \in Lines, ReadLine(c) PROVE TypeOK' /\ LinesTyped'
  <2>1. LinesTyped' /\ line' = line + 1 /\ line \in Nat
    BY <1>0, <1>2, LineAdded DEF ReadLine, Begin
  <2>2. line + 1 <= MaxLines /\ 1..(Len(c) - 1) \subseteq 1..Longest
    <3>1. line < MaxLines  BY <1>2 DEF ReadLine, Begin
    <3>2. Len(c) \in 1..4  OBVIOUS
    <3> QED  BY <2>1, <3>1, <3>2 DEF Longest
  <2>3. Ends(line + 1, 1..(Len(c) - 1)) \subseteq Procs \X {"r", "w"}
    BY <2>1, <2>2 DEF Ends, Procs
  <2> QED  BY <1>0, <1>2, <2>1, <2>2, <2>3 DEF ReadLine, Begin, line, Longest
<1>3. CASE Fork  BY <1>0, <1>3 DEF Fork, LinesTyped
<1>4. CASE ForkFails  BY <1>0, <1>4 DEF ForkFails, LinesTyped
<1>5. CASE ClosePipes
  <2>1. i \in 1..4  BY <1>0, <1>5 DEF ClosePipes, Longest, At
  <2> QED  BY <1>0, <1>5, <2>1 DEF ClosePipes, LinesTyped, Longest
<1>6. CASE Wait
  <2>1. proc' \in [Procs -> {"off", "setup", "run", "enough", "zombie", "reaped"}]  BY <1>0, <1>6 DEF Wait
  <2> QED  BY <1>0, <1>6, <2>1 DEF Wait, LinesTyped, Longest
<1>7. CASE NextCommand
  <2>1. i <= command_num /\ command_num \in 1..4
     BY <1>0, <1>7, LineFacts DEF NextCommand, At, command_num, line, LinesTyped
  <2> QED  BY <1>0, <1>7, <2>1 DEF NextCommand, LinesTyped, Longest
<1>8. CASE Interrupt
  <2> DEFINE killed == {p \in Procs : proc[p] \in {"run", "enough"}}
             alive  == [p \in Procs \cup {Shell} |-> IF p \in killed THEN {} ELSE fds[p]]
  <2>1. alive \in [Procs \cup {Shell} -> SUBSET (Procs \X {"r", "w"})]  BY <1>0
  <2>2. proc' \in [Procs -> {"off", "setup", "run", "enough", "zombie", "reaped"}]  BY <1>0, <1>8 DEF Interrupt
  <2>3. fds' = alive /\ ints' \in 0..MaxInts /\ UNCHANGED <<pipe, holds>>  BY <1>0, <1>8 DEF Interrupt
  <2>4. CASE UNCHANGED <<sh, typed, i>> /\ waits' \in {waits, waits - 1} /\ waits' >= 0
    BY <1>0, <2>1, <2>2, <2>3, <2>4 DEF LinesTyped, Longest
  <2>5. CASE /\ line \in 1..(MaxLines - 1) /\ sh' = "fork" /\ i' = 1
             /\ typed' = Append(typed, <<typed[line][1]>>) /\ UNCHANGED waits
    <3>1. typed[line][1] \in Sources  BY <1>0, <2>5, LineFacts
    <3>2. LinesTyped' /\ line' = line + 1 /\ line \in Nat  BY <1>0, <2>5, <3>1, LineAdded
    <3> QED  BY <1>0, <2>1, <2>2, <2>3, <2>5, <3>2 DEF line, Longest
  <2> QED  BY <1>0, <1>8, <2>4, <2>5 DEF Interrupt
<1>9. ASSUME NEW p \in Procs, Child(p) PROVE TypeOK' /\ LinesTyped'
  <2> USE DEF LinesTyped
  <2>1. CASE Exec(p)  BY <1>0, <1>9, <2>1 DEF Exec
  <2>2. CASE Write(p)
    <3>0. pipe[p] \in 0..Cap /\ (pipe[p] < Cap => pipe[p] + 1 \in 0..Cap)  BY <1>0, <1>9
    <3>1. holds[p] \in Nat \ {0}  BY <1>0, <1>9, <2>2 DEF Write
    <3>2. holds' \in [Procs -> Nat]  BY <1>0, <2>2, <3>1 DEF Write
    <3>3. pipe' \in [Procs -> 0..Cap]
      <4>1. CASE UNCHANGED pipe  BY <1>0, <4>1
      <4>2. CASE pipe[p] < Cap /\ pipe' = [pipe EXCEPT ![p] = @ + 1]  BY <1>0, <3>0, <4>2
      <4> QED  BY <2>2, <4>1, <4>2 DEF Write
    <3> QED  BY <1>0, <1>9, <2>2, <3>2, <3>3 DEF Write, Ended
  <2>3. CASE Read(p)
    <3>1. pipe' \in [Procs -> 0..Cap]
      <4>1. Before(p) \in Procs => pipe[Before(p)] - 1 \in 0..Cap  BY <1>0, <2>3 DEF Read
      <4> QED  BY <1>0, <2>3, <4>1 DEF Read
    <3>2. proc' \in [Procs -> {"off", "setup", "run", "enough", "zombie", "reaped"}]  BY <1>0, <2>3 DEF Read
    <3> QED  BY <1>0, <1>9, <2>3, <3>1, <3>2 DEF Read
  <2>4. CASE End(p)  BY <1>0, <1>9, <2>4 DEF End, Ended
  <2> QED  BY <1>9, <2>1, <2>2, <2>3, <2>4 DEF Child
<1> QED  BY <1>1, <1>2, <1>3, <1>4, <1>5, <1>6, <1>7, <1>8, <1>9 DEF Next, Main

\* A child that is there stays in the table, and the others come with Fork.
LEMMA SameForked ==
    ASSUME TypeOK, NEW p \in Procs, Child(p) \/ Wait \/ Interrupt
    PROVE  \A q \in Procs : proc'[q] = "off" <=> proc[q] = "off"
<1> USE DEF TypeOK
<1>1. CASE Child(p)  BY <1>1 DEF Child, Exec, Write, Read, End, Ended
<1>2. CASE Wait  BY <1>2 DEF Wait
<1>3. CASE Interrupt  BY <1>3 DEF Interrupt
<1> QED  BY <1>1, <1>2, <1>3

\* What ctrl+c does to main: nothing, or one wait less, or the first command again.
InterruptHere ==
    UNCHANGED <<sh, typed, i>> /\ (waits' = waits \/ (sh = "wait" /\ waits > 0 /\ waits' = waits - 1))
InterruptPrompt ==
    /\ line \in 1..(MaxLines - 1) /\ sh = "prompt" /\ sh' = "fork" /\ i' = 1
    /\ typed' = Append(typed, <<typed[line][1]>>) /\ UNCHANGED waits

\* Those are the two cases of Interrupt.
LEMMA InterruptCases == Interrupt => InterruptHere \/ InterruptPrompt
  BY DEF Interrupt, InterruptHere, InterruptPrompt

\* How far main has come.
LEMMA ForkedInv == Structure /\ Next => At' /\ OnlyCommands' /\ ForkedSoFar'
<1> SUFFICES ASSUME Structure, Next PROVE At' /\ OnlyCommands' /\ ForkedSoFar'  OBVIOUS
<1>0. TypeOK /\ LinesTyped /\ At /\ OnlyCommands /\ ForkedSoFar  BY DEF Structure
<1>a. /\ line \in Nat /\ i \in Nat /\ waits \in Nat
      /\ \A l \in 1..line : Len(typed[l]) \in 1..4
      /\ proc \in [Procs -> {"off", "setup", "run", "enough", "zombie", "reaped"}]
  BY <1>0, LineFacts DEF TypeOK, LinesTyped, line, Longest
<1> USE DEF ShTo, At, OnlyCommands, ForkedSoFar, Forked, Within
<1>1. CASE Quit  BY <1>0, <1>1 DEF Quit, line, command_num
<1>2. ASSUME NEW c \in Lines, ReadLine(c) PROVE At' /\ OnlyCommands' /\ ForkedSoFar'
  <2>1. /\ line' = line + 1 /\ \A l \in 1..line : typed'[l] = typed[l]
        /\ typed'[line'] = c
    BY <1>0, <1>2, LineAdded DEF ReadLine, Begin
  <2>2. Len(c) \in 1..4  BY TerminalAssumption
  <2>3. \A p \in Procs : p[1] \in Nat \ {0} /\ p[2] \in Nat \ {0}  BY TerminalAssumption DEF Procs, Longest
  <2>4. sh = "prompt" /\ sh' = "fork" /\ i' = 1 /\ UNCHANGED <<waits, proc>>
    BY <1>2 DEF ReadLine, Begin
  <2>5. At'  BY <1>0, <1>a, <2>1, <2>2, <2>4 DEF command_num
  <2>6. \A p \in Procs : Forked(p)' <=> Forked(p)  BY <1>a, <2>1, <2>3, <2>4
  <2> QED  BY <1>0, <1>a, <2>1, <2>3, <2>4, <2>5, <2>6
<1>3. CASE Fork
  <2>1. i \in 1..command_num /\ line \in 1..line  BY <1>0, <1>3, <1>a DEF Fork
  <2>2. \A p \in Procs : Forked(p)' <=> Forked(p) \/ p = <<line, i>>
    BY <1>3, <1>a, <2>1 DEF Fork, Procs, line, command_num
  <2> QED  BY <1>0, <1>3, <1>a, <2>1, <2>2 DEF Fork, line, command_num
<1>4. CASE ForkFails  BY <1>0, <1>4 DEF ForkFails, line, command_num
<1>5. CASE ClosePipes
  <2>1. i \in 1..command_num  BY <1>0, <1>5 DEF ClosePipes
  <2> QED  BY <1>0, <1>a, <1>5, <2>1 DEF ClosePipes, line, command_num
<1>6. CASE Wait
  <2>1. \A q \in Procs : proc'[q] = "off" <=> proc[q] = "off"  BY <1>0, <1>6, SameForked
  <2> QED  BY <1>0, <1>a, <1>6, <2>1 DEF Wait, line, command_num
<1>7. CASE NextCommand
  <2>1. i \in 1..command_num /\ command_num \in 1..4 /\ line \in 1..line
    BY <1>0, <1>7, <1>a DEF NextCommand, command_num
  <2>2. \A p \in Procs : p[2] \in Nat  BY DEF Procs, Longest
  <2>3. \A p \in Procs : Forked(p)' <=> Forked(p)
    BY <1>a, <1>7, <2>1, <2>2 DEF NextCommand, line, command_num
  <2> QED  BY <1>0, <1>7, <1>a, <2>1, <2>3 DEF NextCommand, line, command_num
<1>8. CASE Interrupt
  <2>1. \A q \in Procs : proc'[q] = "off" <=> proc[q] = "off"  BY <1>0, <1>8, SameForked
  <2>2. CASE InterruptHere
    BY <1>0, <1>a, <2>1, <2>2 DEF InterruptHere, line, command_num
  <2>3. CASE InterruptPrompt
    <3> USE DEF InterruptPrompt
    <3>1. typed[line][1] \in Sources  BY <1>0, <2>3, LineFacts
    <3>2. /\ line' = line + 1 /\ \A l \in 1..line : typed'[l] = typed[l]
          /\ typed'[line'] = <<typed[line][1]>>
      BY <1>0, <2>3, <3>1, LineAdded
    <3>3. \A p \in Procs : p[1] \in Nat \ {0} /\ p[2] \in Nat \ {0}  BY TerminalAssumption DEF Procs, Longest
    <3>4. Len(typed'[line']) = 1  BY <3>2
    <3>5. sh = "prompt" /\ sh' = "fork" /\ i' = 1 /\ UNCHANGED waits  BY <2>3
    <3>6. line' = line + 1 /\ \A l \in 1..line : typed'[l] = typed[l]  BY <3>2
    <3>7. At'  BY <1>0, <1>a, <3>4, <3>5, <3>6 DEF command_num
    <3>8. \A p \in Procs : Forked(p)' <=> Forked(p)  BY <1>a, <3>3, <3>5, <3>6
    <3> QED  BY <1>0, <1>a, <2>1, <3>3, <3>5, <3>6, <3>7, <3>8
  <2> QED  BY <1>8, <2>2, <2>3, InterruptCases
<1>9. ASSUME NEW p \in Procs, Child(p) PROVE At' /\ OnlyCommands' /\ ForkedSoFar'
  <2>1. \A q \in Procs : proc'[q] = "off" <=> proc[q] = "off"  BY <1>0, <1>9, SameForked
  <2>2. UNCHANGED <<sh, typed, i, waits>>  BY <1>9 DEF Child, Exec, Write, Read, End
  <2> QED  BY <1>0, <2>1, <2>2 DEF line, command_num
<1> QED  BY <1>1, <1>2, <1>3, <1>4, <1>5, <1>6, <1>7, <1>8, <1>9 DEF Next, Main

\* Main holds the pipes of the commands that are still to be forked.
LEMMA ShellInv == Structure /\ Next => ShellHolds'
<1> SUFFICES ASSUME Structure, Next PROVE ShellHolds'  OBVIOUS
<1>0. TypeOK /\ LinesTyped /\ At /\ ShellHolds  BY DEF Structure
<1>a. /\ line \in Nat /\ i \in Nat /\ Shell \notin Procs
      /\ \A l \in 1..line : Len(typed[l]) \in 1..4
      /\ DOMAIN fds = Procs \cup {Shell} /\ Shell \in DOMAIN fds
  BY <1>0, LineFacts, TerminalAssumption DEF TypeOK, LinesTyped, line, Longest, Shell, Procs
<1> USE DEF ShTo, ShellHolds
<1>1. CASE Quit  BY <1>0, <1>1 DEF Quit, Ends
<1>2. ASSUME NEW c \in Lines, ReadLine(c) PROVE ShellHolds'
  <2>1. line' = line + 1 /\ typed'[line'] = c
    BY <1>0, <1>2, LineAdded DEF ReadLine, Begin
  <2> QED  BY <1>0, <1>a, <1>2, <2>1 DEF ReadLine, Begin, Ends, command_num
<1>3. CASE Fork
  <2>1. fds'[Shell] = fds[Shell]
    <3>1. i \in 1..command_num /\ line \in 1..line  BY <1>0, <1>3, <1>a DEF Fork, At
    <3>2. <<line, i>> # Shell  BY <3>1 DEF Shell
    <3> QED  BY <1>3, <1>a, <3>2 DEF Fork
  <2> QED  BY <1>0, <1>3, <2>1 DEF Fork, Ends, line, command_num
<1>4. CASE ForkFails  BY <1>0, <1>4, <1>a DEF ForkFails
<1>5. CASE ClosePipes
  <2>1. i \in 1..command_num /\ command_num \in 1..4  BY <1>0, <1>5, <1>a DEF ClosePipes, At, command_num
  <2>2. fds'[Shell] = fds[Shell] \ Ends(line, 1..(i - 1))  BY <1>5, <1>a DEF ClosePipes
  <2>3. fds[Shell] = Ends(line, (IF i = 1 THEN 1 ELSE i - 1)..(command_num - 1))  BY <1>0, <1>5 DEF ClosePipes
  <2>4. Ends(line, (IF i = 1 THEN 1 ELSE i - 1)..(command_num - 1)) \ Ends(line, 1..(i - 1))
          = Ends(line, i..(command_num - 1))
    BY <2>1 DEF Ends
  <2>5. UNCHANGED <<line, command_num, i>> /\ sh' = "wait"  BY <1>5 DEF ClosePipes, line, command_num
  <2>6. Ends(line, i..(command_num - 1))' = Ends(line, i..(command_num - 1))  BY <2>5 DEF Ends
  <2> QED  BY <2>2, <2>3, <2>4, <2>5, <2>6
<1>6. CASE Wait  BY <1>0, <1>6 DEF Wait, Ends, line, command_num
<1>7. CASE NextCommand
  <2>1. i \in 1..command_num /\ command_num \in 1..4  BY <1>0, <1>7, <1>a DEF NextCommand, At, command_num
  <2>2. Ends(line, command_num..(command_num - 1)) = {}  BY <2>1 DEF Ends
  <2>3. UNCHANGED <<line, command_num, fds>>  BY <1>7 DEF NextCommand, line, command_num
  <2>4. \A ks : Ends(line, ks)' = Ends(line, ks)  BY <2>3 DEF Ends
  <2>5. CASE sh' = "fork"  BY <1>0, <1>7, <2>1, <2>3, <2>5 DEF NextCommand, Ends
  <2>6. CASE sh' = "prompt"  BY <1>0, <1>7, <2>2, <2>3, <2>6 DEF NextCommand
  <2> QED  BY <1>7, <2>5, <2>6 DEF NextCommand
<1>8. CASE Interrupt
  <2>1. fds'[Shell] = fds[Shell]  BY <1>8, <1>a DEF Interrupt
  <2>2. CASE InterruptHere
    BY <1>0, <2>1, <2>2 DEF InterruptHere, line, command_num, Ends
  <2>3. CASE InterruptPrompt
    <3> USE DEF InterruptPrompt
    <3>1. typed[line][1] \in Sources  BY <1>0, <2>3, LineFacts
    <3>2. Len(typed'[line']) = 1
      <4>1. typed'[line'] = <<typed[line][1]>>  BY <1>0, <2>3, <3>1, LineAdded
      <4> QED  BY <4>1
    <3>3. fds'[Shell] = {} /\ sh' = "fork" /\ i' = 1  BY <1>0, <2>1, <2>3
    <3>4. Ends(line, 1..(command_num - 1))' = {}  BY <3>2 DEF Ends, command_num
    <3> QED  BY <3>3, <3>4
  <2> QED  BY <1>8, <2>2, <2>3, InterruptCases
<1>9. ASSUME NEW p \in Procs, Child(p) PROVE ShellHolds'
  <2>1. fds'[Shell] = fds[Shell]  BY <1>9, <1>a DEF Child, Exec, Write, Read, End, Ended
  <2>2. UNCHANGED <<sh, typed, i>>  BY <1>9 DEF Child, Exec, Write, Read, End
  <2> QED  BY <1>0, <2>1, <2>2 DEF line, command_num, Ends
<1> QED  BY <1>1, <1>2, <1>3, <1>4, <1>5, <1>6, <1>7, <1>8, <1>9 DEF Next, Main

\* A command keeps the pipe open that it reads.
LEMMA ReadsInv == Structure /\ Next => ReadsOpen'
<1> SUFFICES ASSUME Structure, Next PROVE ReadsOpen'  OBVIOUS
<1>0. TypeOK /\ LinesTyped /\ At /\ OnlyCommands /\ ShellHolds /\ ReadsOpen  BY DEF Structure
<1>a. /\ line \in Nat /\ i \in Nat /\ Shell \notin Procs
      /\ \A l \in 1..line : Len(typed[l]) \in 1..4
      /\ proc \in [Procs -> {"off", "setup", "run", "enough", "zombie", "reaped"}]
      /\ DOMAIN fds = Procs \cup {Shell}
  BY <1>0, LineFacts, TerminalAssumption DEF TypeOK, LinesTyped, line, Longest, Shell, Procs
<1> USE DEF ShTo, ReadsOpen
<1>1. CASE UNCHANGED proc /\ \A p \in Procs : fds'[p] = fds[p]  BY <1>0, <1>1 DEF Before
<1>2. ASSUME NEW c \in Lines, ReadLine(c) PROVE ReadsOpen'
  BY <1>1, <1>2, <1>a DEF ReadLine, Begin
<1>3. CASE Fork
  <2>1. i \in 1..command_num /\ command_num \in 1..4 /\ line \in 1..line
    BY <1>0, <1>3, <1>a DEF Fork, At, command_num
  <2>2. ASSUME i > 1 PROVE <<Before(<<line, i>>), "r">> \in fds[Shell]
    <3>1. fds[Shell] = Ends(line, (i - 1)..(command_num - 1))  BY <1>0, <1>3, <2>1, <2>2 DEF Fork, ShellHolds
    <3>2. i - 1 \in (i - 1)..(command_num - 1)  BY <2>1
    <3> QED  BY <3>1, <3>2 DEF Ends, Before
  <2>3. \A p \in Procs : p # <<line, i>> => proc'[p] = proc[p] /\ fds'[p] = fds[p]
    BY <1>3, <1>a DEF Fork
  <2>4. <<line, i>> \in Procs => fds'[<<line, i>>] = fds[Shell]
    BY <1>3, <1>a DEF Fork
  <2> QED  BY <1>0, <2>2, <2>3, <2>4 DEF Before
<1>4. CASE Quit \/ ForkFails \/ ClosePipes \/ NextCommand
  BY <1>1, <1>4, <1>a DEF Quit, ForkFails, ClosePipes, NextCommand
<1>5. CASE Wait  BY <1>0, <1>a, <1>5 DEF Wait, Before
<1>6. CASE Interrupt  BY <1>0, <1>a, <1>6 DEF Interrupt, Before
<1>7. ASSUME NEW p \in Procs, Child(p) PROVE ReadsOpen'
  <2>1. CASE Exec(p)
    <3>1. Within(p) /\ p[1] \in Nat \ {0} /\ p[2] \in Nat \ {0}
      BY <1>0, <1>7, <2>1, TerminalAssumption DEF OnlyCommands, Exec, Procs, Longest
    <3>2. ASSUME p[2] > 1 PROVE <<Before(p), "r">> \in Keeps(p[1], p[2], Len(typed[p[1]]))
      <4>1. PICK n \in 1..4 : n = Len(typed[p[1]])  BY <1>a, <3>1 DEF Within
      <4>2. p[2] <= n  BY <3>1, <4>1 DEF Within
      <4>3. <<Before(p), "r">> \in Keeps(p[1], p[2], n)  BY <3>1, <3>2, <4>2 DEF Keeps, Before
      <4> QED  BY <4>1, <4>3
    <3>3. fds'[p] = fds[p] \cap Keeps(p[1], p[2], Len(typed[p[1]]))  BY <1>a, <2>1 DEF Exec
    <3>4. \A q \in Procs : q # p => proc'[q] = proc[q] /\ fds'[q] = fds[q]  BY <1>a, <2>1 DEF Exec
    <3>5. proc[p] = "setup"  BY <2>1 DEF Exec
    <3> QED  BY <1>0, <3>2, <3>3, <3>4, <3>5 DEF Before
  <2>2. CASE Write(p)  BY <1>0, <1>a, <1>7, <2>2 DEF Write, Ended, Before
  <2>3. CASE Read(p)  BY <1>0, <1>a, <1>7, <2>3 DEF Read, Before
  <2>4. CASE End(p)  BY <1>0, <1>a, <1>7, <2>4 DEF End, Ended, Before
  <2> QED  BY <1>7, <2>1, <2>2, <2>3, <2>4 DEF Child
<1> QED  BY <1>2, <1>3, <1>4, <1>5, <1>6, <1>7 DEF Next, Main

\* The structure is kept.
LEMMA StructureInv == Structure /\ [Next]_vars => Structure'
<1> SUFFICES ASSUME Structure, [Next]_vars PROVE Structure'  OBVIOUS
<1>1. CASE Next  BY <1>1, TypeInv, ForkedInv, ShellInv, ReadsInv DEF Structure
<1>2. CASE UNCHANGED vars
  BY <1>2 DEF vars, Structure, TypeOK, LinesTyped, At, OnlyCommands, ForkedSoFar, Forked, Within, ShellHolds, Ends,
     ReadsOpen, Before, line, command_num
<1> QED  BY <1>1, <1>2

\* Every run keeps the structure.
LEMMA AlwaysStructure == Spec => []Structure
  BY InitStructure, StructureInv, PTL DEF Spec

-----------------------------------------------------------------------------
(* How many children are left. *)

\* The children left can be counted.
LEMMA LeftFinite == IsFiniteSet(Left) /\ Cardinality(Left) \in Nat
<1>1. IsFiniteSet(1..MaxLines) /\ IsFiniteSet(1..Longest)
  <2>1. 1 \in Int /\ MaxLines \in Int /\ Longest \in Int  BY TerminalAssumption DEF Longest
  <2> QED  BY <2>1, FS_Interval
<1>2. IsFiniteSet(Procs)  BY <1>1, FS_Product DEF Procs
<1>3. Left \in SUBSET Procs  BY DEF Left
<1> QED  BY <1>2, <1>3, FS_Subset, FS_CardinalityType

\* So can the short lines.
LEMMA ShortFinite == ASSUME NEW l \in Nat PROVE IsFiniteSet(ShortSet(l)) /\ Short(l) \in Nat
<1>1. IsFiniteSet(1..l)  BY FS_Interval
<1>2. ShortSet(l) \in SUBSET (1..l)  BY DEF ShortSet
<1>3. IsFiniteSet(ShortSet(l))  BY <1>1, <1>2, FS_Subset
<1> QED  BY <1>3, FS_CardinalityType DEF Short

\* A short line more counts one.
LEMMA ShortMore ==
    ASSUME NEW l \in Nat \ {0}
    PROVE  Short(l) = Short(l - 1) + (IF Len(typed[l]) <= 2 THEN 1 ELSE 0)
<1>1. IsFiniteSet(ShortSet(l - 1)) /\ Short(l - 1) \in Nat  BY ShortFinite
<1>2. CASE Len(typed[l]) <= 2
  <2>1. ShortSet(l) = ShortSet(l - 1) \cup {l}  BY <1>2 DEF ShortSet
  <2>2. l \notin ShortSet(l - 1)  BY DEF ShortSet
  <2>3. Cardinality(ShortSet(l)) = Cardinality(ShortSet(l - 1)) + 1  BY <1>1, <2>1, <2>2, FS_AddElement
  <2> QED  BY <1>2, <2>3 DEF Short
<1>3. CASE ~(Len(typed[l]) <= 2)
  <2>1. ShortSet(l) = ShortSet(l - 1)  BY <1>3 DEF ShortSet
  <2> QED  BY <1>1, <1>3, <2>1 DEF Short
<1> QED  BY <1>2, <1>3

\* Main waits once for each command before the one it is at: all but one child of a line of
\* two commands, and at least as many as there are from three commands on.
LEMMA LeftInv == Structure /\ LeftSoFar /\ Next => LeftSoFar'
<1> SUFFICES ASSUME Structure, LeftSoFar, Next PROVE LeftSoFar'  OBVIOUS
<1>0. TypeOK /\ LinesTyped /\ At  BY DEF Structure
<1>a. /\ line \in Nat /\ i \in Nat /\ waits \in Nat /\ ints \in Nat /\ Cardinality(Left) \in Nat
      /\ \A l \in 1..line : Len(typed[l]) \in 1..4
      /\ proc \in [Procs -> {"off", "setup", "run", "enough", "zombie", "reaped"}]
      /\ IsFiniteSet(Left)
  BY <1>0, LineFacts, LeftFinite, TerminalAssumption DEF TypeOK, LinesTyped, line, Longest
<1>b. /\ sh \in {"fork", "close", "wait"} => line \in Nat \ {0} /\ i \in 1..command_num
      /\ line \in Nat \ {0} => command_num \in 1..4 /\ Short(line - 1) \in Nat
      /\ Short(line) \in Nat
  BY <1>0, <1>a, ShortFinite DEF At, command_num
<1>c. ASSUME UNCHANGED <<typed, sh, i, waits>>, ints' = ints,
             Left' = Left
      PROVE  LeftSoFar'
  BY <1>c DEF LeftSoFar, Extra, ShortSet, Short, line
<1> USE DEF ShTo, LeftSoFar
<1>1. CASE Quit  BY <1>1 DEF Quit
<1>2. ASSUME NEW c \in Lines, ReadLine(c) PROVE LeftSoFar'
  <2>1. line' = line + 1 /\ \A l \in 1..line : typed'[l] = typed[l]
    BY <1>0, <1>2, LineAdded DEF ReadLine, Begin
  <2>2. Short(line - 1)' = Short(line)
    <3>1. ShortSet(line - 1)' = ShortSet(line)  BY <1>a, <2>1 DEF ShortSet
    <3> QED  BY <3>1 DEF Short
  <2>3. Left' = Left  BY <1>2 DEF ReadLine, Left
  <2>4. sh = "prompt" /\ sh' = "fork" /\ Extra' = 0 /\ ints' = ints
    BY <1>2 DEF ReadLine, Begin, Extra
  <2> QED  BY <1>a, <1>b, <2>2, <2>3, <2>4
<1>3. CASE Fork
  <2>1. Left' \subseteq Left \cup {<<line, i>>}  BY <1>3, <1>a DEF Fork, Left
  <2>2. Cardinality(Left') \in Nat /\ Cardinality(Left') <= Cardinality(Left) + 1
    <3>0. /\ IsFiniteSet(Left \cup {<<line, i>>})
          /\ Cardinality(Left \cup {<<line, i>>}) \in {Cardinality(Left), Cardinality(Left) + 1}
      BY <1>a, FS_AddElement
    <3>1. /\ IsFiniteSet(Left \cup {<<line, i>>})
          /\ Cardinality(Left \cup {<<line, i>>}) <= Cardinality(Left) + 1
          /\ Cardinality(Left \cup {<<line, i>>}) \in Nat
      BY <1>a, <3>0
    <3>2. Cardinality(Left') <= Cardinality(Left \cup {<<line, i>>})
      BY <2>1, <3>1, FS_Subset
    <3>3. Cardinality(Left') \in Nat
      BY <2>1, <3>1, FS_Subset, FS_CardinalityType
    <3> QED  BY <1>a, <3>1, <3>2, <3>3
  <2>3. UNCHANGED <<line, i, ints, Short(line - 1)>> /\ sh = "fork" /\ sh' = "close"
    BY <1>3 DEF Fork, line, Short, ShortSet
  <2>4. Extra' = Extra + 1 /\ Extra \in Nat  BY <1>b, <2>3 DEF Extra
  <2> QED  BY <1>a, <1>b, <2>2, <2>3, <2>4
<1>4. CASE ForkFails  BY <1>4 DEF ForkFails
<1>5. CASE ClosePipes
  <2>1. UNCHANGED <<line, i, ints, Short(line - 1), Left>> /\ sh = "close" /\ sh' = "wait" /\ waits' = i - 1
    BY <1>5 DEF ClosePipes, line, ShortSet, Short, Left
  <2>2. Extra' = Extra  BY <1>b, <2>1 DEF Extra
  <2> QED  BY <2>1, <2>2
<1>6. CASE Wait
  <2>1. UNCHANGED <<line, i, ints, sh, Short(line - 1)>> /\ sh = "wait" /\ waits' = waits - 1 /\ waits > 0
    BY <1>6 DEF Wait, line, Short, ShortSet
  <2>2. waits < i  BY <1>0, <2>1 DEF At
  <2>3. Extra' >= Extra - 1 /\ Extra' \in Nat /\ Extra \in Nat
    BY <1>a, <1>b, <2>1, <2>2 DEF Extra
  <2>4. CASE \E p \in Procs : proc[p] = "zombie" /\ proc' = [proc EXCEPT ![p] = "reaped"]
    <3>1. PICK p \in Procs : proc[p] = "zombie" /\ proc' = [proc EXCEPT ![p] = "reaped"]  BY <2>4
    <3>2. Left' = Left \ {p} /\ p \in Left  BY <1>a, <3>1 DEF Left
    <3>3. Cardinality(Left') = Cardinality(Left) - 1  BY <1>a, <3>2, FS_RemoveElement
    <3> QED  BY <1>a, <1>b, <2>1, <2>3, <3>3
  <2>5. CASE (\A p \in Procs : proc[p] \in {"off", "reaped"}) /\ UNCHANGED proc
    <3>1. Left' = {}  BY <2>5 DEF Left
    <3>2. Cardinality(Left') = 0  BY <3>1, FS_EmptySet
    <3> QED  BY <1>a, <1>b, <2>1, <2>3, <3>2
  <2> QED  BY <1>6, <2>4, <2>5 DEF Wait
<1>7. CASE NextCommand
  <2>1. UNCHANGED <<line, waits, ints, Short(line - 1), Short(line), Left>> /\ sh = "wait" /\ waits = 0
    BY <1>7 DEF NextCommand, line, ShortSet, Short, Left
  <2>2. CASE sh' = "fork" /\ i < command_num /\ i' = i + 1
    <3>1. Extra' = Extra  BY <1>b, <2>1, <2>2 DEF Extra
    <3> QED  BY <2>1, <2>2, <3>1
  <2>3. CASE sh' = "prompt" /\ i = command_num
    <3>1. Short(line) = Short(line - 1) + (IF command_num <= 2 THEN 1 ELSE 0)
      BY <1>b, <2>1, ShortMore DEF command_num
    <3>2. Extra = IF command_num <= 2 THEN 1 ELSE 0  BY <1>b, <2>1, <2>3 DEF Extra
    <3> QED  BY <1>a, <1>b, <2>1, <2>3, <3>1, <3>2
  <2> QED  BY <1>7, <2>2, <2>3 DEF NextCommand
<1>8. CASE Interrupt
  <2>1. Left' = Left /\ ints' = ints + 1  BY <1>a, <1>8 DEF Interrupt, Left
  <2>2. CASE InterruptHere
    <3>1. UNCHANGED <<line, i, sh, Short(line - 1), Short(line)>>  BY <2>2 DEF InterruptHere, line, Short, ShortSet
    <3>2. CASE waits' = waits
      <4>1. Extra' = Extra  BY <3>1, <3>2 DEF Extra
      <4>2. sh \in {"fork", "close", "wait"} => Extra \in Nat  BY <1>a, <1>b DEF Extra
      <4> QED  BY <1>a, <1>b, <2>1, <3>1, <4>1, <4>2
    <3>3. CASE sh = "wait" /\ waits > 0 /\ waits' = waits - 1
      <4>1. waits < i  BY <1>0, <3>3 DEF At
      <4>2. Extra' >= Extra - 1 /\ Extra' \in Nat /\ Extra \in Nat  BY <1>a, <1>b, <3>1, <3>3, <4>1 DEF Extra
      <4> QED  BY <1>a, <1>b, <2>1, <3>1, <3>3, <4>2
    <3> QED  BY <2>2, <3>2, <3>3 DEF InterruptHere
  <2>3. CASE InterruptPrompt
    <3>1. typed[line][1] \in Sources  BY <1>0, <2>3, LineFacts DEF InterruptPrompt
    <3>2. line' = line + 1 /\ \A l \in 1..line : typed'[l] = typed[l]
      BY <1>0, <2>3, <3>1, LineAdded DEF InterruptPrompt
    <3>3. Short(line - 1)' = Short(line)
      <4>1. ShortSet(line - 1)' = ShortSet(line)  BY <1>a, <3>2 DEF ShortSet
      <4> QED  BY <4>1 DEF Short
    <3>4. sh = "prompt" /\ sh' = "fork" /\ Extra' = 0  BY <2>3 DEF InterruptPrompt, Extra
    <3> QED  BY <1>a, <1>b, <2>1, <3>3, <3>4
  <2> QED  BY <1>8, <2>2, <2>3, InterruptCases
<1>9. ASSUME NEW p \in Procs, Child(p) PROVE LeftSoFar'
  <2>1. Left' = Left
    <3>1. CASE Exec(p)  BY <1>a, <3>1 DEF Exec, Left
    <3>2. CASE Write(p)  BY <1>a, <3>2 DEF Write, Ended, Left
    <3>3. CASE Read(p)  BY <1>a, <3>3 DEF Read, Left
    <3>4. CASE End(p)  BY <1>a, <3>4 DEF End, Ended, Left
    <3> QED  BY <1>9, <3>1, <3>2, <3>3, <3>4 DEF Child
  <2>2. UNCHANGED <<typed, sh, i, waits>> /\ ints' = ints  BY <1>9 DEF Child, Exec, Write, Read, End
  <2> QED  BY <1>c, <2>1, <2>2
<1> QED  BY <1>1, <1>2, <1>3, <1>4, <1>5, <1>6, <1>7, <1>8, <1>9 DEF Next, Main

\* No child is there at the start.
LEMMA InitLeft == Init => LeftSoFar
<1> SUFFICES ASSUME Init PROVE LeftSoFar  OBVIOUS
<1>1. Left = {}  BY DEF Init, Left
<1>2. Cardinality(Left) = 0  BY <1>1, FS_EmptySet
<1>3. line = 0 /\ ints = 0 /\ sh = "prompt"  BY DEF Init, line
<1>4. Short(line) \in Nat  BY <1>3, ShortFinite
<1> QED  BY <1>2, <1>3, <1>4 DEF LeftSoFar

-----------------------------------------------------------------------------
\* Every variable of terminal_emulator.c stays in its range; in particular main never
\* forks past the last command.
THEOREM TerminalTypeOK == Spec => []TypeOK
<1>1. Structure => TypeOK  BY DEF Structure
<1> QED  BY <1>1, AlwaysStructure, PTL

\* A command that writes to a pipe finds a reader until the next command has ended:
\* main closes only the pipes before the command it forked, and a command keeps the
\* reading end of the pipe before it.
THEOREM TerminalHasReader == Spec => []HasReader
  BY AlwaysStructure, StructureHasReader, PTL

\* Between two lines, at most one child is left for each line of one or two commands and
\* for each wait that ctrl+c interrupted, however the waits mix the children of lines.
THEOREM TerminalFewLeft == Spec => []FewLeft
<1>1. Structure /\ LeftSoFar /\ [Next]_vars => LeftSoFar'
  <2>1. LeftSoFar /\ UNCHANGED vars => LeftSoFar'  BY DEF vars, LeftSoFar, Extra, Short, ShortSet, Left, line
  <2> QED  BY <2>1, LeftInv
<1>2. LeftSoFar /\ Structure => FewLeft
  <2>1. Structure => DOMAIN typed = 1..line  BY DEF Structure, LinesTyped, line
  <2> QED  BY <2>1 DEF LeftSoFar, FewLeft, Short, ShortSet
<1> QED  BY <1>1, <1>2, InitLeft, AlwaysStructure, PTL DEF Spec
=============================================================================
