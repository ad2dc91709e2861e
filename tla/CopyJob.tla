------------------------------ MODULE CopyJob ------------------------------
(***************************************************************************)
(* What a copy of a directory tree promises: the files are found one after *)
(* the other, handed out in the order they were found through a queue of   *)
(* bounded length, each is copied once, and the job ends only when there   *)
(* is none left.                                                           *)
(***************************************************************************)
EXTENDS Naturals, Sequences

CONSTANTS AllFiles, Capacity
VARIABLES
    toFind,             \* the files not yet found
    queue,              \* the files found and not yet handed out
    copying, copies,    \* the files being copied, the files copied
    ended

jobVars == <<toFind, queue, copying, copies, ended>>

Init ==
    /\ toFind = AllFiles /\ queue = << >>
    /\ copying = {} /\ copies = {} /\ ended = FALSE

Find(f) ==
    /\ f \in toFind /\ Len(queue) < Capacity
    /\ toFind' = toFind \ {f} /\ queue' = Append(queue, f)
    /\ UNCHANGED <<copying, copies, ended>>

HandOut ==
    /\ queue # << >>
    /\ copying' = copying \cup {Head(queue)} /\ queue' = Tail(queue)
    /\ UNCHANGED <<toFind, copies, ended>>

Complete(f) ==
    /\ f \in copying
    /\ copying' = copying \ {f} /\ copies' = copies \cup {f}
    /\ UNCHANGED <<toFind, queue, ended>>

End ==
    /\ toFind = {} /\ queue = << >> /\ copying = {}
    /\ ended' = TRUE
    /\ UNCHANGED <<toFind, queue, copying, copies>>

Next == HandOut \/ End \/ \E f \in AllFiles : Find(f) \/ Complete(f)

Spec == Init /\ [][Next]_jobVars
=============================================================================
