--------------------------- MODULE MCParallelCopy ---------------------------
(* Instances of the parallel copy for TLC. *)
EXTENDS CopyProperties, TLC

CONSTANTS w1, w2, f1, f2, f3, f4, src, sub, shut

\* A file in the source directory, two in a subdirectory, one in another
\* subdirectory that opendir() fails on.
Tree == (src :> {f1, sub, shut}) @@ (sub :> {f2, f3}) @@ (shut :> {f4})
\* Two files side by side.
Flat == src :> {f1, f2}
\* Four files, more than any buffer of the runs holds.
Wide == src :> {f1, f2, f3, f4}

TreeBlocks == (f1 :> 1) @@ (f2 :> 0) @@ (f3 :> 2) @@ (f4 :> 1)
FlatBlocks == (f1 :> 1) @@ (f2 :> 1)
WideBlocks == (f1 :> 0) @@ (f2 :> 1) @@ (f3 :> 0) @@ (f4 :> 1)
=============================================================================
