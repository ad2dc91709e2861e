----------------------------- MODULE MCBibakBox -----------------------------
(* Instances of BibakBox for TLC. *)
EXTENDS BibakBoxProperties, TLC
=============================================================================
