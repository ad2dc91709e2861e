--------------------------- MODULE MCSumMultiply ---------------------------
(* Instances of SumMultiply for TLC. *)
EXTENDS SumProperties, TLC
=============================================================================
