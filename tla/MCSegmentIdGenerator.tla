---------------------- MODULE MCSegmentIdGenerator ----------------------
(* SegmentIdGenerator with short segments; calls are interchangeable. *)
EXTENDS SegmentIdGenerator, TLC

Symmetry == Permutations(Request)
=============================================================================
