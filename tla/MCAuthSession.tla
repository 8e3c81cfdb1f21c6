-------------------------- MODULE MCAuthSession --------------------------
(* AuthSession on a few devices and requests; both kinds are interchangeable. *)
EXTENDS AuthSession, TLC

Symmetry == Permutations(Device) \cup Permutations(Request)
=============================================================================
