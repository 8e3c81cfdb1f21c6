------------------------ MODULE MCBoundedPublisher ------------------------
(* BoundedPublisher with two slots, one normal place and one reserved place. *)
EXTENDS BoundedPublisher, TLC
=============================================================================
