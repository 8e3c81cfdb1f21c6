---------------------------- MODULE MCRoleCache ----------------------------
(* RoleCache with a few readers in two pods and one change of the roles.     *)
(* What can happen with some faults can happen with more, so the extremes    *)
(* stand for the sets between them.                                          *)
EXTENDS RoleCache, TLC

CONSTANTS r1, r2, r3, p1, p2

TwoPods == r1 :> p1 @@ r2 :> p1 @@ r3 :> p2
Extremes == {{}, FaultKinds \ {"slow"}, {"redis", "slow"}}
=============================================================================
