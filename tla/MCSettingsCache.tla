-------------------------- MODULE MCSettingsCache --------------------------
(* SettingsCache with two readers, one update and one seeder; the fault     *)
(* sets are extremes, as what happens with some faults happens with more:   *)
(* none, all but slow calls, and those that OutdatedGoes is about.          *)
EXTENDS SettingsCache

Extremes == {{}, {"source"}, FaultKinds \ {"slow"}}
NoFaults == {{}}
=============================================================================
