------------------------- MODULE MCMonitorLifecycle -------------------------
(***************************************************************************)
(* Instances of MonitorLifecycle: two sessions that are the same to the    *)
(* model, so that a session that hangs lives on beside the next one.       *)
(***************************************************************************)
EXTENDS MonitorLifecycle, TLC

Symmetry == Permutations(Sessions)
=============================================================================
