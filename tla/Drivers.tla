------------------------------ MODULE Drivers ------------------------------
(***************************************************************************)
(* The two programs around OnlineSemantic: run_semantic_universe replays a *)
(* log, the robot calls a SemanticRunner.  They share the driver and the   *)
(* viewer; a process is one or the other.                                  *)
(***************************************************************************)
EXTENDS LogReplay, SemanticRunner

vars == <<driverVars, wire, viewerVars, sourceVars, syncVars, egressVars>>

Init == DriverInit /\ SourceInit /\ EgressInit

Replay == program = "replay" /\ ReplayNext /\ UNCHANGED egressVars
Runner == program = "runner" /\ RunnerNext /\ UNCHANGED <<sourceVars, syncVars>>
View   == Handle /\ UNCHANGED <<sourceVars, syncVars, egressVars>>
Leave  == Exit /\ UNCHANGED <<viewerVars, sourceVars, syncVars, egressVars>>

Next == Replay \/ Runner \/ View \/ Leave

Spec == Init /\ [][Next]_vars
=============================================================================
