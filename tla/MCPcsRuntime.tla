---------------------------- MODULE MCPcsRuntime ----------------------------
(* Instances of PcsRuntime for TLC: one level above zero, and only the      *)
(* commands that take part in an interlock are written.                     *)
EXTENDS PcsRuntime

MCWritableNumeric == {"acid-flow", "inlet-flow"}
MCWritableCoil    == {"acid-pump-enable"}

(* The liveness run needs one command only. *)
MCLiveNumeric == {"inlet-flow"}
MCLiveCoil    == {}
=============================================================================
