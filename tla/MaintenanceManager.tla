-------------------------- MODULE MaintenanceManager --------------------------
(***************************************************************************)
(* The dispatch of remote maintenance commands to field devices              *)
(* (src/hydrasim/maintenance/maintenance_manager.py and models.py): a pure    *)
(* function from a target and an action code to the status a client is       *)
(* answered with.  Codes are written as the members of their enumerations;   *)
(* every other register value is the one model value Unknown.                *)
(***************************************************************************)
EXTENDS Naturals

CONSTANTS
  Fitted,     \* the targets whose device is in the suites the manager was given
  Unknown     \* any code outside the enumerations

(* MaintenanceTarget, by the kind of device the realistic suites fit there.  *)
pHTarget     == {"PH_INLET", "PH_MIDDLE", "PH_OUTLET"}
Amperometric == {"CHLORINE_INLET"}
Dpd          == {"CHLORINE_OUTLET"}
SensorTarget == pHTarget \cup Amperometric \cup Dpd
                \cup {"FLOW_MAIN", "TEMP_INLET", "TEMP_OUTLET"}
ValveTarget  == {"ACID_VALVE", "INLET_VALVE"}
PumpTarget   == {"CHLORINE_PUMP"}     \* a diaphragm pump
Target       == SensorTarget \cup ValveTarget \cup PumpTarget

Action == {"CALIBRATE", "FULL_RESET", "CLEAN_WATER", "CLEAN_ACID",
           "REPLACE_MEMBRANE", "REPLACE_REAGENT", "RESET_FAULTS",
           "CALIBRATE_ZERO", "RECALIBRATE_POSITIONER", "REPLACE_DIAPHRAGM",
           "REPLACE_CHECK_VALVES", "REPLACE_TUBE"}

Result == {"SUCCESS", "INVALID_TARGET", "INVALID_ACTION",
           "ACTION_NOT_SUPPORTED", "EXECUTION_ERROR"}

ASSUME ManagerAssumption ==
  /\ Fitted \subseteq Target
  /\ Unknown \notin Target \cup Action

-----------------------------------------------------------------------------
(* The devices on which the dispatch finds the method: hasattr for the       *)
(* specific actions, always for the universal ones.                          *)
HasMethod(action) ==
  CASE action \in {"CALIBRATE", "FULL_RESET"}           -> SensorTarget
    [] action \in {"CLEAN_WATER", "CLEAN_ACID"}         -> pHTarget
    [] action \in {"REPLACE_MEMBRANE", "REPLACE_REAGENT"} -> Amperometric \cup Dpd
    [] action \in {"RESET_FAULTS", "CALIBRATE_ZERO"}    -> ValveTarget \cup PumpTarget
    [] action = "RECALIBRATE_POSITIONER"                -> ValveTarget
    [] OTHER                                            -> PumpTarget

(* The devices whose method refuses with ValueError: both chlorine sensors   *)
(* share one class, and the pump is not peristaltic.                         *)
Raises(action) ==
  CASE action = "REPLACE_MEMBRANE" -> Dpd
    [] action = "REPLACE_REAGENT"  -> Amperometric
    [] action = "REPLACE_TUBE"     -> PumpTarget
    [] OTHER                       -> {}

(* execute, with _apply_sensor_action and _apply_actuator_action.            *)
Execute(target, action) ==
  CASE target \notin Target            -> "INVALID_TARGET"
    [] target \in Target /\ action \notin Action -> "INVALID_ACTION"
    [] target \in Target /\ action \in Action ->
         IF target \notin Fitted THEN "EXECUTION_ERROR"
         ELSE IF target \notin HasMethod(action) THEN "ACTION_NOT_SUPPORTED"
         ELSE IF target \in Raises(action) THEN "EXECUTION_ERROR"
         ELSE "SUCCESS"
=============================================================================
