------------------------- MODULE MCMaintenanceMailbox -------------------------
EXTENDS MaintenanceMailbox

(* Commands with every kind of outcome: three served by different devices    *)
(* (one of them a calibration), a method the device lacks, a method that     *)
(* raises, and codes outside the enumerations.                               *)
MCCommands ==
  {[target |-> "PH_INLET",      action |-> "CLEAN_ACID",       param |-> "ref"],
   [target |-> "TEMP_OUTLET",   action |-> "CALIBRATE",        param |-> "ref+1000"],
   [target |-> "CHLORINE_PUMP", action |-> "CLEAN_ACID",       param |-> "ref"],
   [target |-> "CHLORINE_PUMP", action |-> "REPLACE_TUBE",     param |-> "ref"],
   [target |-> "INLET_VALVE",   action |-> "RESET_FAULTS",     param |-> "ref"],
   [target |-> Unknown,         action |-> "RESET_FAULTS",     param |-> "ref"],
   [target |-> "PH_INLET",      action |-> Unknown,            param |-> "ref"]}

(* Two commands that no mixture of them can be mistaken for.                 *)
MCTwoCommands ==
  {[target |-> "PH_INLET",    action |-> "CLEAN_ACID", param |-> "ref"],
   [target |-> "INLET_VALVE", action |-> "CALIBRATE_ZERO", param |-> "ref+1000"]}

MCFitted == Target \ {"TEMP_OUTLET"}
=============================================================================
