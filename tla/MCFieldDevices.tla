---------------------------- MODULE MCFieldDevices ----------------------------
(* One device of every kind, with clocks short enough to let every period end *)
(* inside a warm-up, after it, and while the simulated clock lags.           *)
EXTENDS FieldDevices

MCFitted   == {"PH_INLET", "CHLORINE_INLET", "CHLORINE_OUTLET", "FLOW_MAIN",
               "TEMP_INLET", "ACID_VALVE", "CHLORINE_PUMP"}
MCWarmUp   == [k \in Kind |-> IF k = "pH" THEN 2 ELSE 1]
MCValidity == [k \in Kind |-> IF k \in {"magnetic", "rtd"} THEN 4 ELSE 3]
=============================================================================
