----------------------------- MODULE MCPlantScan -----------------------------
(* A pH and a temperature sensor on the inlet line and a flow meter without    *)
(* one.  The pH sensor takes longest to warm up, so that the line carries      *)
(* temperatures alone at first.                                              *)
EXTENDS PlantScan

MCFitted == {"pH_inlet", "temp_inlet", "flow_main"}
MCWarmUp == [s \in MCFitted |-> CASE s = "pH_inlet"   -> 2
                                  [] s = "temp_inlet" -> 1
                                  [] s = "flow_main"  -> 0]
=============================================================================
