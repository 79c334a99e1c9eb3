---------------------------- MODULE PlantScenarios ----------------------------
(***************************************************************************)
(* The scenarios HydraSim ships for its staged plant (plant/scenario_*.py).   *)
(* A transaction keeps what the selection, the capture and the evidence read:  *)
(* who asks whom, the request, and of its label, value, hint and response the  *)
(* words the evidence looks for.  A write, and only a write, states a value.   *)
(***************************************************************************)
EXTENDS Integers, Sequences

Activate  == "field-devices"
Control   == "field-controllers"
Supervise == "supervisory"

Tx(ordinal, actor, target, stage, area) ==
  [ordinal |-> ordinal, actor |-> actor, target |-> target, stage |-> stage, area |-> area]

Reading(t, fc, address, quantity) ==
  [ordinal |-> t.ordinal, actor |-> t.actor, target |-> t.target, stage |-> t.stage,
   area |-> t.area, fc |-> fc, address |-> address, quantity |-> quantity, wire |-> <<>>,
   write |-> FALSE, value |-> {}, label |-> {}, hint |-> {}, response |-> {},
   refused |-> FALSE]

Writing(t, fc, address, quantity, wire, value) ==
  [Reading(t, fc, address, quantity) EXCEPT
     !.wire = wire, !.write = TRUE, !.value = value]

Says(t, label, hint) == [t EXCEPT !.label = label, !.hint = hint]

Refused(t) == [t EXCEPT !.response = {"exception"}, !.refused = TRUE]

(* HS-WTP-001.                                                              *)
Startup ==
  <<Reading(Tx(1, "stage-driver", "intake-flow-ai", Activate, "intake"), 4, 0, 2),
    Reading(Tx(2, "intake-plc", "intake-flow-ai", Control, "intake"), 4, 0, 2),
    Reading(Tx(3, "scada-hmi", "intake-plc", Supervise, "intake"), 3, 0, 4),
    Reading(Tx(4, "plant-historian", "disinfection-plc", Supervise, "disinfection"),
            4, 0, 8)>>

(* HS-WTP-002.                                                              *)
NormalOperation ==
  <<Reading(Tx(1, "dosing-plc", "dosing-ph-ai", Control, "dosing"), 4, 0, 2),
    Writing(Tx(2, "dosing-plc", "dosing-pump-ao", Control, "dosing"),
            16, 2, 2, <<16051, 13107>>, {"dose_rate"}),
    Reading(Tx(3, "disinfection-plc", "chlorine-analyzer-ai", Control, "disinfection"),
            4, 0, 2),
    Reading(Tx(4, "plant-historian", "disinfection-plc", Supervise, "disinfection"),
            4, 0, 8),
    Reading(Tx(5, "scada-hmi", "pumping-plc", Supervise, "storage-pumping"),
            3, 0, 6)>>

(* HS-WTP-003.                                                              *)
PlannedMaintenance ==
  <<Says(Reading(Tx(1, "engineering-workstation", "dosing-plc", Supervise, "dosing"),
                 3, 200, 4),
         {"maintenance"}, {}),
    Says(Writing(Tx(2, "engineering-workstation", "dosing-plc", Supervise, "dosing"),
                 6, 200, 1, <<4>>, {}),
         {"maintenance"}, {}),
    Says(Writing(Tx(3, "engineering-workstation", "dosing-plc", Supervise, "dosing"),
                 5, 10, 1, <<1>>, {}),
         {"maintenance"}, {}),
    Says(Reading(Tx(4, "plant-historian", "dosing-plc", Supervise, "dosing"),
                 4, 110, 4),
         {"maintenance"}, {})>>

(* HS-WTP-004.                                                              *)
ChemicalDosingUpset ==
  <<Says(Reading(Tx(1, "dosing-plc", "dosing-ph-ai", Control, "dosing"), 4, 0, 2),
         {"ph"}, {"process_deviation"}),
    Says(Writing(Tx(2, "dosing-plc", "dosing-pump-ao", Control, "dosing"),
                 16, 2, 2, <<16217, 39322>>, {"dose_rate"}),
         {"corrective"}, {"process_deviation"}),
    Reading(Tx(3, "scada-hmi", "dosing-plc", Supervise, "dosing"), 3, 0, 6)>>

(* HS-WTP-005.                                                              *)
PumpFailureContext ==
  <<Says(Reading(Tx(1, "pumping-plc", "clearwell-level-ai", Control, "storage-pumping"),
                 4, 0, 2),
         {"level"}, {}),
    Says(Writing(Tx(2, "pumping-plc", "finished-water-pump-ao", Control, "storage-pumping"),
                 6, 8, 1, <<0>>, {}),
         {"pump_failure"}, {"must_review"}),
    Says(Reading(Tx(3, "scada-hmi", "pumping-plc", Supervise, "storage-pumping"),
                 4, 100, 4),
         {}, {"process_deviation"})>>

(* HS-WTP-006.                                                              *)
SensorDriftContext ==
  <<Reading(Tx(1, "disinfection-plc", "chlorine-analyzer-ai", Control, "disinfection"),
            4, 0, 2),
    Says(Reading(Tx(2, "disinfection-plc", "chlorine-analyzer-ai", Control, "disinfection"),
                 4, 0, 2),
         {"drift"}, {"drift"}),
    Says(Reading(Tx(3, "plant-historian", "disinfection-plc", Supervise, "disinfection"),
                 4, 0, 8),
         {"drift"}, {})>>

(* HS-WTP-007.                                                              *)
AnalyzerFaultContext ==
  <<Says(Refused(Reading(Tx(1, "dosing-plc", "dosing-ph-ai", Control, "dosing"),
                         4, 65000, 2)),
         {"exception"}, {"exception"}),
    Reading(Tx(2, "scada-hmi", "dosing-plc", Supervise, "dosing"), 4, 100, 4)>>

(* HS-WTP-008.                                                              *)
FilterBackwash ==
  <<Reading(Tx(1, "filtration-plc", "filter-dp-ai", Control, "filtration"),
            4, 0, 2),
    Says(Writing(Tx(2, "filtration-plc", "filter-backwash-ao", Control, "filtration"),
                 5, 10, 1, <<1>>, {"backwash"}),
         {"backwash"}, {"must_review"}),
    Says(Reading(Tx(3, "plant-historian", "filtration-plc", Supervise, "filtration"),
                 4, 0, 8),
         {"backwash"}, {})>>

(* HS-WTP-009.                                                              *)
DisinfectionExcursion ==
  <<Says(Reading(Tx(1, "disinfection-plc", "chlorine-analyzer-ai", Control, "disinfection"),
                 4, 0, 2),
         {}, {"process_deviation"}),
    Says(Writing(Tx(2, "disinfection-plc", "chlorine-pump-ao", Control, "disinfection"),
                 16, 2, 2, <<16166, 26214>>, {"chlorine_rate"}),
         {"corrective"}, {"process_deviation"}),
    Reading(Tx(3, "scada-hmi", "disinfection-plc", Supervise, "disinfection"),
            3, 0, 6)>>

(* HS-WTP-010.                                                              *)
UnknownWorkstationReview ==
  <<Reading(Tx(1, "engineering-workstation", "dosing-plc", Supervise, "dosing"),
            3, 0, 4),
    Reading(Tx(2, "engineering-workstation", "dosing-plc", Supervise, "dosing"),
            3, 50, 4),
    Says(Writing(Tx(3, "engineering-workstation", "disinfection-plc", Supervise, "disinfection"),
                 6, 201, 1, <<7>>, {}),
         {}, {"must_review"})>>

(* HS-WTP-011.                                                              *)
NoisyPolling ==
  <<Reading(Tx(1, "plant-historian", "intake-plc", Supervise, "intake"), 4, 0, 8),
    Reading(Tx(2, "plant-historian", "dosing-plc", Supervise, "dosing"), 4, 0, 8),
    Reading(Tx(3, "plant-historian", "disinfection-plc", Supervise, "disinfection"),
            4, 0, 8),
    Says(Refused(Reading(Tx(4, "scada-hmi", "dosing-plc", Supervise, "dosing"),
                         3, 65000, 2)),
         {}, {"exception"})>>

(* HS-WTP-012.                                                              *)
ControllerFailoverContext ==
  <<Reading(Tx(1, "scada-hmi", "intake-plc", Supervise, "intake"), 4, 100, 4),
    Says(Reading(Tx(2, "scada-hmi", "dosing-plc", Supervise, "dosing"), 4, 100, 4),
         {}, {"failover"}),
    Says(Writing(Tx(3, "dosing-plc", "dosing-pump-ao", Control, "dosing"),
                 6, 8, 1, <<1>>, {"manual_mode", "manual"}),
         {"manual_mode", "manual"}, {"must_review"})>>

(* All of them, by the end of their identifier: HS-WTP-001 and so on.          *)
Scenarios ==
  <<Startup, NormalOperation, PlannedMaintenance, ChemicalDosingUpset,
    PumpFailureContext, SensorDriftContext, AnalyzerFaultContext, FilterBackwash,
    DisinfectionExcursion, UnknownWorkstationReview, NoisyPolling,
    ControllerFailoverContext>>
=============================================================================
