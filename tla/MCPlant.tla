------------------------------- MODULE MCPlant -------------------------------
(* A cut of the reference water plant: two disinfection endpoints and their      *)
(* supervisory nodes; the stage driver is missing, as in some profiles.         *)

MCNode(id, area, stage, port) == [id |-> id, area |-> area, stage |-> stage, port |-> port]

MCProfile ==
  [areas |-> {"intake", "disinfection"},
   nodes |-> {MCNode("chlorine-analyzer-ai", "disinfection", "field-device", TRUE),
              MCNode("disinfection-plc", "disinfection", "field-controller", TRUE),
              MCNode("intake-flow-ai", "intake", "field-device", TRUE),
              MCNode("passive-observer", "disinfection", "passive", FALSE),
              MCNode("plant-historian", "intake", "supervisory", FALSE)}]

MCIdOrder == <<"chlorine-analyzer-ai", "disinfection-plc", "intake-flow-ai",
               "passive-observer", "plant-historian">>

MCTx(a, t, area, stage) == [actor |-> a, target |-> t, area |-> area, stage |-> stage]

MCScenario ==
  {MCTx("stage-driver", "intake-flow-ai", "intake", "field-devices"),
   MCTx("disinfection-plc", "chlorine-analyzer-ai", "disinfection", "field-controllers"),
   MCTx("plant-historian", "disinfection-plc", "disinfection", "supervisory")}
=============================================================================
