---------------------------- MODULE PlantSelection ----------------------------
(***************************************************************************)
(* What a command about a staged plant selects: the transactions and nodes    *)
(* of an area and a stage (plant/runtime.py).                               *)
(***************************************************************************)
EXTENDS Integers

CONSTANTS
  Profile,    \* the profile: its areas, its nodes [id, area, stage, port]
  Scenario    \* the scenario: its transactions [actor, target, area, stage]

PlanStages == {"field-devices", "field-controllers", "supervisory",
               "full-cell", "offline-export"}

NodeStages == {"field-device", "field-controller", "supervisory", "passive"}

ASSUME ProfileAssumption ==
  /\ \A n \in Profile.nodes : n.stage \in NodeStages /\ n.port \in BOOLEAN
  /\ \A n, m \in Profile.nodes : n.id = m.id => n = m

(* Which nodes, and which transactions, a stage lets in.                     *)
NodeFilter(stage) ==
  CASE stage = "field-devices"     -> {"field-device"}
    [] stage = "field-controllers" -> {"field-device", "field-controller"}
    [] stage = "supervisory"       -> {"field-controller", "supervisory"}
    [] OTHER                       -> NodeStages

TransactionFilter(stage) ==
  CASE stage = "field-devices"     -> {"field-devices"}
    [] stage = "field-controllers" -> {"field-devices", "field-controllers"}
    [] stage = "supervisory"       -> {"supervisory"}
    [] OTHER -> {"field-devices", "field-controllers", "supervisory"}

SelectedAreas(area) == IF area = "all" THEN Profile.areas ELSE {area}

SelectedTransactions(area, stage) ==
  {t \in Scenario : t.area \in SelectedAreas(area)
                    /\ t.stage \in TransactionFilter(stage)}

(* A transaction brings its two ends in, whatever their area and stage.      *)
ReferencedIds(area, stage) ==
  UNION {{t.actor, t.target} : t \in SelectedTransactions(area, stage)}

ActiveNodes(area, stage) ==
  {n \in Profile.nodes :
     \/ n.area \in SelectedAreas(area) /\ n.stage \in NodeFilter(stage)
     \/ n.id \in ReferencedIds(area, stage)}

(* build_runtime_artifact raises ValueError.                                *)
ArtifactRefused(area, stage) ==
  \/ area = "all" /\ stage # "offline-export"
  \/ ~(SelectedAreas(area) \subseteq Profile.areas)
  \/ ~(ReferencedIds(area, stage) \subseteq {n.id : n \in ActiveNodes(area, stage)})
=============================================================================
