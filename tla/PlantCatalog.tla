----------------------------- MODULE PlantCatalog -----------------------------
(***************************************************************************)
(* The plant profiles HydraSim ships (plant/profile_data.py): their areas,    *)
(* units and nodes.  Labels, addresses and descriptions are left out, and a   *)
(* unit, of which each area has one, goes by the name of its area.           *)
(***************************************************************************)
EXTENDS FiniteSets

Edge  == "distribution-edge"
Areas == {"intake", "dosing", "clarification", "filtration", "disinfection",
          "storage-pumping", Edge}

Units == Areas \cup {"plant-supervisory"}

Field(ids, area) ==
  {[id |-> i, area |-> area, unit |-> area, stage |-> "field-device", port |-> TRUE] : i \in ids}

FieldNodes ==
  UNION {Field({"intake-flow-ai", "intake-valve-ao"}, "intake"),
         Field({"dosing-ph-ai", "dosing-pump-ao"}, "dosing"),
         Field({"clarifier-level-ai"}, "clarification"),
         Field({"filter-dp-ai", "filter-backwash-ao"}, "filtration"),
         Field({"chlorine-analyzer-ai", "chlorine-pump-ao"}, "disinfection"),
         Field({"clearwell-level-ai", "finished-water-pump-ao"}, "storage-pumping"),
         Field({"distribution-flow-ai"}, Edge)}

Controller(id, area) ==
  [id |-> id, area |-> area, unit |-> area, stage |-> "field-controller", port |-> TRUE]

ControllerNodes ==
  {Controller("intake-plc", "intake"), Controller("dosing-plc", "dosing"),
   Controller("clarification-rtu", "clarification"),
   Controller("filtration-plc", "filtration"),
   Controller("disinfection-plc", "disinfection"),
   Controller("pumping-plc", "storage-pumping")}

(* The supervisory nodes of the whole plant are filed under the intake.       *)
Central(id, stage) ==
  [id |-> id, area |-> "intake", unit |-> "plant-supervisory", stage |-> stage, port |-> FALSE]

Observer == Central("passive-observer", "passive")

SupervisoryNodes ==
  {Observer} \cup
  {Central(id, "supervisory") :
     id \in {"stage-driver", "scada-hmi", "plant-historian", "engineering-workstation"}}

ReferenceProfile ==
  [areas |-> Areas, units |-> Units,
   nodes |-> FieldNodes \cup ControllerNodes \cup SupervisoryNodes]

OffEdge == {n \in FieldNodes : n.area # Edge}

Profiles ==
  [p \in {"single-stage-legacy", "field-device-lab", "controller-cell",
          "supervisory-lab", "reference-water-plant"} |->
     CASE p = "single-stage-legacy" ->
            [areas |-> {"disinfection"},
             units |-> {"disinfection", "plant-supervisory"},
             nodes |-> {n \in FieldNodes : n.area = "disinfection"}
                       \cup {n \in SupervisoryNodes : n.id # "engineering-workstation"}]
       [] p = "field-device-lab" ->
            [areas |-> Areas, units |-> Units, nodes |-> FieldNodes \cup {Observer}]
       [] p = "controller-cell" ->
            [areas |-> Areas \ {Edge}, units |-> Units \ {Edge},
             nodes |-> OffEdge \cup ControllerNodes \cup {Observer}]
       [] p = "supervisory-lab" ->
            [areas |-> Areas \ {Edge}, units |-> Units \ {Edge},
             nodes |-> ControllerNodes \cup SupervisoryNodes]
       [] OTHER -> ReferenceProfile]

(* get_profile raises ValueError for a profile that is not.                    *)
ValidProfile(p) ==
  /\ p.areas \subseteq Areas
  /\ \A n, m \in p.nodes : n.id = m.id => n = m
  /\ \A n \in p.nodes :
       /\ n.area \in Areas
       /\ n.stage \in {"field-device", "field-controller", "supervisory", "passive"}
       /\ n.unit \in p.units
=============================================================================
