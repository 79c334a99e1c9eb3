---------------------------- MODULE PlantEvidence ----------------------------
(***************************************************************************)
(* What a staged bundle tells beside its capture: the state of the            *)
(* controllers (plant/control.py), the process truth of each area            *)
(* (evidence/process_truth.py), its review (process_review.py) and the         *)
(* sampled CFD fields (cfd_bundle.py), all computed from the selected          *)
(* transactions.  Values are hundredths of process units.                     *)
(***************************************************************************)
EXTENDS Integers, Sequences, FiniteSets

Said(txs, fields) == UNION {UNION {txs[i][f] : f \in fields} : i \in 1 .. Len(txs)}

InArea(txs, area) == SelectSeq(txs, LAMBDA t : t.area = area)

Count(txs, Test(_)) == Len(SelectSeq(txs, Test))

----------------------------------------------------------------------------
(* The controllers.                                                         *)
Mode(txs) ==
  IF Said(txs, {"label", "value"}) \cap {"manual", "maintenance"} # {} THEN "manual" ELSE "auto"

Routine(txs) ==
  LET labels == Said(txs, {"label"})
  IN  CASE labels \cap {"maintenance", "manual_mode"} # {}   -> "manual-supervised"
        [] labels \cap {"pump_failure", "backwash"} # {}     -> "interlock-like"
        [] labels \cap {"dose_rate", "chlorine_rate"} # {}   -> "pid-lite-label"
        [] \E i \in 1 .. Len(txs) : txs[i].write             -> "threshold-adjustment"
        [] "failover" \in Said(txs, {"hint"})                -> "failover-review"
        [] OTHER                                             -> "monitoring"

Alarm(txs) ==
  LET said == Said(txs, {"response", "hint", "label"})
  IN  IF "exception" \in said THEN "exception-review"
      ELSE IF said \cap {"must_review", "process_deviation"} # {} THEN "review" ELSE "normal"

(* Mutant: the supervisory traffic of a controller is not looked at.           *)
SeenByControlOnly(t) == t.stage = "field-controllers"

SeenByController(t) == t.stage \in {"field-controllers", "supervisory"}

(* One state for each controller among the active nodes, whether its area has   *)
(* traffic or not; its evidence is its area's last transaction.                *)
ControllerStates(nodes, txs) ==
  {LET seen == SelectSeq(InArea(txs, n.area), SeenByController)
   IN  [area |-> n.area, id |-> n.id, mode |-> Mode(seen), routine |-> Routine(seen),
        alarm |-> Alarm(seen), setpoints |-> SelectSeq(seen, LAMBDA t : t.write),
        evidence |-> IF seen = <<>> THEN 0 ELSE seen[Len(seen)].ordinal] :
     n \in {m \in nodes : m.stage = "field-controller"}}

----------------------------------------------------------------------------
(* The reference area models: size of the mesh, obstacle (inclusive-exclusive    *)
(* index ranges), scalars.                                                  *)
Area(size, solid, scalars) == [size |-> size, solid |-> solid, scalars |-> scalars]

AreaModels ==
  [a \in {"intake", "dosing", "clarification", "filtration", "disinfection",
          "storage-pumping"} |->
     CASE a = "intake"        -> Area(<<12, 4, 3>>, {}, <<"temperature", "turbidity">>)
       [] a = "dosing"        -> Area(<<10, 4, 3>>, {},
                                      <<"chlorine", "ph_proxy", "demand_precursor">>)
       [] a = "clarification" -> Area(<<14, 6, 3>>, {<<6, 7, 1, 5, 0, 2>>},
                                      <<"turbidity", "temperature">>)
       [] a = "filtration"    -> Area(<<10, 5, 4>>, {<<3, 8, 1, 4, 0, 2>>},
                                      <<"headloss_proxy", "turbidity">>)
       [] a = "disinfection"  -> Area(<<16, 4, 3>>, {<<7, 8, 0, 3, 0, 2>>},
                                      <<"chlorine", "chloramine", "ammonia", "ph_proxy">>)
       [] OTHER               -> Area(<<12, 5, 3>>, {}, <<"chlorine", "temperature">>)]

Cells(model) ==
  (0 .. model.size[1] - 1) \X (0 .. model.size[2] - 1) \X (0 .. model.size[3] - 1)

Solid(model, c) ==
  \E o \in model.solid : \A d \in 1 .. 3 : c[d] \in o[2 * d - 1] .. o[2 * d] - 1

Uniform(model, value) == [c \in Cells(model) |-> value]

(* One transport step of 1/100 s without diffusion and decay; a uniform field    *)
(* has no gradient to advect.                                               *)
StepScalar(model, field, sources) ==
  [c \in Cells(model) |->
     IF Solid(model, c) THEN 0
     ELSE LET fed == field[c] + (IF c \in DOMAIN sources THEN sources[c] \div 100 ELSE 0)
          IN  IF fed < 0 THEN 0 ELSE fed]

Inside(model, c) == [d \in 1 .. 3 |-> IF c[d] < model.size[d] THEN c[d] ELSE model.size[d] - 1]

SourceCell(model) == Inside(model, <<1, 1, 1>>)

(* A change of the whole step, as the strength of the source.                  *)
Sources(model, change) ==
  IF change = 0 THEN <<>> ELSE [c \in {SourceCell(model)} |-> change * 100]

----------------------------------------------------------------------------
(* The process truth of an area.                                            *)
AreaScalar(area, txs) ==
  LET said == Said(txs, {"label", "value", "hint"})
      scalars == AreaModels[area].scalars
      has(s) == \E i \in 1 .. Len(scalars) : scalars[i] = s
      tells(a, word, s) == area = a /\ word \in said /\ has(s)
  IN  CASE tells("dosing", "ph", "ph_proxy")                   -> "ph_proxy"
        [] tells("filtration", "backwash", "headloss_proxy")   -> "headloss_proxy"
        [] tells("storage-pumping", "level", "chlorine")       -> "chlorine"
        [] area = "disinfection" /\ has("chlorine")            -> "chlorine"
        [] OTHER                                               -> scalars[1]

Told(change, trend) == [change |-> change, trend |-> trend]

Delta(txs) ==
  LET said == Said(txs, {"label", "value", "hint", "response"})
      any(ws) == said \cap ws # {}
  IN  CASE any({"pump_failure"})                                -> Told(-8, "decrease")
        [] any({"backwash"})                                    -> Told(-5, "decrease")
        [] any({"drift", "exception", "unknown"})               -> Told(0, "review")
        [] any({"chlorine_rate", "dose_rate", "corrective"})    -> Told(6, "increase")
        [] any({"process_deviation", "excursion"})              -> Told(4, "review")
        [] any({"maintenance", "manual", "failover"})           -> Told(0, "review")
        [] OTHER                                                -> Told(0, "stable")

Start == 100

Evolution(area, txs) ==
  LET model   == AreaModels[area]
      told    == Delta(txs)
      evolved == StepScalar(model, Uniform(model, Start), Sources(model, told.change))
  IN  [area |-> area, scalar |-> AreaScalar(area, txs), start |-> Start,
       end |-> evolved[SourceCell(model)], trend |-> told.trend]

AreasOf(txs) == {txs[i].area : i \in 1 .. Len(txs)}

ProcessEvolution(txs) == {Evolution(a, InArea(txs, a)) : a \in AreasOf(txs)}

(* reference_area_model raises ValueError for an area it has no mesh for.       *)
EvolutionRefused(txs) == ~(AreasOf(txs) \subseteq DOMAIN AreaModels)

----------------------------------------------------------------------------
(* The review of an area's truth.                                            *)
Review(record, txs, states) ==
  LET mine == InArea(txs, record.area)
      by(actor) == Count(mine, LAMBDA t : t.actor = actor)
  IN  [area        |-> record.area,
       truth       |-> record,
       reads       |-> Count(mine, LAMBDA t : ~t.write),
       writes      |-> Count(mine, LAMBDA t : t.write),
       exceptions  |-> Count(mine, LAMBDA t : t.refused),
       hints       |-> Said(mine, {"hint"}),
       supervisory |-> Count(mine, LAMBDA t : t.stage = "supervisory"),
       historian   |-> by("plant-historian"),
       hmi         |-> by("scada-hmi"),
       engineering |-> by("engineering-workstation"),
       alarms      |-> {s.alarm : s \in {x \in states : x.area = record.area}}]

ProcessReviews(evolution, txs, states) == {Review(r, txs, states) : r \in evolution}

----------------------------------------------------------------------------
(* The sampled fields: the step is run again from the start of the record to     *)
(* its end, and four cells, or fewer when they coincide, are written down.      *)
SampleCells(model) ==
  {<<0, 0, 0>>, SourceCell(model), [d \in 1 .. 3 |-> model.size[d] \div 2],
   [d \in 1 .. 3 |-> model.size[d] - 1]}

Snapshot(record) ==
  LET model   == AreaModels[record.area]
      before  == Uniform(model, record.start)
      evolved == StepScalar(model, before, Sources(model, record.end - record.start))
  IN  [area    |-> record.area,
       samples |-> [c \in SampleCells(model) |-> [start |-> before[c], end |-> evolved[c]]]]

Evidence(nodes, txs) ==
  LET states    == ControllerStates(nodes, txs)
      evolution == ProcessEvolution(txs)
  IN  [states    |-> states,
       evolution |-> evolution,
       reviews   |-> ProcessReviews(evolution, txs, states),
       snapshots |-> {Snapshot(r) : r \in evolution}]
=============================================================================
