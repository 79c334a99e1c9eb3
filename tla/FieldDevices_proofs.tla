-------------------------- MODULE FieldDevices_proofs --------------------------
(***************************************************************************)
(* Machine-checked facts about FieldDevices, for every fitting of the suites,   *)
(* every warm-up and calibration period, every lag of the simulated clock and   *)
(* every number of actuator levels.                                          *)
(***************************************************************************)
EXTENDS FieldDevices, TLAPS

USE SensorAssumption, ActuatorAssumption, ManagerAssumption

-----------------------------------------------------------------------------
(* A reading is one of three: nothing while the supply is off, nothing while the *)
(* sensor warms up, or what was measured.                                     *)
LEMMA AgedFacts ==
  ASSUME NEW s \in Sensor
  PROVE  /\ Aged(s) \in Sensor
         /\ Aged(s).value = s.value /\ Aged(s).supply = s.supply
         /\ Aged(s).offset = s.offset /\ Aged(s).kind = s.kind
<1>1. \A age \in Age : Older(age) \in Age
  BY DEF Older, Age
<1>2. /\ s.powered \in Age /\ s.drifting \in Age /\ s.record.age \in Age
      /\ s.record \in Record
  BY DEF Sensor, Record
<1> DEFINE r == [s.record EXCEPT !.age = Older(@)]
<1>3. r \in Record
  BY <1>1, <1>2 DEF Record
<1>4. Aged(s) = [s EXCEPT !.powered = Older(@), !.drifting = Older(@), !.record = r]
  BY DEF Aged, Sensor
<1> HIDE DEF r
<1> DEFINE p == Older(s.powered)
           q == Older(s.drifting)
<1>5. p \in Age /\ q \in Age
  BY <1>1, <1>2
<1>6. Aged(s) = [s EXCEPT !.powered = p, !.drifting = q, !.record = r]
  BY <1>4
<1> HIDE DEF p, q
<1>7. [s EXCEPT !.powered = p, !.drifting = q, !.record = r] \in Sensor
  BY <1>3, <1>5 DEF Sensor
<1> QED BY <1>6, <1>7 DEF Sensor

LEMMA DetectedType ==
  ASSUME NEW s \in Sensor, NEW d \in Draw
  PROVE  Detected(s, d) \in Fault
  BY DEF Detected, Draw, Fault

LEMMA FaultStatusType ==
  ASSUME NEW fault \in Fault \ {"NONE"}
  PROVE  FaultStatus(fault) \in Status \ {"NORMAL"}
  BY DEF FaultStatus, Fault, Status

LEMMA FilteredType ==
  ASSUME NEW s \in Sensor
  PROVE  Filtered(s) \in {"lost", "held"}
  BY DEF Filtered

LEMMA FaultFreeStatusFacts ==
  ASSUME NEW s \in Sensor, NEW d \in Draw
  PROVE  /\ FaultFreeStatus(s, d) \in Status
         /\ Filtered(s) = "held" /\ Expired(s) => FaultFreeStatus(s, d) # "NORMAL"
<1>1. s.status \in Status
  BY DEF Sensor
<1> DEFINE before == IF Expired(s) THEN "CALIBRATION_EXPIRED" ELSE s.status
           ranged == CASE Filtered(s) = "lost" -> before
                       [] Filtered(s) = "held" /\ d.range = "over" -> "SATURATED"
                       [] OTHER -> IF Expired(s) THEN before ELSE "NORMAL"
<1>2. ranged \in Status /\ (Filtered(s) = "held" /\ Expired(s) => ranged # "NORMAL")
  BY <1>1, FilteredType DEF Status
<1>3. FaultFreeStatus(s, d) =
        IF Drifted(s) /\ ranged # "CALIBRATION_EXPIRED" THEN "DRIFT_WARNING" ELSE ranged
  BY DEF FaultFreeStatus
<1> HIDE DEF ranged
<1> QED BY <1>2, <1>3 DEF Status

LEMMA MeasuredFacts ==
  ASSUME NEW s \in Sensor, NEW d \in Draw
  PROVE  LET r == MeasuredReading(s, d)
         IN  /\ r \in Reading
             /\ s.value = "lost" => r.value = "lost"
             /\ r.value = "held" /\ Expired(s) => r.status # "NORMAL"
<1> DEFINE fault == Detected(s, d)
           value == IF fault \in {"OPEN_CIRCUIT", "SHORT_CIRCUIT"} THEN "lost" ELSE Filtered(s)
           status == IF fault = "NONE" THEN FaultFreeStatus(s, d) ELSE FaultStatus(fault)
<1>1. MeasuredReading(s, d) = [value |-> value, status |-> status, fault |-> fault]
  BY DEF MeasuredReading
<1>2. fault \in Fault
  BY DetectedType
<1>3. value \in {"lost", "held"} /\ (value = "held" => Filtered(s) = "held")
      /\ (s.value = "lost" => value = "lost")
  BY FilteredType DEF Filtered
<1> HIDE DEF fault, value
<1>4. status \in Status
      /\ (Filtered(s) = "held" /\ Expired(s) => status # "NORMAL")
  BY <1>2, FaultFreeStatusFacts, FaultStatusType
<1> HIDE DEF status
<1> QED BY <1>1, <1>2, <1>3, <1>4 DEF Reading

LEMMA ReadingFacts ==
  ASSUME NEW s \in Sensor, NEW d \in Draw
  PROVE  LET r == ReadingOf(s, d)
         IN  /\ r \in Reading
             /\ r.value = "held" /\ Expired(s) => r.status # "NORMAL"
             /\ s.supply # "ok" => r.status = "POWER_FAULT" /\ r.fault # "NONE"
<1>1. CASE s.supply # "ok"
  <2>1. ReadingOf(s, d) = UnpoweredReading(s)
    BY <1>1 DEF ReadingOf
  <2> QED BY <1>1, <2>1 DEF UnpoweredReading, Reading, Status, Fault
<1>2. CASE s.supply = "ok" /\ ~WarmedUp(s)
  <2>1. ReadingOf(s, d) = WarmingReading
    BY <1>2 DEF ReadingOf
  <2> QED BY <1>2, <2>1 DEF WarmingReading, Reading, Status, Fault
<1>3. CASE s.supply = "ok" /\ WarmedUp(s)
  <2>1. ReadingOf(s, d) = MeasuredReading(s, d)
    BY <1>3 DEF ReadingOf
  <2> QED BY <1>3, <2>1, MeasuredFacts
<1> QED BY <1>1, <1>2, <1>3

(* The read of the subclass ages the sensing element, and nothing else.          *)
LEMMA SubclassReadFacts ==
  ASSUME NEW s \in Sensor, NEW t \in SubclassRead(s)
  PROVE  t \in Sensor /\ t.value = s.value
<1>1. s.value \in {"lost", "held"} /\ s.kind \in Kind /\ s.wear \in 0 .. 2
  BY DEF Sensor
<1>2. Grown(s) \subseteq 0 .. 2
  BY <1>1 DEF Grown
<1>3. t = s \/ \E w \in Grown(s) : t = [s EXCEPT !.wear = w]
  BY <1>1 DEF SubclassRead, pHRead, ChlorineRead, FlowRead, TemperatureRead, MembraneFouling,
              ReagentLoss, Kind
<1> QED BY <1>2, <1>3 DEF Sensor

LEMMA AfterReadingFacts ==
  ASSUME NEW s \in Sensor, NEW d \in Draw, NEW t \in AfterReading(s, d)
  PROVE  t \in Sensor /\ (s.value = "lost" => t.value = "lost")
<1>0. d.volt \in {"ok", "low", "high"}
  BY DEF Draw
<1>1. CASE s.supply # "ok"
  BY <1>1 DEF AfterReading, Sensor
<1>2. CASE s.supply = "ok" /\ ~WarmedUp(s)
  <2>1. t = [s EXCEPT !.history = "lost", !.supply = d.volt]
    BY <1>2 DEF AfterReading
  <2> QED BY <1>0, <2>1 DEF Sensor
<1>3. CASE s.supply = "ok" /\ WarmedUp(s)
  <2> DEFINE r == ReadingOf(s, d)
             measured == [s EXCEPT !.supply = d.volt, !.value = r.value, !.status = r.status]
  <2>1. r = MeasuredReading(s, d)
    BY <1>3 DEF ReadingOf
  <2>2. r \in Reading /\ (s.value = "lost" => r.value = "lost")
    BY <2>1, MeasuredFacts
  <2>3. r.value \in {"lost", "held"} /\ r.status \in Status
    BY <2>2 DEF Reading
  <2>4. PICK u \in SubclassRead(measured) : t = [u EXCEPT !.history = r.value]
    BY <1>3 DEF AfterReading
  <2> HIDE DEF r
  <2>5. measured \in Sensor /\ measured.value = r.value
    BY <1>0, <2>3 DEF Sensor
  <2> HIDE DEF measured
  <2>6. u \in Sensor /\ u.value = r.value
    BY <2>4, <2>5, SubclassReadFacts
  <2>7. t \in Sensor /\ t.value = u.value
    BY <2>3, <2>4, <2>6 DEF Sensor
  <2> QED BY <2>2, <2>6, <2>7
<1> QED BY <1>1, <1>2, <1>3

(* New hardware leaves the value read last as it was.                          *)
LEMMA ReplacedFacts ==
  ASSUME NEW s \in Sensor, NEW l \in 0 .. MaxLag
  PROVE  Replaced(s, l) \in Sensor /\ Replaced(s, l).value = s.value
<1> DEFINE m == [by |-> "replacement", age |-> -l]
           u == [s EXCEPT !.wear = 0, !.offset = "known"]
<1>1. m \in Record
  BY DEF Record, Age
<1>2. u \in Sensor /\ u.value = s.value
  <2>1. 0 \in 0 .. 2
    OBVIOUS
  <2>2. \A w \in 0 .. 2 : [s EXCEPT !.wear = w, !.offset = "known"] \in Sensor
    BY DEF Sensor
  <2>3. u.value = s.value
    BY DEF Sensor
  <2> QED BY <2>1, <2>2, <2>3
<1>3. Replaced(s, l) = [u EXCEPT !.status = "CALIBRATION_EXPIRED", !.record = m]
  BY DEF Replaced, Sensor
<1> HIDE DEF m, u
<1> QED BY <1>1, <1>2, <1>3 DEF Sensor, Status

(* Service of a sensor: only a calibration or a reset brings a lost value back.   *)
LEMMA SensorServiceFacts ==
  ASSUME NEW s \in Sensor, NEW l \in 0 .. MaxLag, NEW skip \in BOOLEAN,
         NEW reference \in {"held", "lost"},
         NEW action \in {"CALIBRATE", "FULL_RESET", "CLEAN_WATER", "CLEAN_ACID",
                         "REPLACE_MEMBRANE", "REPLACE_REAGENT"},
         NEW t, t \in CASE action = "CALIBRATE"        -> {Calibrate(s, l, skip, reference)}
                        [] action = "FULL_RESET"       -> {Reset(s, l)}
                        [] action = "CLEAN_WATER"      -> CleanElectrode(s, l, RinsedWear(s.wear))
                        [] action = "CLEAN_ACID"       -> CleanElectrode(s, l, EtchedWear(s.wear))
                        [] action = "REPLACE_MEMBRANE" -> {ReplaceMembrane(s, l)}
                        [] action = "REPLACE_REAGENT"  -> {ReplaceReagent(s, l)}
  PROVE  /\ t \in Sensor
         /\ s.value = "lost" /\ t.value = "held" => action \in {"CALIBRATE", "FULL_RESET"}
<1>1. -l \in Age /\ s.powered \in Age /\ s.wear \in 0 .. 2
  BY DEF Age, Sensor
<1> DEFINE Made(by) == [by |-> by, age |-> -l]
<1>2. \A by \in {"nobody", "calibration", "replacement"} : Made(by) \in Record
  BY <1>1 DEF Record
<1>3. CASE action = "CALIBRATE"
  <2>1. t = [s EXCEPT !.offset = IF "lost" \in {s.value, reference} THEN "lost" ELSE "known",
                      !.value = reference, !.status = "NORMAL", !.drifting = -l,
                      !.powered = IF skip THEN s.powered ELSE -l, !.record = Made("calibration")]
    BY <1>3 DEF Calibrate
  <2> DEFINE o == IF "lost" \in {s.value, reference} THEN "lost" ELSE "known"
             p == IF skip THEN s.powered ELSE -l
             r == Made("calibration")
  <2>2. o \in {"lost", "known"} /\ p \in Age /\ r \in Record /\ "NORMAL" \in Status
    BY <1>1, <1>2 DEF Status
  <2>3. t = [s EXCEPT !.offset = o, !.value = reference, !.status = "NORMAL", !.drifting = -l,
                      !.powered = p, !.record = r]
    BY <2>1
  <2> HIDE DEF o, p, r
  <2> QED BY <1>1, <1>3, <2>2, <2>3 DEF Sensor
<1>4. CASE action = "FULL_RESET"
  <2>1. t = [s EXCEPT !.value = "held", !.offset = "known", !.status = "NORMAL",
                      !.drifting = -l, !.powered = -l, !.history = "empty",
                      !.record = Made("nobody")]
    BY <1>4 DEF Reset
  <2> QED BY <1>1, <1>2, <1>4, <2>1 DEF Sensor, Status
<1>5. CASE action \in {"CLEAN_WATER", "CLEAN_ACID"}
  <2>1. RinsedWear(s.wear) \subseteq 0 .. 2 /\ EtchedWear(s.wear) \subseteq 0 .. 2
    BY <1>1 DEF RinsedWear, EtchedWear
  <2>2. PICK w \in 0 .. 2 : t = [s EXCEPT !.wear = w, !.powered = -l]
    BY <1>5, <2>1 DEF CleanElectrode
  <2> QED BY <1>1, <2>2 DEF Sensor
<1>6. CASE action \in {"REPLACE_MEMBRANE", "REPLACE_REAGENT"}
  <2>2. Replaced(s, l) \in Sensor /\ Replaced(s, l).value = s.value
    BY ReplacedFacts
  <2>3. t = Replaced(s, l) \/ t = [Replaced(s, l) EXCEPT !.powered = -l]
    BY <1>6 DEF ReplaceMembrane, ReplaceReagent
  <2> QED BY <1>1, <2>2, <2>3 DEF Sensor
<1> QED BY <1>3, <1>4, <1>5, <1>6
-----------------------------------------------------------------------------
(* The actuator: it delivers what it strokes unless a zero calibration of a pump  *)
(* said otherwise.                                                         *)
Delivers(a) == a.flow # a.rate => a.flow = 0 /\ a.kind = "pump"

LEMMA DynamicsFacts ==
  ASSUME NEW a \in Actuator, NEW b \in UpdateDynamics(a)
  PROVE  /\ b \in Actuator /\ b.fault = a.fault
         /\ Delivers(a) => Delivers(b)
<1>1. CASE a.kind = "pump"
  <2>1. b \in PumpDynamics(a)
    BY <1>1 DEF UpdateDynamics
  <2>2. CASE b = a
    BY <2>2
  <2>3. CASE b # a
    <3> DEFINE Drawn   == Approach(a) \X {a.strokes, a.wear = 4} \X {a.diaphragm, a.strokes}
               Stroked == {[a EXCEPT !.rate = p[1], !.flow = p[1], !.strokes = p[2],
                                      !.diaphragm = p[3]] : p \in Drawn}
    <3>0. PumpDynamics(a) = IF Error(a) < Deadband THEN {a} ELSE Stroked
      BY DEF PumpDynamics
    <3>a. b \in Stroked
      <4> HIDE DEF Stroked
      <4> QED BY <2>1, <2>3, <3>0
    <3>b. \A p \in Drawn : p[1] \in Level /\ p[2] \in BOOLEAN /\ p[3] \in BOOLEAN
      BY DEF Approach, Actuator
    <3> HIDE DEF Drawn
    <3>c. PICK p \in Drawn :
            b = [a EXCEPT !.rate = p[1], !.flow = p[1], !.strokes = p[2], !.diaphragm = p[3]]
      BY <3>a, Zenon
    <3>1. PICK r \in Level, s \in BOOLEAN, d \in BOOLEAN :
            b = [a EXCEPT !.rate = r, !.flow = r, !.strokes = s, !.diaphragm = d]
      BY <3>b, <3>c, Zenon
    <3> QED BY <3>1 DEF Actuator, Delivers
  <2> QED BY <2>2, <2>3
<1>2. CASE a.kind = "valve"
  <2>1. b \in ValveDynamics(a)
    BY <1>2 DEF UpdateDynamics
  <2>2. CASE \E x \in BOOLEAN : b = [a EXCEPT !.drift = x]
    BY <2>2 DEF Actuator, Delivers
  <2>3. CASE ~ \E x \in BOOLEAN : b = [a EXCEPT !.drift = x]
    <3> DEFINE sign(r) == IF r > a.rate THEN 1 ELSE -1
               rest(r) == r - a.rate \in {-1, 1}
               Moved   == {<<r, sign(r)>> : r \in Approach(a)}
                             \cup {<<r, 0>> : r \in {q \in Approach(a) : rest(q)}}
               held    == Error(a) < Deadband \/ (a.dir = 0 /\ Error(a) < Stiction)
               Still   == {[a EXCEPT !.drift = x] : x \in BOOLEAN}
               Driven  == {[a EXCEPT !.rate = p[1][1], !.flow = p[1][1], !.dir = p[1][2],
                                      !.drift = p[2]] : p \in Moved \X BOOLEAN}
    <3>0. ValveDynamics(a) = IF held THEN Still ELSE Driven
      BY DEF ValveDynamics
    <3>1. b \in Driven
      <4>1. b \notin Still
        BY <2>3
      <4> HIDE DEF held, Still, Driven
      <4> QED BY <2>1, <3>0, <4>1
    <3>2. \A p \in Moved : p[1] \in Level /\ p[2] \in -1 .. 1
      BY DEF Approach
    <3> HIDE DEF Moved
    <3>3. PICK p \in Moved \X BOOLEAN :
            b = [a EXCEPT !.rate = p[1][1], !.flow = p[1][1], !.dir = p[1][2], !.drift = p[2]]
      BY <3>1, Zenon
    <3>4. p[1][1] \in Level /\ p[1][2] \in -1 .. 1 /\ p[2] \in BOOLEAN
      BY <3>2
    <3>5. PICK r \in Level, m \in -1 .. 1, x \in BOOLEAN :
            b = [a EXCEPT !.rate = r, !.flow = r, !.dir = m, !.drift = x]
      BY <3>3, <3>4, Zenon
    <3> QED BY <3>5 DEF Actuator, Delivers
  <2> QED BY <2>2, <2>3
<1> QED BY <1>1, <1>2 DEF Actuator

LEMMA WearFacts ==
  ASSUME NEW a \in Actuator, NEW b \in UpdateWear(a)
  PROVE  /\ b \in Actuator /\ b.fault = a.fault
         /\ Delivers(a) => Delivers(b)
<1>1. PICK w \in 0 .. 4, v \in BOOLEAN, h \in Health :
        b = [a EXCEPT !.wear = w, !.valves = v, !.health = h]
  <2> DEFINE v == a.kind = "pump" /\ a.strokes
             Worse(w) == CASE w >= 3 -> "FAILED" [] w \in {1, 2} -> "DEGRADED" [] OTHER -> a.health
  <2>1. PICK w \in {a.wear, IF a.wear < 4 THEN a.wear + 1 ELSE 4} :
          b = [a EXCEPT !.wear = w, !.valves = v, !.health = Worse(w)]
    BY DEF UpdateWear
  <2>2. w \in 0 .. 4 /\ a.health \in Health
    BY DEF Actuator
  <2>3. Worse(w) \in Health
    BY <2>2 DEF Health
  <2>4. v \in BOOLEAN
    OBVIOUS
  <2> HIDE DEF v, Worse
  <2> QED BY <2>1, <2>2, <2>3, <2>4
<1> QED BY <1>1 DEF Actuator, Delivers

(* What was wrong before a step is wrong after it, in one way or another.        *)
LEMMA FaultsFacts ==
  ASSUME NEW a \in Actuator, NEW b \in CheckFaults(a)
  PROVE  /\ b \in Actuator
         /\ a.fault # "NONE" => b.fault # "NONE"
         /\ Delivers(a) => Delivers(b)
<1>1. WearFault(a) \in Damage /\ (a.fault # "NONE" => WearFault(a) # "NONE")
  BY DEF WearFault, Actuator, Damage
<1>2. PICK f \in Damage, h \in Health :
        b = [a EXCEPT !.fault = f, !.health = h] /\ (a.fault # "NONE" => f # "NONE")
  <2>1. CASE a.kind = "pump"
    <3> DEFINE f == IF a.valves THEN "LEAKING" ELSE WearFault(a)
               c == [a EXCEPT !.fault = f]
    <3>1. f \in Damage /\ (a.fault # "NONE" => f # "NONE") /\ a.health \in Health
      BY <1>1 DEF Damage, Actuator
    <3>2. b = c \/ b = [c EXCEPT !.fault = "LEAKING", !.health = "FAILED"]
      BY <2>1 DEF CheckFaults, PumpFaults
    <3>3. CASE b = c
      <4>1. b = [a EXCEPT !.fault = f, !.health = a.health]
        BY <3>3 DEF Actuator
      <4> QED BY <3>1, <4>1
    <3>4. CASE b = [c EXCEPT !.fault = "LEAKING", !.health = "FAILED"]
      <4>1. b = [a EXCEPT !.fault = "LEAKING", !.health = "FAILED"]
        BY <3>4 DEF Actuator
      <4> QED BY <4>1 DEF Damage, Health
    <3> QED BY <3>2, <3>3, <3>4
  <2>2. CASE a.kind = "valve"
    <3> DEFINE stuck == Error(a) > StuckError /\ a.hours
               f == CASE stuck -> "STUCK"
                      [] ~stuck /\ a.drift -> "CALIBRATION"
                      [] OTHER -> WearFault(a)
    <3>1. b = [a EXCEPT !.fault = f]
      BY <2>2 DEF CheckFaults, ValveFaults
    <3>2. f \in Damage /\ (a.fault # "NONE" => f # "NONE") /\ a.health \in Health
      BY <1>1 DEF Damage, Actuator
    <3> HIDE DEF f
    <3>3. b = [a EXCEPT !.fault = f, !.health = a.health]
      BY <3>1 DEF Actuator
    <3> QED BY <3>2, <3>3
  <2> QED BY <2>1, <2>2 DEF Actuator
<1> QED BY <1>2 DEF Actuator, Delivers

(* Service of an actuator: it may clear the fault, but not by a reset of the      *)
(* faults when the wear is critical.                                         *)
LEMMA ActuatorServiceFacts ==
  ASSUME NEW a \in Actuator,
         NEW b \in {ResetFaults(a), CalibrateZero(a), RecalibratePositioner(a),
                    ReplaceDiaphragm(a), ReplaceCheckValves(a)}
  PROVE  /\ b \in Actuator
         /\ Delivers(a) => Delivers(b)
<1>1. CASE b = ResetFaults(a)
  BY <1>1 DEF ResetFaults, Actuator, Damage, Health, Delivers
<1>2. CASE b = CalibrateZero(a)
  <2>0. 0 \in Level
    BY DEF Level
  <2>1. PICK r \in Level : /\ b = [a EXCEPT !.cmd = 0, !.flow = 0, !.dir = 0, !.drift = FALSE,
                                            !.rate = r]
                           /\ a.kind # "pump" => r = 0
    <3> DEFINE r == IF a.kind = "pump" THEN a.rate ELSE 0
    <3>1. r \in Level /\ (a.kind # "pump" => r = 0)
      BY <2>0 DEF Actuator
    <3>2. b = [a EXCEPT !.cmd = 0, !.flow = 0, !.dir = 0, !.drift = FALSE, !.rate = r]
      BY <1>2 DEF CalibrateZero
    <3> QED BY <3>1, <3>2
  <2>2. b \in Actuator
    <3>1. \A z \in Level : \A m \in -1 .. 1 :
            [a EXCEPT !.cmd = z, !.flow = z, !.dir = m, !.drift = FALSE, !.rate = r] \in Actuator
      BY DEF Actuator
    <3>2. 0 \in -1 .. 1
      OBVIOUS
    <3> QED BY <2>0, <2>1, <3>1, <3>2
  <2>3. b.flow = 0 /\ b.kind = a.kind /\ b.rate = r /\ a.kind \in {"pump", "valve"}
    BY <2>1 DEF Actuator
  <2> QED BY <2>1, <2>2, <2>3 DEF Delivers
<1>3. CASE b = RecalibratePositioner(a)
  BY <1>3 DEF RecalibratePositioner, Actuator, Damage, Delivers
<1>4. CASE b = ReplaceDiaphragm(a)
  BY <1>4 DEF ReplaceDiaphragm, Actuator, Damage, Health, Delivers
<1>5. CASE b = ReplaceCheckValves(a)
  BY <1>5 DEF ReplaceCheckValves, Actuator, Damage, Delivers
<1> QED BY <1>1, <1>2, <1>3, <1>4, <1>5

-----------------------------------------------------------------------------
(* The dispatch only ever calls a method the device has.                        *)
LEMMA ExecuteFacts ==
  ASSUME NEW action \in Action, target \in Fitted, Execute(target, action) = "SUCCESS"
  PROVE  /\ IsSensor => action \in {"CALIBRATE", "FULL_RESET", "CLEAN_WATER", "CLEAN_ACID",
                                   "REPLACE_MEMBRANE", "REPLACE_REAGENT"}
         /\ ~IsSensor => action \in {"RESET_FAULTS", "CALIBRATE_ZERO",
                                     "RECALIBRATE_POSITIONER", "REPLACE_DIAPHRAGM",
                                     "REPLACE_CHECK_VALVES"}
<1>1. target \in HasMethod(action) /\ target \notin Raises(action) /\ target \in Target
  BY DEF Execute
<1>2. IsSensor => target \notin ValveTarget \cup PumpTarget
  BY DEF IsSensor, SensorTarget, pHTarget, Amperometric, Dpd, ValveTarget, PumpTarget
<1>3. ~IsSensor => target \notin SensorTarget \cup pHTarget \cup Amperometric \cup Dpd
  BY DEF IsSensor, SensorTarget
<1> QED BY <1>1, <1>2, <1>3 DEF HasMethod, Raises, Action

FieldInv ==
  /\ TypeOK
  /\ ~IsSensor => Delivers(device)

LEMMA FieldStarts == Init => FieldInv
<1> SUFFICES ASSUME Init PROVE FieldInv
  OBVIOUS
<1>1. target \in Target
  BY DEF Init
<1>2. 0 \in Age /\ 0 \in 0 .. MaxLag
  BY DEF Age
<1>3. shown \in Reading /\ lag \in 0 .. MaxLag /\ serviced \subseteq Action /\ target \in Fitted
  BY <1>2 DEF Init, NoReading, Reading, Status, Fault
<1>4. CASE IsSensor
  <2>1. KindOf(target) \in Kind
    <3>1. target \in pHTarget \cup Amperometric \cup Dpd \cup {"FLOW_MAIN", "TEMP_INLET", "TEMP_OUTLET"}
      BY <1>4 DEF IsSensor, SensorTarget
    <3>2. CASE target \in pHTarget
      BY <3>2 DEF KindOf, Kind, pHTarget, Amperometric, Dpd, ValveTarget, PumpTarget
    <3>3. CASE target \in Amperometric
      BY <3>3 DEF KindOf, Kind, pHTarget, Amperometric, Dpd, ValveTarget, PumpTarget
    <3>4. CASE target \in Dpd
      BY <3>4 DEF KindOf, Kind, pHTarget, Amperometric, Dpd, ValveTarget, PumpTarget
    <3>5. CASE target \in {"FLOW_MAIN", "TEMP_INLET", "TEMP_OUTLET"}
      BY <3>5 DEF KindOf, Kind, pHTarget, Amperometric, Dpd, ValveTarget, PumpTarget
    <3> QED BY <3>1, <3>2, <3>3, <3>4, <3>5
  <2>2. device = Commissioned(KindOf(target))
    BY <1>4 DEF Init
  <2>3. [by |-> "calibration", age |-> 0] \in Record
    BY <1>2 DEF Record
  <2>4. device \in Sensor
    BY <1>2, <2>1, <2>2, <2>3 DEF Commissioned, Sensor, Status
  <2> QED BY <1>3, <1>4, <2>4 DEF FieldInv, TypeOK
<1>5. CASE ~IsSensor
  <2>1. KindOf(target) \in {"pump", "valve"}
    BY <1>1, <1>5 DEF IsSensor, KindOf, Target, SensorTarget, pHTarget, Amperometric, Dpd,
                      ValveTarget, PumpTarget
  <2>2. device \in Primed(KindOf(target))
    BY <1>5 DEF Init
  <2>3. device \in Actuator /\ device.flow = device.rate
    <3>1. PICK c \in Level, r \in Level :
            device = [kind |-> KindOf(target), cmd |-> c, rate |-> r, flow |-> r, dir |-> 0,
                      health |-> "NORMAL", fault |-> "NONE", wear |-> 0, strokes |-> FALSE,
                      diaphragm |-> FALSE, valves |-> FALSE, drift |-> FALSE, hours |-> FALSE]
      BY <2>2 DEF Primed
    <3>2. 0 \in -1 .. 1 /\ 0 \in 0 .. 4 /\ "NORMAL" \in Health /\ "NONE" \in Damage
      BY DEF Health, Damage
    <3> QED BY <2>1, <3>1, <3>2 DEF Actuator
  <2> QED BY <1>3, <1>5, <2>3 DEF FieldInv, TypeOK, Delivers
<1> QED BY <1>4, <1>5

(* What an iteration does to a sensor.                                       *)
LEMMA ReadStep ==
  ASSUME FieldInv, ReadSensor
  PROVE  /\ FieldInv' /\ IsSensor /\ IsSensor'
         /\ device.value = "lost" => device'.value = "lost"
         /\ shown'.value = "held" /\ Expired(Aged(device)) => shown'.status # "NORMAL"
         /\ device.supply # "ok" => shown'.status = "POWER_FAULT" /\ shown'.fault # "NONE"
<1>1. IsSensor /\ device \in Sensor /\ target' = target /\ IsSensor'
  BY DEF ReadSensor, FieldInv, TypeOK, IsSensor
<1>2. PICK d \in Draw : shown' = ReadingOf(Aged(device), d)
                        /\ device' \in AfterReading(Aged(device), d)
  BY DEF ReadSensor
<1>3. Aged(device) \in Sensor /\ Aged(device).value = device.value
      /\ Aged(device).supply = device.supply
  BY <1>1, AgedFacts
<1>4. device' \in Sensor /\ (device.value = "lost" => device'.value = "lost")
  BY <1>2, <1>3, AfterReadingFacts
<1>5. /\ shown' \in Reading
      /\ shown'.value = "held" /\ Expired(Aged(device)) => shown'.status # "NORMAL"
      /\ device.supply # "ok" => shown'.status = "POWER_FAULT" /\ shown'.fault # "NONE"
  BY <1>2, <1>3, ReadingFacts
<1>6. lag' \in 0 .. MaxLag /\ serviced' \subseteq Action /\ target' \in Fitted
  BY DEF ReadSensor, Slip, FieldInv, TypeOK
<1> QED BY <1>1, <1>4, <1>5, <1>6 DEF FieldInv, TypeOK

(* What an iteration does to an actuator.                                    *)
LEMMA StepStep ==
  ASSUME FieldInv, StepActuator
  PROVE  /\ FieldInv' /\ ~IsSensor /\ ~IsSensor'
         /\ device.fault # "NONE" => device'.fault # "NONE"
<1>1. ~IsSensor /\ device \in Actuator /\ Delivers(device) /\ target' = target /\ ~IsSensor'
  BY DEF StepActuator, FieldInv, TypeOK, IsSensor
<1> DEFINE After(ran) == \E moved \in UpdateDynamics(ran) :
                         \E worn \in UpdateWear(moved) : device' \in CheckFaults(worn)
<1>a. PICK command \in Level : \E ran \in Commanded(device, command) : After(ran)
  BY DEF StepActuator
<1>b. PICK ran \in Commanded(device, command) : After(ran)
  BY <1>a
<1>c. PICK moved \in UpdateDynamics(ran) : \E worn \in UpdateWear(moved) : device' \in CheckFaults(worn)
  BY <1>b
<1>2. PICK worn \in UpdateWear(moved) : device' \in CheckFaults(worn)
  BY <1>c
<1>3. ran \in Actuator /\ ran.fault = device.fault /\ Delivers(ran)
  <2>1. PICK h \in BOOLEAN : ran = [device EXCEPT !.cmd = command, !.hours = h]
    BY <1>1, <1>b DEF Commanded, Actuator
  <2> QED BY <1>1, <2>1 DEF Actuator, Delivers
<1>4. moved \in Actuator /\ moved.fault = device.fault /\ Delivers(moved)
  BY <1>3, DynamicsFacts
<1>5. worn \in Actuator /\ worn.fault = device.fault /\ Delivers(worn)
  BY <1>4, WearFacts
<1>6. /\ device' \in Actuator /\ Delivers(device')
      /\ device.fault # "NONE" => device'.fault # "NONE"
  BY <1>2, <1>5, FaultsFacts
<1>7. shown' \in Reading /\ lag' \in 0 .. MaxLag /\ serviced' \subseteq Action /\ target' \in Fitted
  BY DEF StepActuator, FieldInv, TypeOK
<1> QED BY <1>1, <1>6, <1>7 DEF FieldInv, TypeOK, Delivers

(* What maintenance does to either.                                          *)
LEMMA MaintainStep ==
  ASSUME FieldInv, Maintain
  PROVE  /\ FieldInv' /\ (IsSensor' <=> IsSensor) /\ serviced' # {}
         /\ IsSensor /\ device.value = "lost" /\ device'.value = "held"
              => serviced' \cap {"CALIBRATE", "FULL_RESET"} # {}
         /\ ~IsSensor /\ device.fault # "NONE" /\ device'.fault = "NONE"
              /\ serviced' = {"RESET_FAULTS"} => device.wear <= 2
<1>1. PICK action \in Action, skip \in BOOLEAN, reference \in {"held", "lost"} :
        /\ Execute(target, action) = "SUCCESS"
        /\ device' \in IF IsSensor THEN ApplyToSensor(device, action, skip, reference)
                      ELSE {ApplyToActuator(device, action)}
        /\ serviced' = {action}
  BY DEF Maintain
<1>2. /\ target' = target /\ (IsSensor' <=> IsSensor) /\ target \in Fitted
      /\ shown' \in Reading /\ lag \in 0 .. MaxLag /\ lag' \in 0 .. MaxLag
  BY DEF Maintain, FieldInv, TypeOK, IsSensor
<1>3. CASE IsSensor
  <2>1. device \in Sensor /\ device' \in ApplyToSensor(device, action, skip, reference)
    BY <1>1, <1>3 DEF FieldInv, TypeOK
  <2>2. action \in {"CALIBRATE", "FULL_RESET", "CLEAN_WATER", "CLEAN_ACID",
                    "REPLACE_MEMBRANE", "REPLACE_REAGENT"}
    BY <1>1, <1>2, <1>3, ExecuteFacts
  <2>3. device' \in Sensor
        /\ (device.value = "lost" /\ device'.value = "held" => action \in {"CALIBRATE", "FULL_RESET"})
    <3> DEFINE s == device
               t == device'
    <3>1. t \in CASE action = "CALIBRATE"        -> {Calibrate(s, lag, skip, reference)}
                   [] action = "FULL_RESET"       -> {Reset(s, lag)}
                   [] action = "CLEAN_WATER"      -> CleanElectrode(s, lag, RinsedWear(s.wear))
                   [] action = "CLEAN_ACID"       -> CleanElectrode(s, lag, EtchedWear(s.wear))
                   [] action = "REPLACE_MEMBRANE" -> {ReplaceMembrane(s, lag)}
                   [] action = "REPLACE_REAGENT"  -> {ReplaceReagent(s, lag)}
      BY <2>1 DEF ApplyToSensor
    <3>2. s \in Sensor /\ lag \in 0 .. MaxLag
      BY <1>2, <2>1
    <3> HIDE DEF s, t
    <3>3. t \in Sensor /\ (s.value = "lost" /\ t.value = "held" => action \in {"CALIBRATE", "FULL_RESET"})
      BY <2>2, <3>1, <3>2, SensorServiceFacts
    <3> QED BY <3>3 DEF s, t
  <2> QED BY <1>1, <1>2, <1>3, <2>3 DEF FieldInv, TypeOK
<1>4. CASE ~IsSensor
  <2>1. device \in Actuator /\ Delivers(device) /\ device' = ApplyToActuator(device, action)
    BY <1>1, <1>4 DEF FieldInv, TypeOK
  <2>2. action \in {"RESET_FAULTS", "CALIBRATE_ZERO", "RECALIBRATE_POSITIONER",
                    "REPLACE_DIAPHRAGM", "REPLACE_CHECK_VALVES"}
    BY <1>1, <1>2, <1>4, ExecuteFacts
  <2>3. device' \in {ResetFaults(device), CalibrateZero(device), RecalibratePositioner(device),
                     ReplaceDiaphragm(device), ReplaceCheckValves(device)}
    BY <2>1, <2>2 DEF ApplyToActuator
  <2>4. device' \in Actuator /\ Delivers(device')
    BY <2>1, <2>3, ActuatorServiceFacts
  <2>5. action = "RESET_FAULTS" /\ device.wear > 2 => device' = device
    BY <2>1 DEF ApplyToActuator, ResetFaults
  <2>6. device.wear \in Nat
    BY <2>1 DEF Actuator
  <2>7. FieldInv'
    BY <1>1, <1>2, <1>4, <2>4 DEF FieldInv, TypeOK, Delivers
  <2> QED BY <1>1, <1>2, <1>4, <2>5, <2>6, <2>7
<1> QED BY <1>3, <1>4

-----------------------------------------------------------------------------
LEMMA FieldInvariant == Spec => []FieldInv
<1>1. FieldInv /\ UNCHANGED vars => FieldInv'
  BY DEF FieldInv, TypeOK, IsSensor, Delivers, vars
<1>2. FieldInv /\ [Next]_vars => FieldInv'
  BY <1>1, ReadStep, StepStep, MaintainStep DEF Next
<1> QED BY <1>2, FieldStarts, PTL DEF Spec

(* Type correctness of every device of the suites.                             *)
THEOREM FieldTyped == Spec => []TypeOK
<1>1. FieldInv => TypeOK
  BY DEF FieldInv
<1> QED BY <1>1, FieldInvariant, PTL

(* A pump delivers what it strokes, or nothing after a zero calibration, and a    *)
(* valve stands where its flow says (dosing_pump.py:261-302).                   *)
THEOREM FlowFollowsStroke == Spec => []DeliversAsStroked
<1>1. FieldInv => DeliversAsStroked
  BY DEF FieldInv, Delivers, DeliversAsStroked
<1> QED BY <1>1, FieldInvariant, PTL

(* A value without a valid calibration is never NORMAL, and a supply that left    *)
(* its tolerance is told by every later reading (base_sensor.py:199-403).        *)
THEOREM TroubleIsTold == Spec => TroubleIsShown
<1>1. FieldInv /\ [Next]_vars =>
        [ IsSensor /\ serviced' = {} =>
            /\ shown'.value = "held" /\ Expired(Aged(device)) => shown'.status # "NORMAL"
            /\ device.supply # "ok" => shown'.status = "POWER_FAULT" /\ shown'.fault # "NONE" ]_vars
  BY ReadStep, StepStep, MaintainStep DEF Next
<1> QED BY <1>1, FieldInvariant, PTL DEF Spec, TroubleIsShown

(* No iteration gives a sensor its lost value back or clears the fault of an      *)
(* actuator; only the service meant for it does (sensor_operations.py:208-283,   *)
(* base_actuator.py:393-401).                                              *)
THEOREM HealedByService == Spec => OnlyServiceHeals
<1>1. FieldInv /\ [Next]_vars =>
        [ /\ IsSensor /\ device.value = "lost" /\ device'.value = "held"
               => serviced' \cap {"CALIBRATE", "FULL_RESET"} # {}
          /\ ~IsSensor /\ device.fault # "NONE" /\ device'.fault = "NONE"
               => /\ serviced' # {}
                  /\ serviced' = {"RESET_FAULTS"} => device.wear <= 2 ]_vars
  BY ReadStep, StepStep, MaintainStep DEF Next
<1> QED BY <1>1, FieldInvariant, PTL DEF Spec, OnlyServiceHeals
=============================================================================
