------------------------------ MODULE FieldSensor ------------------------------
(***************************************************************************)
(* One field sensor (src/hydrasim/sensors/base_sensor.py,                    *)
(* sensor_operations.py and its subclasses): what read() and the service     *)
(* methods do to its state.  The operators return the next sensor.           *)
(*                                                                           *)
(* A measured value is "lost" (NaN) or "held"; the physics only decides in   *)
(* which range it falls, so that is drawn.  A moment in the past is an age,  *)
(* relative to the simulated clock that stamps the readings and capped at    *)
(* Old.  Service calls are stamped with the host's monotonic clock, which    *)
(* is lag ahead: the moment of a service has age -lag.                       *)
(***************************************************************************)
EXTENDS Integers

CONSTANTS
  WarmUp,      \* warm-up time of each kind of sensor, in loop iterations
  Validity,    \* how long a calibration of each kind is valid
  DriftLimit,  \* the age at which aging drift reaches 10% of the range
  Old,         \* the bound on ages
  MaxLag       \* the bound on how far the host clock gets ahead

Kind == {"pH", "amperometric", "dpd", "magnetic", "rtd"}

ASSUME SensorAssumption ==
  /\ WarmUp \in [Kind -> Nat] /\ Validity \in [Kind -> Nat]
  /\ DriftLimit \in Nat /\ Old \in Nat /\ MaxLag \in Nat
  /\ \A k \in Kind : WarmUp[k] <= Old /\ Validity[k] < Old
  /\ DriftLimit < Old

Age    == -MaxLag .. Old
Status == {"NORMAL", "WARMING_UP", "FAILED", "SATURATED", "DRIFT_WARNING",
           "CALIBRATION_EXPIRED", "OUT_OF_RANGE", "POWER_FAULT",
           "RATE_OF_CHANGE_FAULT"}
Fault  == {"NONE", "OPEN_CIRCUIT", "SHORT_CIRCUIT", "OUT_OF_RANGE",
           "RATE_FAULT", "POWER_LOW", "POWER_HIGH"}

(* The last entry of calibration_history.  A replacement of hardware appends  *)
(* a record without validity.                                                *)
Record  == [by : {"nobody", "calibration", "replacement"}, age : Age]
Reading == [value : {"lost", "held"}, status : Status, fault : Fault]

(* value is current_value, offset calibration_offset, powered the age of     *)
(* power_on_time, drifting that of last_calibration_time, history what the   *)
(* last stored reading was; wear is fouling or lost reagent potency: none,   *)
(* some, or more than half.                                                  *)
Sensor == [kind : Kind, value : {"lost", "held"}, offset : {"lost", "known"},
           status : Status, supply : {"ok", "low", "high"},
           powered : Age, drifting : Age, record : Record,
           history : {"empty", "lost", "held"}, wear : 0 .. 2]

(* A sensor as initialize_sensors leaves it: built and calibrated.           *)
Commissioned(kind) ==
  [kind |-> kind, value |-> "held", offset |-> "known", status |-> "NORMAL",
   supply |-> "ok", powered |-> 0, drifting |-> 0,
   record |-> [by |-> "calibration", age |-> 0],
   history |-> "empty", wear |-> 0]

(* One iteration of the simulated clock.                                     *)
Older(age) == IF age < Old THEN age + 1 ELSE Old
Aged(s) == [s EXCEPT !.powered = Older(@), !.drifting = Older(@),
                     !.record.age = Older(@)]

-----------------------------------------------------------------------------
(* What chance and physics contribute to a reading: the supply voltage drawn, *)
(* the range the filtered value falls in (far: more than 10% outside, over:  *)
(* outside), whether it moved faster than physically possible, and the rare  *)
(* open or short circuit.                                                    *)
(* What comes after the first fault is not looked at.                        *)
Draw ==
  {d \in [volt : {"ok", "low", "high"}, range : {"in", "over", "far"},
          fast : BOOLEAN, circuit : {"NONE", "OPEN_CIRCUIT", "SHORT_CIRCUIT"}] :
     d.volt # "ok" \/ d.circuit # "NONE" =>
       d.range = "in" /\ ~d.fast /\ (d.volt # "ok" => d.circuit = "NONE")}

WarmedUp(s) == s.powered >= WarmUp[s.kind]

(* _check_calibration_valid with CalibrationRecord.is_expired.               *)
Expired(s) ==
  \/ s.record.by = "nobody"
  \/ s.record.by = "calibration" /\ s.record.age > Validity[s.kind]
  \/ s.record.by = "replacement" /\ s.record.age > 0

(* Drift rates are zero for flow and temperature.                            *)
Drifted(s) == s.kind \in {"pH", "amperometric", "dpd"} /\ s.drifting > DriftLimit

(* The lag filter mixes the last value with the corrected sample: NaN in      *)
(* either is NaN for good.                                                   *)
Filtered(s) == IF "lost" \in {s.value, s.offset} THEN "lost" ELSE "held"

(* _check_for_faults: every comparison with NaN is false.                    *)
Detected(s, d) ==
  CASE d.volt = "low"  -> "POWER_LOW"
    [] d.volt = "high" -> "POWER_HIGH"
    [] d.volt = "ok" /\ Filtered(s) = "held" /\ d.range = "far" -> "OUT_OF_RANGE"
    [] d.volt = "ok" /\ Filtered(s) = "held" /\ d.range # "far"
         /\ d.fast /\ s.history = "held" -> "RATE_FAULT"
    [] OTHER -> d.circuit

FaultStatus(fault) ==
  CASE fault \in {"OPEN_CIRCUIT", "SHORT_CIRCUIT"} -> "FAILED"
    [] fault \in {"POWER_LOW", "POWER_HIGH"}       -> "POWER_FAULT"
    [] fault = "OUT_OF_RANGE"                      -> "OUT_OF_RANGE"
    [] fault = "RATE_FAULT"                        -> "RATE_OF_CHANGE_FAULT"

(* Mutant: an expired calibration is noticed only when nothing else was.     *)
FaultFreeStatusLax(s, d) ==
  CASE Filtered(s) = "lost" -> s.status
    [] Filtered(s) = "held" /\ d.range = "over" -> "SATURATED"
    [] OTHER -> "NORMAL"

(* The status after a reading without fault: what it was, for a lost value.  *)
FaultFreeStatus(s, d) ==
  LET before == IF Expired(s) THEN "CALIBRATION_EXPIRED" ELSE s.status
      ranged == CASE Filtered(s) = "lost" -> before
                  [] Filtered(s) = "held" /\ d.range = "over" -> "SATURATED"
                  [] OTHER -> IF Expired(s) THEN before ELSE "NORMAL"
  IN  IF Drifted(s) /\ ranged # "CALIBRATION_EXPIRED" THEN "DRIFT_WARNING"
      ELSE ranged

-----------------------------------------------------------------------------
(* BaseSensor.read and the read of the subclass around it, from which a      *)
(* sensor and its reading result.  The power supply is tested as the last     *)
(* reading left it and drawn anew before anything else, so a reading taken    *)
(* while warming up can leave it out of tolerance.  The refusal of a reading   *)
(* older than the last one is left out: both are of the simulated clock.      *)
UnpoweredReading(s) ==
  [value |-> "lost", status |-> "POWER_FAULT",
   fault |-> IF s.supply = "low" THEN "POWER_LOW" ELSE "POWER_HIGH"]

WarmingReading == [value |-> "lost", status |-> "WARMING_UP", fault |-> "NONE"]

MeasuredReading(s, d) ==
  LET fault == Detected(s, d) IN
  [value  |-> IF fault \in {"OPEN_CIRCUIT", "SHORT_CIRCUIT"} THEN "lost"
              ELSE Filtered(s),
   status |-> IF fault = "NONE" THEN FaultFreeStatus(s, d) ELSE FaultStatus(fault),
   fault  |-> fault]

(* The read of a subclass around it: the sensing element ages with the time   *)
(* between two readings, the effects of its kind are added and the result is  *)
(* clipped to the range, stored and published.  Fouling and worn-out reagent  *)
(* change the value only; a resistance thermometer does not age.             *)
Grown(s)           == IF s.history # "empty" /\ s.wear < 2 THEN {s.wear, s.wear + 1}
                      ELSE {s.wear}
MembraneFouling(s) == Grown(s)
ReagentLoss(s)     == Grown(s)
pHRead(s)          == {[s EXCEPT !.wear = w] : w \in MembraneFouling(s)}
ChlorineRead(s)    == {[s EXCEPT !.wear = w] : w \in ReagentLoss(s)}
FlowRead(s)        == {[s EXCEPT !.wear = w] : w \in Grown(s)}
TemperatureRead(s) == {s}
SubclassRead(s) ==
  CASE s.value = "lost"                     -> {s}
    [] s.value = "held" /\ s.kind = "pH"       -> pHRead(s)
    [] s.value = "held" /\ s.kind \in {"amperometric", "dpd"} -> ChlorineRead(s)
    [] s.value = "held" /\ s.kind = "magnetic" -> FlowRead(s)
    [] s.value = "held" /\ s.kind = "rtd"      -> TemperatureRead(s)

(* The reading of s for a draw.                                              *)
ReadingOf(s, d) ==
  CASE s.supply # "ok"                 -> UnpoweredReading(s)
    [] s.supply = "ok" /\ ~WarmedUp(s) -> WarmingReading
    [] OTHER                           -> MeasuredReading(s, d)

(* The sensors that taking that reading may leave.                           *)
AfterReading(s, d) ==
  LET r == ReadingOf(s, d)
      measured == [s EXCEPT !.supply = d.volt, !.value = r.value, !.status = r.status]
  IN CASE s.supply # "ok" -> {[s EXCEPT !.history = "lost"]}
       [] s.supply = "ok" /\ ~WarmedUp(s) ->
            {[s EXCEPT !.history = "lost", !.supply = d.volt]}
       [] OTHER -> {[t EXCEPT !.history = r.value] : t \in SubclassRead(measured)}

-----------------------------------------------------------------------------
(* SensorServiceMixin.calibrate: the offset is the distance from the value    *)
(* read last to the reference, which nothing keeps from being NaN.  An         *)
(* infinite one counts as lost, too: the first reading after it subtracts it   *)
(* from itself to see which way the value moves (_apply_hysteresis), and all   *)
(* kinds of the suite have a hysteresis.  skip leaves the warm-up alone.       *)
Calibrate(s, lag, skip, reference) ==
  [s EXCEPT !.offset = IF "lost" \in {s.value, reference} THEN "lost" ELSE "known",
            !.value = reference, !.status = "NORMAL", !.drifting = -lag,
            !.powered = IF skip THEN @ ELSE -lag,
            !.record = [by |-> "calibration", age |-> -lag]]

(* SensorServiceMixin.reset: neither the supply nor the wear is touched.     *)
Reset(s, lag) ==
  [s EXCEPT !.value = "held", !.offset = "known", !.status = "NORMAL",
            !.drifting = -lag, !.powered = -lag, !.history = "empty",
            !.record = [by |-> "nobody", age |-> -lag]]

(* pHSensor.clean_electrode: a water rinse halves the fouling, an acid clean  *)
(* leaves a tenth of it.                                                     *)
RinsedWear(wear) == CASE wear = 2 -> {1} [] wear = 1 -> {0, 1} [] OTHER -> {0}
EtchedWear(wear) == IF wear = 2 THEN {1} ELSE {0}
CleanElectrode(s, lag, wears) ==
  {[s EXCEPT !.wear = w, !.powered = -lag] : w \in wears}

(* ChlorineEffectsMixin.replace_membrane and replace_reagent: the offset is   *)
(* cleared, the value read last stays.  Only a membrane has to warm up.      *)
Replaced(s, lag) ==
  [s EXCEPT !.wear = 0, !.offset = "known", !.status = "CALIBRATION_EXPIRED",
            !.record = [by |-> "replacement", age |-> -lag]]
ReplaceMembrane(s, lag) == [Replaced(s, lag) EXCEPT !.powered = -lag]
ReplaceReagent(s, lag)  == Replaced(s, lag)
=============================================================================
