----------------------------- MODULE HmiSnapshot -----------------------------
(***************************************************************************)
(* What the runtime shows of one process snapshot: the snapshot of the HMI    *)
(* with its signals, areas and alarms (runtime/src/snapshot.rs), the banner   *)
(* and the tiles the page renders from it (hmi/src/lib), and the Modbus image *)
(* (runtime/src/runtime.rs).  A measured value is a fraction, acidity stands  *)
(* for pH and runs against it; limits are tenths of a unit.                  *)
(***************************************************************************)
EXTENDS PcsControl, RegisterMap, FiniteSets

Value(n, d) == [num |-> n, den |-> d]

Below(v, tenths) == 10 * v.num < tenths * v.den
Above(v, tenths) == 10 * v.num > tenths * v.den

(* What signals() shows: the tags of the readings, of the streams the pumps       *)
(* deliver, and of the status word.                                          *)
ReadingOf == [tag \in {"FIT-INT-001", "AIT-PH-IN", "AIT-PH-MID", "AIT-PH-001",
                       "AIT-CL-001", "TIT-OUT-001", "TIT-IN-001"} |->
  CASE tag = "FIT-INT-001" -> "flow_rate"
    [] tag = "AIT-PH-IN"   -> "acidity_inlet"
    [] tag = "AIT-PH-MID"  -> "acidity_middle"
    [] tag = "AIT-PH-001"  -> "acidity_outlet"
    [] tag = "AIT-CL-001"  -> "chlorine_outlet"
    [] tag = "TIT-OUT-001" -> "temperature_outlet"
    [] tag = "TIT-IN-001"  -> "temperature_inlet"]

DosingOf == [tag \in {"FIT-ACID-ACT", "FIT-CL-ACT"} |->
               IF tag = "FIT-ACID-ACT" THEN "acid" ELSE "chlorine"]

Tags == DOMAIN ReadingOf \cup DOMAIN DosingOf \cup {"HS-STAT-001"}

(* Its limits, low before high; pH 6.8 and 7.8 are acidities 15 and 5, the wider  *)
(* 6.5 and 8.2 are 30 and 2.  A signal has no limit of a kind when the set of it   *)
(* is empty.                                                                 *)
Limit(alarmLow, warnLow, warnHigh, alarmHigh) ==
  [alarmLow |-> alarmLow, warnLow |-> warnLow, warnHigh |-> warnHigh, alarmHigh |-> alarmHigh]

Limits(tag) ==
  CASE tag = "FIT-INT-001"                              -> Limit({1}, {10}, {180}, {200})
    [] tag \in {"AIT-PH-IN", "AIT-PH-MID", "AIT-PH-001"} -> Limit({2}, {5}, {15}, {30})
    [] tag = "AIT-CL-001"                               -> Limit({6}, {9}, {22}, {28})
    [] tag \in {"TIT-OUT-001", "TIT-IN-001"}            -> Limit({10}, {50}, {350}, {450})
    [] tag = "HS-STAT-001"                              -> Limit({}, {}, {0}, {10})
    [] tag = "FIT-ACID-ACT"                             -> Limit({0}, {0}, {15}, {20})
    [] tag = "FIT-CL-ACT"                               -> Limit({0}, {0}, {8}, {10})

SignalValue(raw, tag) ==
  CASE tag \in DOMAIN ReadingOf -> raw.read[ReadingOf[tag]]
    [] tag \in DOMAIN DosingOf  -> Value(raw.dosed[DosingOf[tag]], 1)
    [] tag = "HS-STAT-001"      -> Value(raw.status, 1)

(* statusForSignal: the colour of a tile.                                    *)
StatusForSignal(v, limit) ==
  IF (\E l \in limit.alarmLow : Below(v, l)) \/ (\E l \in limit.alarmHigh : Above(v, l))
  THEN "alarm"
  ELSE IF (\E l \in limit.warnLow : Below(v, l)) \/ (\E l \in limit.warnHigh : Above(v, l))
  THEN "warning" ELSE "normal"

Tiles(raw) == [tag \in Tags |-> StatusForSignal(SignalValue(raw, tag), Limits(tag))]

-----------------------------------------------------------------------------
(* The water at the outlet, the only place process_status looks at.            *)
TooLittle(raw) == Below(raw.read["chlorine_outlet"], 6)

OffTarget(raw) ==
  \/ Below(raw.read["chlorine_outlet"], 9)
  \/ Below(raw.read["acidity_outlet"], 5)
  \/ Above(raw.read["acidity_outlet"], 15)

(* Mutant: the status word is not looked at.                                 *)
ProcessStatusOfWater(raw) ==
  IF TooLittle(raw) THEN "alarm" ELSE IF OffTarget(raw) THEN "warning" ELSE "normal"

ProcessStatus(raw) ==
  IF raw.status > 0 \/ TooLittle(raw) THEN "alarm"
  ELSE IF OffTarget(raw) THEN "warning" ELSE "normal"

(* areas: the intake is always shown as normal.                              *)
Areas(status) ==
  [a \in {"intake", "reactor", "disinfection", "controls"} |->
     IF a = "intake" THEN "normal" ELSE status]

(* alarms, those that are active; the notice about the boundary always is.    *)
Alarm(id, severity) == [id |-> id, severity |-> severity]

ActiveAlarms(raw, control, error) ==
  LET status == ProcessStatus(raw) IN
  {Alarm("simulation-boundary", "notice")}
    \cup {a \in {Alarm("pcs-state", "warning")} : control.interlock}
    \cup {a \in {Alarm("process-status", IF status = "alarm" THEN "critical" ELSE "warning")} :
            status # "normal" \/ ~raw.running}
    \cup {a \in {Alarm("runtime-worker-error", "critical")} : error}

(* build_hmi_snapshot.                                                       *)
HmiSnapshot(raw, operator, control, error) ==
  [raw |-> raw, tiles |-> Tiles(raw), areas |-> Areas(ProcessStatus(raw)),
   alarms |-> ActiveAlarms(raw, control, error), values |-> operator]

(* The banner is quiet when nothing but the notice is active.                *)
Quiet(screen) == screen.alarms = {Alarm("simulation-boundary", "notice")}

-----------------------------------------------------------------------------
(* ModbusImage::from_state: the word at which each value starts.             *)
ImageInputs ==
  {<<0, "pH_inlet">>, <<2, "pH_middle">>, <<4, "pH_outlet">>, <<6, "chlorine_inlet">>,
   <<8, "chlorine_outlet">>, <<10, "flow_rate">>, <<12, "temperature_inlet">>,
   <<14, "temperature_outlet">>, <<100, "simulation_time">>, <<102, "system_status">>}

ImageHoldings ==
  {<<0, "acid_flow_rate">>, <<2, "chlorine_flow_rate">>, <<4, "inlet_flow_rate">>,
   <<10, "acid_concentration">>, <<12, "chlorine_concentration">>}

ImageCoils == {<<0, "acid_pump_enable">>, <<1, "chlorine_pump_enable">>,
               <<2, "simulation_running">>}

(* The runtime serves its values where the stand-alone simulator's register   *)
(* map has them, so that a client made for one can read the other.           *)
ASSUME ImageAssumption ==
  /\ \A p \in ImageInputs   : ByName(InputRegisters, p[2]).address = p[1]
  /\ \A p \in ImageHoldings : ByName(HoldingRegisters, p[2]).address = p[1]
  /\ \A p \in ImageCoils    : ByName(Coils, p[2]).address = p[1]
=============================================================================
