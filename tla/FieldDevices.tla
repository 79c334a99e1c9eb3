----------------------------- MODULE FieldDevices -----------------------------
(***************************************************************************)
(* A field device in the main loop (src/hydrasim/runtime_loop.py and          *)
(* __main__.py): every iteration reads the sensor or commands and steps the   *)
(* actuator, and between two iterations a client may have it maintained.      *)
(* Devices do not share state, so one of them, any of the suite, is followed. *)
(*                                                                           *)
(* The iterations advance the simulated clock; maintenance is stamped with    *)
(* the host's, which runs ahead of it by lag: an iteration sleeps for its     *)
(* whole time step on top of the work it does.                               *)
(***************************************************************************)
EXTENDS MaintenanceManager, FieldSensor, FieldActuator

VARIABLES
  target,   \* which device is followed
  device,   \* its state
  shown,    \* the last reading of a sensor, as published
  lag,      \* how far the host clock is ahead, in iterations
  serviced  \* the actions that succeeded since the last iteration

vars == <<target, device, shown, lag, serviced>>

NoReading == [value |-> "lost", status |-> "WARMING_UP", fault |-> "NONE"]

KindOf(t) ==
  CASE t \in pHTarget                   -> "pH"
    [] t \in Amperometric               -> "amperometric"
    [] t \in Dpd                        -> "dpd"
    [] t = "FLOW_MAIN"                  -> "magnetic"
    [] t \in {"TEMP_INLET", "TEMP_OUTLET"} -> "rtd"
    [] t \in ValveTarget                -> "valve"
    [] t \in PumpTarget                 -> "pump"

IsSensor == target \in SensorTarget

TypeOK ==
  /\ target \in Fitted
  /\ device \in IF IsSensor THEN Sensor ELSE Actuator
  /\ shown \in Reading
  /\ lag \in 0 .. MaxLag
  /\ serviced \subseteq Action

-----------------------------------------------------------------------------
(* The suites are built, the sensors calibrated, the actuators primed.       *)
Init ==
  /\ target \in Fitted
  /\ device \in IF IsSensor THEN {Commissioned(KindOf(target))}
                ELSE Primed(KindOf(target))
  /\ shown = NoReading
  /\ lag = 0
  /\ serviced = {}

(* The loop falls behind the host, or not, by one iteration.                 *)
Slip == lag' \in {lag, IF lag < MaxLag THEN lag + 1 ELSE lag}

(* read_all_sensors and update_modbus_inputs.                                *)
ReadSensor ==
  /\ IsSensor
  /\ \E d \in Draw :
       /\ shown' = ReadingOf(Aged(device), d)
       /\ device' \in AfterReading(Aged(device), d)
  /\ serviced' = {}
  /\ Slip
  /\ UNCHANGED target

(* apply_actuator_commands and step_actuators_into_boundary, for whatever     *)
(* the registers hold by then.  Nothing in an actuator is stamped.           *)
StepActuator ==
  /\ ~IsSensor
  /\ \E command \in Level :
     \E ran \in Commanded(device, command) :
     \E moved \in UpdateDynamics(ran) :
     \E worn \in UpdateWear(moved) : device' \in CheckFaults(worn)
  /\ serviced' = {}
  /\ UNCHANGED <<target, shown, lag>>

(* _apply_sensor_action, stamped with the host clock; skip is the 1000 that a *)
(* client adds to the reference of CALIBRATE.                                *)
ApplyToSensor(s, action, skip, reference) ==
  CASE action = "CALIBRATE"        -> {Calibrate(s, lag, skip, reference)}
    [] action = "FULL_RESET"       -> {Reset(s, lag)}
    [] action = "CLEAN_WATER"      -> CleanElectrode(s, lag, RinsedWear(s.wear))
    [] action = "CLEAN_ACID"       -> CleanElectrode(s, lag, EtchedWear(s.wear))
    [] action = "REPLACE_MEMBRANE" -> {ReplaceMembrane(s, lag)}
    [] action = "REPLACE_REAGENT"  -> {ReplaceReagent(s, lag)}

(* _apply_actuator_action.                                                   *)
ApplyToActuator(a, action) ==
  CASE action = "RESET_FAULTS"           -> ResetFaults(a)
    [] action = "CALIBRATE_ZERO"         -> CalibrateZero(a)
    [] action = "RECALIBRATE_POSITIONER" -> RecalibratePositioner(a)
    [] action = "REPLACE_DIAPHRAGM"      -> ReplaceDiaphragm(a)
    [] action = "REPLACE_CHECK_VALVES"   -> ReplaceCheckValves(a)

(* poll_maintenance, once in an iteration at most; a command that is refused  *)
(* or raises changes nothing.                                                *)
Maintain ==
  /\ serviced = {}
  /\ \E action \in Action, skip \in BOOLEAN, reference \in {"held", "lost"} :
       /\ Execute(target, action) = "SUCCESS"
       /\ skip \/ reference = "lost" => action = "CALIBRATE"
       /\ device' \in IF IsSensor THEN ApplyToSensor(device, action, skip, reference)
                     ELSE {ApplyToActuator(device, action)}
       /\ serviced' = {action}
  /\ UNCHANGED <<target, shown, lag>>

Next == ReadSensor \/ StepActuator \/ Maintain

Spec     == Init /\ [][Next]_vars
Fairness == WF_vars(StepActuator)
FairSpec == Spec /\ Fairness

-----------------------------------------------------------------------------
(* The client is told of trouble: a value whose calibration has run out, or was  *)
(* never made, is never published as NORMAL, whatever else is wrong; and once    *)
(* the supply has left its tolerance every later reading says so, since it is    *)
(* not drawn again and no service restores it.                               *)
TroubleIsShown ==
  [][ IsSensor /\ serviced' = {} =>
        /\ shown'.value = "held" /\ Expired(Aged(device)) => shown'.status # "NORMAL"
        /\ device.supply # "ok" => shown'.status = "POWER_FAULT" /\ shown'.fault # "NONE" ]_vars

(* Only service heals: a sensor that lost its value gets one back by calibration  *)
(* or reset only, and the fault of an actuator stays until maintenance clears it,  *)
(* which RESET_FAULTS cannot when it comes with critical wear.                  *)
OnlyServiceHeals ==
  [][ /\ IsSensor /\ device.value = "lost" /\ device'.value = "held"
           => serviced' \cap {"CALIBRATE", "FULL_RESET"} # {}
      /\ ~IsSensor /\ device.fault # "NONE" /\ device'.fault = "NONE"
           => /\ serviced' # {}
              /\ serviced' = {"RESET_FAULTS"} => device.wear <= 2 ]_vars

(* The pump delivers what it strokes, except after a zero calibration.       *)
DeliversAsStroked ==
  (~IsSensor /\ device.flow # device.rate) => device.flow = 0 /\ device.kind = "pump"

(* An actuator whose set point no longer changes comes to rest near it.      *)
Redirected == ~IsSensor /\ device'.cmd # device.cmd
Near      == ~IsSensor => Error(device) < Stiction
Settles   == []<><<Redirected>>_vars \/ <>[]Near

(* A lost value is always accompanied by a fault, or by the warm-up.  The code   *)
(* does not keep this (README, "Claims the code does not keep").             *)
LostMeansFault ==
  shown.value = "lost" => shown.fault # "NONE" \/ shown.status = "WARMING_UP"
=============================================================================
