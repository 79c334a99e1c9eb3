----------------------------- MODULE FieldActuator -----------------------------
(***************************************************************************)
(* One final control element (src/hydrasim/actuators/base_actuator.py,      *)
(* dosing_pump.py, control_valve.py): a metering pump or a control valve,    *)
(* what step() and the service methods do to its state.  The operators       *)
(* return the next actuator, or the set of those chance allows.              *)
(*                                                                           *)
(* A stroke rate or a stem position is a level.  Accumulated quantities are   *)
(* kept as the thresholds they have passed, which is all that is ever asked  *)
(* of them.                                                                  *)
(***************************************************************************)
EXTENDS Integers

CONSTANTS
  Top,         \* the level of full output
  Deadband,    \* an error below this moves nothing
  Stiction,    \* an error below this does not start a resting valve
  StuckError   \* an error above this makes an old valve STUCK

ASSUME ActuatorAssumption ==
  /\ {Top, Deadband, Stiction, StuckError} \subseteq Nat
  /\ 1 < Deadband /\ Deadband <= Stiction /\ Stiction <= StuckError

Level  == 0 .. Top
Health == {"NORMAL", "DEGRADED", "FAILED"}
Damage == {"NONE", "SLOW", "OVER_CYCLE", "LEAKING", "CALIBRATION", "STUCK"}

(* cmd is _commanded_position, rate the stroke rate or stem position, flow    *)
(* the level at which the flow was computed last; wear counts the thresholds  *)
(* .5, .7, .8 and .9 that the wear factor exceeds; strokes, diaphragm and     *)
(* valves say whether the pump has made four million strokes, its diaphragm   *)
(* is worn by more than .4 and its check valves by more than .2; drift, that  *)
(* the positioner is off by more than 3%; hours, that it ran more than one.   *)
Actuator == [kind : {"pump", "valve"}, cmd : Level, rate : Level, flow : Level,
             dir : -1 .. 1, health : Health, fault : Damage, wear : 0 .. 4,
             strokes : BOOLEAN, diaphragm : BOOLEAN, valves : BOOLEAN,
             drift : BOOLEAN, hours : BOOLEAN]

(* As initialize_actuators leaves it: three steps long enough to overshoot    *)
(* have left it anywhere.                                                    *)
Primed(kind) ==
  {[kind |-> kind, cmd |-> c, rate |-> r, flow |-> r, dir |-> 0,
    health |-> "NORMAL", fault |-> "NONE", wear |-> 0, strokes |-> FALSE,
    diaphragm |-> FALSE, valves |-> FALSE, drift |-> FALSE, hours |-> FALSE] :
   c \in Level, r \in Level}

Error(a) == LET e == a.cmd - a.rate IN IF e < 0 THEN -e ELSE e

-----------------------------------------------------------------------------
(* Mutant: a step longer than the response time.                             *)
ApproachOver(a) == {r \in Level : r # a.rate /\ r # a.cmd}

(* The first-order lag with a step shorter than the response time: strictly   *)
(* between where the actuator is and where it should be.                     *)
Approach(a) == {r \in Level : \/ a.rate < r /\ r < a.cmd
                              \/ a.cmd < r /\ r < a.rate}

(* DosingPump._update_position_dynamics.  Strokes are counted, and the flow   *)
(* computed, only by a step that moves the rate.  Full wear takes a quarter   *)
(* of the strokes that wear out a diaphragm or the valves.                   *)
PumpDynamics(a) ==
  IF Error(a) < Deadband THEN {a}
  ELSE {[a EXCEPT !.rate = p[1], !.flow = p[1], !.strokes = p[2], !.diaphragm = p[3]] :
          p \in Approach(a) \X {a.strokes, a.wear = 4} \X {a.diaphragm, a.strokes}}

(* ControlValve on BaseActuator._update_position_dynamics.  A small movement  *)
(* counts as rest.  The positioner drifts whether the stem moves or not.     *)
ValveDynamics(a) ==
  LET held == Error(a) < Deadband \/ (a.dir = 0 /\ Error(a) < Stiction)
      sign(r) == IF r > a.rate THEN 1 ELSE -1
      rest(r) == r - a.rate \in {-1, 1}
  IN  IF held THEN {[a EXCEPT !.drift = x] : x \in BOOLEAN}
      ELSE {[a EXCEPT !.rate = p[1][1], !.flow = p[1][1], !.dir = p[1][2], !.drift = p[2]] :
              p \in ({<<r, sign(r)>> : r \in Approach(a)}
                     \cup {<<r, 0>> : r \in {q \in Approach(a) : rest(q)}}) \X BOOLEAN}

(* _update_wear.  The health follows the wear, and nothing here makes it      *)
(* better.                                                                   *)
UpdateWear(a) ==
  {[a EXCEPT !.wear = w, !.valves = (a.kind = "pump" /\ a.strokes),
             !.health = CASE w >= 3 -> "FAILED"
                          [] w \in {1, 2} -> "DEGRADED"
                          [] OTHER -> @] :
     w \in {a.wear, IF a.wear < 4 THEN a.wear + 1 ELSE 4}}

(* BaseActuator._check_faults: what the fault becomes, from what it was.     *)
WearFault(a) == CASE a.wear = 4        -> "OVER_CYCLE"
                  [] a.wear \in {2, 3} -> "SLOW"
                  [] OTHER             -> a.fault

(* DosingPump._check_faults; a worn diaphragm ruptures at random.            *)
PumpFaults(a) ==
  LET b == [a EXCEPT !.fault = IF a.valves THEN "LEAKING" ELSE WearFault(a)]
  IN  {b} \cup (IF a.diaphragm
                THEN {[b EXCEPT !.fault = "LEAKING", !.health = "FAILED"]} ELSE {})

(* ControlValve._check_faults.  A valve on its way counts as stuck when the   *)
(* way is long.                                                              *)
ValveFaults(a) ==
  {[a EXCEPT !.fault = CASE Error(a) > StuckError /\ a.hours -> "STUCK"
                         [] ~(Error(a) > StuckError /\ a.hours) /\ a.drift
                              -> "CALIBRATION"
                         [] OTHER -> WearFault(a)]}

(* set_flow_rate and step, in the order step has them.                       *)
Commanded(a, command) == {[a EXCEPT !.cmd = command, !.hours = h] : h \in {a.hours, TRUE}}
UpdateDynamics(a) == IF a.kind = "pump" THEN PumpDynamics(a) ELSE ValveDynamics(a)
CheckFaults(a)    == IF a.kind = "pump" THEN PumpFaults(a) ELSE ValveFaults(a)

-----------------------------------------------------------------------------
(* Mutant: the stem of a valve stays where it is, too.                        *)
CalibrateZeroStill(a) == [a EXCEPT !.cmd = 0, !.flow = 0, !.dir = 0, !.drift = FALSE]

(* The service methods.  calibrate_zero forgets the position and the flow of  *)
(* the base class, but not the stroke rate of a pump.                        *)
CalibrateZero(a) ==
  [a EXCEPT !.cmd = 0, !.flow = 0, !.dir = 0, !.drift = FALSE,
            !.rate = IF a.kind = "pump" THEN @ ELSE 0]

(* Mutant: the wear is not looked at.                                        *)
ResetFaultsAlways(a) == [a EXCEPT !.fault = "NONE", !.health = "NORMAL"]

ResetFaults(a) ==
  IF a.wear > 2 THEN a
  ELSE [a EXCEPT !.fault = "NONE",
                 !.health = IF a.wear = 0 THEN "NORMAL" ELSE "DEGRADED"]

RecalibratePositioner(a) ==
  [a EXCEPT !.drift = FALSE, !.fault = IF @ = "CALIBRATION" THEN "NONE" ELSE @]

ReplaceDiaphragm(a) ==
  [a EXCEPT !.diaphragm = FALSE,
            !.health = IF a.fault = "LEAKING" THEN "NORMAL" ELSE @,
            !.fault = IF @ = "LEAKING" THEN "NONE" ELSE @]

ReplaceCheckValves(a) ==
  [a EXCEPT !.valves = FALSE, !.fault = IF @ = "LEAKING" THEN "NONE" ELSE @]
=============================================================================
