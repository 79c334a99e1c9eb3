------------------------------ MODULE ProcessRun ------------------------------
(***************************************************************************)
(* The plant behind the runtime, end to end: an operator's intent, the PCS    *)
(* outputs evaluated from it, the worker that hands them to the actuators,    *)
(* steps the tank and reads the analysers, and the screen that shows it all.   *)
(*                                                                           *)
(* One tick of the runtime is one step here: the mutex that makes it one, and *)
(* what happens on the pipe, are PcsRuntime's.  A step of the solver is one    *)
(* explicit step of the derivative, 1/Den of a unit of time long, or a part    *)
(* of one when it gives up.                                                  *)
(***************************************************************************)
EXTENDS HmiSnapshot, ReactorDynamics

CONSTANTS
  Den,          \* how many of the fastest changes of a zone a unit of time has
  Parts,        \* a solver that gives up has come a half, a third ... of a step
  Site,         \* [tank, inlet, ambient], temperatures
  StockStrength,\* chlorine of the stock solution at level 1
  AcidStrength, \* acidity of the acid at level 1
  TopAcidity,   \* the acidity of pH 0
  Orders,       \* the commands the clients of this instance give: <<id, value>>
  MaxSteps, MaxWrites, MaxErrors   \* bounds

ASSUME RunAssumption ==
  /\ Den \in Nat \ {0} /\ Parts \subseteq Nat \ {0} /\ {StockStrength, AcidStrength, TopAcidity} \subseteq Nat
  /\ {MaxSteps, MaxWrites, MaxErrors} \subseteq Nat
  /\ Site \in [{"tank", "inlet", "dose", "ambient"} -> 0 .. 40]

(* Through-flow and exchange change a zone at this rate at most.               *)
Throughput == 3 * TopLevel + 2 * MixRate

(* A step is short against the fastest change, and no stream is below pH 0.     *)
ASSUME StepAssumption ==
  /\ \A rate \in {HeatLoss, 2 + Ratio, StockStrength * TopLevel} : Throughput + rate <= Den
  /\ {1, AcidStrength * TopLevel} \subseteq 0 .. TopAcidity

(* What the runtime refuses changes nothing and is left out.                   *)
ASSUME OrdersAssumption ==
  \A o \in Orders : AcceptsNumeric(o[1], o[2]) \/ (AcceptsBinary(o[1]) /\ o[2] \in {0, 1})

VARIABLES
  operator,   \* OperatorState of the runtime
  process,    \* last_process: what the worker answered last
  control,    \* last_control
  error,      \* last_error: whether the last tick failed
  tank,       \* ReactorState: species, by zone
  scale,      \* what the numbers of tank are over
  elapsed,    \* sim_time, in steps
  boundary,   \* the physical streams
  setpoint,   \* of the three actuators
  ledger,     \* history: chlorine that entered, left and was spent, over scale
  clipped,    \* history: has a bound been enforced?
  writes, errors

workerVars == <<tank, scale, elapsed, boundary, setpoint, ledger, clipped>>
vars == <<operator, process, control, error, workerVars, writes, errors>>

FlowCommand == [acid |-> "acid-flow", chlorine |-> "chlorine-flow", inlet |-> "inlet-flow"]

Carries(acidStock, chlorineStock) ==
  [k \in Stream |-> [s \in Species |->
     CASE s = "temperature" -> Site[IF k = "inlet" THEN "inlet" ELSE "dose"]
       [] s = "acidity"     -> CASE k = "inlet" -> 1
                                 [] k = "acid"  -> AcidStrength * acidStock
                                 [] OTHER       -> 0
       [] s = "chlorine"    -> IF k = "chlorine" THEN StockStrength * chlorineStock ELSE 0
       [] s \in {"ammonia", "demand"} -> IF k = "inlet" THEN 1 ELSE 0
       [] s = "chloramine"  -> 0]]

(* The values a tank is filled with.                                         *)
Fill == [s \in Species |->
           CASE s = "chlorine"    -> 2
             [] s = "chloramine"  -> 0
             [] s = "temperature" -> Site["tank"]
             [] OTHER             -> 1]

Unknown == [known |-> FALSE]   \* Option::None

Init ==
  /\ operator = DefaultOperator /\ control = Evaluate(DefaultOperator)
  /\ process = Unknown /\ error = FALSE
  /\ tank = [s \in Species |-> [i \in Zone |-> Fill[s]]] /\ scale = 1 /\ elapsed = 0
  /\ boundary = [flow    |-> [k \in Stream |-> IF k = "inlet" THEN 1 ELSE 0],
                 carries |-> Carries(1, 1), ambient |-> Site["ambient"]]
  /\ setpoint = boundary.flow
  /\ ledger = [entered |-> 0, left |-> 0, spent |-> 0] /\ clipped = FALSE
  /\ writes = 0 /\ errors = 0

-----------------------------------------------------------------------------
(* apply_actuator_commands, while the simulation runs.                       *)
SetActuators(c) ==
  [k \in Stream |->
     IF k # "inlet" /\ ~c.binary[PumpOf(FlowCommand[k])] THEN 0
     ELSE c.numeric[FlowCommand[k]]]

(* step_actuators_into_boundary: each delivers what it is set to, or is still *)
(* where it was.                                                             *)
Delivered(set, slow) == [k \in Stream |-> IF k \in slow THEN boundary.flow[k] ELSE set[k]]

(* What solve_ivp has after 1/cut of a unit of time.                          *)
Cut == {part * Den : part \in {1} \cup Parts}

Solved(b, cut) ==
  LET matrix == MixingMatrix(tank["temperature"]) IN
  [s \in Species |-> [i \in Zone |->
     cut * tank[s][i] + Derivative(b, matrix, tank, scale, s, i)]]

(* _enforce_physical_bounds.                                                 *)
Bounded(t, d) ==
  [s \in Species |-> [i \in Zone |->
     LET top == CASE s = "acidity"     -> TopAcidity * d
                  [] s = "temperature" -> 100 * d
                  [] OTHER             -> t[s][i]
     IN  CASE t[s][i] < 0   -> 0
           [] t[s][i] > top /\ t[s][i] >= 0 -> top
           [] OTHER         -> t[s][i]]]

Posted(b, cut) ==
  [entered |-> cut * ledger.entered
                 + StreamSum(LAMBDA k : b.flow[k] * b.carries[k]["chlorine"]) * scale,
   left    |-> cut * ledger.left
                 + TotalFlow(b) * (tank["chlorine"][Last] + tank["chloramine"][Last]),
   spent   |-> cut * ledger.spent
                 + ZoneSum([i \in Zone |-> FreeDecay(tank, i) + ChloramineDecay(tank, i)
                                              + DemandConsumed(tank, scale, i)])]

(* IntegratedCSTR.step.  A solver that gives up is only logged: what it has so   *)
(* far is taken, nothing new if it was in its first step, and all the time       *)
(* passes.                                                                   *)
StepReactor(b) ==
  /\ elapsed' = elapsed + 1
  /\ \/ \E cut \in Cut : \E solution \in {Solved(b, cut)} :
           /\ tank' = Bounded(solution, cut * scale)
           /\ clipped' = (clipped \/ tank' # solution)
           /\ scale' = cut * scale
           /\ ledger' = Posted(b, cut)
     \/ UNCHANGED <<tank, scale, ledger, clipped>>

(* SimulationCore.tick up to the physics, with dt of 0 after a write.        *)
Advance(c, dt) ==
  LET mixed == [boundary EXCEPT !.carries =
                  Carries(c.numeric["acid-concentration"], c.numeric["chlorine-concentration"])]
  IN  IF ~c.binary["simulation-running"]
      THEN /\ boundary' = mixed
           /\ UNCHANGED <<tank, scale, elapsed, setpoint, ledger, clipped>>
      ELSE /\ setpoint' = SetActuators(c)
           /\ IF dt = 0 THEN /\ boundary' = mixed
                             /\ UNCHANGED <<tank, scale, elapsed, ledger, clipped>>
              ELSE \E flow \in {Delivered(setpoint', slow) : slow \in SUBSET Stream} :
                     /\ boundary' = [mixed EXCEPT !.flow = flow]
                     /\ StepReactor(boundary')

-----------------------------------------------------------------------------
(* What reading_value finds.  A sensor that warms up or has lost its signal   *)
(* gives no number, and the true state is shown in its place; a slow one      *)
(* shows what it showed before.  A fault of any sets system_status.           *)
Sensors == [of : {"good", "warming", "faulted"}, slow : BOOLEAN]

Sampled == [n \in {"acidity_inlet", "acidity_middle", "acidity_outlet", "chlorine_outlet",
                   "temperature_inlet", "temperature_outlet"} |->
  CASE n = "acidity_inlet"      -> <<"acidity", 0>>
    [] n = "acidity_middle"     -> <<"acidity", Zones \div 2>>
    [] n = "acidity_outlet"     -> <<"acidity", Last>>
    [] n = "chlorine_outlet"    -> <<"chlorine", Last>>
    [] n = "temperature_inlet"  -> <<"temperature", 0>>
    [] n = "temperature_outlet" -> <<"temperature", Last>>]

Readings == DOMAIN Sampled \cup {"flow_rate"}

TrueValue(n) == IF n = "flow_rate" THEN Value(TotalFlow(boundary'), 1)
                ELSE Value(tank'[Sampled[n][1]][Sampled[n][2]], scale')

Seen(sensors, n) ==
  IF process.known /\ sensors.slow /\ sensors.of # "warming" THEN process.read[n] ELSE TrueValue(n)

SystemStatus(sensors) == IF sensors.of = "faulted" THEN 1 ELSE 0

(* SimulationCore.snapshot; sensors and interlock are remembered as the facts *)
(* behind it.                                                                *)
Snapshot(sensors, c) ==
  [known |-> TRUE, elapsed |-> elapsed',
   read  |-> [n \in Readings |-> Seen(sensors, n)],
   dosed |-> [k \in {"acid", "chlorine"} |-> boundary'.flow[k]],
   status |-> SystemStatus(sensors),
   running |-> c.binary["simulation-running"],
   facts |-> [sensors |-> sensors.of, control |-> c]]

(* tick_once, answered.                                                      *)
Succeed(op, dt) ==
  /\ operator' = op
  /\ control' = Evaluate(op)
  /\ Advance(control', dt)
  /\ \E sensors \in Sensors : process' = Snapshot(sensors, control')
  /\ error' = FALSE
  /\ UNCHANGED errors

(* tick_once with a worker that raises, after the physics or before it.      *)
Raise(op, dt) ==
  /\ errors < MaxErrors /\ errors' = errors + 1
  /\ operator' = op
  /\ Advance(Evaluate(op), dt) \/ UNCHANGED workerVars
  /\ error' = TRUE
  /\ UNCHANGED <<control, process>>

TickOnce(op, dt) == Succeed(op, dt) \/ Raise(op, dt)

Tick ==
  /\ elapsed < MaxSteps
  /\ TickOnce(operator, 1)
  /\ UNCHANGED writes

(* write_numeric and write_binary, over HTTP or Modbus.                      *)
Ordered(id, v) ==
  IF id \in NumericId THEN WriteNumeric(operator, id, v) ELSE WriteBinary(operator, id, v = 1)

Write ==
  /\ writes < MaxWrites /\ writes' = writes + 1
  /\ \E o \in Orders : TickOnce(Ordered(o[1], o[2]), 0)

-----------------------------------------------------------------------------
(* GET /api/snapshot and the Modbus image, before there is a process to show;  *)
(* after it they only read.                                                  *)
FirstView ==
  /\ ~process.known
  /\ TickOnce(operator, 0)
  /\ UNCHANGED writes

(* What a page that asks now would show.                                     *)
Screen == HmiSnapshot(process, operator, control, error)

Next == Tick \/ Write \/ FirstView

Spec == Init /\ [][Next]_vars

-----------------------------------------------------------------------------
TankTotal(s) == ZoneSum(tank[s])

(* No chlorine appears or vanishes: what the zones hold, free and combined,   *)
(* is what they were filled with and what entered, less what left by the last *)
(* zone and what the reactions spent, whatever the layering of the water did  *)
(* to the exchange and however often the solver gave up.                     *)
ChlorineBalanced ==
  clipped \/ TankTotal("chlorine") + TankTotal("chloramine")
               = Zones * (Fill["chlorine"] + Fill["chloramine"]) * scale
                   + ledger.entered - ledger.left - ledger.spent

(* The equations keep the state physical by themselves, so that the bounds    *)
(* never have to be enforced: nothing turns negative where it is used up, and *)
(* no zone is warmer or colder than anything that feeds, fills or surrounds   *)
(* the tank.                                                                 *)
StaysPhysical ==
  /\ ~clipped
  /\ \A i \in Zone :
       /\ \E k \in DOMAIN Site : tank["temperature"][i] >= Site[k] * scale
       /\ \E k \in DOMAIN Site : tank["temperature"][i] <= Site[k] * scale

(* Tiles whose limits no alarm is raised for: process_status looks at the residual *)
(* and the pH of the outlet and at the status word only (snapshot.rs:39-47).     *)
Unwatched == {"FIT-INT-001", "AIT-PH-IN", "AIT-PH-MID", "TIT-OUT-001", "TIT-IN-001",
              "FIT-ACID-ACT", "FIT-CL-ACT"}

(* A page without an alarm shows a process that runs and is up to date: the last   *)
(* tick succeeded, the simulation runs, no interlock withholds a dose, the values   *)
(* are of the outputs on the same page, and no sensor was faulted, even if the      *)
(* number shown in its place was the true one. Of the ten tiles only the outlet's   *)
(* pH, its residual and the status word are vouched for, and a residual that is     *)
(* too high is not (snapshot.rs:39-162, 265-313).                             *)
NothingHidden ==
  process.known /\ Quiet(Screen) =>
    /\ ~error
    /\ process.facts.control.binary["simulation-running"]
    /\ process.facts.control = control /\ ~control.interlock
    /\ process.facts.sensors # "faulted"
    /\ \A tag \in Tags \ Unwatched :
         Screen.tiles[tag] # "normal" =>
           tag = "AIT-CL-001" /\ Above(process.read["chlorine_outlet"], 22)
=============================================================================
