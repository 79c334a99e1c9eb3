------------------------------ MODULE PlantScan ------------------------------
(***************************************************************************)
(* The measuring half of the stand-alone simulator's loop (__main__.py and    *)
(* runtime_loop.py): in every scan it reads the sensors in the order of the   *)
(* suite, writes value by value what they said into the Modbus image, which   *)
(* the server's thread may show to a client between any two writes, and then  *)
(* serves the maintenance mailbox.                                           *)
(*                                                                           *)
(* A sample is the scan it was taken in and the sensor that put it into its   *)
(* line; FieldSensor has what else happens to a value.                       *)
(***************************************************************************)
EXTENDS RegisterMap, SampleLine, SequencesExt

CONSTANTS
  Fitted,       \* the sensors of the suite
  WarmUp,       \* the warm-up of each, in scans
  MaxLag,       \* how far the host's clock may be ahead of the simulated one
  MaxScan,      \* the duration the simulator was started for, in scans
  MaxFaults, MaxServices   \* bounds

SuiteOrder ==
  <<"pH_inlet", "pH_outlet", "pH_middle", "chlorine_inlet", "chlorine_outlet",
    "flow_main", "temp_inlet", "temp_outlet">>

ASSUME ScanAssumption ==
  /\ Fitted \subseteq ToSet(SuiteOrder) /\ WarmUp \in [Fitted -> Nat]
  /\ {MaxLag, MaxScan, MaxFaults, MaxServices} \subseteq Nat

(* create_realistic_sensor_suite: who takes its water from which line.       *)
LineOf(s) == CASE s \in {"pH_inlet", "temp_inlet"}   -> "inlet"
               [] s \in {"pH_outlet", "temp_outlet"} -> "outlet"
               [] OTHER                              -> "none"

VARIABLES
  now,       \* the scan, whose sim_time is now times dt
  phase,     \* where in the scan the loop is
  silent,    \* for each sensor, the scans it still warms up, or Dead
  lost,      \* the sensors whose value is NaN until they are serviced
  lines,     \* the delay buffers
  readings,  \* what the sensors said last
  ir, di,    \* the data blocks of the server
  served,    \* whether the slave is running
  mail,      \* whether it left a maintenance command behind when it died
  heard,     \* history: when each sensor has put a sample into its line
  faults, services

vars == <<now, phase, silent, lost, lines, readings, ir, di, served, mail, heard,
          faults, services>>

Dead    == -1
Nothing == [at |-> -1, by |-> "nobody"]
Line    == {"inlet", "outlet"}
Reading(sample, value, fault) == [sample |-> sample, value |-> value, fault |-> fault]
Unread  == [what |-> "zero", scan |-> -1, on |-> FALSE]

Init ==
  /\ now = 0 /\ phase = [at |-> "read", next |-> 1] /\ served = TRUE /\ mail = FALSE
  /\ silent = WarmUp /\ lost = {}
  /\ lines = [l \in Line |-> <<>>]
  /\ readings = [s \in Fitted |-> Reading(Nothing, "lost", FALSE)]
  /\ heard = [s \in Fitted |-> {}]
  /\ ir = Block(InputRegisters, Unread) /\ di = Block(DiscreteInputs, Unread)
  /\ faults = 0 /\ services = 0

-----------------------------------------------------------------------------
(* BaseSensor.read: a sensor without power or warming up puts nothing into    *)
(* its line.  shorted are the circuits that open or short in this scan.      *)
Speaks(s) == silent[s] = 0

ReadSensor(ls, s) ==
  IF LineOf(s) = "none" THEN [line |-> <<>>, sample |-> [at |-> now, by |-> s]]
  ELSE Transported(ls[LineOf(s)], [at |-> now, by |-> s])

(* What a sensor answers, the lines being ls.                                 *)
Answer(ls, s, shorted, browned) ==
  CASE silent[s] = Dead -> Reading(Nothing, "lost", TRUE)
    [] silent[s] > 0    -> Reading(Nothing, "lost", FALSE)
    [] Speaks(s)        -> Reading(ReadSensor(ls, s).sample,
                                   IF s \in lost \cup shorted THEN "lost" ELSE "held",
                                   s \in shorted \cup browned)

(* read_all_sensors: the sensors of a line share it within one scan.         *)
Read(acc, s, shorted, browned) ==
  [lines    |-> [l \in Line |-> IF l = LineOf(s) /\ Speaks(s)
                               THEN ReadSensor(acc.lines, s).line ELSE acc.lines[l]],
   readings |-> [acc.readings EXCEPT ![s] = Answer(acc.lines, s, shorted, browned)]]

ReadAll(shorted, browned) ==
  LET upTo[n \in 0 .. Len(SuiteOrder)] ==
        IF n = 0 THEN [lines |-> lines, readings |-> readings]
        ELSE IF SuiteOrder[n] \in Fitted
             THEN Read(upTo[n - 1], SuiteOrder[n], shorted, browned)
             ELSE upTo[n - 1]
  IN  upTo[Len(SuiteOrder)]

(* One pass of read_all_sensors; the supply of a sensor, drawn in it, may      *)
(* leave the tolerance for good.                                             *)
ReadSensors ==
  /\ phase.at = "read" /\ now < MaxScan
  /\ \E shorted, browned \in SUBSET {s \in Fitted : silent[s] # Dead} :
       /\ shorted \subseteq {s \in Fitted : Speaks(s)} \ browned
       /\ faults + Cardinality(shorted \cup browned) <= MaxFaults
       /\ faults' = faults + Cardinality(shorted \cup browned)
       /\ lines' = ReadAll(shorted, browned).lines
       /\ readings' = ReadAll(shorted, browned).readings
       /\ lost' = lost \cup shorted
       /\ silent' = [s \in Fitted |-> CASE s \in browned -> Dead
                                        [] s \notin browned /\ silent[s] > 0 -> silent[s] - 1
                                        [] OTHER -> silent[s]]
  /\ heard' = [s \in Fitted |-> IF Speaks(s) /\ LineOf(s) # "none" THEN heard[s] \cup {now}
                                ELSE heard[s]]
  /\ phase' = IF served THEN [at |-> "publish", next |-> 1] ELSE [at |-> "serve", next |-> 1]
  /\ UNCHANGED <<now, ir, di, served, mail, services>>

-----------------------------------------------------------------------------
(* update_modbus_inputs: NaN becomes 0.0 and has no fault of its own.        *)
SafeValue(s) ==
  [what |-> IF s \in Fitted /\ readings[s].value = "held" THEN s ELSE "zero",
   scan |-> now, on |-> FALSE]
HasFault(s)  == s \in Fitted /\ readings[s].fault
AnyFault     == \E s \in Fitted : readings[s].fault
Flag(name, on) == [what |-> name, scan |-> now, on |-> on]
TheTime      == Flag("time", FALSE)

(* Which sensor a value register shows.                                      *)
Shown == [r \in {"pH_inlet", "pH_middle", "pH_outlet", "chlorine_inlet",
                 "chlorine_outlet", "flow_rate", "temperature_inlet",
                 "temperature_outlet"} |->
            CASE r = "flow_rate"          -> "flow_main"
              [] r = "temperature_inlet"  -> "temp_inlet"
              [] r = "temperature_outlet" -> "temp_outlet"
              [] OTHER                    -> r]

Analog(r) == [table |-> "ir", register |-> r]
Digital(r) == [table |-> "di", register |-> r]

(* Mutant: the time is written first, as a header would be.                  *)
WriteOrderTimeFirst ==
  <<Analog("simulation_time"), Analog("pH_inlet"), Analog("pH_middle"),
    Analog("pH_outlet"), Analog("chlorine_inlet"), Analog("chlorine_outlet"),
    Analog("flow_rate"), Analog("temperature_inlet"), Analog("temperature_outlet"),
    Analog("system_status"), Digital("sensor_fault_pH_inlet"),
    Digital("sensor_fault_pH_outlet"), Digital("sensor_fault_chlorine")>>

WriteOrder ==
  <<Analog("pH_inlet"), Analog("pH_middle"), Analog("pH_outlet"),
    Analog("chlorine_inlet"), Analog("chlorine_outlet"), Analog("flow_rate"),
    Analog("temperature_inlet"), Analog("temperature_outlet"),
    Analog("simulation_time"), Analog("system_status"),
    Digital("sensor_fault_pH_inlet"), Digital("sensor_fault_pH_outlet"),
    Digital("sensor_fault_chlorine")>>

ValueOf(r) ==
  CASE r \in DOMAIN Shown             -> SafeValue(Shown[r])
    [] r = "simulation_time"          -> TheTime
    [] r = "system_status"            -> Flag(r, AnyFault)
    [] r = "sensor_fault_pH_inlet"    -> Flag(r, HasFault("pH_inlet"))
    [] r = "sensor_fault_pH_outlet"   -> Flag(r, HasFault("pH_outlet"))
    [] r = "sensor_fault_chlorine"    ->
         Flag(r, HasFault("chlorine_inlet") \/ HasFault("chlorine_outlet"))

(* update_input_register and update_discrete_input: one write under the       *)
(* slave's lock.                                                             *)
UpdateInputRegister(r) ==
  /\ ir' = Stored(ir, ByName(InputRegisters, r), ValueOf(r)) /\ di' = di
UpdateDiscreteInput(r) ==
  /\ di' = Stored(di, ByName(DiscreteInputs, r), ValueOf(r)) /\ ir' = ir

(* The slave is asked whether it runs only before the first write.           *)
Publish ==
  /\ phase.at = "publish"
  /\ LET w == WriteOrder[phase.next] IN
     IF w.table = "ir" THEN UpdateInputRegister(w.register)
     ELSE UpdateDiscreteInput(w.register)
  /\ phase' = IF phase.next < Len(WriteOrder) THEN [phase EXCEPT !.next = @ + 1]
              ELSE [at |-> "serve", next |-> 1]
  /\ UNCHANGED <<now, silent, lost, lines, readings, served, mail, heard, faults, services>>

-----------------------------------------------------------------------------
(* What the maintenance mailbox may do to a sensor between two scans; the      *)
(* service is stamped with the host's clock, so the warm-up it starts again    *)
(* lasts longer by its lead.                                                 *)
WarmsUp(s) ==
  \E lag \in 0 .. MaxLag :
     silent' = [silent EXCEPT ![s] = IF @ = Dead THEN Dead ELSE WarmUp[s] + lag]

(* A reset empties the line, which the other sensor of it uses too.           *)
ResetSensor(s) ==
  /\ WarmsUp(s)
  /\ lines' = [l \in Line |-> IF l = LineOf(s) THEN <<>> ELSE lines[l]]
  /\ heard' = [t \in Fitted |-> IF LineOf(t) = LineOf(s) THEN {} ELSE heard[t]]
  /\ lost' = lost \ {s}

(* The other operations leave the lines alone, and so does a command that is   *)
(* refused or an actuator's.  A calibration against NaN loses the value, and    *)
(* one after another may bring it back: FieldSensor has when they do.         *)
Recalibrate(s) ==
  /\ silent' = silent \/ WarmsUp(s)
  /\ lost' \in {lost \ {s}, lost \cup {s}}
  /\ UNCHANGED <<lines, heard>>

NextScan == now' = now + 1 /\ phase' = [at |-> "read", next |-> 1]

Report ==
  LET Told(b, r) == Stored(b, ByName(InputRegisters, r), Flag(r, TRUE))
  IN  ir' = Told(Told(Told(ir, "maintenance_status_code"), "maintenance_last_target"),
                 "maintenance_last_action")

(* poll_maintenance with a command in the mailbox.  The mailbox is in this      *)
(* process: what a client put in before the server died is still found.       *)
Serve ==
  /\ phase.at = "serve" /\ (served \/ mail) /\ services < MaxServices
  /\ \E s \in Fitted : ResetSensor(s) \/ Recalibrate(s)
  /\ services' = services + 1 /\ mail' = FALSE
  /\ Report /\ NextScan
  /\ UNCHANGED <<di, readings, served, faults>>

(* The mailbox is empty, or no longer looked at.                             *)
Idle ==
  /\ phase.at = "serve" /\ ~mail /\ NextScan
  /\ UNCHANGED <<silent, lost, lines, readings, ir, di, served, mail, heard, faults, services>>

(* The server's thread dies, a command in the mailbox or not; ProcessLoop has   *)
(* what the loop makes of it.                                                *)
ServerStops ==
  /\ served /\ served' = FALSE /\ mail' \in {FALSE, services < MaxServices}
  /\ UNCHANGED <<now, phase, silent, lost, lines, readings, ir, di, heard, faults, services>>

Next == ReadSensors \/ Publish \/ Serve \/ Idle \/ ServerStops

Spec == Init /\ [][Next]_vars

-----------------------------------------------------------------------------
(* A sample line delivers in order: what a sensor is given is never older     *)
(* than what it was given before, whoever speaks, falls silent or is reset    *)
(* beside it.                                                                *)
SamplesInOrder ==
  [][\A s \in Fitted : readings'[s].sample # Nothing =>
        readings'[s].sample.at >= readings[s].sample.at]_vars

(* A line delivers the right water: to a sensor that put a sample in exactly  *)
(* one transport delay ago, with no reset of the line since, it delivers      *)
(* water of that very moment; and if the line's pH sensor put one in then,    *)
(* that is the sample both of its sensors get, a temperature sensor too.     *)
SettledSample ==
  phase.at = "publish" \/ phase.at = "serve" =>
  \A s \in Fitted : readings[s].sample # Nothing /\ (now - Delay) \in heard[s] =>
     /\ readings[s].sample.at = now - Delay
     /\ \A t \in Fitted \cap {"pH_inlet", "pH_outlet"} :
          LineOf(t) = LineOf(s) /\ (now - Delay) \in heard[t]
            => readings[s].sample.by = t

(* At any moment a request may come, every value register holds one whole     *)
(* value, its own, of the scan that simulation_time names or, while that scan *)
(* is being written, of the next one; status and fault bits are never ahead   *)
(* of the time.                                                              *)
StampTellsAge ==
  \E stamp \in -1 .. now :
     /\ \/ Holds(ir, ByName(InputRegisters, "simulation_time"),
                 [what |-> "time", scan |-> stamp, on |-> FALSE])
        \/ stamp = -1 /\ ir[ByName(InputRegisters, "simulation_time").address].part = "blank"
     /\ \A r \in DOMAIN Shown : \E scan \in {stamp, now} : \E what \in {"zero", Shown[r]} :
          /\ \/ Holds(ir, ByName(InputRegisters, r), [what |-> what, scan |-> scan, on |-> FALSE])
             \/ scan = -1 /\ ir[ByName(InputRegisters, r).address].part = "blank"
          /\ scan > stamp => phase.at = "publish"
     /\ \A a \in {ByName(InputRegisters, "system_status").address} : ir[a].of.scan <= stamp
     /\ \A a \in DOMAIN di : di[a].of.scan <= stamp
=============================================================================
