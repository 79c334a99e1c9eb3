---------------------------- MODULE ProcessLoop_proofs ----------------------------
(***************************************************************************)
(* Proofs about the main loop and the thread of its Modbus slave, for every   *)
(* range of flows, every number of tolerated errors and every raw register    *)
(* value.                                                                   *)
(***************************************************************************)
EXTENDS ProcessLoop, TLAPS

-----------------------------------------------------------------------------
(* validate_flow_rate maps whatever a register holds into the device's range. *)
LEMMA ValidateRange ==
  ASSUME NEW v \in Raw \cup Level
  PROVE  Validate(v) \in Level
<1>1. v \in Int \cup {NotANumber} /\ MaxFlow \in Nat
  BY LoopAssumption DEF Level
<1> QED BY <1>1 DEF Validate, Level

LEMMA LevelFacts ==
  /\ Zero \in [Device -> Level]
  /\ Boundary \in [Device -> Level]
  /\ AllOn \in [Coil -> BOOLEAN]
<1>1. MaxFlow \in Level /\ 0 \in Level
  BY LoopAssumption DEF Level
<1> QED BY <1>1 DEF Zero, Boundary, AllOn

LEMMA TargetsType ==
  ASSUME TypeOK
  PROVE  Targets \in [Device -> Level]
<1>1. \A d \in Device : Validate(commands[d]) \in Level
  BY ValidateRange DEF TypeOK
<1>2. 0 \in Level
  BY LoopAssumption DEF Level
<1> QED BY <1>1, <1>2 DEF Targets

(* The slave is dropped by the update that exhausts the errors.              *)
Counted == slave => errors < MaxErrors

LEMMA InitTyped == Init => TypeOK /\ Counted
<1> SUFFICES ASSUME Init PROVE TypeOK /\ Counted
  OBVIOUS
<1>1. errors \in 0 .. MaxErrors /\ errors < MaxErrors /\ writes \in 0 .. MaxWrites
  BY LoopAssumption DEF Init
<1>2. hr \in [Device -> Raw \cup Level] /\ commands \in [Device -> Level]
      /\ setpoint \in [Device -> Level] /\ enables \in [Coil -> BOOLEAN]
  BY LevelFacts DEF Init
<1>3. coils \in [Coil -> BOOLEAN] /\ wasOn \subseteq Coil
  BY DEF Init
<1>4. pc \in MainStep /\ thread \in ThreadStep
  BY DEF Init, MainStep, ThreadStep
<1> QED BY <1>1, <1>2, <1>3, <1>4 DEF Init, TypeOK, Counted

LEMMA TypeStep ==
  ASSUME TypeOK, Counted, [Next]_vars
  PROVE  TypeOK' /\ Counted'
<1> USE DEF TypeOK, Counted, MainStep, LoopStep, ReadStep, ThreadStep, At,
            registerVars, threadVars, localVars
<1>0. MaxErrors \in Nat /\ MaxWrites \in Nat
  BY LoopAssumption
<1>1. CASE UNCHANGED vars
  BY <1>1 DEF vars
<1>2. CASE Announce \/ Bind \/ Fail \/ CancelTasks \/ Unwind
  <2>1. CASE Announce
    BY <2>1 DEF Announce
  <2>2. CASE Bind
    BY <2>2 DEF Bind
  <2>3. CASE Fail
    BY <2>3 DEF Fail
  <2>4. CASE CancelTasks
    BY <2>4 DEF CancelTasks
  <2>5. CASE Unwind
    BY <2>5 DEF Unwind
  <2> QED BY <1>2, <2>1, <2>2, <2>3, <2>4, <2>5
<1>3. CASE ClientWrites
  <2>1. writes' \in 0 .. MaxWrites
    BY <1>0, <1>3 DEF ClientWrites
  <2> QED BY <1>3, <2>1 DEF ClientWrites
<1>4. CASE StartUp
  <2>1. CASE StartServer
    BY <2>1 DEF StartServer
  <2>2. CASE ServerReady
    BY <2>2 DEF ServerReady
  <2>4. CASE StartTimesOut
    BY <2>4 DEF StartTimesOut
  <2>3. CASE WriteDefaults
    <3>1. hr' \in [Device -> Raw \cup Level]
      BY <2>3, LevelFacts DEF WriteDefaults
    <3>2. coils' \in [Coil -> BOOLEAN] /\ wasOn' \subseteq Coil
      BY <2>3, LevelFacts DEF WriteDefaults
    <3> QED BY <2>3, <3>1, <3>2 DEF WriteDefaults
  <2> QED BY <1>4, <2>1, <2>2, <2>3, <2>4 DEF StartUp
<1>5. CASE EndRequested \/ LeaveLoop
  <2>1. CASE EndRequested
    BY <2>1 DEF EndRequested
  <2>2. CASE LeaveLoop
    BY <2>2 DEF LeaveLoop
  <2> QED BY <1>5, <2>1, <2>2
<1>6. CASE BeginIteration
  BY <1>6, LevelFacts DEF BeginIteration
<1>7. CASE CheckCommands
  BY <1>7, LevelFacts DEF CheckCommands
<1>8. CASE ReadCommands
  <2>1. \A d \in Device : Validate(hr[d]) \in Level
    BY ValidateRange
  <2>2. "acid" \in Device /\ "chlorine" \in Device /\ "inlet" \in Device
    BY DEF Device, Pump
  <2>3. commands' \in [Device -> Level]
    BY <1>8, <2>1, <2>2 DEF ReadCommands, ReadFlow
  <2> QED BY <1>8, <2>3 DEF ReadCommands
<1>9. CASE CheckEnables
  BY <1>9, LevelFacts DEF CheckEnables
<1>10. CASE ReadEnables
  <2>1. enables' \in [Coil -> BOOLEAN]
    BY <1>10 DEF ReadEnables, ReadEnable, Coil, Pump
  <2> QED BY <1>10, <2>1 DEF ReadEnables
<1>11. CASE Apply
  <2>1. setpoint' \in [Device -> Level]
    BY <1>11, TargetsType DEF Apply
  <2> QED BY <1>11, <2>1 DEF Apply
<1>12. CASE Publish
  BY <1>0, <1>12 DEF Publish
<1>13. CASE StopServer \/ JoinThread \/ JoinTimesOut
  <2>1. CASE StopServer
    BY ZenonT(60), <2>1 DEF StopServer
  <2>2. CASE JoinThread
    BY <2>2 DEF JoinThread
  <2>3. CASE JoinTimesOut
    BY <2>3 DEF JoinTimesOut
  <2> QED BY <1>13, <2>1, <2>2, <2>3
<1> QED BY <1>1, <1>2, <1>3, <1>4, <1>5, <1>6, <1>7, <1>8, <1>9, <1>10, <1>11, <1>12, <1>13
        DEF Next, MainThread, ReadInputs, ServerThread

(* Type correctness: in particular, every set point is one the actuators      *)
(* accept (set_flow_rate raises beyond the range).                           *)
THEOREM TypeCorrect == Spec => []TypeOK
<1>1. Init => TypeOK /\ Counted
  BY InitTyped
<1>2. TypeOK /\ Counted /\ [Next]_vars => (TypeOK /\ Counted)'
  BY TypeStep
<1> QED BY <1>1, <1>2, PTL DEF Spec

-----------------------------------------------------------------------------
(* What happens when: the thread starts with the first step of the main       *)
(* thread, and an error is counted only once the interface is lost, which it   *)
(* then remains.                                                            *)
StartingUp == {"start", "wait", "default_flows", "default_coils"}

Ordered ==
  /\ pc = "start" <=> thread = "unstarted"
  /\ pc \in StartingUp => slave /\ errors = 0
  /\ errors > 0 => ~running

LEMMA OrderedStep ==
  ASSUME TypeOK, Ordered, [Next]_vars
  PROVE  Ordered'
<1> USE DEF Ordered, StartingUp, At, registerVars, threadVars, localVars
<1>1. CASE UNCHANGED vars
  BY <1>1 DEF vars
<1>2. CASE ServerThread
  BY <1>2 DEF ServerThread, Announce, Bind, Fail, CancelTasks, Unwind
<1>3. CASE ClientWrites \/ EndRequested
  BY <1>3 DEF ClientWrites, EndRequested
<1>4. CASE StartUp
  BY <1>4 DEF StartUp, StartServer, ServerReady, StartTimesOut, WriteDefaults
<1>5. CASE ReadInputs
  BY <1>5 DEF ReadInputs, BeginIteration, CheckCommands, ReadCommands, CheckEnables, ReadEnables
<1>6. CASE Apply
  BY <1>6 DEF Apply
<1>7. CASE Publish
  <2>1. errors \in Nat
    BY LoopAssumption DEF TypeOK
  <2>2. errors' = errors \/ (errors' = errors + 1 /\ ~running)
    BY <1>7 DEF Publish
  <2>3. pc = "update" /\ pc' = "top" /\ UNCHANGED <<thread, running>>
    BY <1>7 DEF Publish
  <2> QED BY <2>1, <2>2, <2>3
<1>8. CASE LeaveLoop \/ StopServer \/ JoinThread \/ JoinTimesOut
  BY <1>8 DEF LeaveLoop, StopServer, JoinThread, JoinTimesOut
<1> QED BY <1>1, <1>2, <1>3, <1>4, <1>5, <1>6, <1>7, <1>8 DEF Next, MainThread

LEMMA OrderedInit == Init => Ordered
BY DEF Init, Ordered, StartingUp

-----------------------------------------------------------------------------
(* Once an update was missed, an iteration commands nothing: it skips the     *)
(* register reads, so its commands are 0 and everything is enabled.          *)
RegisterRead == {"acid", "chlorine", "inlet", "acid_enable", "chlorine_enable",
                 "simulation_enable"}

LostIsZero ==
  slave /\ errors > 0 =>
    /\ pc \notin RegisterRead
    /\ pc \in {"check_enables", "apply"} => commands = Zero
    /\ pc = "apply" => enables = AllOn
    /\ pc = "update" => setpoint = Zero

LEMMA ZeroTargets ==
  ASSUME commands = Zero
  PROVE  Targets = Zero
<1>1. Validate(0) = 0
  BY LoopAssumption DEF Validate
<1> QED BY <1>1 DEF Targets, Zero

LEMMA LostIsZeroStep ==
  ASSUME TypeOK, Ordered, LostIsZero, [Next]_vars
  PROVE  LostIsZero'
<1> USE DEF LostIsZero, RegisterRead, At, registerVars, threadVars, localVars
<1>1. CASE UNCHANGED vars
  BY <1>1 DEF vars
<1>2. CASE ServerThread
  BY <1>2 DEF ServerThread, Announce, Bind, Fail, CancelTasks, Unwind
<1>3. CASE ClientWrites \/ EndRequested
  BY <1>3 DEF ClientWrites, EndRequested
<1>4. CASE StartUp
  BY <1>4 DEF StartUp, StartServer, ServerReady, StartTimesOut, WriteDefaults
<1>5. CASE ReadInputs
  <2>1. errors > 0 => ~running
    BY DEF Ordered
  <2>2. CASE BeginIteration
    BY <2>2 DEF BeginIteration
  <2>3. CASE CheckCommands
    BY <2>1, <2>3 DEF CheckCommands
  <2>4. CASE ReadCommands
    BY <2>4 DEF ReadCommands
  <2>5. CASE CheckEnables
    BY <2>1, <2>5 DEF CheckEnables
  <2>6. CASE ReadEnables
    BY <2>6 DEF ReadEnables
  <2> QED BY <1>5, <2>2, <2>3, <2>4, <2>5, <2>6 DEF ReadInputs
<1>6. CASE Apply
  <2>1. enables = AllOn => enables["simulation"]
    BY DEF AllOn, Coil
  <2> QED BY <1>6, <2>1, ZeroTargets DEF Apply
<1>7. CASE Publish
  BY <1>7 DEF Publish
<1>8. CASE LeaveLoop \/ StopServer \/ JoinThread \/ JoinTimesOut
  BY <1>8 DEF LeaveLoop, StopServer, JoinThread, JoinTimesOut
<1> QED BY <1>1, <1>2, <1>3, <1>4, <1>5, <1>6, <1>7, <1>8 DEF Next, MainThread

LEMMA LoopInvariant == Spec => [](TypeOK /\ Counted /\ Ordered /\ LostIsZero)
<1>1. Init => LostIsZero
  BY DEF Init, LostIsZero
<1>2. TypeOK /\ Counted /\ Ordered /\ LostIsZero /\ [Next]_vars
        => (TypeOK /\ Counted /\ Ordered /\ LostIsZero)'
  BY TypeStep, OrderedStep, LostIsZeroStep
<1> QED BY <1>1, <1>2, InitTyped, OrderedInit, PTL DEF Spec

(* The interface is given up only with every set point at 0: at least one      *)
(* whole iteration of zero commands lies between the loss and the last error. *)
THEOREM ZeroFirst == Spec => ZeroBeforeGivingUp
<1>1. TypeOK /\ Counted /\ Ordered /\ LostIsZero /\ [Next]_vars
        => [pc = "update" /\ slave /\ ~slave' => setpoint = Zero]_vars
  <2> SUFFICES ASSUME TypeOK, Counted, Ordered, LostIsZero, [Next]_vars,
                      pc = "update", slave, ~slave'
               PROVE  setpoint = Zero
    OBVIOUS
  <2>1. Publish
    BY DEF Next, MainThread, StartUp, ReadInputs, ServerThread, vars, At, StartServer,
       ServerReady, StartTimesOut, WriteDefaults, BeginIteration, CheckCommands, ReadCommands,
       CheckEnables, ReadEnables, Apply, LeaveLoop, StopServer, JoinThread, JoinTimesOut,
       Announce, Bind, Fail, CancelTasks, Unwind, ClientWrites, EndRequested
  <2>2. MaxErrors \in Nat /\ MaxErrors >= 2 /\ errors \in Nat
    BY LoopAssumption DEF TypeOK
  <2>3. ~(errors' < MaxErrors)
    BY <2>1 DEF Publish
  <2>4. errors' = errors \/ errors' = errors + 1
    BY <2>1 DEF Publish
  <2>5. errors > 0
    BY <2>2, <2>3, <2>4
  <2> QED BY <2>5 DEF LostIsZero
<1> QED BY <1>1, LoopInvariant, PTL DEF Spec, ZeroBeforeGivingUp

-----------------------------------------------------------------------------
(* An enable bit that is on comes from a coil that was on during this          *)
(* iteration, or from the default of an interface that is down.              *)
OnOrDown(c) == enables[c] => c \in wasOn \/ ~running

Origin ==
  /\ \A c \in Coil : coils[c] => c \in wasOn
  /\ slave =>
       /\ pc \in {"chlorine_enable", "simulation_enable", "apply"} => OnOrDown("acid")
       /\ pc \in {"simulation_enable", "apply"} => OnOrDown("chlorine")
       /\ pc = "apply" => OnOrDown("simulation")

LEMMA OriginStep ==
  ASSUME TypeOK, Origin, [Next]_vars
  PROVE  Origin'
<1> USE DEF Origin, OnOrDown, At, registerVars, threadVars, localVars
<1>0. Coil = {"acid", "chlorine", "simulation"}
  BY DEF Coil, Pump
<1>1. CASE UNCHANGED vars
  BY <1>1 DEF vars
<1>2. CASE ServerThread
  <2>1. UNCHANGED <<coils, wasOn, slave, pc, enables>> /\ (~running => ~running')
    BY <1>2 DEF ServerThread, Announce, Bind, Fail, CancelTasks, Unwind
  <2> QED BY <2>1
<1>3. CASE ClientWrites
  <2>1. UNCHANGED <<slave, pc, enables, running>> /\ wasOn \subseteq wasOn'
    BY <1>3 DEF ClientWrites
  <2>2. \A c \in Coil : coils'[c] => c \in wasOn'
    BY <1>3 DEF ClientWrites, TypeOK
  <2> QED BY <2>1, <2>2, <1>0
<1>4. CASE StartUp
  <2>1. pc' \in {"wait", "default_flows", "default_coils", "top"}
    BY <1>4 DEF StartUp, StartServer, ServerReady, StartTimesOut, WriteDefaults
  <2>2. \A c \in Coil : coils'[c] => c \in wasOn'
    BY <1>4 DEF StartUp, StartServer, ServerReady, StartTimesOut, WriteDefaults
  <2> QED BY <2>1, <2>2
<1>5. CASE BeginIteration
  <2>1. \A c \in Coil : coils'[c] => c \in wasOn'
    BY <1>5 DEF BeginIteration
  <2>2. pc' = "check_commands" \/ (pc' = "apply" /\ ~slave')
    BY <1>5 DEF BeginIteration
  <2> QED BY <2>1, <2>2
<1>6. CASE CheckCommands
  BY <1>6 DEF CheckCommands
<1>7. CASE ReadCommands
  BY <1>7 DEF ReadCommands
<1>8. CASE CheckEnables
  BY <1>8 DEF CheckEnables
<1>9. CASE ReadEnables
  BY <1>0, <1>9 DEF ReadEnables, ReadEnable, TypeOK
<1>10. CASE Apply
  BY <1>10 DEF Apply
<1>11. CASE Publish
  BY <1>11 DEF Publish
<1>12. CASE LeaveLoop \/ EndRequested
  BY <1>12 DEF LeaveLoop, EndRequested
<1>13. CASE StopServer \/ JoinThread \/ JoinTimesOut
  BY <1>13 DEF StopServer, JoinThread, JoinTimesOut
<1> QED BY <1>1, <1>2, <1>3, <1>4, <1>5, <1>6, <1>7, <1>8, <1>9, <1>10, <1>11, <1>12, <1>13
        DEF Next, MainThread, ReadInputs

LEMMA OriginCorrect == Spec => []Origin
<1>1. Init => Origin
  BY DEF Init, Origin
<1>2. TypeOK /\ Origin /\ [Next]_vars => Origin'
  BY OriginStep
<1> QED BY <1>1, <1>2, TypeCorrect, PTL DEF Spec

(* The only steps that leave "apply" are those of Apply.                     *)
LEMMA AppliesIsApply ==
  ASSUME [Next]_vars, Applies
  PROVE  Apply
BY DEF Applies, Next, MainThread, StartUp, ReadInputs, ServerThread, vars, At, StartServer,
   ServerReady, StartTimesOut, WriteDefaults, BeginIteration, CheckCommands, ReadCommands,
   CheckEnables, ReadEnables, Publish, LeaveLoop, StopServer, JoinThread, JoinTimesOut,
   Announce, Bind, Fail, CancelTasks, Unwind, ClientWrites, EndRequested

(* A pump is driven only as its enable bit says.                             *)
LEMMA DrivenIsEnabled ==
  ASSUME Apply, enables["simulation"], NEW p \in Pump, setpoint'[p] > 0
  PROVE  enables[p] /\ commands # Zero
<1>1. setpoint' = Targets
  BY DEF Apply
<1>2. p \in Device /\ ~(0 > 0)
  BY DEF Device
<1>3. enables[p]
  BY <1>1, <1>2 DEF Targets
<1>4. Zero[p] = 0
  BY <1>2 DEF Zero
<1> QED BY <1>1, <1>2, <1>3, <1>4, ZeroTargets

(* Even when the server fails between the two tests of is_running, a disabled  *)
(* pump is driven in that one iteration at most.                             *)
THEOREM OffPumpOnce == Spec => OffPumpDrivenOnce
<1>1. TypeOK /\ LostIsZero /\ Origin /\ [Next]_vars
        => [Applies => \A p \in Pump :
              setpoint'[p] > 0 => p \in wasOn \/ ~enables["simulation"]
                                 \/ (~running /\ errors = 0)]_vars
  <2> SUFFICES ASSUME TypeOK, LostIsZero, Origin, [Next]_vars, Applies,
                      NEW p \in Pump, setpoint'[p] > 0, enables["simulation"], p \notin wasOn
               PROVE  ~running /\ errors = 0
    OBVIOUS
  <2>1. pc = "apply" /\ slave
    BY DEF Applies
  <2>2. enables[p] /\ commands # Zero
    BY AppliesIsApply, DrivenIsEnabled
  <2>3. ~running
    BY <2>1, <2>2 DEF Origin, OnOrDown, Pump
  <2>4. errors = 0
    BY <2>1, <2>2, LoopAssumption DEF LostIsZero, TypeOK
  <2> QED BY <2>3, <2>4
<1> QED BY <1>1, LoopInvariant, OriginCorrect, PTL DEF Spec, OffPumpDrivenOnce

-----------------------------------------------------------------------------
(* Without failures an interface the loop holds is up, slow start or not.     *)
Up == slave /\ pc \in {"wait", "default_flows", "default_coils"} \cup LoopStep => running

LEMMA UpStep ==
  ASSUME ~ServerFails, TypeOK, Counted, Ordered, Up, [Next]_vars
  PROVE  Up'
<1> USE DEF Up, LoopStep, ReadStep, At, registerVars, threadVars, localVars
<1>1. CASE UNCHANGED vars
  BY <1>1 DEF vars
<1>2. CASE ServerThread
  <2>1. UNCHANGED <<slave, running, pc>>
    BY <1>2 DEF ServerThread, Announce, Bind, Fail, CancelTasks, Unwind
  <2> QED BY <2>1
<1>3. CASE ClientWrites \/ EndRequested
  BY <1>3 DEF ClientWrites, EndRequested
<1>4. CASE StartUp
  <2>1. CASE StartServer
    BY <2>1 DEF StartServer, Ordered, StartingUp
  <2>2. CASE ServerReady \/ StartTimesOut \/ WriteDefaults
    BY <2>2 DEF ServerReady, StartTimesOut, WriteDefaults
  <2> QED BY <1>4, <2>1, <2>2 DEF StartUp
<1>5. CASE ReadInputs
  BY <1>5 DEF ReadInputs, BeginIteration, CheckCommands, ReadCommands, CheckEnables, ReadEnables
<1>6. CASE Apply
  BY <1>6 DEF Apply
<1>7. CASE Publish
  BY <1>7 DEF Publish
<1>8. CASE LeaveLoop \/ StopServer \/ JoinThread \/ JoinTimesOut
  BY <1>8 DEF LeaveLoop, StopServer, JoinThread, JoinTimesOut
<1> QED BY <1>1, <1>2, <1>3, <1>4, <1>5, <1>6, <1>7, <1>8 DEF Next, MainThread

LEMMA UpCorrect == ASSUME ~ServerFails PROVE Spec => []Up
<1>1. Init => Up
  BY DEF Init, Up, LoopStep, ReadStep
<1>2. TypeOK /\ Counted /\ Ordered /\ Up /\ [Next]_vars => Up'
  BY UpStep
<1> QED BY <1>1, <1>2, LoopInvariant, PTL DEF Spec

(* While the server lives, a pump whose coil was off for a whole iteration is  *)
(* never driven.                                                            *)
THEOREM OffMeansOff == ASSUME ~ServerFails PROVE Spec => NeverDrivenWhileOff
<1>1. TypeOK /\ Origin /\ Up /\ [Next]_vars
        => [Applies => \A p \in Pump :
              setpoint'[p] > 0 => p \in wasOn \/ ~enables["simulation"]]_vars
  <2> SUFFICES ASSUME TypeOK, Origin, Up, [Next]_vars, Applies,
                      NEW p \in Pump, setpoint'[p] > 0, enables["simulation"]
               PROVE  p \in wasOn
    OBVIOUS
  <2>1. pc = "apply" /\ slave /\ running
    BY DEF Applies, Up, LoopStep
  <2>2. enables[p]
    BY AppliesIsApply, DrivenIsEnabled
  <2> QED BY <2>1, <2>2 DEF Origin, OnOrDown, Pump
<1> QED BY <1>1, TypeCorrect, OriginCorrect, UpCorrect, PTL DEF Spec, NeverDrivenWhileOff

(* While the server lives, a simulation paused for a whole iteration is held.  *)
THEOREM PausedIsHeld == ASSUME ~ServerFails PROVE Spec => PausedMeansHeld
<1>1. Origin /\ Up /\ [Next]_vars
        => [Applies /\ setpoint' # setpoint => "simulation" \in wasOn]_vars
  <2> SUFFICES ASSUME Origin, Up, [Next]_vars, Applies, setpoint' # setpoint
               PROVE  "simulation" \in wasOn
    OBVIOUS
  <2>1. pc = "apply" /\ slave /\ running
    BY DEF Applies, Up, LoopStep
  <2>2. enables["simulation"]
    BY AppliesIsApply DEF Apply
  <2> QED BY <2>1, <2>2 DEF Origin, OnOrDown
<1> QED BY <1>1, OriginCorrect, UpCorrect, PTL DEF Spec, PausedMeansHeld

-----------------------------------------------------------------------------
(* A thread that still serves, or will, is known to the loop as running; only  *)
(* the shutdown cancels it.                                                 *)
Heard ==
  /\ pc \notin {"start", "join", "exited"} /\ thread \in {"booting", "announced", "serving"}
       => slave /\ running
  /\ cancelled => pc \in {"join", "exited"}
  /\ thread = "unwinding" => cancelled
  /\ pc = "exited" => thread \in {"failed", "done"}

LEMMA HeardStep ==
  ASSUME ~SlowThread, TypeOK, Counted, Ordered, Heard, [Next]_vars
  PROVE  Heard'
<1> USE DEF Heard, At, registerVars, threadVars, localVars
<1>1. CASE UNCHANGED vars
  BY <1>1 DEF vars
<1>2. CASE ServerThread
  BY <1>2 DEF ServerThread, Announce, Bind, Fail, CancelTasks, Unwind
<1>3. CASE ClientWrites \/ EndRequested
  BY <1>3 DEF ClientWrites, EndRequested
<1>4. CASE StartUp
  <2>1. CASE StartServer
    BY <2>1 DEF StartServer, Ordered, StartingUp
  <2>2. CASE ServerReady \/ StartTimesOut \/ WriteDefaults
    BY <2>2 DEF ServerReady, StartTimesOut, WriteDefaults
  <2> QED BY <1>4, <2>1, <2>2 DEF StartUp
<1>5. CASE ReadInputs
  BY <1>5 DEF ReadInputs, BeginIteration, CheckCommands, ReadCommands, CheckEnables, ReadEnables
<1>6. CASE Apply
  BY <1>6 DEF Apply
<1>7. CASE Publish
  <2>1. pc = "update" /\ pc' = "top" /\ UNCHANGED <<thread, running, cancelled>>
    BY <1>7 DEF Publish
  <2>2. slave /\ running => slave' /\ running'
    BY <1>7 DEF Publish, Counted
  <2> QED BY <2>1, <2>2
<1>8. CASE LeaveLoop
  BY <1>8 DEF LeaveLoop
<1>9. CASE StopServer
  <2>1. pc = "cleanup" /\ ~cancelled /\ thread' = thread
    BY <1>9 DEF StopServer
  <2>2. thread \in {"booting", "announced", "serving", "failed", "done"}
    BY <2>1 DEF TypeOK, ThreadStep, Ordered
  <2> QED BY <1>9, <2>1, <2>2 DEF StopServer
<1>10. CASE JoinThread \/ JoinTimesOut
  BY <1>10 DEF JoinThread, JoinTimesOut
<1> QED BY <1>1, <1>2, <1>3, <1>4, <1>5, <1>6, <1>7, <1>8, <1>9, <1>10 DEF Next, MainThread

LEMMA HeardCorrect == ASSUME ~SlowThread PROVE Spec => []Heard
<1>1. Init => Heard
  BY DEF Init, Heard
<1>2. TypeOK /\ Counted /\ Ordered /\ Heard /\ [Next]_vars => Heard'
  BY HeardStep
<1> QED BY <1>1, <1>2, LoopInvariant, PTL DEF Spec

(* With a thread that meets its deadlines, whoever is answered is heard ...    *)
THEOREM Served == ASSUME ~SlowThread PROVE Spec => []ServedIsHeard
<1>1. Heard => ServedIsHeard
  BY DEF Heard, ServedIsHeard, LoopStep, ReadStep
<1> QED BY <1>1, HeardCorrect, PTL

(* ... and the process leaves no server behind, however it ends.              *)
THEOREM LeavesNothing == ASSUME ~SlowThread PROVE Spec => []NoServerAfterExit
<1>1. Heard => NoServerAfterExit
  BY DEF Heard, NoServerAfterExit
<1> QED BY <1>1, HeardCorrect, PTL

-----------------------------------------------------------------------------
(* A step of the program is a step of the command source, or invisible in it. *)
LEMMA SourceStep ==
  ASSUME TypeOK, Counted, Ordered, [Next]_vars
  PROVE  [Source!Next]_(Source!sourceVars)
<1> USE DEF At, registerVars, threadVars, localVars
<1>1. ASSUME UNCHANGED <<slave, running, errors>>,
             pc \in {"start", "wait"} <=> pc' \in {"start", "wait"}
      PROVE  UNCHANGED Source!sourceVars
  BY <1>1 DEF Source!sourceVars
<1>2. CASE UNCHANGED vars
  BY <1>1, <1>2 DEF vars
<1>3. CASE Announce \/ Bind \/ CancelTasks \/ Unwind \/ ClientWrites \/ EndRequested
  BY <1>1, <1>3 DEF Announce, Bind, CancelTasks, Unwind, ClientWrites, EndRequested
<1>4. CASE Fail
  BY <1>4 DEF Fail, Source!Next, Source!Lose, Source!sourceVars
<1>5. CASE StartServer
  BY <1>5 DEF StartServer, Source!sourceVars
<1>6. CASE ServerReady \/ StartTimesOut
  BY <1>6 DEF ServerReady, StartTimesOut, Source!Next, Source!Connect
<1>7. CASE WriteDefaults
  BY <1>1, <1>7 DEF WriteDefaults
<1>8. CASE ReadInputs
  BY <1>1, <1>8 DEF ReadInputs, BeginIteration, CheckCommands, ReadCommands, CheckEnables,
     ReadEnables
<1>9. CASE Apply \/ LeaveLoop
  BY <1>1, <1>9 DEF Apply, LeaveLoop
<1>10. CASE Publish
  <2>1. pc = "update" /\ pc' = "top" /\ running' = running
    BY <1>10 DEF Publish
  <2>2. CASE slave /\ ~running
    <3>1. errors < MaxErrors /\ errors' = errors + 1
      BY <1>10, <2>2 DEF Publish, Counted
    <3>2. slave' <=> errors + 1 < MaxErrors
      BY <1>10, <2>2, <3>1 DEF Publish
    <3>3. Source!Miss
      BY <2>1, <2>2, <3>1, <3>2 DEF Source!Miss
    <3> QED BY <3>3 DEF Source!Next
  <2>3. CASE ~(slave /\ ~running)
    <3>1. errors' = errors
      BY <1>10, <2>3 DEF Publish
    <3>2. slave' <=> slave
      BY <1>10, <3>1 DEF Publish, Counted
    <3> QED BY <2>1, <3>1, <3>2 DEF Source!sourceVars
  <2> QED BY <2>2, <2>3
<1>11. CASE StopServer
  BY <1>11 DEF StopServer, Source!Next, Source!Lose, Source!sourceVars
<1>12. CASE JoinThread \/ JoinTimesOut
  BY <1>1, <1>12 DEF JoinThread, JoinTimesOut
<1> QED BY <1>2, <1>3, <1>4, <1>5, <1>6, <1>7, <1>8, <1>9, <1>10, <1>11, <1>12
        DEF Next, MainThread, StartUp, ServerThread

(* The commands come from Modbus until the interface is lost, and never again. *)
THEOREM Refinement == Spec => FallsBack
<1>1. Init => Source!Init
  BY DEF Init, Source!Init
<1>2. TypeOK /\ Counted /\ Ordered /\ [Next]_vars => [Source!Next]_(Source!sourceVars)
  BY SourceStep
<1> QED BY <1>1, <1>2, LoopInvariant, PTL DEF Spec, FallsBack, Source!Spec
=============================================================================
