--------------------------- MODULE PcsRuntime_proofs ---------------------------
(***************************************************************************)
(* Machine-checked facts about PcsRuntime, for every set of clients, every   *)
(* number of levels and every bound on abandoned requests.                   *)
(***************************************************************************)
EXTENDS PcsRuntime, TLAPS

USE TopLevelAssumption, RuntimeAssumption

-----------------------------------------------------------------------------
(* The outputs evaluate produces (control.rs:82-127) are well typed and      *)
(* interlocked, whatever the intent.                                         *)
LEMMA EvaluateType == \A op \in OperatorState : Evaluate(op) \in Control
  <1> SUFFICES ASSUME NEW op \in OperatorState PROVE Evaluate(op) \in Control
    OBVIOUS
  <1>1. \A dose \in DosingId : EnabledFlow(op, dose) \in Level
    BY DEF EnabledFlow, OperatorState, Level, NumericId, DosingId
  <1> QED
    BY <1>1 DEF Evaluate, Control, OperatorState, Level, NumericId

LEMMA EvaluateInterlocked == \A op \in OperatorState : Interlocked(Evaluate(op))
  <1> SUFFICES ASSUME NEW op \in OperatorState PROVE Interlocked(Evaluate(op))
    OBVIOUS
  <1> DEFINE out == Evaluate(op)
  <1>1. \A dose \in DosingId : EnabledFlow(op, dose) \in Nat
    BY DEF EnabledFlow, OperatorState, Level, NumericId, DosingId
  <1>2. \A dose \in DosingId :
          out.numeric[dose] = IF InletInterlock(op) THEN 0 ELSE EnabledFlow(op, dose)
    BY DEF Evaluate, NumericId
  <1>3. out.binary = op.binary /\ out.numeric["inlet-flow"] = op.numeric["inlet-flow"]
    BY DEF Evaluate, NumericId, DosingId
  <1>4. \A dose \in DosingId : ~out.binary[PumpOf(dose)] => out.numeric[dose] = 0
    BY <1>2, <1>3 DEF EnabledFlow
  <1>5. out.numeric["inlet-flow"] = 0 => \A dose \in DosingId : out.numeric[dose] = 0
    BY <1>1, <1>2, <1>3 DEF InletInterlock
  <1> QED
    BY <1>4, <1>5 DEF Interlocked

LEMMA DefaultOperatorType == DefaultOperator \in OperatorState
  BY DEF DefaultOperator, OperatorState, Level

(* A write that passed its check keeps the intent well typed.                *)
LEMMA WriteNumericType ==
  ASSUME NEW op \in OperatorState, NEW id, NEW value, AcceptsNumeric(id, value)
  PROVE  WriteNumeric(op, id, value) \in OperatorState
  BY DEF AcceptsNumeric, WriteNumeric, OperatorState

LEMMA WriteBinaryType ==
  ASSUME NEW op \in OperatorState, NEW id, NEW enabled \in BOOLEAN, AcceptsBinary(id)
  PROVE  WriteBinary(op, id, enabled) \in OperatorState
  BY DEF AcceptsBinary, WriteBinary, OperatorState

(* Setting the actuators from interlocked outputs keeps the plant            *)
(* interlocked, running or held (runtime_loop.py:304-322).                   *)
LEMMA ActuateType == \A p \in Plant, c \in Control : Actuate(p, c) \in Plant
  BY DEF Actuate, Plant, Control, PlantId, DosingId, NumericId, Level

LEMMA ActuateInterlocked ==
  \A p \in Plant, c \in Control :
    PlantInterlocked(p) /\ Interlocked(c) => PlantInterlocked(Actuate(p, c))
  <1> SUFFICES ASSUME NEW p \in Plant, NEW c \in Control,
                      PlantInterlocked(p), Interlocked(c)
               PROVE  PlantInterlocked(Actuate(p, c))
    OBVIOUS
  <1>1. CASE c.binary["simulation-running"]
    <2>1. \A id \in PlantId : Actuate(p, c)[id] =
             IF id \in DosingId /\ ~c.binary[PumpOf(id)] THEN 0 ELSE c.numeric[id]
      BY <1>1 DEF Actuate
    <2>2. Actuate(p, c)["inlet-flow"] = c.numeric["inlet-flow"]
      BY <2>1 DEF PlantId, DosingId
    <2> QED
      BY <2>1, <2>2 DEF PlantInterlocked, Interlocked, PlantId
  <1>2. CASE ~c.binary["simulation-running"]
    BY <1>2 DEF Actuate
  <1> QED
    BY <1>1, <1>2

-----------------------------------------------------------------------------
LEMMA JobTypes == HttpJob \subseteq Job /\ ModbusJob \subseteq Job /\ Tick \in Job /\ NoJob \in Job
  BY DEF HttpJob, ModbusJob, Job

(* Every variable of the runtime and of the worker keeps its type.           *)
THEOREM TypeCorrect == Spec => []TypeOK
<1>1. Init => TypeOK
  <2> SUFFICES ASSUME Init PROVE TypeOK
    OBVIOUS
  <2>1. plant \in Plant
    BY DEF Init, Plant, Level
  <2>2. control \in Control /\ last_control \in Control
    BY DefaultOperatorType, EvaluateType DEF Init
  <2>3. job \in [Actor -> Job]
    BY JobTypes DEF Init
  <2>4. requests \in Seq(Control) /\ responses \in Seq(Response)
    BY DEF Init
  <2> QED
    BY <2>1, <2>2, <2>3, <2>4, DefaultOperatorType DEF Init, TypeOK
<1>2. TypeOK /\ [Next]_vars => TypeOK'
  <2> SUFFICES ASSUME TypeOK, [Next]_vars PROVE TypeOK'
    OBVIOUS
  <2> USE DEF TypeOK
  <2>1. ASSUME NEW a \in Actor, NEW j \in Job, Call(a, j) PROVE TypeOK'
    BY <2>1 DEF Call, runtimeVars, workerVars
  <2>2. ASSUME NEW m \in ModbusClient, RefuseMalformed(m) PROVE TypeOK'
    BY <2>2 DEF RefuseMalformed, runtimeVars, workerVars, Client
  <2>3. ASSUME NEW a \in Actor, NEW op \in OperatorState, BeginTick(a, op) PROVE TypeOK'
    BY <2>3, EvaluateType DEF BeginTick, workerVars, Holding
  <2>4. ASSUME NEW a \in Actor, NEW outcome \in {"ok", "rejected", "failed"},
               Finish(a, outcome)
        PROVE  /\ holder' \in Actor \cup {NoActor}
               /\ pc' \in [Actor -> {"idle", "queued"} \cup Holding]
               /\ job' \in [Actor -> Job]
               /\ reply' \in [Client -> {"none", "ok", "rejected", "failed", "exception"}]
    BY <2>4, JobTypes DEF Finish, Answer, Status
  <2>5. ASSUME NEW a \in Actor, Begin(a) PROVE TypeOK'
    <3>1. CASE ServeCachedView(a)
      BY <3>1, <2>4 DEF ServeCachedView, runtimeVarsButHolder, workerVars
    <3>2. CASE FetchFirstView(a)
      BY <3>2, <2>3 DEF FetchFirstView
    <3>3. CASE StartTick(a)
      BY <3>3, <2>3 DEF StartTick
    <3>4. CASE AcceptNumeric(a)
      BY <3>4, <2>3, WriteNumericType DEF AcceptNumeric
    <3>5. CASE AcceptBinary(a)
      BY <3>5, <2>3, WriteBinaryType DEF AcceptBinary
    <3>6. CASE RejectWrite(a)
      BY <3>6, <2>4 DEF RejectWrite, runtimeVarsButHolder, workerVars
    <3> QED
      BY <2>5, <3>1, <3>2, <3>3, <3>4, <3>5, <3>6 DEF Begin
  <2>6. ASSUME NEW a \in Actor, Exchange(a) PROVE TypeOK'
    <3>1. CASE SendRequest(a)
      BY <3>1 DEF SendRequest, runtimeVars, Holding
    <3>2. ASSUME FailTick(a), UNCHANGED <<requests, worker, plant>>,
                 responses' \in Seq(Response)
          PROVE  TypeOK'
      BY <3>2, <2>4 DEF FailTick
    <3>3. CASE SendFails(a)
      BY <3>3, <3>2 DEF SendFails, workerVars
    <3>4. CASE ReceiveSnapshot(a)
      <4>1. Head(responses) \in Response /\ responses' \in Seq(Response)
        BY <3>4 DEF ReceiveSnapshot
      <4>2. Head(responses).snapshot \in ProcessSnapshot
        BY <3>4, <4>1 DEF ReceiveSnapshot, Response
      <4> QED
        BY <3>4, <2>4, <4>1, <4>2 DEF ReceiveSnapshot
    <3>5. CASE ReceiveError(a)
      BY <3>5, <3>2 DEF ReceiveError
    <3>6. CASE ReceiveClosed(a)
      BY <3>6, <3>2 DEF ReceiveClosed, workerVars
    <3> QED
      BY <2>6, <3>1, <3>3, <3>4, <3>5, <3>6 DEF Exchange
  <2>7. ASSUME NEW h \in HttpClient, Disconnect(h) PROVE TypeOK'
    BY <2>7, JobTypes DEF Disconnect, runtimeVarsButHolder, workerVars
  <2>8. CASE WorkerAnswers
    <3>1. Head(requests) \in Control /\ requests' \in Seq(Control)
      BY <2>8 DEF WorkerAnswers
    <3>2. plant' \in Plant
      BY <2>8, <3>1, ActuateType DEF WorkerAnswers
    <3>3. [ok |-> TRUE, snapshot |-> [control |-> Head(requests), plant |-> plant']]
             \in Response
      BY <3>1, <3>2 DEF Response, ProcessSnapshot
    <3> QED
      BY <2>8, <3>1, <3>2, <3>3 DEF WorkerAnswers, runtimeVars, handlerVars
  <2>9. CASE WorkerRaises
    <3>1. Head(requests) \in Control /\ requests' \in Seq(Control)
      BY <2>9 DEF WorkerRaises
    <3>2. plant' \in Plant
      BY <2>9, <3>1, ActuateType DEF WorkerRaises
    <3>3. [ok |-> FALSE, snapshot |-> NoProcess] \in Response
      BY DEF Response
    <3> QED
      BY <2>9, <3>1, <3>2, <3>3 DEF WorkerRaises, runtimeVars, handlerVars
  <2>10. CASE WorkerExits
    BY <2>10 DEF WorkerExits, runtimeVars, handlerVars
  <2>11. CASE UNCHANGED vars
    BY <2>11 DEF vars, runtimeVars, handlerVars, workerVars
  <2> QED
    BY <2>1, <2>2, <2>5, <2>6, <2>7, <2>8, <2>9, <2>10, <2>11, JobTypes
       DEF Next, Actor, Client
<1> QED
  BY <1>1, <1>2, PTL DEF Spec

-----------------------------------------------------------------------------
(* The mutex discipline: who is exchanging with the worker holds the lock,   *)
(* a pending call has no status yet, and the outputs in flight are those of  *)
(* the current intent.                                                       *)
PendingUnanswered == \A c \in Client : pc[c] # "idle" => reply[c] = "none"
ControlFresh      == holder # NoActor => control = Evaluate(operator)

Discipline == ExchangeExclusive /\ PendingUnanswered /\ ControlFresh

LEMMA DisciplineStep == TypeOK /\ Discipline /\ [Next]_vars => Discipline'
  <1> SUFFICES ASSUME TypeOK, Discipline, [Next]_vars PROVE Discipline'
    OBVIOUS
  <1> USE DEF TypeOK, Discipline, ExchangeExclusive, PendingUnanswered, ControlFresh, Holding
  <1>1. ASSUME NEW a \in Actor, NEW j, Call(a, j) PROVE Discipline'
    BY <1>1 DEF Call, runtimeVars, workerVars
  <1>2. ASSUME NEW m \in ModbusClient, RefuseMalformed(m) PROVE Discipline'
    BY <1>2 DEF RefuseMalformed, runtimeVars, workerVars, Client, Actor
  <1>3. ASSUME NEW a \in Actor, NEW op, Granted(a), BeginTick(a, op) PROVE Discipline'
    BY <1>3 DEF BeginTick, Granted, workerVars, Client, Actor
  <1>4. ASSUME NEW a \in Actor, NEW outcome, Finish(a, outcome), control' = control,
               operator' = operator, pc[a] = "queued" => holder = NoActor, pc[a] # "idle"
        PROVE  Discipline'
    <2>1. ExchangeExclusive'
      <3> SUFFICES ASSUME NEW b \in Actor PROVE pc'[b] \notin Holding
        BY <1>4 DEF Finish
      <3>1. CASE b = a
        BY <3>1, <1>4 DEF Finish
      <3>2. CASE b # a
        BY <3>2, <1>4 DEF Finish
      <3> QED
        BY <3>1, <3>2
    <2>2. PendingUnanswered'
      BY <1>4 DEF Finish, Answer, Client, Actor
    <2> QED
      BY <2>1, <2>2, <1>4 DEF Finish
  <1>5. ASSUME NEW a \in Actor, Begin(a) PROVE Discipline'
    <2>1. CASE ServeCachedView(a)
      BY <2>1, <1>4 DEF ServeCachedView, runtimeVarsButHolder, Granted
    <2>2. CASE RejectWrite(a)
      BY <2>2, <1>4 DEF RejectWrite, runtimeVarsButHolder, Granted
    <2>3. CASE FetchFirstView(a) \/ StartTick(a) \/ AcceptNumeric(a) \/ AcceptBinary(a)
      BY <2>3, <1>3 DEF FetchFirstView, StartTick, AcceptNumeric, AcceptBinary
    <2> QED
      BY <1>5, <2>1, <2>2, <2>3 DEF Begin
  <1>6. ASSUME NEW a \in Actor, Exchange(a) PROVE Discipline'
    <2>1. CASE SendRequest(a)
      BY <2>1 DEF SendRequest, runtimeVars, Client, Actor
    <2>2. CASE SendFails(a) \/ ReceiveSnapshot(a) \/ ReceiveError(a) \/ ReceiveClosed(a)
      BY <2>2, <1>4 DEF SendFails, ReceiveSnapshot, ReceiveError, ReceiveClosed, FailTick
    <2> QED
      BY <1>6, <2>1, <2>2 DEF Exchange
  <1>7. ASSUME NEW h \in HttpClient, Disconnect(h) PROVE Discipline'
    BY <1>7 DEF Disconnect, runtimeVarsButHolder, workerVars, Client, Actor
  <1>8. CASE WorkerAnswers \/ WorkerRaises \/ WorkerExits
    BY <1>8 DEF WorkerAnswers, WorkerRaises, WorkerExits, runtimeVars, handlerVars
  <1>9. CASE UNCHANGED vars
    BY <1>9 DEF vars, runtimeVars, handlerVars
  <1> QED
    BY <1>1, <1>2, <1>5, <1>6, <1>7, <1>8, <1>9 DEF Next, Actor, Client

LEMMA DisciplineCorrect == Spec => []Discipline
<1>1. Init => Discipline
  BY DEF Init, Discipline, ExchangeExclusive, PendingUnanswered, ControlFresh, Holding, Client, Actor
<1> QED
  BY <1>1, TypeCorrect, DisciplineStep, PTL DEF Spec

(* The mutex covers the whole exchange with the worker.                      *)
THEOREM Exclusive == Spec => []ExchangeExclusive
  BY DisciplineCorrect, PTL DEF Discipline

-----------------------------------------------------------------------------
(* The pipe owes exactly the current exchange and the abandoned ones.        *)
LEMMA PipeStep == TypeOK /\ Discipline /\ PipeAccounting /\ [Next]_vars => PipeAccounting'
  <1> SUFFICES ASSUME TypeOK, Discipline, PipeAccounting, [Next]_vars
               PROVE  PipeAccounting'
    OBVIOUS
  <1> USE DEF TypeOK, Discipline, ExchangeExclusive, Holding
  <1>1. /\ Len(requests) \in Nat /\ Len(responses) \in Nat
        /\ Owed \in {0, 1} /\ MaxAbandoned \in Nat
    BY DEF Owed
  <1>2. ASSUME Awaiting' = Awaiting, UNCHANGED workerVars PROVE PipeAccounting'
    BY <1>2 DEF PipeAccounting, InPipe, Owed, workerVars
  <1>3. ASSUME NEW a \in Actor, pc[a] # "awaiting", UNCHANGED workerVars,
               NEW v, v # "awaiting", pc' = [pc EXCEPT ![a] = v]
        PROVE  PipeAccounting'
    BY <1>2, <1>3 DEF Awaiting
  <1>4. ASSUME NEW a \in Actor, Begin(a) PROVE PipeAccounting'
    BY <1>3, <1>4 DEF Begin, Granted, BeginTick, Finish, ServeCachedView, FetchFirstView,
                     StartTick, AcceptNumeric, AcceptBinary, RejectWrite
  <1>5. ASSUME NEW a \in Actor, Exchange(a) PROVE PipeAccounting'
    <2>1. CASE SendRequest(a)
      <3>1. Awaiting = {} /\ a \in Awaiting'
        BY <2>1 DEF SendRequest, Awaiting
      <3>2. Owed = 0 /\ Owed' = 1
        BY <3>1 DEF Owed
      <3>3. Len(requests') = Len(requests) + 1 /\ responses' = responses /\ worker' = "alive"
        BY <2>1 DEF SendRequest
      <3> QED
        BY <1>1, <2>1, <3>2, <3>3 DEF PipeAccounting, InPipe, SendRequest
    <2>2. CASE SendFails(a)
      BY <1>3, <2>2 DEF SendFails, FailTick, Finish
    <2>3. ASSUME pc[a] = "awaiting", Finish(a, "ok") \/ FailTick(a)
          PROVE  Owed = 1 /\ Owed' = 0
      <3>1. a \in Awaiting /\ Awaiting' = {}
        BY <2>3 DEF Awaiting, FailTick, Finish
      <3> QED
        BY <3>1 DEF Owed
    <2>4. CASE ReceiveSnapshot(a) \/ ReceiveError(a)
      <3>1. Owed = 1 /\ Owed' = 0
        BY <2>3, <2>4 DEF ReceiveSnapshot, ReceiveError
      <3>2. /\ Len(responses') = Len(responses) - 1 /\ Len(responses') \in Nat
            /\ requests' = requests /\ worker' = worker
        BY <2>4 DEF ReceiveSnapshot, ReceiveError
      <3> QED
        BY <1>1, <3>1, <3>2 DEF PipeAccounting, InPipe
    <2>5. CASE ReceiveClosed(a)
      BY <1>1, <2>3, <2>5 DEF ReceiveClosed, workerVars, PipeAccounting, InPipe
    <2> QED
      BY <1>5, <2>1, <2>2, <2>4, <2>5 DEF Exchange
  <1>6. ASSUME NEW h \in HttpClient, Disconnect(h) PROVE PipeAccounting'
    <2>1. CASE pc[h] # "awaiting"
      BY <1>3, <1>6, <2>1 DEF Disconnect, Actor, Client
    <2>2. CASE pc[h] = "awaiting"
      <3>1. h \in Actor /\ holder = h
        BY <2>2 DEF Actor, Client
      <3>2. Awaiting' = {}
        BY <1>6, <3>1 DEF Disconnect, Awaiting
      <3> QED
        BY <1>1, <1>6, <2>2, <3>2 DEF Disconnect, PipeAccounting, InPipe, Owed, workerVars
    <2> QED
      BY <2>1, <2>2
  <1>7. CASE WorkerAnswers \/ WorkerRaises
    <2>1. /\ Len(requests') = Len(requests) - 1 /\ Len(responses') = Len(responses) + 1
          /\ worker' = "alive" /\ worker = "alive"
      BY <1>7 DEF WorkerAnswers, WorkerRaises
    <2>2. Owed' = Owed
      BY <1>7 DEF WorkerAnswers, WorkerRaises, handlerVars, Owed, Awaiting
    <2> QED
      BY <1>1, <2>1, <2>2 DEF PipeAccounting, InPipe
  <1>8. CASE WorkerExits
    <2>1. Owed' = Owed /\ responses' = responses /\ Len(requests') = 0 /\ worker' = "dead"
      BY <1>8 DEF WorkerExits, handlerVars, Owed, Awaiting
    <2> QED
      BY <1>1, <1>8, <2>1 DEF PipeAccounting, InPipe, WorkerExits
  <1>9. ASSUME NEW a \in Actor, NEW j, Call(a, j) PROVE PipeAccounting'
    BY <1>3, <1>9 DEF Call
  <1>10. CASE UNCHANGED vars \/ \E m \in ModbusClient : RefuseMalformed(m)
    BY <1>2, <1>10 DEF vars, handlerVars, RefuseMalformed, Awaiting
  <1> QED
    BY <1>4, <1>5, <1>6, <1>7, <1>8, <1>9, <1>10 DEF Next, Actor, Client

(* Nothing is in the pipe but the current exchange and abandoned requests,   *)
(* and a living worker owes the waiting handler a line.                      *)
THEOREM PipeAccounted == Spec => []PipeAccounting
<1>1. Init => PipeAccounting
  BY DEF Init, PipeAccounting, InPipe, Owed, Awaiting
<1> QED
  BY <1>1, TypeCorrect, DisciplineCorrect, PipeStep, PTL DEF Spec

-----------------------------------------------------------------------------
(* The interlocks reach the plant, whatever is lost, late or abandoned.      *)
LEMMA InterlockStep == TypeOK /\ InterlocksHold /\ [Next]_vars => InterlocksHold'
  <1> SUFFICES ASSUME TypeOK, InterlocksHold, [Next]_vars PROVE InterlocksHold'
    OBVIOUS
  <1> USE DEF TypeOK, InterlocksHold
  <1>1. ASSUME UNCHANGED <<control, last_control, last_process, workerVars>>
        PROVE  InterlocksHold'
    BY <1>1 DEF workerVars
  <1>2. ASSUME NEW a \in Actor, Begin(a) PROVE InterlocksHold'
    <2>1. ASSUME NEW op \in OperatorState, BeginTick(a, op) PROVE InterlocksHold'
      BY <2>1, EvaluateInterlocked DEF BeginTick, workerVars
    <2>2. CASE ServeCachedView(a) \/ RejectWrite(a)
      BY <1>1, <2>2 DEF ServeCachedView, RejectWrite, runtimeVarsButHolder
    <2>3. CASE FetchFirstView(a) \/ StartTick(a)
      BY <2>1, <2>3 DEF FetchFirstView, StartTick
    <2>4. CASE AcceptNumeric(a)
      BY <2>1, <2>4, WriteNumericType DEF AcceptNumeric
    <2>5. CASE AcceptBinary(a)
      BY <2>1, <2>5, WriteBinaryType DEF AcceptBinary
    <2> QED
      BY <1>2, <2>2, <2>3, <2>4, <2>5 DEF Begin
  <1>3. ASSUME NEW a \in Actor, Exchange(a) PROVE InterlocksHold'
    <2>1. CASE SendRequest(a)
      BY <2>1 DEF SendRequest, runtimeVars
    <2>2. CASE SendFails(a) \/ ReceiveClosed(a)
      BY <1>1, <2>2 DEF SendFails, ReceiveClosed, FailTick
    <2>3. ASSUME responses # <<>>, responses' = Tail(responses)
          PROVE  \A i \in DOMAIN responses' :
                   responses'[i].ok => PlantInterlocked(responses'[i].snapshot.plant)
      <3>1. \A i \in DOMAIN responses' : i + 1 \in DOMAIN responses /\ responses'[i] = responses[i + 1]
        BY <2>3
      <3> QED
        BY <3>1
    <2>4. CASE ReceiveSnapshot(a)
      <3>1. PlantInterlocked(Head(responses).snapshot.plant)
        BY <2>4 DEF ReceiveSnapshot
      <3> QED
        BY <2>3, <2>4, <3>1 DEF ReceiveSnapshot, PlantInterlocked
    <2>5. CASE ReceiveError(a)
      BY <2>3, <2>5 DEF ReceiveError, FailTick
    <2> QED
      BY <1>3, <2>1, <2>2, <2>4, <2>5 DEF Exchange
  <1>4. ASSUME worker = "alive", requests # <<>>, requests' = Tail(requests),
               plant' \in {plant, Actuate(plant, Head(requests))},
               NEW r, responses' = Append(responses, r),
               r.ok => r.snapshot.plant = plant',
               UNCHANGED runtimeVars
        PROVE  InterlocksHold'
    <2>1. Head(requests) \in Control /\ Interlocked(Head(requests))
      BY <1>4
    <2>2. PlantInterlocked(plant')
      BY <1>4, <2>1, ActuateInterlocked
    <2>3. \A i \in DOMAIN requests' : Interlocked(requests'[i])
      <3>1. \A i \in DOMAIN requests' : i + 1 \in DOMAIN requests /\ requests'[i] = requests[i + 1]
        BY <1>4
      <3> QED
        BY <3>1
    <2>4. \A i \in DOMAIN responses' :
            responses'[i].ok => PlantInterlocked(responses'[i].snapshot.plant)
      <3> SUFFICES ASSUME NEW i \in DOMAIN responses', responses'[i].ok
                   PROVE  PlantInterlocked(responses'[i].snapshot.plant)
        OBVIOUS
      <3>1. CASE i \in DOMAIN responses
        BY <1>4, <3>1
      <3>2. CASE i = Len(responses) + 1
        BY <1>4, <2>2, <3>2 DEF PlantInterlocked
      <3> QED
        BY <1>4, <3>1, <3>2
    <2> QED
      BY <1>4, <2>2, <2>3, <2>4 DEF runtimeVars, PlantInterlocked
  <1>5. CASE WorkerAnswers
    BY <1>4, <1>5 DEF WorkerAnswers
  <1>6. CASE WorkerRaises
    BY <1>4, <1>6 DEF WorkerRaises
  <1>7. CASE WorkerExits
    BY <1>7 DEF WorkerExits, runtimeVars
  <1>8. CASE \/ \E h \in HttpClient : Disconnect(h)
             \/ \E m \in ModbusClient : RefuseMalformed(m)
             \/ \E a \in Actor, j \in Job : Call(a, j)
             \/ UNCHANGED vars
    BY <1>1, <1>8 DEF Disconnect, RefuseMalformed, Call, vars, runtimeVars,
                     runtimeVarsButHolder
  <1> QED
    BY <1>2, <1>3, <1>5, <1>6, <1>7, <1>8, JobTypes DEF Next, Actor, Client

THEOREM InterlocksAlwaysHold == Spec => []InterlocksHold
<1>1. Init => InterlocksHold
  <2>1. Interlocked(Evaluate(DefaultOperator))
    BY DefaultOperatorType, EvaluateInterlocked
  <2> QED
    BY <2>1 DEF Init, InterlocksHold, PlantInterlocked, PlantId
<1> QED
  BY <1>1, TypeCorrect, InterlockStep, PTL DEF Spec

-----------------------------------------------------------------------------
(* From here on no handler is dropped while it reads: then the order of the  *)
(* pipe is enough to pair answers with requests.                             *)
Paired == AnswersMatch /\ ViewCoherent

LEMMA EmptyPipe ==
  ASSUME MaxAbandoned = 0, TypeOK, Discipline, PipeAccounting,
         \A a \in Actor : pc[a] # "awaiting"
  PROVE  requests = <<>> /\ responses = <<>>
  <1>1. Owed = 0
    BY DEF Owed, Awaiting
  <1>2. Len(requests) \in Nat /\ Len(responses) \in Nat /\ Len(requests) + Len(responses) <= 0
    BY <1>1 DEF PipeAccounting, InPipe, TypeOK
  <1> QED
    BY <1>2 DEF TypeOK

LEMMA PairedStep ==
  ASSUME MaxAbandoned = 0
  PROVE  TypeOK /\ Discipline /\ PipeAccounting /\ Paired /\ [Next]_vars => Paired'
  <1> SUFFICES ASSUME TypeOK, Discipline, PipeAccounting, Paired, [Next]_vars
               PROVE  Paired'
    OBVIOUS
  <1> USE DEF TypeOK, Paired, AnswersMatch, ViewCoherent
  <1>1. ASSUME UNCHANGED <<control, last_control, last_process, requests, responses>>
        PROVE  Paired'
    BY <1>1
  <1>2. ASSUME NEW a \in Actor, Begin(a) PROVE Paired'
    <2>1. ASSUME NEW op, Granted(a), BeginTick(a, op) PROVE Paired'
      <3>1. requests = <<>> /\ responses = <<>>
        BY <2>1, EmptyPipe DEF Granted, Discipline, ExchangeExclusive, Holding
      <3> QED
        BY <2>1, <3>1 DEF BeginTick, workerVars
    <2>2. CASE ServeCachedView(a) \/ RejectWrite(a)
      BY <1>1, <2>2 DEF ServeCachedView, RejectWrite, runtimeVarsButHolder, workerVars
    <2>3. CASE FetchFirstView(a) \/ StartTick(a) \/ AcceptNumeric(a) \/ AcceptBinary(a)
      BY <2>1, <2>3 DEF FetchFirstView, StartTick, AcceptNumeric, AcceptBinary
    <2> QED
      BY <1>2, <2>2, <2>3 DEF Begin
  <1>3. ASSUME NEW a \in Actor, Exchange(a) PROVE Paired'
    <2>1. CASE SendRequest(a)
      <3>1. requests = <<>> /\ responses = <<>>
        BY <2>1, EmptyPipe DEF SendRequest, Discipline, ExchangeExclusive, Holding
      <3> QED
        BY <2>1, <3>1 DEF SendRequest, runtimeVars
    <2>2. CASE SendFails(a) \/ ReceiveClosed(a)
      BY <1>1, <2>2 DEF SendFails, ReceiveClosed, FailTick, workerVars
    <2>3. ASSUME responses # <<>>, responses' = Tail(responses), control' = control
          PROVE  \A i \in DOMAIN responses' :
                   responses'[i].ok => responses'[i].snapshot.control = control'
      <3>1. \A i \in DOMAIN responses' : i + 1 \in DOMAIN responses /\ responses'[i] = responses[i + 1]
        BY <2>3
      <3> QED
        BY <2>3, <3>1
    <2>4. CASE ReceiveSnapshot(a)
      <3>1. Head(responses).snapshot.control = control
        BY <2>4 DEF ReceiveSnapshot
      <3> QED
        BY <2>3, <2>4, <3>1 DEF ReceiveSnapshot
    <2>5. CASE ReceiveError(a)
      BY <2>3, <2>5 DEF ReceiveError, FailTick
    <2> QED
      BY <1>3, <2>1, <2>2, <2>4, <2>5 DEF Exchange
  <1>4. ASSUME requests # <<>>, requests' = Tail(requests),
               NEW r, responses' = Append(responses, r),
               r.ok => r.snapshot.control = Head(requests),
               UNCHANGED runtimeVars
        PROVE  Paired'
    <2>1. Head(requests) = control
      BY <1>4
    <2>2. \A i \in DOMAIN requests' : requests'[i] = control'
      <3>1. \A i \in DOMAIN requests' : i + 1 \in DOMAIN requests /\ requests'[i] = requests[i + 1]
        BY <1>4
      <3> QED
        BY <1>4, <3>1 DEF runtimeVars
    <2>3. \A i \in DOMAIN responses' :
            responses'[i].ok => responses'[i].snapshot.control = control'
      <3> SUFFICES ASSUME NEW i \in DOMAIN responses', responses'[i].ok
                   PROVE  responses'[i].snapshot.control = control'
        OBVIOUS
      <3>1. CASE i \in DOMAIN responses
        BY <1>4, <3>1 DEF runtimeVars
      <3>2. CASE i = Len(responses) + 1
        BY <1>4, <2>1, <3>2 DEF runtimeVars
      <3> QED
        BY <1>4, <3>1, <3>2
    <2> QED
      BY <1>4, <2>2, <2>3 DEF runtimeVars
  <1>5. CASE WorkerAnswers
    BY <1>4, <1>5 DEF WorkerAnswers
  <1>6. CASE WorkerRaises
    BY <1>4, <1>6 DEF WorkerRaises
  <1>7. CASE WorkerExits
    BY <1>7 DEF WorkerExits, runtimeVars
  <1>8. CASE \/ \E h \in HttpClient : Disconnect(h)
             \/ \E m \in ModbusClient : RefuseMalformed(m)
             \/ \E a \in Actor, j \in Job : Call(a, j)
             \/ UNCHANGED vars
    BY <1>1, <1>8 DEF Disconnect, RefuseMalformed, Call, vars, runtimeVars,
                     runtimeVarsButHolder, workerVars
  <1> QED
    BY <1>2, <1>3, <1>5, <1>6, <1>7, <1>8, JobTypes DEF Next, Actor, Client

LEMMA PairedCorrect == ASSUME MaxAbandoned = 0 PROVE Spec => []Paired
<1>1. Init => Paired
  BY DEF Init, Paired, AnswersMatch, ViewCoherent
<1> QED
  BY <1>1, TypeCorrect, DisciplineCorrect, PipeAccounted, PairedStep, PTL DEF Spec

(* Without abandoned requests, PCS state and process state on display belong *)
(* together.                                                                 *)
THEOREM ViewAlwaysCoherent == ASSUME MaxAbandoned = 0 PROVE Spec => []ViewCoherent
  BY PairedCorrect, PTL DEF Paired

(* Whenever a handler reads, the line it reads answers its own request.      *)
THEOREM AnswersAlwaysMatch == Spec => []AnswersMatch
<1>1. CASE MaxAbandoned = 0
  BY <1>1, PairedCorrect, PTL DEF Paired
<1>2. CASE MaxAbandoned # 0
  <2>1. AnswersMatch
    BY <1>2 DEF AnswersMatch
  <2> QED
    BY <2>1, PTL
<1> QED
  BY <1>1, <1>2

-----------------------------------------------------------------------------
(* The step that publishes: the snapshot it publishes is the outcome of the  *)
(* intent in force.                                                          *)
LEMMA PublishedIsCurrent ==
  ASSUME MaxAbandoned = 0, TypeOK, Discipline, Paired,
         NEW a \in Actor, ReceiveSnapshot(a)
  PROVE  /\ last_process' \in ProcessSnapshot
         /\ last_process'.control = Evaluate(operator)
         /\ last_error' = FALSE /\ operator' = operator
  <1>1. Head(responses) \in Response /\ Head(responses).snapshot.control = control
    BY DEF ReceiveSnapshot, TypeOK, Paired, AnswersMatch
  <1>2. holder = a /\ holder # NoActor
    BY DEF ReceiveSnapshot, Discipline, ExchangeExclusive, Holding, Actor
  <1> QED
    BY <1>1, <1>2 DEF ReceiveSnapshot, Discipline, ControlFresh, Response

(* A success status is given only for an intent the worker has answered for. *)
THEOREM OkImpliesApplied == ASSUME MaxAbandoned = 0 PROVE Spec => OkMeansApplied
<1>1. TypeOK /\ Discipline /\ Paired /\ [Next]_vars =>
        [\A c \in Client : pc[c] = "awaiting" /\ reply'[c] = "ok" =>
           /\ last_process'.control = Evaluate(operator')
           /\ ~last_error']_vars
  <2> SUFFICES ASSUME TypeOK, Discipline, Paired, Next,
                      NEW c \in Client, pc[c] = "awaiting", reply'[c] = "ok"
               PROVE  last_process'.control = Evaluate(operator') /\ ~last_error'
    OBVIOUS
  <2> USE DEF TypeOK
  <2>1. reply[c] = "none" /\ c \in Actor
    BY DEF Discipline, PendingUnanswered, Actor
  <2>2. ASSUME NEW a \in Actor, NEW outcome, Finish(a, outcome), a # c PROVE FALSE
    BY <2>1, <2>2 DEF Finish, Answer
  <2>3. ASSUME NEW a \in Actor, Begin(a) PROVE FALSE
    <3>1. a # c
      BY <2>3 DEF Begin, Granted, ServeCachedView, FetchFirstView, StartTick, AcceptNumeric,
                  AcceptBinary, RejectWrite
    <3> QED
      BY <2>1, <2>2, <2>3, <3>1 DEF Begin, BeginTick, ServeCachedView, FetchFirstView,
         StartTick, AcceptNumeric, AcceptBinary, RejectWrite
  <2>4. ASSUME NEW a \in Actor, Exchange(a) PROVE ReceiveSnapshot(a)
    <3>1. CASE FailTick(a)
      <4>1. a = c
        BY <2>2, <3>1 DEF FailTick
      <4>2. reply'[c] = Status(c, "failed")
        BY <3>1, <4>1 DEF FailTick, Finish, Answer
      <4> QED
        BY <4>2 DEF Status
    <3>2. CASE SendRequest(a)
      BY <2>1, <3>2 DEF SendRequest
    <3> QED
      BY <2>4, <3>1, <3>2 DEF Exchange, SendFails, ReceiveError, ReceiveClosed
  <2>5. CASE \E a \in Actor : Exchange(a)
    BY <2>4, <2>5, PublishedIsCurrent
  <2>6. ASSUME NEW a \in Actor, NEW j, Call(a, j) PROVE FALSE
    BY <2>1, <2>6 DEF Call
  <2>7. ASSUME NEW m \in ModbusClient, RefuseMalformed(m) PROVE FALSE
    BY <2>1, <2>7 DEF RefuseMalformed
  <2>8. ASSUME \/ \E h \in HttpClient : Disconnect(h)
               \/ WorkerAnswers \/ WorkerRaises \/ WorkerExits
        PROVE  FALSE
    BY <2>1, <2>8 DEF Disconnect, WorkerAnswers, WorkerRaises, WorkerExits, handlerVars
  <2> QED
    BY <2>3, <2>5, <2>6, <2>7, <2>8 DEF Next, Actor, Client
<1> QED
  BY <1>1, TypeCorrect, DisciplineCorrect, PairedCorrect, PTL DEF Spec, OkMeansApplied

-----------------------------------------------------------------------------
(* The runtime implements PcsView.                                           *)
publishedView == IF last_process = NoProcess THEN NoProcess ELSE last_process.control

LEMMA AbstractStep ==
  ASSUME MaxAbandoned = 0
  PROVE  TypeOK /\ Discipline /\ Paired /\ [Next]_vars => [Abstract!Next]_(Abstract!absVars)
  <1> SUFFICES ASSUME TypeOK, Discipline, Paired, [Next]_vars
               PROVE  Abstract!Next \/ UNCHANGED <<operator, publishedView, last_error>>
    BY DEF Abstract!absVars, publishedView
  <1> USE DEF publishedView
  <1>1. ASSUME UNCHANGED <<operator, last_process, last_error>>
        PROVE  UNCHANGED <<operator, publishedView, last_error>>
    BY <1>1
  <1>2. ASSUME NEW a \in Actor, Begin(a)
        PROVE  Abstract!Next \/ UNCHANGED <<operator, publishedView, last_error>>
    <2>1. CASE ServeCachedView(a) \/ RejectWrite(a) \/ FetchFirstView(a) \/ StartTick(a)
      BY <1>1, <2>1 DEF ServeCachedView, RejectWrite, FetchFirstView, StartTick, BeginTick,
                       runtimeVarsButHolder
    <2>2. CASE AcceptNumeric(a)
      <3>1. \E id \in NumericId, value \in Level : operator' = WriteNumeric(operator, id, value)
        BY <2>2 DEF AcceptNumeric, BeginTick, AcceptsNumeric
      <3>2. Abstract!Accept
        BY <2>2, <3>1 DEF AcceptNumeric, BeginTick, Abstract!Accept, Abstract!WriteNumeric,
           WriteNumeric, Abstract!NumericId, NumericId, Abstract!Level, Level,
           Abstract!DosingId, DosingId
      <3> QED
        BY <3>2 DEF Abstract!Next
    <2>3. CASE AcceptBinary(a)
      <3>1. \E id \in CoilId, enabled \in BOOLEAN : operator' = WriteBinary(operator, id, enabled)
        BY <2>3 DEF AcceptBinary, BeginTick, AcceptsBinary
      <3>2. Abstract!Accept
        BY <2>3, <3>1 DEF AcceptBinary, BeginTick, Abstract!Accept, Abstract!WriteBinary,
           WriteBinary, Abstract!CoilId, CoilId
      <3> QED
        BY <3>2 DEF Abstract!Next
    <2> QED
      BY <1>2, <2>1, <2>2, <2>3 DEF Begin
  <1>3. ASSUME NEW a \in Actor, Exchange(a)
        PROVE  Abstract!Next \/ UNCHANGED <<operator, publishedView, last_error>>
    <2>1. CASE SendRequest(a)
      BY <1>1, <2>1 DEF SendRequest, runtimeVars
    <2>2. CASE FailTick(a)
      BY <2>2 DEF FailTick, Abstract!Next, Abstract!Fail
    <2>3. CASE ReceiveSnapshot(a)
      <3>1. /\ publishedView' = Evaluate(operator)
            /\ last_error' = FALSE /\ operator' = operator
        BY <2>3, PublishedIsCurrent
      <3>2. Abstract!Evaluate(operator) = Evaluate(operator)
        BY DEF Abstract!Evaluate, Evaluate, Abstract!InletInterlock, InletInterlock,
           Abstract!EnabledFlow, EnabledFlow, Abstract!PumpOf, PumpOf,
           Abstract!NumericId, NumericId, Abstract!DosingId, DosingId
      <3> QED
        BY <3>1, <3>2 DEF Abstract!Next, Abstract!Publish
    <2> QED
      BY <1>3, <2>1, <2>2, <2>3 DEF Exchange, SendFails, ReceiveError, ReceiveClosed
  <1>4. CASE \/ \E h \in HttpClient : Disconnect(h)
             \/ \E m \in ModbusClient : RefuseMalformed(m)
             \/ \E a \in Actor, j \in Job : Call(a, j)
             \/ WorkerAnswers \/ WorkerRaises \/ WorkerExits
             \/ UNCHANGED vars
    BY <1>1, <1>4 DEF Disconnect, RefuseMalformed, Call, WorkerAnswers, WorkerRaises,
       WorkerExits, vars, runtimeVars, runtimeVarsButHolder
  <1> QED
    BY <1>2, <1>3, <1>4, JobTypes DEF Next, Actor, Client

THEOREM Refinement == ASSUME MaxAbandoned = 0 PROVE Spec => PublishesIntent
<1>1. Init => Abstract!Init
  BY DEF Init, Abstract!Init, Abstract!DefaultOperator, DefaultOperator,
     Abstract!NumericId, NumericId, Abstract!DosingId, DosingId, Abstract!CoilId, CoilId
<1> QED
  BY <1>1, AbstractStep, TypeCorrect, DisciplineCorrect, PairedCorrect, PTL
     DEF Spec, PublishesIntent, Abstract!Spec
=============================================================================
