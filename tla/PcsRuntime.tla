------------------------------ MODULE PcsRuntime ------------------------------
(***************************************************************************)
(* The Rust runtime (runtime/src/runtime.rs, simulation_worker.rs, api.rs,  *)
(* modbus_server.rs) and the Python simulation worker behind its stdio pipe *)
(* (src/hydrasim/simulation_worker.py).                                     *)
(*                                                                          *)
(* One tokio mutex guards operator, last_process, last_control, last_error  *)
(* and the worker handle, and it is held across the whole request/response  *)
(* exchange.  HTTP handlers, Modbus handlers and the tick loop compete for  *)
(* it.  An axum handler is dropped when its client disconnects, at whatever *)
(* await it has reached; a request already written to the worker then has   *)
(* nobody to read its answer.  Modbus handlers and the tick loop always run *)
(* to their end.  Physical time is left out: dt only scales the physics.    *)
(***************************************************************************)
EXTENDS PcsControl, Sequences

CONSTANTS
  HttpClient,       \* connections of the HTTP API, whose handlers can be dropped
  ModbusClient,     \* connections of the Modbus server
  Ticker,           \* the task spawned by spawn_tick_loop
  NoActor,          \* "the mutex is free"
  NoProcess,        \* "no process snapshot": None in last_process
  WritableNumeric,  \* the numeric ids the clients of this instance write
  WritableCoil,     \* the coil ids the clients of this instance write
  MaxAbandoned      \* bound: requests in the pipe whose handler was dropped

Client == HttpClient \cup ModbusClient
Actor  == Client \cup {Ticker}

(* The levels the worker's actuators are set to, by command id. *)
PlantId == DosingId \cup {"inlet-flow"}
Plant   == [PlantId -> Level]

(* A snapshot, reduced to what it was computed from: the outputs the request *)
(* carried and the actuator setpoints in force.                              *)
ProcessSnapshot == [control : Control, plant : Plant]

ASSUME RuntimeAssumption ==
  /\ Ticker \notin Client
  /\ NoActor \notin Actor
  /\ HttpClient \cap ModbusClient = {}
  /\ NoProcess \notin ProcessSnapshot
  /\ WritableNumeric \subseteq NumericId
  /\ WritableCoil \subseteq CoilId
  /\ MaxAbandoned \in Nat

VARIABLES
  operator,       \* OperatorState: what the operators asked for
  holder,         \* who holds the mutex
  pc,             \* where each handler is
  job,            \* the call each handler is serving
  control,        \* tick_once's local: the outputs being sent
  last_process,   \* the last snapshot received, or NoProcess
  last_control,   \* the outputs of the last tick that succeeded
  last_error,     \* did the last tick fail?
  reply,          \* the last status each client was answered with
  requests,       \* the worker's stdin
  responses,      \* the worker's stdout
  worker,         \* "alive" or "dead"
  plant           \* the actuator setpoints inside the worker

runtimeVarsButHolder == <<operator, control, last_process, last_control, last_error>>
runtimeVars == <<operator, holder, control, last_process, last_control, last_error>>
handlerVars == <<pc, job, reply>>
workerVars  == <<requests, responses, worker, plant>>
vars        == <<runtimeVars, handlerVars, workerVars>>

-----------------------------------------------------------------------------
NoJob == [op |-> "none", id |-> "none", value |-> 0]
View  == [op |-> "view", id |-> "none", value |-> 0]
Tick  == [op |-> "tick", id |-> "none", value |-> 0]

NumericWrite == [op : {"write_numeric"}, id : WritableNumeric,
                 value : 0 .. TopLevel + 1]
BinaryWrite  == [op : {"write_binary"}, id : WritableCoil, value : {0, 1}]
UnknownWrite == [op : {"write_numeric", "write_binary"}, id : {"unknown"}, value : {0}]

(* The calls of the HTTP routes.  A Modbus request reaches the runtime only  *)
(* with an id that from_address resolved.                                    *)
ModbusJob == {View} \cup NumericWrite \cup BinaryWrite
HttpJob   == ModbusJob \cup UnknownWrite
Job       == HttpJob \cup {Tick, NoJob}

Holding  == {"writing", "awaiting"}
Awaiting == {a \in Actor : pc[a] = "awaiting"}
InPipe   == Len(requests) + Len(responses)
Owed     == IF Awaiting = {} THEN 0 ELSE 1   \* answers somebody waits for

(* How a handler's outcome reaches its client: HTTP tells a refused command  *)
(* (400) from a failed tick (502), Modbus answers both with an exception.    *)
Status(c, outcome) == IF outcome = "ok" \/ c \in HttpClient THEN outcome
                                                            ELSE "exception"

Answer(a, outcome) ==
  reply' = IF a \in Client THEN [reply EXCEPT ![a] = Status(a, outcome)] ELSE reply

(* The handler returns, releasing the mutex. *)
Finish(a, outcome) ==
  /\ holder' = NoActor
  /\ pc' = [pc EXCEPT ![a] = "idle"]
  /\ job' = [job EXCEPT ![a] = NoJob]
  /\ Answer(a, outcome)

-----------------------------------------------------------------------------
Init ==
  /\ operator = DefaultOperator
  /\ holder = NoActor
  /\ pc = [a \in Actor |-> "idle"]
  /\ job = [a \in Actor |-> NoJob]
  /\ control = Evaluate(DefaultOperator)
  /\ last_process = NoProcess
  /\ last_control = Evaluate(DefaultOperator)
  /\ last_error = FALSE
  /\ reply = [c \in Client |-> "none"]
  /\ requests = <<>>
  /\ responses = <<>>
  /\ worker = "alive"
  /\ plant = [id \in PlantId |-> IF id = "inlet-flow" THEN 1 ELSE 0]

(* A request arrives, or the interval of the tick loop fires; the handler    *)
(* waits for the mutex.                                                      *)
Call(a, j) ==
  /\ pc[a] = "idle"
  /\ pc' = [pc EXCEPT ![a] = "queued"]
  /\ job' = [job EXCEPT ![a] = j]
  /\ reply' = IF a \in Client THEN [reply EXCEPT ![a] = "none"] ELSE reply
  /\ UNCHANGED <<runtimeVars, workerVars>>

(* A Modbus write with a word count other than two, or to an address that is *)
(* no command, is refused before the runtime is asked.                       *)
RefuseMalformed(m) ==
  /\ pc[m] = "idle"
  /\ reply[m] # "exception"
  /\ reply' = [reply EXCEPT ![m] = "exception"]
  /\ UNCHANGED <<runtimeVars, pc, job, workerVars>>

(* Mutant: the lock is not held across the await. *)
GrantedAnytime(a) == pc[a] = "queued"

(* The mutex is granted.  *)
Granted(a) == pc[a] = "queued" /\ holder = NoActor

(* Mutant: the outputs are evaluated before the write is stored. *)
BeginTickEarly(a, op) ==
  /\ holder' = a
  /\ operator' = op
  /\ control' = Evaluate(operator)
  /\ pc' = [pc EXCEPT ![a] = "writing"]
  /\ UNCHANGED <<last_process, last_control, last_error, job, reply, workerVars>>

(* tick_once up to its await: the outputs are evaluated from the intent.     *)
BeginTick(a, op) ==
  /\ holder' = a
  /\ operator' = op
  /\ control' = Evaluate(op)
  /\ pc' = [pc EXCEPT ![a] = "writing"]
  /\ UNCHANGED <<last_process, last_control, last_error, job, reply, workerVars>>

(* snapshot and modbus_image answer from the cached snapshot ...             *)
ServeCachedView(a) ==
  /\ Granted(a)
  /\ job[a].op = "view"
  /\ last_process # NoProcess
  /\ Finish(a, "ok")
  /\ UNCHANGED <<runtimeVarsButHolder, workerVars>>

(* ... and tick first when there is none yet.                                *)
FetchFirstView(a) ==
  /\ Granted(a)
  /\ job[a].op = "view"
  /\ last_process = NoProcess
  /\ BeginTick(a, operator)

StartTick(a) ==
  /\ Granted(a)
  /\ job[a].op = "tick"
  /\ BeginTick(a, operator)

(* write_numeric and write_binary: the intent changes, then a tick sends it. *)
AcceptNumeric(a) ==
  /\ Granted(a)
  /\ job[a].op = "write_numeric"
  /\ AcceptsNumeric(job[a].id, job[a].value)
  /\ BeginTick(a, WriteNumeric(operator, job[a].id, job[a].value))

AcceptBinary(a) ==
  /\ Granted(a)
  /\ job[a].op = "write_binary"
  /\ AcceptsBinary(job[a].id)
  /\ BeginTick(a, WriteBinary(operator, job[a].id, job[a].value = 1))

(* An unknown id or a value out of range returns before anything changes.    *)
RejectWrite(a) ==
  /\ Granted(a)
  /\ \/ job[a].op = "write_numeric" /\ ~AcceptsNumeric(job[a].id, job[a].value)
     \/ job[a].op = "write_binary" /\ ~AcceptsBinary(job[a].id)
  /\ Finish(a, "rejected")
  /\ UNCHANGED <<runtimeVarsButHolder, workerVars>>

-----------------------------------------------------------------------------
(* SimulationWorker::request: write the line, flush, read one line.          *)
SendRequest(a) ==
  /\ pc[a] = "writing"
  /\ worker = "alive"
  /\ requests' = Append(requests, control)
  /\ pc' = [pc EXCEPT ![a] = "awaiting"]
  /\ UNCHANGED <<runtimeVars, job, reply, responses, worker, plant>>

(* Mutants: the failed outputs are published; the error is not kept. *)
FailTickPublishing(a) ==
  /\ last_error' = TRUE
  /\ last_control' = control
  /\ Finish(a, "failed")
  /\ UNCHANGED <<operator, control, last_process>>

FailTickSilently(a) ==
  /\ Finish(a, "failed")
  /\ UNCHANGED runtimeVarsButHolder

(* tick_once on an error of the worker.                                      *)
FailTick(a) ==
  /\ last_error' = TRUE
  /\ Finish(a, "failed")
  /\ UNCHANGED <<operator, control, last_process, last_control>>

(* The pipe is broken: WorkerError::Write.                                   *)
SendFails(a) ==
  /\ pc[a] = "writing"
  /\ worker = "dead"
  /\ FailTick(a)
  /\ UNCHANGED workerVars

(* Mutant: only the first snapshot is kept. *)
ReceiveFirstSnapshot(a) ==
  /\ pc[a] = "awaiting"
  /\ responses # <<>>
  /\ Head(responses).ok
  /\ responses' = Tail(responses)
  /\ last_process' = IF last_process = NoProcess THEN Head(responses).snapshot
                                                 ELSE last_process
  /\ last_control' = control
  /\ last_error' = FALSE
  /\ Finish(a, "ok")
  /\ UNCHANGED <<operator, control, requests, worker, plant>>

(* The next line of stdout, whoever's request it answers.                    *)
ReceiveSnapshot(a) ==
  /\ pc[a] = "awaiting"
  /\ responses # <<>>
  /\ Head(responses).ok
  /\ responses' = Tail(responses)
  /\ last_process' = Head(responses).snapshot
  /\ last_control' = control
  /\ last_error' = FALSE
  /\ Finish(a, "ok")
  /\ UNCHANGED <<operator, control, requests, worker, plant>>

ReceiveError(a) ==
  /\ pc[a] = "awaiting"
  /\ responses # <<>>
  /\ ~Head(responses).ok
  /\ responses' = Tail(responses)
  /\ FailTick(a)
  /\ UNCHANGED <<requests, worker, plant>>

(* End of file: WorkerError::Closed.                                         *)
ReceiveClosed(a) ==
  /\ pc[a] = "awaiting"
  /\ responses = <<>>
  /\ worker = "dead"
  /\ FailTick(a)
  /\ UNCHANGED workerVars

(* Mutant: the dropped handler leaks the guard. *)
DisconnectLeaking(h) ==
  /\ pc[h] # "idle"
  /\ pc[h] = "awaiting" => InPipe <= MaxAbandoned
  /\ pc' = [pc EXCEPT ![h] = "idle"]
  /\ job' = [job EXCEPT ![h] = NoJob]
  /\ UNCHANGED <<runtimeVars, reply, workerVars>>

(* The HTTP client disconnects and axum drops the handler at its current     *)
(* await.  The guard releases the mutex; nothing else is undone.             *)
Disconnect(h) ==
  /\ pc[h] # "idle"
  /\ pc[h] = "awaiting" => InPipe <= MaxAbandoned
  /\ holder' = IF pc[h] \in Holding THEN NoActor ELSE holder
  /\ pc' = [pc EXCEPT ![h] = "idle"]
  /\ job' = [job EXCEPT ![h] = NoJob]
  /\ UNCHANGED <<runtimeVarsButHolder, reply, workerVars>>

-----------------------------------------------------------------------------
(* SimulationCore.tick sets the actuators only while the simulation runs.    *)
Actuate(p, c) ==
  IF c.binary["simulation-running"]
  THEN [id \in PlantId |->
          IF id \in DosingId /\ ~c.binary[PumpOf(id)] THEN 0 ELSE c.numeric[id]]
  ELSE p

(* serve: one line in, one line out.                                         *)
WorkerAnswers ==
  /\ worker = "alive"
  /\ requests # <<>>
  /\ requests' = Tail(requests)
  /\ plant' = Actuate(plant, Head(requests))
  /\ responses' = Append(responses,
       [ok |-> TRUE, snapshot |-> [control |-> Head(requests), plant |-> plant']])
  /\ UNCHANGED <<runtimeVars, handlerVars, worker>>

(* Mutant: the exception is logged and no line is printed. *)
WorkerRaisesSilently ==
  /\ worker = "alive"
  /\ requests # <<>>
  /\ requests' = Tail(requests)
  /\ UNCHANGED <<runtimeVars, handlerVars, responses, worker, plant>>

(* An exception inside tick is answered ok: False, before or after the       *)
(* actuators were set.                                                       *)
WorkerRaises ==
  /\ worker = "alive"
  /\ requests # <<>>
  /\ requests' = Tail(requests)
  /\ plant' \in {plant, Actuate(plant, Head(requests))}
  /\ responses' = Append(responses, [ok |-> FALSE, snapshot |-> NoProcess])
  /\ UNCHANGED <<runtimeVars, handlerVars, worker>>

(* The worker process ends: killed, out of memory, or an exception while the *)
(* response is serialised, which serve does not catch.  Nothing restarts it. *)
WorkerExits ==
  /\ worker = "alive"
  /\ worker' = "dead"
  /\ requests' = <<>>
  /\ UNCHANGED <<runtimeVars, handlerVars, responses, plant>>

-----------------------------------------------------------------------------
Begin(a) == \/ ServeCachedView(a) \/ FetchFirstView(a) \/ StartTick(a)
            \/ AcceptNumeric(a) \/ AcceptBinary(a) \/ RejectWrite(a)

Exchange(a) == \/ SendRequest(a) \/ SendFails(a)
               \/ ReceiveSnapshot(a) \/ ReceiveError(a) \/ ReceiveClosed(a)

Next ==
  \/ \E h \in HttpClient, j \in HttpJob : Call(h, j)
  \/ \E m \in ModbusClient, j \in ModbusJob : Call(m, j)
  \/ Call(Ticker, Tick)
  \/ \E m \in ModbusClient : RefuseMalformed(m)
  \/ \E a \in Actor : Begin(a)
  \/ \E a \in Actor : Exchange(a)
  \/ \E h \in HttpClient : Disconnect(h)
  \/ WorkerAnswers
  \/ WorkerRaises
  \/ WorkerExits

(* tokio's mutex is fair (first come, first served), so a waiting handler is *)
(* not passed over for ever; woken handlers are polled again; the worker     *)
(* reads its stdin in a loop; the interval keeps firing.  Clients owe nothing. *)
Fairness ==
  /\ \A a \in Actor : SF_vars(Begin(a))
  /\ \A a \in Actor : WF_vars(Exchange(a))
  /\ WF_vars(WorkerAnswers \/ WorkerRaises)
  /\ WF_vars(Call(Ticker, Tick))

Spec     == Init /\ [][Next]_vars
FairSpec == Spec /\ Fairness

-----------------------------------------------------------------------------
Response == [ok : {TRUE}, snapshot : ProcessSnapshot]
            \cup [ok : {FALSE}, snapshot : {NoProcess}]

(* Every variable keeps its type.                                            *)
TypeOK ==
  /\ operator \in OperatorState
  /\ holder \in Actor \cup {NoActor}
  /\ pc \in [Actor -> {"idle", "queued"} \cup Holding]
  /\ job \in [Actor -> Job]
  /\ control \in Control
  /\ last_process \in ProcessSnapshot \cup {NoProcess}
  /\ last_control \in Control
  /\ last_error \in BOOLEAN
  /\ reply \in [Client -> {"none", "ok", "rejected", "failed", "exception"}]
  /\ requests \in Seq(Control)
  /\ responses \in Seq(Response)
  /\ worker \in {"alive", "dead"}
  /\ plant \in Plant

(* The mutex covers the whole exchange of tick_once (runtime.rs:129-147): a  *)
(* handler that is writing to or reading from the worker is the one that     *)
(* holds the lock.                                                           *)
ExchangeExclusive == \A a \in Actor : pc[a] \in Holding <=> holder = a

(* The pipe never carries more than the current exchange and the requests    *)
(* whose handlers were dropped, and a living worker always owes the waiting  *)
(* handler an answer (simulation_worker.rs:123-154).                         *)
PipeAccounting ==
  /\ InPipe <= MaxAbandoned + Owed
  /\ worker = "alive" => InPipe >= Owed
  /\ worker = "dead" => requests = <<>>

(* Without a dropped handler, the line a handler reads answers the request   *)
(* it wrote: the request has no identity, only the order of the pipe         *)
(* (simulation_worker.rs:123-154) protects it.                               *)
AnswersMatch ==
  MaxAbandoned = 0 =>
    /\ \A i \in DOMAIN requests : requests[i] = control
    /\ \A i \in DOMAIN responses :
         responses[i].ok => responses[i].snapshot.control = control

(* What /api/snapshot shows as PCS state is what the process ran with        *)
(* (runtime.rs:70-75 hands last_process and last_control to the same view).  *)
ViewCoherent ==
  last_process # NoProcess => last_process.control = last_control

PlantInterlocked(p) ==
  p["inlet-flow"] = 0 => \A dose \in DosingId : p[dose] = 0

(* The interlocks of control.rs:82-127 reach the plant through every stale,  *)
(* failed or abandoned exchange: no line in the pipe, no actuator setpoint   *)
(* and no published snapshot doses into a closed inlet.                      *)
InterlocksHold ==
  /\ Interlocked(control) /\ Interlocked(last_control)
  /\ \A i \in DOMAIN requests : Interlocked(requests[i])
  /\ PlantInterlocked(plant)
  /\ \A i \in DOMAIN responses :
       responses[i].ok => PlantInterlocked(responses[i].snapshot.plant)
  /\ last_process # NoProcess => PlantInterlocked(last_process.plant)

(* The runtime implements PcsView: what it publishes is the outcome of the   *)
(* intent at that moment (runtime.rs:129-147), if no request is abandoned.   *)
Abstract == INSTANCE PcsView WITH
  intent    <- operator,
  published <- IF last_process = NoProcess THEN NoProcess ELSE last_process.control,
  fault     <- last_error

PublishesIntent == Abstract!Spec

(* A 204 for a write, or an ok Modbus response, is given only when the       *)
(* worker answered for an intent that includes the write (api.rs:43-60).     *)
OkMeansApplied ==
  [][\A c \in Client :
       pc[c] = "awaiting" /\ reply'[c] = "ok" =>
         /\ last_process'.control = Evaluate(operator')
         /\ ~last_error']_vars

(* Every call returns: with a fair mutex nobody waits for ever, not even     *)
(* behind an exchange whose worker dies (runtime.rs:61-106).                 *)
EveryCallReturns == \A c \in Client : (pc[c] # "idle") ~> (pc[c] = "idle")

(* The tick loop notices a dead worker, and the error then stays on display  *)
(* (runtime.rs:108-120, 141-146).                                            *)
WorkerLossReported == (worker = "dead") ~> [](last_error)

(* Once the operators leave the intent alone and ticks succeed, the process  *)
(* on display is the one their intent produces, abandoned lines or not:      *)
(* the stale lines carry the same outputs by then.                           *)
ViewConverges ==
  <>[][operator' = operator]_vars /\ <>[](~last_error)
    => <>[](last_process # NoProcess /\ last_process.control = Evaluate(operator))
=============================================================================
