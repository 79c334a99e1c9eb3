------------------------------- MODULE ProcessLoop -------------------------------
(***************************************************************************)
(* The main loop of the stand-alone simulator (src/hydrasim/__main__.py with  *)
(* runtime_loop.py) and the thread of its Modbus slave                       *)
(* (src/hydrasim/modbus/slave.py), which share the register blocks and the   *)
(* slave's three threading.Events.                                          *)
(*                                                                          *)
(* The loop reads the holding registers and coils one by one, after asking    *)
(* is_running once for the commands and once for the enable bits; clients     *)
(* write them between any two reads; the server thread may boot slowly, fail  *)
(* to bind, or fail later.  What the actuators, the reactor and the sensors   *)
(* compute is left out: boundary flows are any level.                        *)
(***************************************************************************)
EXTENDS Integers

CONSTANTS
  Raw,            \* what clients write into a command register
  NotANumber,     \* a float32 that is NaN
  MaxFlow,        \* the largest flow of a device
  MaxErrors,      \* max_modbus_errors of the loop (10 in the code)
  SlowThread,     \* may the server thread miss the startup or shutdown timeout?
  ServerFails,    \* may the server thread raise?
  MaxWrites       \* bound: register and coil writes of the clients

ASSUME LoopAssumption ==
  /\ Raw \subseteq Int \cup {NotANumber}
  /\ NotANumber \notin Int
  /\ MaxFlow \in Nat \ {0}
  /\ MaxErrors \in Nat \ {0, 1}
  /\ SlowThread \in BOOLEAN
  /\ ServerFails \in BOOLEAN
  /\ MaxWrites \in Nat

Pump   == {"acid", "chlorine"}       \* the devices with an enable coil
Device == Pump \cup {"inlet"}
Coil   == Pump \cup {"simulation"}
Level  == 0 .. MaxFlow

Zero   == [d \in Device |-> 0]
AllOn  == [c \in Coil |-> TRUE]

(* The operating point the boundary conditions start with.                   *)
Boundary == [Zero EXCEPT !["inlet"] = MaxFlow]

(* validate_flow_rate *)
Validate(v) == IF v = NotANumber \/ v < 0 THEN 0 ELSE IF v > MaxFlow THEN MaxFlow ELSE v

VARIABLES
  hr, coils,        \* the command registers and the enable coils
  running, ready,   \* the events _running and _server_ready
  thread,           \* where the server thread is
  cancelled,        \* has stop() asked the thread's event loop to cancel its tasks?
  pc,               \* where the main thread is
  slave,            \* is the main thread's `slave` not None?
  commands, enables,   \* its locals
  setpoint,         \* the set points it gave the actuators
  errors,           \* modbus_error_count
  interrupted,      \* has a signal, or the end of the duration, ended the loop?
  wasOn,            \* history: coils that were on during this iteration
  bound,            \* history: was the server socket ever bound?
  writes            \* history: client writes so far

registerVars == <<hr, coils, wasOn, writes>>
threadVars   == <<thread, ready, bound>>
localVars    == <<commands, enables, setpoint>>
vars == <<registerVars, threadVars, running, cancelled, pc, slave, localVars,
          errors, interrupted>>

ThreadStep == {"unstarted", "booting", "announced", "serving", "failed",
               "unwinding", "done"}
ReadStep   == {"acid", "chlorine", "inlet", "check_enables", "acid_enable",
               "chlorine_enable", "simulation_enable"}
LoopStep   == {"top", "check_commands", "apply", "update"} \cup ReadStep
MainStep   == {"start", "wait", "default_flows", "default_coils",
               "cleanup", "join", "exited"} \cup LoopStep

Init ==
  /\ hr = Zero
  /\ coils = [c \in Coil |-> FALSE]
  /\ running = FALSE
  /\ ready = FALSE
  /\ thread = "unstarted"
  /\ cancelled = FALSE
  /\ pc = "start"
  /\ slave = TRUE
  /\ commands = Zero
  /\ enables = AllOn
  /\ setpoint = Boundary
  /\ errors = 0
  /\ interrupted = FALSE
  /\ wasOn = {}
  /\ bound = FALSE
  /\ writes = 0

-----------------------------------------------------------------------------
(* The server thread: _run_server and _async_run_server.                      *)

(* It has an event loop and announces itself; then it binds.                 *)
Announce ==
  /\ thread = "booting"
  /\ thread' = "announced"
  /\ ready' = TRUE
  /\ UNCHANGED <<registerVars, bound, running, cancelled, pc, slave, localVars,
                 errors, interrupted>>

Bind ==
  /\ thread = "announced"
  /\ thread' = "serving"
  /\ bound' = TRUE
  /\ UNCHANGED <<registerVars, ready, running, cancelled, pc, slave, localVars,
                 errors, interrupted>>

(* No event loop, the port is taken, or the server raises while it serves.   *)
Fail ==
  /\ ServerFails
  /\ thread \in {"booting", "announced", "serving"}
  /\ thread' = "failed"
  /\ running' = FALSE
  /\ UNCHANGED <<registerVars, ready, bound, cancelled, pc, slave, localVars,
                 errors, interrupted>>

CancelTasks ==
  /\ cancelled
  /\ thread \in {"announced", "serving"}
  /\ thread' = "unwinding"
  /\ UNCHANGED <<registerVars, ready, bound, running, cancelled, pc, slave, localVars,
                 errors, interrupted>>

(* The finally clause of _run_server.                                        *)
Unwind ==
  /\ thread \in {"failed", "unwinding"}
  /\ thread' = "done"
  /\ ready' = TRUE
  /\ UNCHANGED <<registerVars, bound, running, cancelled, pc, slave, localVars,
                 errors, interrupted>>

ServerThread == pc # "exited" /\ (Announce \/ Bind \/ Fail \/ CancelTasks \/ Unwind)

(* A client writes one command register or one enable coil.                  *)
ClientWrites ==
  /\ pc # "exited"
  /\ thread = "serving"
  /\ writes < MaxWrites
  /\ writes' = writes + 1
  /\ \/ /\ \E d \in Device, v \in Raw : hr' = [hr EXCEPT ![d] = v]
        /\ UNCHANGED <<coils, wasOn>>
     \/ \E c \in Coil, b \in BOOLEAN :
          /\ coils' = [coils EXCEPT ![c] = b]
          /\ wasOn' = IF b THEN wasOn \cup {c} ELSE wasOn
          /\ UNCHANGED hr
  /\ UNCHANGED <<threadVars, running, cancelled, pc, slave, localVars, errors, interrupted>>

-----------------------------------------------------------------------------
(* The main thread.                                                          *)
At(here, next) == pc = here /\ pc' = next

(* slave.start(blocking=False)                                               *)
StartServer ==
  /\ At("start", "wait")
  /\ running' = TRUE
  /\ ready' = FALSE
  /\ thread' = "booting"
  /\ UNCHANGED <<registerVars, bound, cancelled, slave, localVars, errors, interrupted>>

ServerReady ==
  /\ ready
  /\ At("wait", "default_flows")
  /\ UNCHANGED <<registerVars, threadVars, running, cancelled, slave, localVars,
                 errors, interrupted>>

(* start() raises RuntimeError and the caller drops the slave.               *)
StartTimesOut ==
  /\ SlowThread
  /\ ~ready
  /\ At("wait", "top")
  /\ running' = FALSE
  /\ slave' = FALSE
  /\ UNCHANGED <<registerVars, threadVars, cancelled, localVars, errors, interrupted>>

(* initialize_modbus_defaults.  The main thread reads nothing meanwhile, so a *)
(* client's write falls before or after all the writes of one kind.           *)
WriteDefaults ==
  /\ \/ At("default_flows", "top") /\ ~running /\ UNCHANGED <<hr, coils, wasOn>>
     \/ /\ At("default_flows", "default_coils")
        /\ running
        /\ hr' = Boundary
        /\ UNCHANGED <<coils, wasOn>>
     \/ /\ At("default_coils", "top")
        /\ coils' = AllOn
        /\ wasOn' = Coil
        /\ UNCHANGED hr
  /\ UNCHANGED <<writes, threadVars, running, cancelled, slave, localVars, errors, interrupted>>

(* A signal arrives, or sim_time reaches the duration.                       *)
EndRequested ==
  /\ ~interrupted
  /\ pc # "exited"
  /\ interrupted' = TRUE
  /\ UNCHANGED <<registerVars, threadVars, running, cancelled, pc, slave, localVars, errors>>

LeaveLoop ==
  /\ interrupted
  /\ At("top", "cleanup")
  /\ UNCHANGED <<registerVars, threadVars, running, cancelled, slave, localVars,
                 errors, interrupted>>

(* Step 1 of an iteration: without a slave, the commands are the flows of    *)
(* the boundary conditions and everything is enabled.                        *)
BeginIteration ==
  /\ ~interrupted
  /\ \/ At("top", "check_commands") /\ slave /\ UNCHANGED <<commands, enables>>
     \/ /\ At("top", "apply")
        /\ ~slave
        /\ commands' \in [Device -> Level]
        /\ enables' = AllOn
  /\ wasOn' = {c \in Coil : coils[c]}
  /\ UNCHANGED <<hr, coils, writes, threadVars, running, cancelled, slave, setpoint,
                 errors, interrupted>>

(* Mutant: without a server the commands of the last iteration are kept. *)
CheckCommandsKeep ==
  /\ \/ At("check_commands", "acid") /\ running /\ UNCHANGED commands
     \/ At("check_commands", "check_enables") /\ ~running /\ UNCHANGED commands
  /\ UNCHANGED <<registerVars, threadVars, running, cancelled, slave, enables, setpoint,
                 errors, interrupted>>

(* read_modbus_commands: (0, 0, 0) without a server.                         *)
CheckCommands ==
  /\ \/ At("check_commands", "acid") /\ running /\ UNCHANGED commands
     \/ At("check_commands", "check_enables") /\ ~running /\ commands' = Zero
  /\ UNCHANGED <<registerVars, threadVars, running, cancelled, slave, enables, setpoint,
                 errors, interrupted>>

(* Mutant: the registers are taken as they are. *)
ReadFlowRaw(d) == commands' = [commands EXCEPT ![d] = hr[d]]

ReadFlow(d) == commands' = [commands EXCEPT ![d] = Validate(hr[d])]

ReadCommands ==
  /\ \/ At("acid", "chlorine")       /\ ReadFlow("acid")
     \/ At("chlorine", "inlet")      /\ ReadFlow("chlorine")
     \/ At("inlet", "check_enables") /\ ReadFlow("inlet")
  /\ UNCHANGED <<registerVars, threadVars, running, cancelled, slave, enables, setpoint,
                 errors, interrupted>>

(* read_modbus_enable_bits: (True, True, True) without a server.             *)
CheckEnables ==
  /\ \/ At("check_enables", "acid_enable") /\ running /\ UNCHANGED enables
     \/ At("check_enables", "apply") /\ ~running /\ enables' = AllOn
  /\ UNCHANGED <<registerVars, threadVars, running, cancelled, slave, commands, setpoint,
                 errors, interrupted>>

(* Mutant: the chlorine pump gets the acid pump's enable bit. *)
ReadEnablesSwapped ==
  /\ \/ /\ At("acid_enable", "chlorine_enable")
        /\ enables' = [enables EXCEPT !["acid"] = coils["acid"]]
     \/ /\ At("chlorine_enable", "simulation_enable")
        /\ enables' = [enables EXCEPT !["chlorine"] = enables["acid"]]
     \/ /\ At("simulation_enable", "apply")
        /\ enables' = [enables EXCEPT !["simulation"] = coils["simulation"]]
  /\ UNCHANGED <<registerVars, threadVars, running, cancelled, slave, commands, setpoint,
                 errors, interrupted>>

ReadEnable(c) == enables' = [enables EXCEPT ![c] = coils[c]]

ReadEnables ==
  /\ \/ At("acid_enable", "chlorine_enable")       /\ ReadEnable("acid")
     \/ At("chlorine_enable", "simulation_enable") /\ ReadEnable("chlorine")
     \/ At("simulation_enable", "apply")           /\ ReadEnable("simulation")
  /\ UNCHANGED <<registerVars, threadVars, running, cancelled, slave, commands, setpoint,
                 errors, interrupted>>

(* apply_actuator_commands: a disabled pump is given 0.                       *)
Targets ==
  [d \in Device |-> IF d \in Pump /\ ~enables[d] THEN 0 ELSE Validate(commands[d])]

(* Step 2: the physics step may raise, which ends the loop.                  *)
Apply ==
  /\ \/ At("apply", "update")  /\ setpoint' = IF enables["simulation"] THEN Targets ELSE setpoint
     \/ At("apply", "cleanup") /\ enables["simulation"] /\ setpoint' = Targets
  /\ UNCHANGED <<registerVars, threadVars, running, cancelled, slave, commands, enables,
                 errors, interrupted>>

(* Mutants: the first error is enough; a success counts. *)
PublishImpatient ==
  /\ At("update", "top")
  /\ errors' = IF slave /\ ~running THEN errors + 1 ELSE errors
  /\ slave' = (slave /\ running)
  /\ UNCHANGED <<registerVars, threadVars, running, cancelled, localVars, interrupted>>

PublishInverted ==
  /\ At("update", "top")
  /\ errors' = IF slave /\ running THEN errors + 1 ELSE errors
  /\ slave' = (slave /\ errors' < MaxErrors)
  /\ UNCHANGED <<registerVars, threadVars, running, cancelled, localVars, interrupted>>

(* Steps 3 to 5: update_modbus_inputs fails without a server, and the tenth   *)
(* failure drops the slave.  With one it cannot fail: its names are of the map, *)
(* a value that is no number is written as 0.0, every other is within the      *)
(* range of its sensor, and the 1e9 a register refuses is three decades of     *)
(* simulation_time.  poll_maintenance is in MaintenanceMailbox.               *)
Publish ==
  /\ At("update", "top")
  /\ errors' = IF slave /\ ~running THEN errors + 1 ELSE errors
  /\ slave' = (slave /\ errors' < MaxErrors)
  /\ UNCHANGED <<registerVars, threadVars, running, cancelled, localVars, interrupted>>

(* Mutants: the thread is not waited for; it is not asked to end. *)
StopServerNoJoin ==
  /\ At("cleanup", "exited")
  /\ running' = FALSE
  /\ cancelled' = (slave /\ running)
  /\ UNCHANGED <<registerVars, threadVars, slave, localVars, errors, interrupted>>

StopServerNoCancel ==
  /\ \/ At("cleanup", "join") /\ slave /\ running /\ running' = FALSE /\ UNCHANGED cancelled
     \/ At("cleanup", "exited") /\ ~(slave /\ running) /\ UNCHANGED <<running, cancelled>>
  /\ UNCHANGED <<registerVars, threadVars, slave, localVars, errors, interrupted>>

(* The cleanup of the loop, with slave.stop().                               *)
StopServer ==
  /\ \/ At("cleanup", "join") /\ slave /\ running /\ running' = FALSE /\ cancelled' = TRUE
     \/ At("cleanup", "exited") /\ ~(slave /\ running) /\ UNCHANGED <<running, cancelled>>
  /\ UNCHANGED <<registerVars, threadVars, slave, localVars, errors, interrupted>>

JoinThread ==
  /\ thread = "done"
  /\ At("join", "exited")
  /\ UNCHANGED <<registerVars, threadVars, running, cancelled, slave, localVars,
                 errors, interrupted>>

JoinTimesOut ==
  /\ SlowThread
  /\ thread # "done"
  /\ At("join", "exited")
  /\ UNCHANGED <<registerVars, threadVars, running, cancelled, slave, localVars,
                 errors, interrupted>>

StartUp    == StartServer \/ ServerReady \/ StartTimesOut \/ WriteDefaults
ReadInputs == BeginIteration \/ CheckCommands \/ ReadCommands \/ CheckEnables \/ ReadEnables
MainThread == \/ StartUp \/ ReadInputs \/ Apply \/ Publish
              \/ LeaveLoop \/ StopServer \/ JoinThread \/ JoinTimesOut

Next == MainThread \/ ServerThread \/ ClientWrites \/ EndRequested

(* The operating system runs both threads, and nothing in them waits for a    *)
(* client.  Nothing makes the server bind or fail.                           *)
Fairness == WF_vars(MainThread) /\ WF_vars(Announce \/ CancelTasks \/ Unwind)

Spec     == Init /\ [][Next]_vars
FairSpec == Spec /\ Fairness

-----------------------------------------------------------------------------
(* Every variable keeps its type; the set points given to the actuators are   *)
(* within the range the actuators accept, whatever the clients write.         *)
TypeOK ==
  /\ hr \in [Device -> Raw \cup Level]
  /\ coils \in [Coil -> BOOLEAN]
  /\ running \in BOOLEAN /\ ready \in BOOLEAN /\ cancelled \in BOOLEAN
  /\ thread \in ThreadStep
  /\ pc \in MainStep
  /\ slave \in BOOLEAN
  /\ commands \in [Device -> Level]
  /\ enables \in [Coil -> BOOLEAN]
  /\ setpoint \in [Device -> Level]
  /\ errors \in 0 .. MaxErrors
  /\ interrupted \in BOOLEAN /\ bound \in BOOLEAN
  /\ wasOn \subseteq Coil
  /\ writes \in 0 .. MaxWrites

(* The step that applies what an iteration read from Modbus.                 *)
Applies == pc = "apply" /\ pc' # "apply" /\ slave

(* A pump is driven only if its enable coil was on at some time during the    *)
(* iteration (register_definitions.py:327: "True=ON, False=OFF").            *)
NeverDrivenWhileOff ==
  [][Applies => \A p \in Pump : setpoint'[p] > 0 => p \in wasOn \/ ~enables["simulation"]]_vars

(* Set points move only if the simulation coil was on at some time during the *)
(* iteration: a paused simulation is held (register_definitions.py:345).      *)
PausedMeansHeld ==
  [][Applies /\ setpoint' # setpoint => "simulation" \in wasOn]_vars

(* When the server fails between the two is_running tests of an iteration, a  *)
(* disabled pump may be driven, but in no later iteration: without a server    *)
(* the commands are 0 (runtime_loop.py:207, 235).                            *)
OffPumpDrivenOnce ==
  [][Applies => \A p \in Pump :
       setpoint'[p] > 0 => p \in wasOn \/ ~enables["simulation"] \/ (~running /\ errors = 0)]_vars

(* The loop gives the interface up only when every set point is 0: the zero    *)
(* commands of a lost interface come first, then the feedback of the actual    *)
(* flows (__main__.py:267, 301-306).                                         *)
ZeroBeforeGivingUp ==
  [][pc = "update" /\ slave /\ ~slave' => setpoint = Zero]_vars

(* Whoever is answered by the server is heard by the loop: while the loop runs *)
(* and the server serves, the slave is there and running (slave.py:322-338).   *)
ServedIsHeard == pc \in LoopStep /\ thread = "serving" => slave /\ running

(* A process that ended has ended its server (slave.py:380-409).              *)
NoServerAfterExit == pc = "exited" => thread \in {"failed", "done"}

(* start() has waited for the server: it is bound when start() returns        *)
(* (slave.py:313, "Wait for server ready").  Neither this nor the next is kept   *)
(* (README, "Claims the code does not keep").                                *)
StartedMeansBound == pc = "default_flows" => bound

(* In "no-Modbus mode" (__main__.py:234) no Modbus server serves.              *)
NoServerBehind == pc \in LoopStep /\ ~slave => thread # "serving"

(* The loop's commands come from Modbus until it is lost, from nowhere for     *)
(* MaxErrors updates, and never from Modbus again.                           *)
Source == INSTANCE CommandSource WITH
  MaxMissed <- MaxErrors,
  source    <- IF pc \in {"start", "wait"} THEN "starting"
               ELSE IF ~slave THEN "none"
               ELSE IF running THEN "modbus" ELSE "lost",
  missed    <- errors

FallsBack == Source!Spec

(* A request to end ends the process, wherever it arrives.                   *)
EndsOnRequest == interrupted ~> pc = "exited"
=============================================================================
