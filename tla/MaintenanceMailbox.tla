-------------------------- MODULE MaintenanceMailbox --------------------------
(***************************************************************************)
(* The maintenance mailbox of the Python Modbus slave                        *)
(* (src/hydrasim/modbus/maintenance_bridge.py): a command in holding         *)
(* registers 200-203, a trigger in coil 10, the outcome in input registers   *)
(* 110-112.  The simulation thread serves it with poll_maintenance, one      *)
(* register access at a time; the server thread applies the clients' writes  *)
(* and reads to the same data blocks between any two of those accesses,      *)
(* because pymodbus does not take the slave's lock.                          *)
(*                                                                          *)
(* A client either follows the workflow of modbus/README.md (poll the status *)
(* until it is not PENDING) or waits for the trigger to be cleared.          *)
(***************************************************************************)
EXTENDS MaintenanceManager, Sequences

CONSTANTS
  Client,        \* the Modbus clients that use the mailbox
  Param,         \* the calibration parameters they write
  Commands,      \* the commands the clients of this instance choose from
  WaitsForCoil,  \* do the clients wait for the trigger to be cleared?
  NoCommand, NoOutcome,
  MaxCommands    \* bound: commands triggered in a behaviour

Command == [target : Target \cup {Unknown}, action : Action \cup {Unknown},
            param : Param]

ASSUME MailboxAssumption ==
  /\ Commands \subseteq Command
  /\ NoCommand \notin Command
  /\ WaitsForCoil \in BOOLEAN
  /\ MaxCommands \in Nat

VARIABLES
  hr,       \* holding registers 200-203
  coil,     \* coil 10, maintenance_trigger
  ir,       \* input registers 110-112
  poll,     \* where poll_maintenance is
  command,  \* its locals target_id, action_code, param
  result,   \* its local result, or NoOutcome
  serving,  \* does the simulation loop still call poll_maintenance?
  pc, want, got,   \* per client: where it is, its command, what it read back
  issued,   \* history: the commands whose trigger was written
  log       \* history: the commands executed

blockVars  == <<hr, coil, ir>>
bridgeVars == <<poll, command, result, serving>>
clientVars == <<pc, want, got>>
vars       == <<blockVars, bridgeVars, clientVars, issued, log>>

Outcome(c) == [status |-> Execute(c.target, c.action),
               target |-> c.target, action |-> c.action]

(* The data blocks start with zeroes, and code 0 is the first member of each *)
(* enumeration.                                                              *)
ZeroOutcome == [status |-> "SUCCESS", target |-> "PH_INLET", action |-> "CALIBRATE"]

BridgeStep == {"read_target", "read_action", "read_param", "pend_status",
               "pend_target", "pend_action", "execute", "publish_status",
               "publish_target", "publish_action", "clear"}
ClientStep == {"target", "action", "param", "trigger", "poll", "status", "echo"}

Init ==
  /\ hr \in [target : {"PH_INLET"}, action : {"CALIBRATE"}, param : Param]
  /\ coil = FALSE
  /\ ir = ZeroOutcome
  /\ poll = "idle"
  /\ command = hr
  /\ result = NoOutcome
  /\ serving = TRUE
  /\ pc = [c \in Client |-> "idle"]
  /\ want = [c \in Client |-> NoCommand]
  /\ got = [c \in Client |-> NoOutcome]
  /\ issued = <<>>
  /\ log = <<>>

-----------------------------------------------------------------------------
(* poll_maintenance, from one register access to the next.                   *)
At(here, next) == poll = here /\ poll' = next

(* Mutant: a trigger for a target that does not exist is passed over. *)
BeginPollKnown ==
  /\ serving
  /\ coil
  /\ hr.target \in Target
  /\ At("idle", "read_target")
  /\ UNCHANGED <<blockVars, command, result, serving, clientVars, issued, log>>

BeginPoll ==
  /\ serving
  /\ coil
  /\ At("idle", "read_target")
  /\ UNCHANGED <<blockVars, command, result, serving, clientVars, issued, log>>

ReadCommand ==
  /\ \/ At("read_target", "read_action") /\ command' = [command EXCEPT !.target = hr.target]
     \/ At("read_action", "read_param") /\ command' = [command EXCEPT !.action = hr.action]
     \/ At("read_param", "pend_status") /\ command' = [command EXCEPT !.param = hr.param]
  /\ UNCHANGED <<blockVars, result, serving, clientVars, issued, log>>

(* Mutant: the echo goes out before PENDING does. *)
WritePendingEchoFirst ==
  /\ \/ At("pend_status", "pend_target") /\ ir' = [ir EXCEPT !.target = command.target]
     \/ At("pend_target", "pend_action") /\ ir' = [ir EXCEPT !.action = command.action]
     \/ At("pend_action", "execute")     /\ ir' = [ir EXCEPT !.status = "PENDING"]
  /\ UNCHANGED <<hr, coil, command, result, serving, clientVars, issued, log>>

WritePending ==
  /\ \/ At("pend_status", "pend_target") /\ ir' = [ir EXCEPT !.status = "PENDING"]
     \/ At("pend_target", "pend_action") /\ ir' = [ir EXCEPT !.target = command.target]
     \/ At("pend_action", "execute")     /\ ir' = [ir EXCEPT !.action = command.action]
  /\ UNCHANGED <<hr, coil, command, result, serving, clientVars, issued, log>>

Dispatch ==
  /\ At("execute", "publish_status")
  /\ result' = Outcome(command)
  /\ log' = Append(log, command)
  /\ UNCHANGED <<blockVars, command, serving, clientVars, issued>>

(* Mutant: the trigger is cleared before the outcome is there. *)
PublishResultCleared ==
  /\ \/ At("publish_status", "publish_target") /\ ir' = ir /\ coil' = FALSE
     \/ At("publish_target", "publish_action")
          /\ ir' = [ir EXCEPT !.status = result.status, !.target = result.target]
          /\ UNCHANGED coil
     \/ At("publish_action", "clear")
          /\ ir' = [ir EXCEPT !.action = result.action] /\ UNCHANGED coil
  /\ UNCHANGED <<hr, command, result, serving, clientVars, issued, log>>

PublishResult ==
  /\ \/ At("publish_status", "publish_target") /\ ir' = [ir EXCEPT !.status = result.status]
     \/ At("publish_target", "publish_action") /\ ir' = [ir EXCEPT !.target = result.target]
     \/ At("publish_action", "clear")          /\ ir' = [ir EXCEPT !.action = result.action]
  /\ UNCHANGED <<hr, coil, command, result, serving, clientVars, issued, log>>

(* Mutant: the trigger is left to the client. *)
LeaveTrigger ==
  /\ At("clear", "idle")
  /\ result' = NoOutcome
  /\ UNCHANGED <<blockVars, command, serving, clientVars, issued, log>>

ClearTrigger ==
  /\ At("clear", "idle")
  /\ coil' = FALSE
  /\ result' = NoOutcome
  /\ UNCHANGED <<hr, ir, command, serving, clientVars, issued, log>>

(* The simulation ends, or the main loop gives the interface up after its    *)
(* tenth failed update; the server thread keeps answering the clients.       *)
StopServing ==
  /\ serving
  /\ poll = "idle"
  /\ serving' = FALSE
  /\ UNCHANGED <<blockVars, poll, command, result, clientVars, issued, log>>

-----------------------------------------------------------------------------
(* A client: it writes target, action and parameter, then the trigger.       *)
Goes(c, here, next) == pc[c] = here /\ pc' = [pc EXCEPT ![c] = next]

ChooseCommand(c) ==
  /\ Len(issued) < MaxCommands
  /\ Goes(c, "idle", "target")
  /\ \E w \in Commands : want' = [want EXCEPT ![c] = w]
  /\ got' = [got EXCEPT ![c] = NoOutcome]
  /\ UNCHANGED <<blockVars, bridgeVars, issued, log>>

WriteCommand(c) ==
  /\ \/ Goes(c, "target", "action") /\ hr' = [hr EXCEPT !.target = want[c].target]
     \/ Goes(c, "action", "param")  /\ hr' = [hr EXCEPT !.action = want[c].action]
     \/ Goes(c, "param", "trigger") /\ hr' = [hr EXCEPT !.param = want[c].param]
  /\ UNCHANGED <<coil, ir, bridgeVars, want, got, issued, log>>

WriteTrigger(c) ==
  /\ Goes(c, "trigger", "poll")
  /\ coil' = TRUE
  /\ issued' = Append(issued, want[c])
  /\ UNCHANGED <<hr, ir, bridgeVars, want, got, log>>

Completed == IF WaitsForCoil THEN ~coil ELSE ir.status # "PENDING"

PollCompleted(c) ==
  /\ Completed
  /\ Goes(c, "poll", "status")
  /\ UNCHANGED <<blockVars, bridgeVars, want, got, issued, log>>

ReadOutcome(c) ==
  /\ \/ /\ Goes(c, "status", "echo")
        /\ got' = [got EXCEPT ![c] = ir]
     \/ /\ Goes(c, "echo", "idle")
        /\ got' = [got EXCEPT ![c] = [ir EXCEPT !.status = got[c].status]]
  /\ UNCHANGED <<blockVars, bridgeVars, want, issued, log>>

-----------------------------------------------------------------------------
Bridge == \/ BeginPoll \/ ReadCommand \/ WritePending \/ Dispatch
          \/ PublishResult \/ ClearTrigger

Follow(c) == WriteCommand(c) \/ WriteTrigger(c) \/ PollCompleted(c) \/ ReadOutcome(c)

Next == \/ Bridge
        \/ StopServing
        \/ \E c \in Client : ChooseCommand(c) \/ Follow(c)

(* The loop polls once per tick and poll_maintenance runs to its end; a      *)
(* client that started a command follows it up.                              *)
Fairness == WF_vars(Bridge) /\ \A c \in Client : WF_vars(Follow(c))

Spec     == Init /\ [][Next]_vars
FairSpec == Spec /\ Fairness

-----------------------------------------------------------------------------
Last(s) == s[Len(s)]

(* Has the current trigger been executed already, its coil not yet cleared?  *)
Executed == poll \in {"publish_status", "publish_target", "publish_action", "clear"}

(* Every variable keeps its type.                                            *)
TypeOK ==
  /\ hr \in Command
  /\ coil \in BOOLEAN
  /\ ir \in [status : Result \cup {"PENDING"}, target : Target \cup {Unknown},
             action : Action \cup {Unknown}]
  /\ poll \in BridgeStep \cup {"idle"}
  /\ command \in Command
  /\ result \in IF Executed THEN [status : Result, target : Target \cup {Unknown},
                                 action : Action \cup {Unknown}]
                            ELSE {NoOutcome}
  /\ serving \in BOOLEAN
  /\ pc \in [Client -> ClientStep \cup {"idle"}]
  /\ want \in [Client -> Commands \cup {NoCommand}]
  /\ \A c \in Client : pc[c] # "idle" => want[c] \in Commands
  /\ DOMAIN got = Client
  /\ issued \in Seq(Commands)
  /\ log \in Seq(Command)

(* Whoever reads registers 110-112 in one request, and whatever the clients  *)
(* do, a status other than PENDING comes with the target and the action it   *)
(* is the status of: PENDING goes out before the echo changes, and the echo  *)
(* is complete before the status is final (maintenance_bridge.py:51-69).     *)
EchoConsistent ==
  ir.status # "PENDING" =>
    ir = IF log = <<>> THEN ZeroOutcome ELSE Outcome(Last(log))

(* One trigger is executed at most once, however many clients write it and   *)
(* whenever: the coil is cleared before the next poll (bridge.py:72).        *)
(* CLEAN_ACID and the replacements are not idempotent.                       *)
AtMostOnce ==
  Len(log) + (IF coil /\ ~Executed THEN 1 ELSE 0) <= Len(issued)

Concluded(c) == pc[c] = "idle" /\ want[c] # NoCommand

(* What a client reads back when it believes its command complete is the     *)
(* outcome of its own command.                                               *)
StatusIsOwn == \A c \in Client : Concluded(c) => got[c] = Outcome(want[c])

(* The valid actions of the table in modbus/README.md:232-239, whose devices  *)
(* the realistic suites fit, for target 9.                                   *)
DocumentedPumpAction == {"RESET_FAULTS", "CALIBRATE_ZERO", "REPLACE_DIAPHRAGM",
                         "REPLACE_CHECK_VALVES", "REPLACE_TUBE"}

(* A valid action on a fitted pump succeeds.  Neither this nor the next is kept   *)
(* (README, "Claims the code does not keep").                                *)
DocumentedActionsSucceed ==
  \A i \in DOMAIN log :
    log[i].target \in PumpTarget \cap Fitted /\ log[i].action \in DocumentedPumpAction
      => Execute(log[i].target, log[i].action) = "SUCCESS"

(* What is executed is a command somebody wrote: never the target of one and *)
(* the action of another (HR 200-202 are read one by one,                    *)
(* maintenance_bridge.py:46-48).                                             *)
CommandsIntact == \A i \in DOMAIN log : \E j \in DOMAIN issued : log[i] = issued[j]

(* A client that waited for the coil has had every command executed once, in *)
(* the order it triggered them.                                              *)
ServedInOrder ==
  /\ \A i \in DOMAIN log : i <= Len(issued) /\ log[i] = issued[i]
  /\ \A c \in Client : Concluded(c) => Len(log) = Len(issued)

(* The mailbox with one client that waits for the coil is the service of     *)
(* MaintenanceService: PENDING and the register accesses are invisible.      *)
Caller == CHOOSE c \in Client : TRUE

Service == INSTANCE MaintenanceService WITH
  call     <- IF pc[Caller] \in {"poll", "status", "echo"} THEN want[Caller] ELSE NoCommand,
  served   <- pc[Caller] \in {"poll", "status", "echo"} /\ Len(log) = Len(issued),
  returned <- IF Concluded(Caller) THEN got[Caller] ELSE NoOutcome

ServesAtomically == Service!Spec

(* While the loop serves, a client that started a command gets its answer.   *)
ClientReturns == \A c \in Client : (pc[c] # "idle") ~> (pc[c] = "idle" \/ ~serving)
=============================================================================
