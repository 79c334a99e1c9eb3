---------------------------- MODULE PlantLauncher ----------------------------
(***************************************************************************)
(* run_live_orchestration (plant/orchestration.py): one process per node of   *)
(* the plan is started, they run for the planned duration, and a finally      *)
(* clause asks all of them to stop, waits for each and kills the stubborn.    *)
(* The children are hydrasim processes (__main__.py) and live their own life. *)
(***************************************************************************)
EXTENDS PlantSelection, Sequences, FiniteSets

CONSTANTS
  IdOrder,        \* the identifiers of the profile's nodes in alphabetical order
  WithLogs,       \* is a log directory given?
  StartupDelay,   \* is the delay after each start positive?
  MaxInterrupts   \* bound: how often the operator presses Ctrl-C

ASSUME LauncherAssumption ==
  /\ WithLogs \in BOOLEAN
  /\ StartupDelay \in BOOLEAN
  /\ MaxInterrupts \in Nat
  /\ IdOrder \in Seq({n.id : n \in Profile.nodes})
  /\ \A n \in Profile.nodes : \E i \in 1 .. Len(IdOrder) : IdOrder[i] = n.id
  /\ \A i, j \in 1 .. Len(IdOrder) : IdOrder[i] = IdOrder[j] => i = j

Ids == {IdOrder[i] : i \in 1 .. Len(IdOrder)}

Launchable(n) == n.port /\ n.stage \in {"field-device", "field-controller"}

(* The nodes to launch, in the order in which they get their ports.          *)
LaunchOrder(area, stage) ==
  LET ids == {n.id : n \in {m \in ActiveNodes(area, stage) : Launchable(m)}}
      among[i \in 0 .. Len(IdOrder)] ==
        IF i = 0 THEN <<>>
        ELSE IF IdOrder[i] \in ids THEN Append(among[i - 1], IdOrder[i])
        ELSE among[i - 1]
  IN  among[Len(IdOrder)]

PortOf(base, i) == base + i - 1

(* build_live_orchestration_plan raises ValueError for a command line asked.   *)
PlanRefused(line, lastPort) ==
  \/ line.stage = "offline-export"
  \/ line.area = "all"
  \/ line.base \notin 1 .. lastPort
  \/ line.duration <= 0
  \/ ArtifactRefused(line.area, line.stage)
  \/ LaunchOrder(line.area, line.stage) = <<>>
  \/ PortOf(line.base, Len(LaunchOrder(line.area, line.stage))) > lastPort

VARIABLES
  plan,        \* the nodes to launch, in order
  at,          \* where the launcher is
  k,           \* position in the plan
  raising,     \* is an exception waiting for the end of the finally clause?
  child,       \* the life of each node's process
  listed,      \* how many of the plan's processes are in the launcher's list
  asked,       \* nodes whose process was sent SIGTERM
  log,         \* the log handle of each node
  interrupts

launcherVars == <<plan, at, k, raising, child, listed, asked, log, interrupts>>

(* "booting": the signal handlers are not installed yet. "deaf": the process   *)
(* runs without its Modbus server. "zero", "nonzero": its return code.        *)
Running   == {"booting", "serving", "deaf"}
Exited    == {"zero", "nonzero"}
AliveIds  == {n \in Ids : child[n] \in Running}

(* What the launcher knows of: the first nodes of the plan.                   *)
Listed == {plan[i] : i \in 1 .. listed}

(* The node whose log and process may exist before the list has them.         *)
InFlight == {plan[i] : i \in {listed + 1} \cap 1 .. Len(plan)}

(* The launcher calls are over: with results, with the error of the body, or   *)
(* because the clean-up was cut short while it waited or while it still asked. *)
LauncherOver == at \in {"returned", "raised", "aborted", "unasked"}

LauncherTypeOK ==
  /\ \E m \in 0 .. Len(IdOrder) : plan \in [1 .. m -> Ids]
  /\ at \in {"plan", "open", "spawn", "delay", "run", "ask", "wait", "reap",
             "returned", "raised", "aborted", "unasked"}
  /\ k \in 1 .. Len(IdOrder) + 1
  /\ raising \in BOOLEAN
  /\ child \in [Ids -> {"none"} \cup Running \cup Exited]
  /\ listed \in 0 .. Len(IdOrder)
  /\ asked \subseteq Ids
  /\ log \in [Ids -> {"none", "open", "closed"}]
  /\ interrupts \in 0 .. MaxInterrupts

LauncherInit ==
  /\ plan = <<>>
  /\ at = "plan"
  /\ k = 1
  /\ raising = FALSE
  /\ child = [n \in Ids |-> "none"]
  /\ listed = 0
  /\ asked = {}
  /\ log = [n \in Ids |-> "none"]
  /\ interrupts = 0

(* The command line asks for an area, a stage, ports and a duration.          *)
MakePlan(line, lastPort) ==
  /\ at = "plan"
  /\ IF PlanRefused(line, lastPort)
     THEN at' = "raised" /\ UNCHANGED plan
     ELSE at' = "open" /\ plan' = LaunchOrder(line.area, line.stage)
  /\ UNCHANGED <<k, raising, child, listed, asked, log, interrupts>>

----------------------------------------------------------------------------
(* The body.                                                                *)

Started == IF k < Len(plan) THEN at' = "open" /\ k' = k + 1
                            ELSE at' = "run" /\ k' = k

Unwind == at' = "ask" /\ k' = 1 /\ raising' = TRUE

LogOpened == IF WithLogs THEN [log EXCEPT ![plan[k]] = "open"] ELSE log
Begun     == [child EXCEPT ![plan[k]] = "booting"]

OpenLog ==
  /\ at = "open"
  /\ at' = "spawn"
  /\ log' = LogOpened
  /\ UNCHANGED <<plan, k, raising, child, listed, asked, interrupts>>

OpenFails ==
  /\ at = "open"
  /\ WithLogs
  /\ Unwind
  /\ UNCHANGED <<plan, child, listed, asked, log, interrupts>>

Spawn ==
  /\ at = "spawn"
  /\ child' = Begun
  /\ listed' = k
  /\ IF StartupDelay THEN at' = "delay" /\ k' = k ELSE Started
  /\ UNCHANGED <<plan, raising, asked, log, interrupts>>

(* The handle of this node's log is in nobody's list yet and stays open.      *)
SpawnFails ==
  /\ at = "spawn"
  /\ Unwind
  /\ UNCHANGED <<plan, child, listed, asked, log, interrupts>>

DelayEnds ==
  /\ at = "delay"
  /\ Started
  /\ UNCHANGED <<plan, raising, child, listed, asked, log, interrupts>>

RunEnds ==
  /\ at = "run"
  /\ at' = "ask"
  /\ k' = 1
  /\ UNCHANGED <<plan, raising, child, listed, asked, log, interrupts>>

(* KeyboardInterrupt, between any two steps and in the middle of one: the log   *)
(* may be open and the process started with neither in the list. Before the     *)
(* finally clause it starts the clean-up, inside it ends the clean-up, in the   *)
(* loop that asks with the rest of the list unasked.                          *)
Interrupt ==
  /\ interrupts < MaxInterrupts
  /\ interrupts' = interrupts + 1
  /\ \/ at = "plan" /\ at' = "raised" /\ UNCHANGED <<k, raising, child, log>>
     \/ at = "open" /\ Unwind /\ log' \in {log, LogOpened} /\ UNCHANGED child
     \/ at = "spawn" /\ Unwind /\ child' \in {child, Begun} /\ UNCHANGED log
     \/ at \in {"delay", "run"} /\ Unwind /\ UNCHANGED <<child, log>>
     \/ at = "ask" /\ at' = "unasked" /\ UNCHANGED <<k, raising, child, log>>
     \/ at \in {"wait", "reap"} /\ at' = "aborted" /\ UNCHANGED <<k, raising, child, log>>
  /\ UNCHANGED <<plan, listed, asked>>

----------------------------------------------------------------------------
(* The finally clause. Only the processes in the list are its business.        *)

(* Mutant: each process is waited for before the next is asked.               *)
AfterAskingOne == at' = "wait" /\ k' = k

AfterAsking == IF k < listed THEN at' = "ask" /\ k' = k + 1
                                ELSE at' = "wait" /\ k' = 1

Finished == at' = IF raising THEN "raised" ELSE "returned"

Ask ==
  /\ at = "ask"
  /\ \/ /\ listed = 0
        /\ Finished
        /\ UNCHANGED <<k, asked>>
     \/ /\ listed > 0
        /\ asked' = IF child[plan[k]] \in Running THEN asked \cup {plan[k]} ELSE asked
        /\ AfterAsking
  /\ UNCHANGED <<plan, raising, child, listed, log, interrupts>>

CloseAndGoOn ==
  /\ log' = IF WithLogs THEN [log EXCEPT ![plan[k]] = "closed"] ELSE log
  /\ IF k < listed THEN at' = "wait" /\ k' = k + 1
                      ELSE Finished /\ k' = k

WaitEnds ==
  /\ at = "wait"
  /\ child[plan[k]] \in Exited
  /\ CloseAndGoOn
  /\ UNCHANGED <<plan, raising, child, listed, asked, interrupts>>

(* Mutant: the process is given up instead of killed.                        *)
WaitTimesOutSoftly ==
  /\ at = "wait"
  /\ child[plan[k]] \in Running
  /\ CloseAndGoOn
  /\ UNCHANGED <<plan, raising, child, listed, asked, interrupts>>

(* Mutant: the wait has no timeout.                                         *)
WaitsForEver == at = "wait" /\ FALSE /\ UNCHANGED launcherVars

(* Five seconds passed: SIGKILL. The kernel removes the process, or keeps it    *)
(* in an uninterruptible call for as long as it lasts.                       *)
WaitTimesOut ==
  /\ at = "wait"
  /\ child[plan[k]] \in Running
  /\ at' = "reap"
  /\ child' \in {child, [child EXCEPT ![plan[k]] = "nonzero"]}
  /\ UNCHANGED <<plan, k, raising, listed, asked, log, interrupts>>

ReapEnds ==
  /\ at = "reap"
  /\ child[plan[k]] \in Exited
  /\ CloseAndGoOn
  /\ UNCHANGED <<plan, raising, child, listed, asked, interrupts>>

(* The second TimeoutExpired is not caught: the others are not waited for.     *)
ReapTimesOut ==
  /\ at = "reap"
  /\ child[plan[k]] \in Running
  /\ at' = "aborted"
  /\ UNCHANGED <<plan, k, raising, child, listed, asked, log, interrupts>>

LauncherStep ==
  \/ OpenLog \/ OpenFails \/ Spawn \/ SpawnFails \/ DelayEnds \/ RunEnds
  \/ Ask \/ WaitEnds \/ WaitTimesOut \/ ReapEnds \/ ReapTimesOut

----------------------------------------------------------------------------
(* The children.                                                            *)

(* The server is bound, or its failure is logged and the run goes on without.  *)
ChildBoots(n) ==
  /\ child[n] = "booting"
  /\ \E s \in {"serving", "deaf", "nonzero"} : child' = [child EXCEPT ![n] = s]
  /\ UNCHANGED <<plan, at, k, raising, listed, asked, log, interrupts>>

(* SIGTERM before the handlers are installed, a crash, or a lost interface.    *)
ChildFails(n) ==
  /\ \/ child[n] \in Running /\ child' = [child EXCEPT ![n] = "nonzero"]
     \/ child[n] = "serving" /\ child' = [child EXCEPT ![n] = "deaf"]
  /\ UNCHANGED <<plan, at, k, raising, listed, asked, log, interrupts>>

(* The loop ends: duration over, SIGTERM, or a failed physics step. The exit    *)
(* code is 0 in every case.                                                  *)
ChildEnds(n) ==
  /\ child[n] \in {"serving", "deaf"}
  /\ child' = [child EXCEPT ![n] = "zero"]
  /\ UNCHANGED <<plan, at, k, raising, listed, asked, log, interrupts>>

ChildStep == \E n \in Ids : ChildBoots(n) \/ ChildFails(n) \/ ChildEnds(n)
=============================================================================
