------------------------------ MODULE LabSession ------------------------------
(***************************************************************************)
(* A lab session: hs-plant launch-live starts the endpoints of an area and a   *)
(* stage, a second terminal replays a scenario against them, and endpoints     *)
(* come and go underneath both.                                             *)
(***************************************************************************)
EXTENDS PlantLauncher, ScenarioReplay

CONSTANTS
  Selections,   \* the command lines tried: records [area, stage, base, duration]
  LastPort,     \* 65535
  Scripts       \* the scenario files tried

ASSUME SessionAssumption ==
  /\ Network \cap Ids # {} /\ LastPort \in Nat \ {0}
  /\ \A s \in Scripts : s \in Seq(Transaction)

vars == <<launcherVars, replayVars>>

(* A connection needs a process whose server is bound.                        *)
Reachable == {n \in Ids : child[n] = "serving"}
Planned   == {plan[i] : i \in 1 .. Len(plan)}

Init == LauncherInit /\ ReplayInit(Scripts)

Launch ==
  /\ \/ \E s \in Selections : MakePlan(s, LastPort)
     \/ LauncherStep
  /\ UNCHANGED replayVars

Operator == Interrupt /\ UNCHANGED replayVars
Child    == ChildStep /\ UNCHANGED replayVars

(* The user starts the replay when the plan is known, with the targets of it.  *)
Replay == at # "plan" /\ ReplayStep(Planned, Reachable) /\ UNCHANGED launcherVars
Clock  == Pass /\ UNCHANGED launcherVars

Done == LauncherOver /\ ReplayOver /\ UNCHANGED vars

Next == Launch \/ Operator \/ Child \/ Replay \/ Clock \/ Done

(* The launcher's calls return or time out, its operator may be idle for ever;  *)
(* a client gives up on an answer after its timeout.                         *)
Spec == Init /\ [][Next]_vars /\ WF_vars(Launch) /\ WF_vars(Replay) /\ WF_vars(Clock)

----------------------------------------------------------------------------
TypeOK == LauncherTypeOK /\ ReplayTypeOK

(* A launcher that returns results leaves no process and no log behind. One that *)
(* raises the error of its body leaves at most those of one node, the one that    *)
(* was being started, and a process only when a Ctrl-C fell between the start     *)
(* of the process and its entry in the list (orchestration.py:153-184).         *)
NoOrphans ==
  /\ at = "returned" => AliveIds = {} /\ \A n \in Ids : log[n] # "open"
  /\ at = "raised" =>
       /\ AliveIds \cup {n \in Ids : log[n] = "open"} \subseteq InFlight
       /\ AliveIds # {} => interrupts > 0

(* No process in the list is waited for, killed or given up before all of them    *)
(* have been asked to stop, also when a second Ctrl-C or a process the kernel     *)
(* does not let go ends the clean-up early. Only a Ctrl-C in the loop that asks   *)
(* leaves processes unasked, and then none of those it had come past              *)
(* (orchestration.py:172-181).                                               *)
NobodyForgotten ==
  /\ at \in {"wait", "reap", "returned", "raised", "aborted"} =>
       AliveIds \cap Listed \subseteq asked
  /\ at \in {"ask", "unasked"} =>
       \A i \in 1 .. k - 1 : plan[i] \in AliveIds => plan[i] \in asked

(* A validated scenario is never refused by the executor half way, every         *)
(* connection is closed whatever way the replay ends, and a server is left with  *)
(* the last write it confirmed (executor.py:91-109, live.py:64-80).           *)
ReplayIsFaithful ==
  /\ phase = "send" => ~RefusedToSend(script[next])
  /\ phase \in {"completed", "failed"} => conn = {}
  /\ phase = "completed" =>
       \A i \in 1 .. Len(script) :
         /\ results[i].status = "ok" /\ script[i].fc \in WriteCodes
         /\ \A j \in i + 1 .. Len(script) : script[j].server # script[i].server
         => holds[script[i].server] = i

(* Replayed in real time, no transaction is sent earlier after another than the  *)
(* scenario says (executor.py:103-108).                                      *)
NeverEarly ==
  Paced => \A i, j \in 1 .. Len(results) :
             i < j => results[j].time - results[i].time >= script[j].ts - script[i].ts

(* The launcher ends whatever its children do, because each of its waits has a   *)
(* timeout (orchestration.py:176-181).                                       *)
LauncherEnds == <>LauncherOver

=============================================================================
