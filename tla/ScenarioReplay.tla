---------------------------- MODULE ScenarioReplay ----------------------------
(***************************************************************************)
(* A live replay (scenarios/live.py, executor.py, run.py): the scenario is     *)
(* loaded and validated, one connection per server is opened, its             *)
(* transactions are sent in order with the pauses of the scenario, and every   *)
(* connection is closed again. A server may be there, go away or not answer.  *)
(***************************************************************************)
EXTENDS ScenarioRules

CONSTANTS
  Paced,     \* is the time scale positive (1, in the units of the clock)?
  MaxTime    \* bound: answers are slow until this time

ASSUME ReplayAssumption == Paced \in BOOLEAN /\ MaxTime \in Nat

VARIABLES
  script,     \* the scenario file
  phase,      \* where the replay is
  next,       \* the transaction to send next
  due,        \* when the pause before it ends; then, when it was sent
  now,        \* the clock of the host
  conn,       \* servers with an open connection
  results,    \* CommandResult of each transaction, with the time it was sent
  holds       \* what the replay last wrote into each server: transaction or 0

replayVars == <<script, phase, next, due, now, conn, results, holds>>

ServersOf(s) == {s[i].server : i \in 1 .. Len(s)}

ReplayOver == phase \in {"completed", "failed"}

ReplayTypeOK ==
  /\ phase \in {"load", "connect", "pause", "send", "close", "abandon",
                "completed", "failed"}
  /\ next \in 1 .. Len(script) + 1
  /\ now \in Nat /\ due \in Nat
  /\ conn \subseteq Network
  /\ results \in Seq([i : 1 .. Len(script), time : Nat, status : {"ok", "error"}])
  /\ holds \in [Network -> 0 .. Len(script)]

ReplayInit(scripts) ==
  /\ script \in scripts
  /\ phase = "load"
  /\ next = 1
  /\ due = 0
  /\ now = 0
  /\ conn = {}
  /\ results = <<>>
  /\ holds = [n \in Network |-> 0]

(* The scenario is read and validated, its servers compared with the targets    *)
(* on the command line.  A built-in one is validated, too, when it is looked up   *)
(* (get_scenario, profiles.py:35).                                           *)
Load(targets) ==
  /\ phase = "load"
  /\ phase' = IF Accepted(script) /\ ServersOf(script) \subseteq targets
              THEN "connect" ELSE "failed"
  /\ UNCHANGED <<script, next, due, now, conn, results, holds>>

(* The pause before transaction i, from the one before it: the time the         *)
(* transactions themselves take is not deducted.                             *)
Previous(i) == IF i = 1 THEN 0 ELSE script[i - 1].ts

(* Mutant: the pause is counted from the transaction to be sent.               *)
PauseBeforeStale(i) ==
  IF Paced /\ i > 2 /\ script[i].ts > Previous(i) THEN script[i].ts - Previous(i) ELSE 0

PauseBefore(i) ==
  IF Paced /\ script[i].ts > Previous(i) THEN script[i].ts - Previous(i) ELSE 0

StartPause(i) == IF i <= Len(script) THEN phase' = "pause" /\ due' = now + PauseBefore(i)
                                     ELSE phase' = "close" /\ due' = due

(* The first server, by name, that has no connection yet.                     *)
NextServer ==
  NodeOrder[CHOOSE i \in 1 .. Len(NodeOrder) :
              /\ NodeOrder[i] \in ServersOf(script) \ conn
              /\ \A j \in 1 .. i - 1 : NodeOrder[j] \notin ServersOf(script) \ conn]

(* The first connection that fails ends the replay.                           *)
Connect(reachable) ==
  LET s == NextServer IN
  /\ phase = "connect"
  /\ IF s \in reachable
     THEN /\ conn' = conn \cup {s}
          /\ IF conn' = ServersOf(script) THEN StartPause(1) ELSE UNCHANGED <<phase, due>>
     ELSE phase' = "abandon" /\ UNCHANGED <<conn, due>>
  /\ UNCHANGED <<script, next, now, results, holds>>

PauseEnds ==
  /\ phase = "pause"
  /\ now >= due
  /\ phase' = "send"
  /\ due' = now
  /\ UNCHANGED <<script, next, now, conn, results, holds>>

(* ValueError.                                                               *)
Refuse ==
  /\ phase = "send"
  /\ RefusedToSend(script[next])
  /\ phase' = "abandon"
  /\ UNCHANGED <<script, next, due, now, conn, results, holds>>

Apply(t) == IF Written(t) = <<>> THEN holds ELSE [holds EXCEPT ![t.server] = next]

(* The answer arrives, or it is an error: an exception of the server, or the    *)
(* client's own after it waited in vain, and then the server may have applied   *)
(* the request. Either is a result, and the replay goes on.                   *)
Send(reachable) ==
  LET t == script[next] IN
  /\ phase = "send"
  /\ ~RefusedToSend(t)
  /\ \E status \in {"ok", "error"} :
       /\ status = "ok" => t.server \in reachable
       /\ results' = Append(results, [i |-> next, time |-> due, status |-> status])
       /\ \/ t.server \in reachable /\ holds' = Apply(t)
          \/ status = "error" /\ holds' = holds
  /\ next' = next + 1
  /\ StartPause(next + 1)
  /\ UNCHANGED <<script, now, conn>>

(* The client raises instead: the connection is gone.                         *)
SendRaises(reachable) ==
  LET t == script[next] IN
  /\ phase = "send"
  /\ ~RefusedToSend(t)
  /\ phase' = "abandon"
  /\ \/ holds' = holds
     \/ t.server \in reachable /\ holds' = Apply(t)
  /\ UNCHANGED <<script, next, due, now, conn, results>>

(* The finally clause.                                                       *)
Close ==
  /\ phase \in {"close", "abandon"}
  /\ conn' = {}
  /\ phase' = IF phase = "close" THEN "completed" ELSE "failed"
  /\ UNCHANGED <<script, next, due, now, results, holds>>

(* Time passes while the replay pauses or waits for an answer.                *)
Pass ==
  /\ \/ phase = "pause" /\ now < due
     \/ phase = "send" /\ now < MaxTime
  /\ now' = now + 1
  /\ UNCHANGED <<script, phase, next, due, conn, results, holds>>

ReplayStep(targets, reachable) ==
  \/ Load(targets)
  \/ Connect(reachable)
  \/ PauseEnds \/ Refuse \/ Send(reachable) \/ SendRaises(reachable) \/ Close
=============================================================================
