------------------------------ MODULE CommandSource ------------------------------
(***************************************************************************)
(* Where the main loop takes its commands from, as its user sees it: from    *)
(* Modbus while the interface is up; from nowhere for a bounded number of    *)
(* missed updates once it is lost; and then never from Modbus again.         *)
(***************************************************************************)
EXTENDS Naturals

CONSTANT MaxMissed   \* missed updates after which the interface is given up

VARIABLES
  source,   \* "starting", "modbus", "lost" or "none"
  missed    \* updates missed so far

sourceVars == <<source, missed>>

Init == source = "starting" /\ missed = 0

Connect ==
  /\ source = "starting"
  /\ source' \in {"modbus", "lost", "none"}
  /\ UNCHANGED missed

Lose == source = "modbus" /\ source' = "lost" /\ UNCHANGED missed

Miss ==
  /\ source = "lost"
  /\ missed < MaxMissed
  /\ missed' = missed + 1
  /\ source' = IF missed + 1 < MaxMissed THEN "lost" ELSE "none"

Next == Connect \/ Lose \/ Miss

Spec == Init /\ [][Next]_sourceVars
=============================================================================
