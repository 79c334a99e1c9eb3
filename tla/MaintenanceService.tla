-------------------------- MODULE MaintenanceService --------------------------
(***************************************************************************)
(* What the maintenance mailbox promises its one user: a command that was    *)
(* triggered is served once, as it was written, and the user returns with    *)
(* the outcome of that command.                                             *)
(***************************************************************************)
EXTENDS MaintenanceManager

CONSTANTS Param, NoCommand, NoOutcome

Command == [target : Target \cup {Unknown}, action : Action \cup {Unknown},
            param : Param]

(* What a client reads back about a command: input registers 110 to 112.     *)
Outcome(c) == [status |-> Execute(c.target, c.action),
               target |-> c.target, action |-> c.action]

VARIABLES
  call,      \* the triggered command, or NoCommand
  served,    \* has the pending command been served?
  returned   \* the outcome the user last returned with, or NoOutcome

serviceVars == <<call, served, returned>>

Init == call = NoCommand /\ served = FALSE /\ returned = NoOutcome

(* The user forgets the last outcome when it prepares the next command.      *)
Prepare == call = NoCommand /\ returned' = NoOutcome /\ UNCHANGED <<call, served>>

Trigger ==
  /\ call = NoCommand
  /\ call' \in Command
  /\ UNCHANGED <<served, returned>>

Serve ==
  /\ call # NoCommand
  /\ ~served
  /\ served' = TRUE
  /\ UNCHANGED <<call, returned>>

Return ==
  /\ served
  /\ returned' = Outcome(call)
  /\ call' = NoCommand
  /\ served' = FALSE

Next == Prepare \/ Trigger \/ Serve \/ Return

Spec == Init /\ [][Next]_serviceVars
=============================================================================
