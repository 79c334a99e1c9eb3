----------------------- MODULE MaintenanceMailbox_proofs -----------------------
(***************************************************************************)
(* What holds of the mailbox for every set of clients and commands: the      *)
(* types, the consistency of status and echo, and that a trigger is executed *)
(* at most once.                                                             *)
(***************************************************************************)
EXTENDS MaintenanceMailbox, TLAPS

(* Every dispatch ends in one of the five statuses of MaintenanceResult.     *)
LEMMA ExecuteType ==
  ASSUME NEW target, NEW action
  PROVE  Execute(target, action) \in Result
<1>1. CASE target \notin Target
  BY <1>1 DEF Execute, Result
<1>2. CASE target \in Target /\ action \notin Action
  BY <1>2 DEF Execute, Result
<1>3. CASE target \in Target /\ action \in Action
  BY <1>3 DEF Execute, Result
<1> QED BY <1>1, <1>2, <1>3

(* An outcome is what the input registers can show, and it is never PENDING. *)
LEMMA OutcomeType ==
  ASSUME NEW c \in Command
  PROVE  /\ Outcome(c) \in [status : Result, target : Target \cup {Unknown},
                            action : Action \cup {Unknown}]
         /\ Outcome(c).status # "PENDING"
         /\ Outcome(c).target = c.target
         /\ Outcome(c).action = c.action
BY ExecuteType DEF Outcome, Command, Result

LEMMA InitTyped ==
  ASSUME Init
  PROVE  TypeOK
<1>1. hr \in Command /\ ir \in [status : Result \cup {"PENDING"},
         target : Target \cup {Unknown}, action : Action \cup {Unknown}]
  BY DEF Init, Command, ZeroOutcome, Target, Action, Result, SensorTarget, pHTarget
<1>2. pc \in [Client -> ClientStep \cup {"idle"}] /\ want \in [Client -> Commands \cup {NoCommand}]
  BY DEF Init
<1>3. \A c \in Client : pc[c] = "idle"
  BY DEF Init
<1>4. ~Executed
  BY DEF Init, Executed
<1>5. coil \in BOOLEAN /\ serving \in BOOLEAN
  BY DEF Init
<1>6. issued \in Seq(Commands) /\ log \in Seq(Command)
  BY DEF Init
<1>7. command \in Command /\ poll \in BridgeStep \cup {"idle"} /\ result = NoOutcome
  BY <1>1 DEF Init
<1>8. DOMAIN got = Client
  BY DEF Init
<1> QED BY <1>1, <1>2, <1>3, <1>4, <1>5, <1>6, <1>7, <1>8 DEF TypeOK

LEMMA TypeStep ==
  ASSUME TypeOK, [Next]_vars
  PROVE  TypeOK'
<1> USE DEF blockVars, bridgeVars, clientVars, Executed
<1>1. CASE BeginPoll
  BY <1>1 DEF TypeOK, BeginPoll, At, BridgeStep
<1>2. CASE ReadCommand
  BY <1>2 DEF TypeOK, ReadCommand, At, BridgeStep, Command
<1>3. CASE WritePending
  BY <1>3 DEF TypeOK, WritePending, At, BridgeStep, Command
<1>4. CASE Dispatch
  BY <1>4, OutcomeType DEF TypeOK, Dispatch, At, BridgeStep
<1>5. CASE PublishResult
  <2>1. Executed /\ Executed' /\ poll' \in BridgeStep
    BY <1>5 DEF PublishResult, At, BridgeStep
  <2>2. /\ result.status \in Result
        /\ result.target \in Target \cup {Unknown}
        /\ result.action \in Action \cup {Unknown}
    BY <2>1 DEF TypeOK
  <2>3. ir' \in [status : Result \cup {"PENDING"}, target : Target \cup {Unknown},
                 action : Action \cup {Unknown}]
    BY <1>5, <2>2 DEF TypeOK, PublishResult
  <2>4. UNCHANGED <<hr, coil, command, result, serving, pc, want, got, issued, log>>
    BY <1>5 DEF PublishResult
  <2> QED BY <2>1, <2>3, <2>4 DEF TypeOK
<1>6. CASE ClearTrigger
  BY <1>6 DEF TypeOK, ClearTrigger, At
<1>7. CASE StopServing
  BY <1>7 DEF TypeOK, StopServing
<1>8. ASSUME NEW c \in Client, ChooseCommand(c) PROVE TypeOK'
  BY <1>8 DEF TypeOK, ChooseCommand, Goes, ClientStep
<1>9. ASSUME NEW c \in Client, WriteCommand(c) PROVE TypeOK'
  <2>1. want[c] \in Commands
    BY <1>9 DEF TypeOK, WriteCommand, Goes
  <2>2. want[c] \in Command
    BY <2>1, MailboxAssumption
  <2>3. hr' \in Command
    BY <1>9, <2>2 DEF TypeOK, WriteCommand, Command
  <2>4. pc' \in [Client -> ClientStep \cup {"idle"}]
    BY <1>9 DEF TypeOK, WriteCommand, Goes, ClientStep
  <2>5. \A d \in Client : pc'[d] # "idle" => want'[d] \in Commands
    BY <1>9, <2>1 DEF TypeOK, WriteCommand, Goes
  <2>6. UNCHANGED <<coil, ir, poll, command, result, serving, want, got, issued, log>>
    BY <1>9 DEF WriteCommand
  <2> QED BY <2>3, <2>4, <2>5, <2>6 DEF TypeOK
<1>10. ASSUME NEW c \in Client, WriteTrigger(c) PROVE TypeOK'
  BY <1>10 DEF TypeOK, WriteTrigger, Goes, ClientStep
<1>11. ASSUME NEW c \in Client, PollCompleted(c) \/ ReadOutcome(c) PROVE TypeOK'
  BY <1>11 DEF TypeOK, PollCompleted, ReadOutcome, Goes, ClientStep
<1>12. CASE UNCHANGED vars
  BY <1>12 DEF TypeOK, vars
<1> QED BY <1>1, <1>2, <1>3, <1>4, <1>5, <1>6, <1>7, <1>8, <1>9, <1>10, <1>11, <1>12
        DEF Next, Bridge, Follow

(* Every reachable state of the mailbox is well typed, whatever its clients do. *)
THEOREM TypeCorrect == Spec => []TypeOK
<1>1. Init => TypeOK
  BY InitTyped
<1>2. TypeOK /\ [Next]_vars => TypeOK'
  BY TypeStep
<1> QED BY <1>1, <1>2, PTL DEF Spec

-----------------------------------------------------------------------------
(* Where the poll is decides how far the outcome on display has come: the    *)
(* strengthening that makes EchoConsistent inductive.                        *)
Published == ir = IF log = <<>> THEN ZeroOutcome ELSE Outcome(Last(log))

Reading == {"read_target", "read_action", "read_param", "pend_status"}

Echoing ==
  /\ poll \in {"pend_target", "pend_action", "execute", "publish_status"}
       => ir.status = "PENDING"
  /\ poll \in {"pend_action", "execute"} \/ Executed => ir.target = command.target
  /\ poll = "execute" \/ Executed => ir.action = command.action
  /\ Executed => log # <<>> /\ Last(log) = command /\ result = Outcome(command)
  /\ poll \in {"publish_target", "publish_action", "clear"} => ir.status = result.status
  /\ poll \in Reading \cup {"idle"} => Published

(* Once every field on display agrees with the outcome of a command, the     *)
(* registers are that outcome.                                               *)
LEMMA FieldsDecide ==
  ASSUME TypeOK, NEW c \in Command,
         ir.status = Outcome(c).status, ir.target = c.target, ir.action = c.action
  PROVE  ir = Outcome(c)
BY DEF TypeOK, Outcome

LEMMA EchoingMeansConsistent ==
  ASSUME TypeOK, Echoing
  PROVE  EchoConsistent
<1>1. CASE poll \in Reading \cup {"idle"}
  BY <1>1 DEF Echoing, Published, EchoConsistent
<1>2. CASE poll \in {"pend_target", "pend_action", "execute", "publish_status"}
  BY <1>2 DEF Echoing, EchoConsistent
<1>3. CASE poll \in {"publish_target", "publish_action", "clear"}
  <2>1. Executed
    BY <1>3 DEF Executed
  <2>2. log # <<>> /\ Last(log) = command /\ result = Outcome(command)
    BY <2>1 DEF Echoing
  <2>3. ir = Outcome(command)
    BY <1>3, <2>1, <2>2, FieldsDecide DEF Echoing, TypeOK
  <2> QED BY <2>2, <2>3 DEF EchoConsistent
<1> QED BY <1>1, <1>2, <1>3 DEF TypeOK, BridgeStep, Reading

LEMMA EchoStep ==
  ASSUME TypeOK, Echoing, [Next]_vars
  PROVE  Echoing'
<1> USE DEF blockVars, bridgeVars, clientVars, Executed, Reading
<1>1. CASE BeginPoll
  BY <1>1 DEF BeginPoll, At, Echoing, Published, Last, Outcome
<1>2. CASE ReadCommand
  BY <1>2 DEF ReadCommand, At, Echoing, Published, Last, Outcome
<1>3. CASE WritePending
  BY <1>3 DEF WritePending, At, Echoing, TypeOK
<1>4. CASE Dispatch
  <2>1. log' = Append(log, command) /\ log \in Seq(Command) /\ command \in Command
    BY <1>4 DEF Dispatch, TypeOK
  <2>2. log' # <<>> /\ Last(log') = command
    BY <2>1 DEF Last
  <2> QED BY <1>4, <2>2 DEF Dispatch, At, Echoing
<1>5. CASE PublishResult
  <2>1. Executed /\ Executed'
    BY <1>5 DEF PublishResult, At
  <2>2. result = Outcome(command) /\ result.target = command.target
        /\ result.action = command.action
    BY <2>1, OutcomeType DEF Echoing, TypeOK
  <2> QED BY <1>5, <2>1, <2>2 DEF PublishResult, At, Echoing, TypeOK
<1>6. CASE ClearTrigger
  <2>1. Executed /\ poll = "clear"
    BY <1>6 DEF ClearTrigger, At
  <2>2. log # <<>> /\ Last(log) = command /\ result = Outcome(command)
    BY <2>1 DEF Echoing
  <2>3. ir = Outcome(command)
    BY <2>1, <2>2, FieldsDecide DEF Echoing, TypeOK
  <2>4. UNCHANGED <<ir, log, command>> /\ poll' = "idle"
    BY <1>6 DEF ClearTrigger, At
  <2>5. ir' = Outcome(Last(log)) /\ log' = log
    BY <2>2, <2>3, <2>4
  <2> QED BY <2>2, <2>4, <2>5 DEF Echoing, Published, Last, Outcome
<1>7. ASSUME UNCHANGED <<ir, poll, command, result, log>> PROVE Echoing'
  BY <1>7 DEF Echoing, Published, Last, Outcome
<1>8. CASE StopServing
  BY <1>7, <1>8 DEF StopServing
<1>9. ASSUME NEW c \in Client, ChooseCommand(c) \/ Follow(c) PROVE Echoing'
  BY <1>7, <1>9 DEF ChooseCommand, Follow, WriteCommand, WriteTrigger, PollCompleted, ReadOutcome
<1>10. CASE UNCHANGED vars
  BY <1>7, <1>10 DEF vars
<1> QED BY <1>1, <1>2, <1>3, <1>4, <1>5, <1>6, <1>8, <1>9, <1>10 DEF Next, Bridge

(* Whatever the clients do, and whoever reads: a final status is on display  *)
(* only with the target and action it belongs to.                            *)
THEOREM EchoAlwaysConsistent == Spec => []EchoConsistent
<1>1. Init => Echoing
  BY DEF Init, Echoing, Executed, Published
<1>2. TypeOK /\ Echoing /\ [Next]_vars => Echoing'
  BY EchoStep
<1>3. TypeOK /\ Echoing => EchoConsistent
  BY EchoingMeansConsistent
<1> QED BY <1>1, <1>2, <1>3, TypeCorrect, PTL DEF Spec

-----------------------------------------------------------------------------
(* While a poll is under way its trigger is still set: the only step that    *)
(* clears the coil is the last one of the poll.                              *)
Pending == poll # "idle" => coil

(* No trigger is executed twice, with any number of clients.                 *)
THEOREM NeverTwice == Spec => []AtMostOnce
<1> DEFINE Inv == Pending /\ AtMostOnce
<1>1. Init => Inv
  BY DEF Init, Pending, AtMostOnce, Executed
<1>2. TypeOK /\ Inv /\ [Next]_vars => Inv'
  <2> SUFFICES ASSUME TypeOK, Inv, [Next]_vars PROVE Inv'
    OBVIOUS
  <2> USE DEF blockVars, bridgeVars, clientVars
  <2>0. Len(log) \in Nat /\ Len(issued) \in Nat
    BY DEF TypeOK
  <2>1. ASSUME UNCHANGED <<coil, log, issued>>, poll # "idle" \/ coil, Executed' <=> Executed
        PROVE Inv'
    BY <2>1 DEF Pending, AtMostOnce
  <2>2. CASE BeginPoll \/ ReadCommand \/ WritePending \/ PublishResult
    BY <2>1, <2>2 DEF BeginPoll, ReadCommand, WritePending, PublishResult, At, Executed
  <2>3. CASE Dispatch
    <3>1. Len(log') = Len(log) + 1
      BY <2>3 DEF Dispatch, TypeOK
    <3> QED BY <2>0, <2>3, <3>1 DEF Dispatch, At, Executed, Pending, AtMostOnce
  <2>4. CASE ClearTrigger
    BY <2>0, <2>4 DEF ClearTrigger, At, Executed, Pending, AtMostOnce
  <2>5. ASSUME NEW c \in Client, WriteTrigger(c) PROVE Inv'
    <3>1. Len(issued') = Len(issued) + 1
      BY <2>5 DEF WriteTrigger, Goes, TypeOK
    <3> QED BY <2>0, <2>5, <3>1 DEF WriteTrigger, Executed, Pending, AtMostOnce
  <2>6. ASSUME UNCHANGED <<coil, poll, log, issued>> PROVE Inv'
    BY <2>6 DEF Pending, AtMostOnce, Executed
  <2>7. CASE StopServing \/ UNCHANGED vars
    BY <2>6, <2>7 DEF StopServing, vars
  <2>8. ASSUME NEW c \in Client,
               ChooseCommand(c) \/ WriteCommand(c) \/ PollCompleted(c) \/ ReadOutcome(c)
        PROVE Inv'
    BY <2>6, <2>8 DEF ChooseCommand, WriteCommand, PollCompleted, ReadOutcome
  <2> QED BY <2>2, <2>3, <2>4, <2>5, <2>7, <2>8 DEF Next, Bridge, Follow
<1> QED BY <1>1, <1>2, TypeCorrect, PTL DEF Spec

-----------------------------------------------------------------------------
(* The mailbox used by one client that waits for the trigger to be cleared.  *)
Alone(c) == Client = {c} /\ WaitsForCoil

Late == BridgeStep \ {"read_target", "read_action", "read_param"}

(* What the client has written, and what the poll has read of it.            *)
Written(c) ==
  /\ pc[c] \in {"action", "param", "trigger", "poll"} => hr.target = want[c].target
  /\ pc[c] \in {"param", "trigger", "poll"} => hr.action = want[c].action
  /\ pc[c] \in {"trigger", "poll"} => hr.param = want[c].param

ReadBack ==
  /\ poll \in {"read_action", "read_param"} \cup Late => command.target = hr.target
  /\ poll \in {"read_param"} \cup Late => command.action = hr.action
  /\ poll \in Late => command.param = hr.param

(* The histories agree, up to the command that waits for its execution.      *)
Agree(c) ==
  /\ pc[c] \in {"poll", "status", "echo"} => issued # <<>> /\ Last(issued) = want[c]
  /\ Len(issued) = Len(log) + (IF coil /\ ~Executed THEN 1 ELSE 0)
  /\ \A i \in 1 .. Len(log) : log[i] = issued[i]

Answered(c) ==
  /\ pc[c] = "echo" => got[c].status = Outcome(want[c]).status
  /\ Concluded(c) => got[c] = Outcome(want[c])

AloneInv(c) ==
  /\ poll # "idle" => coil
  /\ coil => pc[c] = "poll"
  /\ Written(c) /\ ReadBack /\ Agree(c) /\ Answered(c)

(* With nothing triggered, the last command executed is the last issued.     *)
LEMMA QuietMeansServed ==
  ASSUME NEW c \in Client, TypeOK, Echoing, AloneInv(c), ~coil,
         pc[c] \in {"poll", "status", "echo"}
  PROVE  ir = Outcome(want[c])
<1>1. poll = "idle" /\ Published
  BY DEF AloneInv, Echoing
<1>2. Len(issued) = Len(log) /\ issued # <<>> /\ Last(issued) = want[c]
  BY DEF AloneInv, Agree
<1>3. Len(log) \in Nat /\ Len(issued) \in Nat /\ Len(issued) # 0
  BY <1>2 DEF TypeOK
<1>4. log # <<>> /\ Last(log) = Last(issued)
  BY <1>2, <1>3 DEF AloneInv, Agree, Last, TypeOK
<1> QED BY <1>1, <1>2, <1>4 DEF Published

LEMMA CommandFields ==
  ASSUME NEW x \in Command, NEW y \in Command,
         x.target = y.target, x.action = y.action, x.param = y.param
  PROVE  x = y
BY DEF Command

(* What appending does to a history.                                         *)
LEMMA Appended ==
  ASSUME NEW S, NEW s \in Seq(S), NEW e \in S
  PROVE  /\ Append(s, e) # <<>>
         /\ Len(Append(s, e)) = Len(s) + 1
         /\ Append(s, e)[Len(s) + 1] = e
         /\ \A i \in 1 .. Len(s) : Append(s, e)[i] = s[i]
OBVIOUS

(* The poll reads registers nobody writes, so it executes what was written.  *)
LEMMA ExecutesWanted ==
  ASSUME NEW c \in Client, TypeOK, AloneInv(c), poll = "execute"
  PROVE  /\ command = Last(issued)
         /\ coil /\ Len(issued) = Len(log) + 1
<1>1. coil /\ pc[c] = "poll" /\ ~Executed
  BY DEF AloneInv, Executed
<1>2. hr.target = want[c].target /\ hr.action = want[c].action /\ hr.param = want[c].param
  BY <1>1 DEF AloneInv, Written
<1>3. command.target = hr.target /\ command.action = hr.action /\ command.param = hr.param
  BY DEF AloneInv, ReadBack, Late, BridgeStep
<1>4. want[c] \in Command
  BY <1>1, MailboxAssumption DEF TypeOK
<1>5. command = want[c]
  <2>1. command \in Command
    BY DEF TypeOK
  <2> QED BY <1>2, <1>3, <1>4, <2>1, CommandFields
<1> QED BY <1>1, <1>5 DEF AloneInv, Agree

LEMMA AloneStep ==
  ASSUME NEW c \in Client, Alone(c), TypeOK, Echoing, AloneInv(c), [Next]_vars
  PROVE  AloneInv(c)'
<1> USE DEF blockVars, bridgeVars, clientVars
<1>0. /\ Len(log) \in Nat /\ Len(issued) \in Nat
      /\ pc \in [Client -> ClientStep \cup {"idle"}]
      /\ want \in [Client -> Commands \cup {NoCommand}]
  BY DEF TypeOK
<1>1. CASE BeginPoll
  <2>1. poll = "idle" /\ poll' = "read_target" /\ coil /\ ~Executed /\ ~Executed'
    BY <1>1 DEF BeginPoll, At, Executed
  <2>2. UNCHANGED <<hr, coil, ir, command, pc, want, got, issued, log>>
    BY <1>1 DEF BeginPoll
  <2>3. ReadBack'
    BY <2>1 DEF ReadBack, Late, BridgeStep
  <2> QED BY <2>1, <2>2, <2>3 DEF AloneInv, Written, Agree, Answered, Concluded, Last, Outcome
<1>2. CASE ReadCommand
  <2>1. UNCHANGED <<hr, coil, ir, pc, want, got, issued, log>> /\ poll # "idle" /\ poll' # "idle"
        /\ ~Executed /\ ~Executed'
    BY <1>2 DEF ReadCommand, At, Executed
  <2>2. ReadBack'
    BY <1>2 DEF ReadCommand, At, AloneInv, ReadBack, Late, BridgeStep, TypeOK, Command
  <2> QED BY <2>1, <2>2 DEF AloneInv, Written, Agree, Answered, Concluded, Last, Outcome
<1>3. CASE WritePending
  <2>1. UNCHANGED <<hr, coil, command, pc, want, got, issued, log>> /\ poll # "idle" /\ poll' # "idle"
        /\ ~Executed /\ ~Executed' /\ poll \in Late /\ poll' \in Late
    BY <1>3 DEF WritePending, At, Executed, Late, BridgeStep
  <2>2. ReadBack'
    BY <2>1 DEF AloneInv, ReadBack
  <2> QED BY <2>1, <2>2 DEF AloneInv, Written, Agree, Answered, Concluded, Last, Outcome
<1>4. CASE Dispatch
  <2>1. UNCHANGED <<hr, coil, command, pc, want, got, issued>> /\ poll = "execute"
        /\ poll' = "publish_status" /\ Executed' /\ log' = Append(log, command)
    BY <1>4 DEF Dispatch, At, Executed
  <2>2. command = Last(issued) /\ coil /\ Len(issued) = Len(log) + 1
    BY <2>1, ExecutesWanted
  <2>3. Len(log') = Len(log) + 1 /\ log'[Len(log) + 1] = command
        /\ \A i \in 1 .. Len(log) : log'[i] = log[i]
    BY <2>1 DEF TypeOK
  <2>4. \A i \in 1 .. Len(log') : log'[i] = issued'[i]
    BY <1>0, <2>1, <2>2, <2>3 DEF AloneInv, Agree, Last
  <2>5. ReadBack'
    BY <2>1 DEF AloneInv, ReadBack, Late, BridgeStep
  <2>6. Agree(c)'
    BY <1>0, <2>1, <2>2, <2>3, <2>4 DEF AloneInv, Agree, Last
  <2> QED BY <2>1, <2>2, <2>5, <2>6 DEF AloneInv, Written, Answered, Concluded, Outcome
<1>5. CASE PublishResult
  <2>1. UNCHANGED <<hr, coil, command, pc, want, got, issued, log>> /\ poll # "idle" /\ poll' # "idle"
        /\ Executed /\ Executed' /\ poll \in Late /\ poll' \in Late
    BY <1>5 DEF PublishResult, At, Executed, Late, BridgeStep
  <2>2. ReadBack'
    BY <2>1 DEF AloneInv, ReadBack
  <2> QED BY <2>1, <2>2 DEF AloneInv, Written, Agree, Answered, Concluded, Last, Outcome
<1>6. CASE ClearTrigger
  <2>1. UNCHANGED <<hr, command, pc, want, got, issued, log>> /\ poll' = "idle" /\ ~coil' /\ Executed
        /\ ~Executed'
    BY <1>6 DEF ClearTrigger, At, Executed
  <2>2. ReadBack'
    BY <2>1 DEF ReadBack, Late, BridgeStep
  <2> QED BY <2>1, <2>2 DEF AloneInv, Written, Agree, Answered, Concluded, Last, Outcome
<1>7. CASE StopServing \/ UNCHANGED vars
  BY <1>7 DEF StopServing, vars, AloneInv, Written, ReadBack, Agree, Answered, Concluded,
     Executed, Last, Outcome
<1>8. CASE ChooseCommand(c)
  <2>1. UNCHANGED <<hr, coil, poll, command, issued, log>> /\ pc[c] = "idle" /\ pc'[c] = "target"
    BY <1>0, <1>8 DEF ChooseCommand, Goes
  <2> QED BY <2>1 DEF AloneInv, Written, ReadBack, Agree, Answered, Concluded, Executed, Last
<1>9. CASE WriteCommand(c)
  <2>1. UNCHANGED <<coil, poll, command, want, got, issued, log>> /\ ~coil /\ poll = "idle"
        /\ pc[c] \in {"target", "action", "param"} /\ pc'[c] \in {"action", "param", "trigger"}
    BY <1>0, <1>9 DEF WriteCommand, Goes, AloneInv
  <2>2. Written(c)'
    BY <1>0, <1>9, <2>1 DEF WriteCommand, Goes, AloneInv, Written, TypeOK, Command
  <2>3. ReadBack'
    BY <2>1 DEF ReadBack, Late, BridgeStep
  <2> QED BY <2>1, <2>2, <2>3 DEF AloneInv, Agree, Answered, Concluded, Executed, Last
<1>10. CASE WriteTrigger(c)
  <2>1. UNCHANGED <<hr, poll, command, want, got, log>> /\ ~coil /\ poll = "idle" /\ coil'
        /\ pc[c] = "trigger" /\ pc'[c] = "poll" /\ issued' = Append(issued, want[c])
    BY <1>0, <1>10 DEF WriteTrigger, Goes, AloneInv
  <2>2. want[c] \in Commands
    BY <2>1 DEF TypeOK
  <2>3. /\ Len(issued') = Len(issued) + 1 /\ issued'[Len(issued) + 1] = want[c]
        /\ issued' # <<>> /\ \A i \in 1 .. Len(issued) : issued'[i] = issued[i]
    <3>1. issued \in Seq(Commands)
      BY DEF TypeOK
    <3> QED BY <2>1, <2>2, <3>1, Appended
  <2>4. Len(issued) = Len(log) /\ ~Executed'
    BY <2>1 DEF AloneInv, Agree, Executed
  <2>5. Agree(c)'
    BY <1>0, <2>1, <2>3, <2>4 DEF AloneInv, Agree, Last
  <2>6. Written(c)' /\ ReadBack'
    BY <2>1 DEF AloneInv, Written, ReadBack, Late, BridgeStep
  <2> QED BY <2>1, <2>5, <2>6 DEF AloneInv, Answered, Concluded
<1>11. CASE PollCompleted(c)
  <2>1. UNCHANGED <<hr, coil, poll, command, want, got, issued, log>> /\ ~coil
        /\ pc[c] = "poll" /\ pc'[c] = "status"
    BY <1>0, <1>11 DEF PollCompleted, Goes, Alone, Completed
  <2> QED BY <2>1 DEF AloneInv, Written, ReadBack, Agree, Answered, Concluded, Executed, Last
<1>12. CASE ReadOutcome(c)
  <2>1. UNCHANGED <<hr, coil, poll, command, want, issued, log>> /\ ~coil
        /\ pc[c] \in {"status", "echo"} /\ pc'[c] \in {"echo", "idle"}
    BY <1>0, <1>12 DEF ReadOutcome, Goes, AloneInv
  <2>2. ir = Outcome(want[c])
    BY <2>1, QuietMeansServed
  <2>3. Answered(c)'
    <3>1. CASE pc[c] = "status"
      <4>1. got' = [got EXCEPT ![c] = ir] /\ pc'[c] = "echo"
        BY <1>0, <1>12, <3>1 DEF ReadOutcome, Goes
      <4>2. got'[c].status = Outcome(want[c]).status
        BY <2>2, <4>1 DEF TypeOK
      <4> QED BY <2>1, <4>1, <4>2 DEF Answered, Concluded
    <3>2. CASE pc[c] = "echo"
      <4>1. got' = [got EXCEPT ![c] = [ir EXCEPT !.status = got[c].status]] /\ pc'[c] = "idle"
        BY <1>0, <1>12, <3>2 DEF ReadOutcome, Goes
      <4>2. got[c].status = ir.status
        BY <2>2, <3>2 DEF AloneInv, Answered
      <4>3. [ir EXCEPT !.status = got[c].status] = ir
        BY <4>2 DEF TypeOK
      <4>4. got'[c] = Outcome(want[c])
        BY <2>2, <4>1, <4>3 DEF TypeOK
      <4> QED BY <2>1, <4>1, <4>4 DEF Answered, Concluded
    <3> QED BY <2>1, <3>1, <3>2
  <2> QED BY <2>1, <2>3 DEF AloneInv, Written, ReadBack, Agree, Executed, Last
<1>13. Client = {c}
  BY DEF Alone
<1> QED BY <1>1, <1>2, <1>3, <1>4, <1>5, <1>6, <1>7, <1>8, <1>9, <1>10, <1>11, <1>12, <1>13
        DEF Next, Bridge, Follow

LEMMA AloneCorrect ==
  ASSUME NEW c \in Client, Alone(c)
  PROVE  Spec => [](TypeOK /\ Echoing /\ AloneInv(c))
<1>1. Init => TypeOK /\ Echoing /\ AloneInv(c)
  <2> SUFFICES ASSUME Init PROVE TypeOK /\ Echoing /\ AloneInv(c)
    OBVIOUS
  <2>1. pc[c] = "idle" /\ want[c] = NoCommand /\ log = <<>> /\ issued = <<>>
    BY DEF Init
  <2>2. Echoing
    BY DEF Init, Echoing, Executed, Published
  <2>3. AloneInv(c)
    BY <2>1 DEF Init, AloneInv, Written, ReadBack, Agree, Answered, Concluded, Late, BridgeStep
  <2>4. TypeOK
    BY InitTyped
  <2> QED BY <2>2, <2>3, <2>4
<1>2. TypeOK /\ Echoing /\ AloneInv(c) /\ [Next]_vars => (TypeOK /\ Echoing /\ AloneInv(c))'
  BY TypeStep, EchoStep, AloneStep
<1> QED BY <1>1, <1>2, PTL DEF Spec

(* One client that waits for the coil reads back the outcome of its own      *)
(* command, never that of an earlier one.                                    *)
THEOREM StatusAlwaysOwn ==
  ASSUME NEW c \in Client, Alone(c)
  PROVE  Spec => []StatusIsOwn
<1>1. AloneInv(c) => StatusIsOwn
  BY DEF Alone, AloneInv, Answered, StatusIsOwn
<1> QED BY <1>1, AloneCorrect, PTL

(* Its commands are executed as written, once each and in order.             *)
THEOREM AlwaysServedInOrder ==
  ASSUME NEW c \in Client, Alone(c)
  PROVE  Spec => []ServedInOrder
<1>1. TypeOK /\ AloneInv(c) => ServedInOrder
  <2> SUFFICES ASSUME TypeOK, AloneInv(c) PROVE ServedInOrder
    OBVIOUS
  <2>1. Len(log) \in Nat /\ Len(issued) \in Nat /\ DOMAIN log = 1 .. Len(log)
    BY DEF TypeOK
  <2>2. \A i \in DOMAIN log : i <= Len(issued) /\ log[i] = issued[i]
    BY <2>1 DEF AloneInv, Agree
  <2>3. \A d \in Client : Concluded(d) => Len(log) = Len(issued)
    <3>1. pc[c] = "idle" => ~coil
      BY DEF AloneInv
    <3>2. ~coil => Len(log) = Len(issued)
      BY <2>1 DEF AloneInv, Agree
    <3> QED BY <3>1, <3>2 DEF Alone, Concluded
  <2> QED BY <2>2, <2>3 DEF ServedInOrder
<1> QED BY <1>1, AloneCorrect, PTL

-----------------------------------------------------------------------------
(* The service speaks of the same commands and outcomes as the mailbox.       *)
LEMMA SameService ==
  /\ Service!Command = Command
  /\ \A w : Service!Outcome(w) = Outcome(w)
<1>1. Service!Target = Target /\ Service!Action = Action
  BY DEF Service!Target, Target, Service!Action, Action, Service!SensorTarget, SensorTarget,
     Service!ValveTarget, ValveTarget, Service!PumpTarget, PumpTarget,
     Service!pHTarget, pHTarget, Service!Amperometric, Amperometric, Service!Dpd, Dpd
<1>2. \A t, a : Service!Execute(t, a) = Execute(t, a)
  BY <1>1 DEF Service!Execute, Execute, Service!HasMethod, HasMethod, Service!Raises, Raises,
     Service!SensorTarget, SensorTarget,
     Service!ValveTarget, ValveTarget, Service!PumpTarget, PumpTarget,
     Service!pHTarget, pHTarget, Service!Amperometric, Amperometric, Service!Dpd, Dpd
<1> QED BY <1>1, <1>2 DEF Service!Command, Command, Service!Outcome, Outcome

(* A step of the mailbox is a step of the service or invisible to its user.  *)
LEMMA ServiceStep ==
  ASSUME NEW c \in Client, Alone(c), TypeOK, Echoing, AloneInv(c), AloneInv(c)', [Next]_vars
  PROVE  [Service!Next]_(Service!serviceVars)
<1> DEFINE Busy == pc[c] \in {"poll", "status", "echo"}
<1> USE DEF blockVars, bridgeVars, clientVars
<1>0. Caller = c
  BY DEF Alone, Caller
<1>1. /\ Len(log) \in Nat /\ Len(issued) \in Nat
      /\ pc \in [Client -> ClientStep \cup {"idle"}]
      /\ want \in [Client -> Commands \cup {NoCommand}]
  BY DEF TypeOK
<1>2. pc[c] # "idle" => want[c] \in Command /\ want[c] # NoCommand
  BY MailboxAssumption DEF TypeOK
<1> DEFINE Call     == IF Busy THEN want[c] ELSE NoCommand
           Served   == Busy /\ Len(log) = Len(issued)
           Returned == IF Concluded(c) THEN got[c] ELSE NoOutcome
<1>3. ASSUME UNCHANGED <<pc, want, got, log, issued>>
      PROVE  UNCHANGED Service!serviceVars
  BY <1>3 DEF Service!serviceVars, Concluded, Caller
<1>4. CASE BeginPoll \/ ReadCommand \/ WritePending \/ PublishResult \/ ClearTrigger
           \/ StopServing \/ UNCHANGED vars
  BY <1>3, <1>4 DEF BeginPoll, ReadCommand, WritePending, PublishResult, ClearTrigger,
     StopServing, vars
<1>5. CASE Dispatch
  <2>1. poll = "execute" /\ log' = Append(log, command) /\ UNCHANGED <<pc, want, got, issued>>
    BY <1>5 DEF Dispatch, At
  <2>2. Len(issued) = Len(log) + 1 /\ Busy
    BY <2>1, ExecutesWanted DEF AloneInv
  <2>3. Len(log') = Len(log) + 1
    BY <2>1 DEF TypeOK
  <2>4. Service!Serve
    BY <1>0, <1>1, <1>2, <2>1, <2>2, <2>3 DEF Service!Serve, Concluded
  <2> QED BY <2>4 DEF Service!Next
<1>6. CASE ChooseCommand(c)
  <2>1. pc[c] = "idle" /\ pc'[c] = "target"
    BY <1>1, <1>6 DEF ChooseCommand, Goes
  <2>2. Service!Prepare
    BY <1>0, <2>1 DEF Service!Prepare, Concluded
  <2> QED BY <2>2 DEF Service!Next
<1>7. CASE WriteCommand(c)
  <2>1. pc[c] \in {"target", "action", "param"} /\ pc'[c] \in {"action", "param", "trigger"}
    BY <1>1, <1>7 DEF WriteCommand, Goes
  <2>2. UNCHANGED Service!serviceVars
    BY <1>0, <2>1 DEF Service!serviceVars, Concluded
  <2> QED BY <2>2
<1>8. CASE WriteTrigger(c)
  <2>1. pc[c] = "trigger" /\ pc'[c] = "poll" /\ UNCHANGED <<want, got, log>>
        /\ issued' = Append(issued, want[c])
    BY <1>1, <1>8 DEF WriteTrigger, Goes
  <2>2. ~coil
    BY <2>1 DEF AloneInv
  <2>3. Len(issued) = Len(log)
    BY <2>2 DEF AloneInv, Agree
  <2>4. want[c] \in Commands /\ issued \in Seq(Commands)
    BY <2>1 DEF TypeOK
  <2>5. Len(issued') = Len(issued) + 1
    BY <2>1, <2>4, Appended
  <2>6. Len(log') # Len(issued')
    BY <1>1, <2>1, <2>3, <2>5
  <2>7. want[c] \in Service!Command
    BY <2>4, MailboxAssumption, SameService
  <2>8. Service!Trigger
    BY <1>0, <2>1, <2>6, <2>7 DEF Service!Trigger, Concluded
  <2> QED BY <2>8 DEF Service!Next
<1>9. CASE PollCompleted(c)
  <2>1. pc[c] = "poll" /\ pc'[c] = "status" /\ UNCHANGED <<want, got, log, issued>>
    BY <1>1, <1>9 DEF PollCompleted, Goes
  <2>2. UNCHANGED Service!serviceVars
    BY <1>0, <2>1 DEF Service!serviceVars, Concluded
  <2> QED BY <2>2
<1>10. CASE ReadOutcome(c)
  <2>1. UNCHANGED <<want, log, issued, coil>> /\ pc[c] \in {"status", "echo"}
        /\ pc'[c] = IF pc[c] = "status" THEN "echo" ELSE "idle"
    BY <1>1, <1>10 DEF ReadOutcome, Goes
  <2>2. CASE pc[c] = "status"
    <3>1. UNCHANGED Service!serviceVars
      BY <1>0, <2>1, <2>2 DEF Service!serviceVars, Concluded
    <3> QED BY <3>1
  <2>3. CASE pc[c] = "echo"
    <3>1. ~coil /\ Len(log) = Len(issued)
      BY <2>3 DEF AloneInv, Agree
    <3>2. Concluded(c)' /\ got'[c] = Outcome(want[c])
      BY <1>2, <2>1, <2>3 DEF AloneInv, Answered, Concluded, Outcome
    <3>3. Service!Return
      BY <1>0, <2>1, <2>3, <3>1, <3>2, SameService DEF Service!Return, Concluded
    <3> QED BY <3>3 DEF Service!Next
  <2> QED BY <2>1, <2>2, <2>3
<1>11. Client = {c}
  BY DEF Alone
<1> QED BY <1>4, <1>5, <1>6, <1>7, <1>8, <1>9, <1>10, <1>11 DEF Next, Bridge, Follow

(* For one client that waits for the coil, the mailbox implements the        *)
(* service: its fifteen register accesses are one atomic answer.             *)
THEOREM Refinement ==
  ASSUME NEW c \in Client, Alone(c)
  PROVE  Spec => ServesAtomically
<1>1. Init => Service!Init
  <2>1. Caller = c
    BY DEF Alone, Caller
  <2> QED BY <2>1 DEF Init, Service!Init, Concluded
<1>2. TypeOK /\ Echoing /\ AloneInv(c) /\ AloneInv(c)' /\ [Next]_vars
        => [Service!Next]_(Service!serviceVars)
  BY ServiceStep
<1> QED BY <1>1, <1>2, AloneCorrect, PTL DEF Spec, ServesAtomically, Service!Spec
=============================================================================
