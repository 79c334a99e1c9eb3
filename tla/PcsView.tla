------------------------------- MODULE PcsView -------------------------------
(***************************************************************************)
(* What the runtime promises a reader of /api/snapshot or of the Modbus      *)
(* registers, without mutex, pipe or worker: there is one operator intent;   *)
(* what is published about the process is, at the moment it is published,    *)
(* the outcome of that very intent; and a failure is flagged while the last  *)
(* published outcome stays up.                                              *)
(***************************************************************************)
EXTENDS PcsControl

CONSTANT NoProcess     \* nothing published yet

VARIABLES
  intent,      \* the operators' intent
  published,   \* the outputs the published process ran with, or NoProcess
  fault        \* did the last attempt to publish fail?

absVars == <<intent, published, fault>>

Init ==
  /\ intent = DefaultOperator
  /\ published = NoProcess
  /\ fault = FALSE

(* One accepted command changes one value of the intent. *)
Accept ==
  /\ \/ \E id \in NumericId, value \in Level : intent' = WriteNumeric(intent, id, value)
     \/ \E id \in CoilId, enabled \in BOOLEAN : intent' = WriteBinary(intent, id, enabled)
  /\ UNCHANGED <<published, fault>>

Publish ==
  /\ published' = Evaluate(intent)
  /\ fault' = FALSE
  /\ UNCHANGED intent

Fail ==
  /\ fault' = TRUE
  /\ UNCHANGED <<intent, published>>

Next == Accept \/ Publish \/ Fail

Spec == Init /\ [][Next]_absVars
=============================================================================
