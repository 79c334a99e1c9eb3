------------------------------ MODULE PcsControl ------------------------------
(***************************************************************************)
(* The operator intent the Rust runtime keeps and the pure function that    *)
(* turns it into final PCS outputs (runtime/src/control.rs and commands.rs). *)
(*                                                                          *)
(* Engineering values are abstracted to levels 0 .. TopLevel.  Level 0 of a  *)
(* dosing flow is exactly 0.0; level 0 of the inlet flow is any value below  *)
(* the 0.1 L/min at which control.rs takes the inlet for closed.  TopLevel   *)
(* is the upper bound commands.rs accepts, so TopLevel + 1 is out of range.  *)
(***************************************************************************)
EXTENDS Naturals

CONSTANT TopLevel   \* the highest level commands.rs accepts for any command

ASSUME TopLevelAssumption == TopLevel \in Nat \ {0}

Level == 0 .. TopLevel

DosingId  == {"acid-flow", "chlorine-flow"}
NumericId == DosingId \cup {"inlet-flow", "acid-concentration",
                            "chlorine-concentration"}
CoilId    == {"acid-pump-enable", "chlorine-pump-enable", "simulation-running"}

OperatorState == [numeric : [NumericId -> Level], binary : [CoilId -> BOOLEAN]]

(* OperatorState::default: acid 0.0, everything else in service. *)
DefaultOperator ==
  [numeric |-> [id \in NumericId |-> IF id = "acid-flow" THEN 0 ELSE 1],
   binary  |-> [id \in CoilId |-> TRUE]]

-----------------------------------------------------------------------------
(* NumericCommand::from_id and validate: the command is accepted only when   *)
(* its id is known and its value lies within the bounds.                     *)
AcceptsNumeric(id, value) == id \in NumericId /\ value \in Level

(* BinaryCommandKind::from_id. *)
AcceptsBinary(id) == id \in CoilId

WriteNumeric(op, id, value) == [op EXCEPT !.numeric[id] = value]
WriteBinary(op, id, enabled) == [op EXCEPT !.binary[id] = enabled]

-----------------------------------------------------------------------------
(* The outputs handed to the worker, and whether an interlock withheld dose. *)
Control == [numeric   : [NumericId -> Level],
            binary    : [CoilId -> BOOLEAN],
            interlock : BOOLEAN]

PumpOf(dose) == IF dose = "acid-flow" THEN "acid-pump-enable"
                                      ELSE "chlorine-pump-enable"

(* The two pump-enable tests of evaluate, in the order of the code. *)
EnabledFlow(op, dose) == IF op.binary[PumpOf(dose)] THEN op.numeric[dose] ELSE 0

(* Mutant: only the acid flow is looked at. *)
InletInterlockAcidOnly(op) ==
  op.numeric["inlet-flow"] = 0 /\ EnabledFlow(op, "acid-flow") > 0

(* The third test: the inlet is closed while some dose is still requested.   *)
InletInterlock(op) ==
  op.numeric["inlet-flow"] = 0 /\ \E dose \in DosingId : EnabledFlow(op, dose) > 0

(* OperatorState::evaluate. *)
Evaluate(op) ==
  [numeric   |-> [id \in NumericId |->
                    IF id \notin DosingId THEN op.numeric[id]
                    ELSE IF InletInterlock(op) THEN 0
                    ELSE EnabledFlow(op, id)],
   binary    |-> op.binary,
   interlock |-> \/ \E dose \in DosingId : ~op.binary[PumpOf(dose)]
                 \/ InletInterlock(op)]

-----------------------------------------------------------------------------
(* What the interlocks promise of one set of outputs: a disabled pump is told *)
(* to stop, and nothing is dosed into a closed inlet.                        *)
Interlocked(c) ==
  /\ \A dose \in DosingId : ~c.binary[PumpOf(dose)] => c.numeric[dose] = 0
  /\ c.numeric["inlet-flow"] = 0 => \A dose \in DosingId : c.numeric[dose] = 0
=============================================================================
