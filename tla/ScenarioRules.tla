---------------------------- MODULE ScenarioRules ----------------------------
(***************************************************************************)
(* Which scenarios the loader accepts (scenarios/validator.py, loader.py) and *)
(* which requests the executor refuses to send (scenarios/executor.py).       *)
(* A transaction is a record [actor, server, ts, fc, op, quantity, wire]: op   *)
(* is the function code the name of its operation stands for, wire the        *)
(* sequence of its wire values.                                             *)
(***************************************************************************)
EXTENDS Integers, Sequences, FiniteSets

CONSTANTS
  NodeOrder,  \* the nodes of the scenario in alphabetical order
  Observers,  \* those whose role says passive or observer
  MaxWord     \* 65535

Network == {NodeOrder[i] : i \in 1 .. Len(NodeOrder)}

ASSUME RulesAssumption == Observers \subseteq Network /\ MaxWord \in Nat \ {0}

(* A transaction the loader could read; a field of another type is refused there. *)
Transaction ==
  [actor : STRING, server : STRING, ts : Int, fc : Int, op : Int, quantity : Int,
   wire : Seq(Int)]

SupportedCodes == {3, 4, 5, 6, 16}
WriteCodes     == {5, 6, 16}

(* Mutant: the number of wire values of a block write is not compared.        *)
WireFitsAnyLength(t) ==
  /\ t.fc \in {3, 4} => t.wire = <<>>
  /\ t.fc = 5 => Len(t.wire) = 1 /\ t.wire[1] \in {0, 1}
  /\ \A i \in 1 .. Len(t.wire) : t.wire[i] \in 0 .. MaxWord

WireFits(t) ==
  /\ t.fc \in {3, 4} => t.wire = <<>>
  /\ t.fc = 5 => Len(t.wire) = 1 /\ t.wire[1] \in {0, 1}
  /\ t.fc = 6 => Len(t.wire) = 1
  /\ t.fc = 16 => Len(t.wire) = t.quantity
  /\ \A i \in 1 .. Len(t.wire) : t.wire[i] \in 0 .. MaxWord

TransactionFits(t) ==
  /\ t.actor \in Network /\ t.server \in Network /\ t.actor # t.server
  /\ t.actor \notin Observers /\ t.server \notin Observers
  /\ t.fc \in SupportedCodes
  /\ t.op = t.fc
  /\ t.quantity > 0
  /\ WireFits(t)

TimesFit(scenario) ==
  \A i \in 1 .. Len(scenario) :
    /\ scenario[i].ts >= 0
    /\ i > 1 => scenario[i].ts >= scenario[i - 1].ts

(* validate_scenario returns no error.                                      *)
Accepted(scenario) ==
  /\ scenario # <<>>
  /\ \A i \in 1 .. Len(scenario) : TransactionFits(scenario[i])
  /\ TimesFit(scenario)

----------------------------------------------------------------------------
(* execute_transaction raises ValueError before anything is sent.             *)
RefusedToSend(t) ==
  \/ t.fc \notin SupportedCodes
  \/ t.fc \in {6, 16} /\ t.wire = <<>>

(* A request of a code a server must answer, with what it writes: a coil write  *)
(* without a wire value sets the coil.                                       *)
Written(t) ==
  CASE t.fc = 5  -> IF t.wire = <<>> THEN <<1>> ELSE <<IF t.wire[1] = 0 THEN 0 ELSE 1>>
    [] t.fc = 6  -> <<t.wire[1]>>
    [] t.fc = 16 -> t.wire
    [] OTHER     -> <<>>
=============================================================================
