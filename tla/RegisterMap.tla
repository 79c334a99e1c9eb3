----------------------------- MODULE RegisterMap -----------------------------
(***************************************************************************)
(* The register map of the stand-alone simulator (modbus/register_*.py) and  *)
(* the codecs its slave uses (modbus/protocols.py).  What a value is does not *)
(* matter here: a word remembers the value it was encoded from and which part *)
(* of it the word is.                                                        *)
(***************************************************************************)
EXTENDS Integers, Sequences

MaxAddress == 65535

Float32 == "float32"
UInt16  == "uint16"
Bool    == "bool"

Register(address, name, data) == [address |-> address, name |-> name, data |-> data]

InputRegisters ==
  { Register(0,  "pH_inlet", Float32),          Register(2,  "pH_middle", Float32),
    Register(4,  "pH_outlet", Float32),         Register(6,  "chlorine_inlet", Float32),
    Register(8,  "chlorine_outlet", Float32),   Register(10, "flow_rate", Float32),
    Register(12, "temperature_inlet", Float32), Register(14, "temperature_outlet", Float32),
    Register(100, "simulation_time", Float32),  Register(102, "system_status", UInt16),
    Register(110, "maintenance_status_code", UInt16),
    Register(111, "maintenance_last_target", UInt16),
    Register(112, "maintenance_last_action", UInt16) }

HoldingRegisters ==
  { Register(0,  "acid_flow_rate", Float32),     Register(2,  "chlorine_flow_rate", Float32),
    Register(4,  "inlet_flow_rate", Float32),    Register(10, "acid_concentration", Float32),
    Register(12, "chlorine_concentration", Float32),
    Register(100, "simulation_timestep", Float32),
    Register(200, "maintenance_target_id", UInt16),
    Register(201, "maintenance_action_code", UInt16),
    Register(202, "maintenance_param", Float32) }

Coils ==
  { Register(0, "acid_pump_enable", Bool),   Register(1, "chlorine_pump_enable", Bool),
    Register(2, "simulation_running", Bool), Register(10, "maintenance_trigger", Bool) }

DiscreteInputs ==
  { Register(0, "sensor_fault_pH_inlet", Bool), Register(1, "sensor_fault_pH_outlet", Bool),
    Register(2, "sensor_fault_chlorine", Bool) }

Tables == {InputRegisters, HoldingRegisters, Coils, DiscreteInputs}

(* RegisterDefinition.size_words.                                            *)
SizeWords(r) == IF r.data = Float32 THEN 2 ELSE 1

Words(r) == r.address .. r.address + SizeWords(r) - 1

(* RegisterDefinition.validate and _check_address_conflicts, which refuse to  *)
(* build a map: TLC evaluates the assumption on the map that ships.          *)
Valid(r) == r.address \in 0 .. MaxAddress /\ r.data \in {Float32, UInt16, Bool}

NoConflict(table) ==
  \A q, r \in table : q # r => Words(q) \cap Words(r) = {}

ASSUME MapAssumption ==
  \A table \in Tables : NoConflict(table) /\ \A r \in table : Valid(r)

(* get_register_by_name: names are unique across the tables.                 *)
ByName(table, name) == CHOOSE r \in table : r.name = name

-----------------------------------------------------------------------------
(* float32_to_registers: high word first, at consecutive addresses.          *)
Float32ToRegisters(v) == <<[of |-> v, part |-> "high"], [of |-> v, part |-> "low"]>>
UInt16ToRegister(v)   == <<[of |-> v, part |-> "whole"]>>

Encoded(r, v) == IF r.data = Float32 THEN Float32ToRegisters(v) ELSE UInt16ToRegister(v)

(* A data block, restricted to the addresses the table uses; ModbusSlave      *)
(* writes the words of a value by one setValues, so a request sees all of     *)
(* them or none.  Wire addresses are one higher, which the server undoes.    *)
Block(table, v) ==
  [a \in UNION {Words(r) : r \in table} |-> [of |-> v, part |-> "blank"]]

Stored(block, r, v) ==
  [a \in DOMAIN block |->
     IF a - r.address \in 0 .. SizeWords(r) - 1
     THEN Encoded(r, v)[a - r.address + 1] ELSE block[a]]

(* What a client that knows the map reads: the value whose words, all of      *)
(* them and in order, are at the register's addresses.                       *)
Holds(block, r, v) ==
  \A i \in 0 .. Len(Encoded(r, v)) - 1 : block[r.address + i] = Encoded(r, v)[i + 1]
=============================================================================
