---------------------------- MODULE PlantScan_proofs ----------------------------
(***************************************************************************)
(* Machine-checked facts about PlantScan, for any sensors, warm-ups, sample       *)
(* lines and number of scans, faults and services.  At any moment a client may    *)
(* ask, the registers hold whole values of one scan, or of two while a scan is     *)
(* being written, and the time among them tells which.  A sample line delivers     *)
(* in order and, when it has room for both of its sensors, the water of exactly     *)
(* one transport delay ago.                                                    *)
(***************************************************************************)
EXTENDS PlantScan, FiniteSetTheorems, WellFoundedInduction, TLAPS

USE ScanAssumption

-----------------------------------------------------------------------------
(* The data blocks.  Writing one register leaves the words of every other, since    *)
(* the map has no conflicts.                                                  *)
Addresses(table) == UNION {Words(r) : r \in table}

LEMMA WordFacts ==
  ASSUME NEW table \in Tables, NEW r \in table
  PROVE  /\ r.address \in Nat /\ SizeWords(r) \in {1, 2} /\ r.address \in Words(r)
         /\ Words(r) \subseteq Addresses(table)
         /\ \A a \in Words(r) : a \in Nat /\ a - r.address \in 0 .. SizeWords(r) - 1
         /\ \A i \in 0 .. SizeWords(r) - 1 : r.address + i \in Words(r)
         /\ \A v : Len(Encoded(r, v)) = SizeWords(r)
         /\ \A v : \A i \in 1 .. SizeWords(r) : Encoded(r, v)[i].of = v
<1>1. Valid(r)
  BY MapAssumption
<1>2. r.address \in Nat /\ SizeWords(r) \in {1, 2}
  BY <1>1 DEF Valid, SizeWords
<1>3. /\ r.address \in Words(r) /\ \A i \in 0 .. SizeWords(r) - 1 : r.address + i \in Words(r)
      /\ \A a \in Words(r) : a \in Nat /\ a - r.address \in 0 .. SizeWords(r) - 1
  BY <1>2 DEF Words
<1>4. Words(r) \subseteq Addresses(table)
  BY DEF Addresses
<1>5. \A v : Len(Encoded(r, v)) = SizeWords(r)
  BY DEF Encoded, SizeWords, Float32ToRegisters, UInt16ToRegister
<1>6. \A v : \A i \in 1 .. SizeWords(r) : Encoded(r, v)[i].of = v
  BY DEF Encoded, SizeWords, Float32ToRegisters, UInt16ToRegister
<1> QED BY <1>2, <1>3, <1>4, <1>5, <1>6

LEMMA StoredFacts ==
  ASSUME NEW table \in Tables, NEW block, DOMAIN block = Addresses(table),
         NEW r \in table, NEW v
  PROVE  /\ DOMAIN Stored(block, r, v) = Addresses(table)
         /\ Holds(Stored(block, r, v), r, v)
         /\ \A q \in table : q # r => \A a \in Words(q) : Stored(block, r, v)[a] = block[a]
         /\ \A a \in Addresses(table) : \/ Stored(block, r, v)[a].of = v
                                       \/ Stored(block, r, v)[a] = block[a]
<1> DEFINE next == Stored(block, r, v)
<1>1. DOMAIN next = Addresses(table)
  BY DEF Stored
<1>2. \A a \in Addresses(table) :
        next[a] = IF a - r.address \in 0 .. SizeWords(r) - 1
                  THEN Encoded(r, v)[a - r.address + 1] ELSE block[a]
  BY DEF Stored
<1> HIDE DEF next
<1>3. Holds(next, r, v)
  <2> SUFFICES ASSUME NEW i \in 0 .. SizeWords(r) - 1
               PROVE  next[r.address + i] = Encoded(r, v)[i + 1]
    BY WordFacts DEF Holds
  <2>1. r.address + i \in Addresses(table) /\ r.address \in Nat /\ SizeWords(r) \in {1, 2}
    BY WordFacts
  <2>2. r.address + i - r.address = i
    BY <2>1
  <2> DEFINE a == r.address + i
  <2>3. a \in Addresses(table) /\ a - r.address = i
    BY <2>1, <2>2
  <2> HIDE DEF a
  <2>4. next[a] = Encoded(r, v)[i + 1]
    BY <1>2, <2>3
  <2> QED BY <2>4 DEF a
<1>4. ASSUME NEW q \in table, q # r, NEW a \in Words(q)
      PROVE  next[a] = block[a]
  <2>1. Words(q) \cap Words(r) = {}
    BY <1>4, MapAssumption DEF NoConflict
  <2>2. a \in Addresses(table) /\ a \in Nat /\ r.address \in Nat /\ SizeWords(r) \in {1, 2}
    BY WordFacts
  <2>3. a - r.address \notin 0 .. SizeWords(r) - 1
    BY <2>1, <2>2 DEF Words
  <2> QED BY <1>2, <2>2, <2>3
<1>5. ASSUME NEW a \in Addresses(table) PROVE next[a].of = v \/ next[a] = block[a]
  <2>1. CASE a - r.address \in 0 .. SizeWords(r) - 1
    <3> DEFINE i == a - r.address + 1
    <3>1. i \in 1 .. SizeWords(r)
      <4>1. a \in Nat
        BY WordFacts DEF Addresses
      <4>2. r.address \in Nat /\ SizeWords(r) \in {1, 2}
        BY WordFacts
      <4> QED BY <2>1, <4>1, <4>2
    <3>2. next[a] = Encoded(r, v)[i]
      BY <1>2, <2>1
    <3> HIDE DEF i
    <3> QED BY <3>1, <3>2, WordFacts
  <2>2. CASE a - r.address \notin 0 .. SizeWords(r) - 1
    BY <1>2, <2>2
  <2> QED BY <2>1, <2>2
<1> QED BY <1>1, <1>3, <1>4, <1>5 DEF next

LEMMA Named ==
  ASSUME NEW r \in InputRegisters
  PROVE  ByName(InputRegisters, r.name) = r
<1>1. \A p, q \in InputRegisters : p.name = q.name => p = q
  BY DEF InputRegisters, Register
<1> HIDE DEF InputRegisters
<1> QED BY <1>1 DEF ByName

(* A register of the image by its name: which one it is, and that it is its own.    *)
Value8 == {"pH_inlet", "pH_middle", "pH_outlet", "chlorine_inlet", "chlorine_outlet",
           "flow_rate", "temperature_inlet", "temperature_outlet"}

Input(name) == ByName(InputRegisters, name)

Told3 == {"maintenance_status_code", "maintenance_last_target", "maintenance_last_action"}

InputName == Value8 \cup Told3 \cup {"simulation_time", "system_status"}

LEMMA InputFacts ==
  ASSUME NEW name \in InputName
  PROVE  Input(name) \in InputRegisters /\ Input(name).name = name
<1>1. PICK r \in InputRegisters : r.name = name
  BY DEF InputRegisters, Register, InputName, Value8, Told3
<1> QED BY <1>1, Named DEF Input

LEMMA DigitalFacts ==
  ASSUME NEW name \in {"sensor_fault_pH_inlet", "sensor_fault_pH_outlet", "sensor_fault_chlorine"}
  PROVE  ByName(DiscreteInputs, name) \in DiscreteInputs
<1>1. \E r \in DiscreteInputs : r.name = name
  BY DEF DiscreteInputs, Register
<1> HIDE DEF DiscreteInputs
<1> QED BY <1>1 DEF ByName

(* The register of a name shows what, of scan, or has not been written yet.        *)
Ours(b, name, what, scan) ==
  \/ Holds(b, Input(name), [what |-> what, scan |-> scan, on |-> FALSE])
  \/ scan = -1 /\ b[Input(name).address].part = "blank"

LEMMA OthersKept ==
  ASSUME NEW b, DOMAIN b = Addresses(InputRegisters),
         NEW n \in InputName, NEW m \in InputName, n # m, NEW v
  PROVE  /\ \A what, scan : Ours(b, m, what, scan) => Ours(Stored(b, Input(n), v), m, what, scan)
         /\ Stored(b, Input(n), v)[Input(m).address] = b[Input(m).address]
<1>1. InputRegisters \in Tables
  BY DEF Tables
<1>2. Input(n) \in InputRegisters /\ Input(m) \in InputRegisters /\ Input(n) # Input(m)
  <2>1. Input(n).name = n /\ Input(m).name = m
    BY InputFacts
  <2> QED BY <2>1, InputFacts
<1> DEFINE next == Stored(b, Input(n), v)
           q == Input(m)
<1>3. \A a \in Words(q) : next[a] = b[a]
  BY <1>1, <1>2, StoredFacts
<1> HIDE DEF next
<1>4. /\ q.address \in Words(q) /\ \A i \in 0 .. SizeWords(q) - 1 : q.address + i \in Words(q)
      /\ \A w : Len(Encoded(q, w)) = SizeWords(q)
  BY <1>1, <1>2, WordFacts
<1>5. next[q.address] = b[q.address]
  BY <1>3, <1>4
<1>6. \A w : Holds(b, q, w) => Holds(next, q, w)
  BY <1>3, <1>4 DEF Holds
<1> HIDE DEF q
<1>7. \A what, scan : Ours(b, m, what, scan) => Ours(next, m, what, scan)
  BY <1>5, <1>6 DEF Ours, q
<1> QED BY <1>5, <1>7 DEF next, q

LEMMA JustWritten ==
  ASSUME NEW b, DOMAIN b = Addresses(InputRegisters), NEW n \in InputName, NEW v
  PROVE  /\ DOMAIN Stored(b, Input(n), v) = Addresses(InputRegisters)
         /\ Holds(Stored(b, Input(n), v), Input(n), v)
<1>1. InputRegisters \in Tables /\ Input(n) \in InputRegisters
  BY InputFacts DEF Tables
<1> QED BY <1>1, StoredFacts

-----------------------------------------------------------------------------
(* The order in which a scan is written: the values, then the time, then what is     *)
(* only true once the time is.                                                *)
LEMMA OrderFacts ==
  /\ Len(WriteOrder) = 13
  /\ \A j \in 1 .. 8 : \E name \in Value8 : WriteOrder[j] = Analog(name)
  /\ \A name \in Value8 : \E j \in 1 .. 8 : WriteOrder[j] = Analog(name)
  /\ WriteOrder[9] = Analog("simulation_time") /\ WriteOrder[10] = Analog("system_status")
  /\ \A j \in 11 .. 13 : \E name \in {"sensor_fault_pH_inlet", "sensor_fault_pH_outlet",
                                    "sensor_fault_chlorine"} : WriteOrder[j] = Digital(name)
  /\ DOMAIN Shown = Value8
<1>1. Len(WriteOrder) = 13
  BY DEF WriteOrder
<1>2. /\ WriteOrder[1] = Analog("pH_inlet") /\ WriteOrder[2] = Analog("pH_middle")
      /\ WriteOrder[3] = Analog("pH_outlet") /\ WriteOrder[4] = Analog("chlorine_inlet")
      /\ WriteOrder[5] = Analog("chlorine_outlet") /\ WriteOrder[6] = Analog("flow_rate")
      /\ WriteOrder[7] = Analog("temperature_inlet") /\ WriteOrder[8] = Analog("temperature_outlet")
      /\ WriteOrder[9] = Analog("simulation_time") /\ WriteOrder[10] = Analog("system_status")
      /\ WriteOrder[11] = Digital("sensor_fault_pH_inlet")
      /\ WriteOrder[12] = Digital("sensor_fault_pH_outlet")
      /\ WriteOrder[13] = Digital("sensor_fault_chlorine")
  BY DEF WriteOrder
<1>3. \A j \in 1 .. 8 : j \in {1, 2, 3, 4, 5, 6, 7, 8}
  OBVIOUS
<1>4. \A j \in 11 .. 13 : j \in {11, 12, 13}
  OBVIOUS
<1>5. DOMAIN Shown = Value8
  BY DEF Shown, Value8
<1> HIDE DEF WriteOrder, Analog, Digital
<1>6. \A j \in 1 .. 8 : \E name \in Value8 : WriteOrder[j] = Analog(name)
  BY <1>2, <1>3 DEF Value8
<1>7. \A name \in Value8 : \E j \in 1 .. 8 : WriteOrder[j] = Analog(name)
  <2>1. 1 \in 1 .. 8 /\ 2 \in 1 .. 8 /\ 3 \in 1 .. 8 /\ 4 \in 1 .. 8 /\ 5 \in 1 .. 8
        /\ 6 \in 1 .. 8 /\ 7 \in 1 .. 8 /\ 8 \in 1 .. 8
    OBVIOUS
  <2> QED BY <1>2, <2>1 DEF Value8
<1>8. \A j \in 11 .. 13 : \E name \in {"sensor_fault_pH_inlet", "sensor_fault_pH_outlet",
                                     "sensor_fault_chlorine"} : WriteOrder[j] = Digital(name)
  BY <1>2, <1>4
<1> QED BY <1>1, <1>2, <1>5, <1>6, <1>7, <1>8

LEMMA ValueFacts ==
  /\ \A name \in Value8 : \E what \in {"zero", Shown[name]} :
       ValueOf(name) = [what |-> what, scan |-> now, on |-> FALSE]
  /\ ValueOf("simulation_time") = [what |-> "time", scan |-> now, on |-> FALSE]
  /\ ValueOf("system_status").scan = now
  /\ \A name \in {"sensor_fault_pH_inlet", "sensor_fault_pH_outlet", "sensor_fault_chlorine"} :
       ValueOf(name).scan = now
<1>1. \A name \in Value8 : ValueOf(name) = SafeValue(Shown[name])
  <2>1. ASSUME NEW name \in Value8
        PROVE  name \notin {"simulation_time", "system_status", "sensor_fault_pH_inlet",
                            "sensor_fault_pH_outlet", "sensor_fault_chlorine"}
    BY DEF Value8
  <2> QED BY <2>1, OrderFacts DEF ValueOf
<1>2. \A s : \E what \in {"zero", s} : SafeValue(s) = [what |-> what, scan |-> now, on |-> FALSE]
  BY DEF SafeValue
<1>3. \A name \in {"simulation_time", "system_status", "sensor_fault_pH_inlet",
                   "sensor_fault_pH_outlet", "sensor_fault_chlorine"} : name \notin DOMAIN Shown
  BY OrderFacts DEF Value8
<1>4. ValueOf("simulation_time") = [what |-> "time", scan |-> now, on |-> FALSE]
  BY <1>3 DEF ValueOf, TheTime, Flag
<1>5. \A name \in {"system_status", "sensor_fault_pH_inlet", "sensor_fault_pH_outlet",
                   "sensor_fault_chlorine"} : \E on : ValueOf(name) = Flag(name, on)
  BY <1>3 DEF ValueOf
<1> QED BY <1>1, <1>2, <1>4, <1>5 DEF Flag

-----------------------------------------------------------------------------
(* The invariant.  While a scan is written, the values before the next one are of    *)
(* that scan and the others of the stamp; and once the time has been written, the    *)
(* stamp is that scan, so that nothing written after it is ahead of it.         *)
Fresh(name) ==
  phase.at = "publish" /\ \E j \in 1 .. phase.next - 1 : WriteOrder[j] = Analog(name)

StatusScan == ir[Input("system_status").address].of.scan

Stamped(stamp) ==
  /\ phase.at = "publish" /\ phase.next > 9 => stamp = now
  /\ Ours(ir, "simulation_time", "time", stamp)
  /\ \A name \in Value8 : \E what \in {"zero", Shown[name]} :
       Ours(ir, name, what, IF Fresh(name) THEN now ELSE stamp)
  /\ StatusScan \in -1 .. stamp
  /\ \A a \in DOMAIN di : di[a].of.scan \in -1 .. stamp

ImageInv ==
  /\ now \in Nat
  /\ phase \in [at : {"read", "publish", "serve"}, next : 1 .. 13]
  /\ DOMAIN ir = Addresses(InputRegisters) /\ DOMAIN di = Addresses(DiscreteInputs)
  /\ \E stamp \in -1 .. now : Stamped(stamp)

LEMMA ImageMeans == ImageInv => StampTellsAge
<1> SUFFICES ASSUME ImageInv PROVE StampTellsAge
  OBVIOUS
<1>1. PICK stamp \in -1 .. now : Stamped(stamp)
  BY DEF ImageInv
<1>2. now \in Nat
  BY DEF ImageInv
<1>3. \/ Holds(ir, ByName(InputRegisters, "simulation_time"),
               [what |-> "time", scan |-> stamp, on |-> FALSE])
      \/ stamp = -1 /\ ir[ByName(InputRegisters, "simulation_time").address].part = "blank"
  BY <1>1 DEF Stamped, Ours, Input
<1>4. ASSUME NEW r \in DOMAIN Shown
      PROVE  \E scan \in {stamp, now} : \E what \in {"zero", Shown[r]} :
               /\ \/ Holds(ir, ByName(InputRegisters, r), [what |-> what, scan |-> scan, on |-> FALSE])
                  \/ scan = -1 /\ ir[ByName(InputRegisters, r).address].part = "blank"
               /\ scan > stamp => phase.at = "publish"
  <2> DEFINE scan == IF Fresh(r) THEN now ELSE stamp
  <2>1. PICK what \in {"zero", Shown[r]} : Ours(ir, r, what, scan)
    BY <1>1, OrderFacts DEF Stamped
  <2>2. scan \in {stamp, now} /\ (scan > stamp => phase.at = "publish")
    BY <1>1, <1>2 DEF Fresh
  <2> HIDE DEF scan
  <2>3. \/ Holds(ir, ByName(InputRegisters, r), [what |-> what, scan |-> scan, on |-> FALSE])
        \/ scan = -1 /\ ir[ByName(InputRegisters, r).address].part = "blank"
    BY <2>1 DEF Ours, Input
  <2> QED BY <2>2, <2>3
<1>5. ir[ByName(InputRegisters, "system_status").address].of.scan <= stamp
  BY <1>1, <1>2 DEF Stamped, StatusScan, Input
<1>6. \A a \in DOMAIN di : di[a].of.scan <= stamp
  BY <1>1, <1>2 DEF Stamped
<1> QED BY <1>3, <1>4, <1>5, <1>6 DEF StampTellsAge

LEMMA ImageStarts == Init => ImageInv
<1> SUFFICES ASSUME Init PROVE ImageInv
  OBVIOUS
<1>1. \A table \in {InputRegisters, DiscreteInputs} :
        /\ DOMAIN Block(table, Unread) = Addresses(table)
        /\ \A a \in Addresses(table) : Block(table, Unread)[a] = [of |-> Unread, part |-> "blank"]
  BY DEF Block, Addresses
<1>2. \A name \in InputName : Input(name).address \in Addresses(InputRegisters)
  BY InputFacts, WordFacts DEF Tables
<1>3. Stamped(-1)
  <2>1. \A name \in InputName : \A what : Ours(ir, name, what, -1)
    BY <1>1, <1>2 DEF Init, Ours
  <2>2. \A name \in Value8 : ~Fresh(name)
    BY DEF Init, Fresh
  <2>3. StatusScan = -1 /\ \A a \in DOMAIN di : di[a].of.scan = -1
    BY <1>1, <1>2 DEF Init, StatusScan, Unread, InputName
  <2>4. phase.at = "read"
    BY DEF Init
  <2> QED BY <2>1, <2>2, <2>3, <2>4 DEF Stamped, InputName
<1>4. DOMAIN ir = Addresses(InputRegisters) /\ DOMAIN di = Addresses(DiscreteInputs)
  BY <1>1 DEF Init
<1> QED BY <1>3, <1>4 DEF Init, ImageInv

(* A value is written: it is now of this scan, and the others are what they were.    *)
LEMMA ValueWritten ==
  ASSUME ImageInv, NEW stamp \in -1 .. now, Stamped(stamp), phase.at = "publish",
         phase.next \in 1 .. 8, Publish
  PROVE  ImageInv'
<1>1. PICK n \in Value8 : WriteOrder[phase.next] = Analog(n)
  BY OrderFacts
<1>2. /\ ir' = Stored(ir, Input(n), ValueOf(n)) /\ di' = di /\ now' = now
      /\ phase' = [phase EXCEPT !.next = phase.next + 1]
  BY <1>1, OrderFacts DEF Publish, UpdateInputRegister, Analog, Input
<1>3. /\ phase'.at = "publish" /\ phase'.next = phase.next + 1
      /\ phase' \in [at : {"read", "publish", "serve"}, next : 1 .. 13]
  BY <1>2 DEF ImageInv
<1>4. \A m \in Value8 : Fresh(m)' <=> Fresh(m) \/ m = n
  <2> TAKE m \in Value8
  <2>1. Fresh(m)' <=> \E j \in 1 .. phase.next : WriteOrder[j] = Analog(m)
    BY <1>3 DEF Fresh
  <2>2. WriteOrder[phase.next] = Analog(m) <=> m = n
    BY <1>1 DEF Analog
  <2>3. \A j \in 1 .. phase.next : j \in 1 .. phase.next - 1 \/ j = phase.next
    OBVIOUS
  <2> QED BY <2>1, <2>2, <2>3 DEF Fresh
<1>5. DOMAIN ir = Addresses(InputRegisters) /\ n \in InputName
  BY DEF ImageInv, InputName
<1>6. \A m \in InputName : m # n =>
        /\ \A what, scan : Ours(ir, m, what, scan) => Ours(ir', m, what, scan)
        /\ ir'[Input(m).address] = ir[Input(m).address]
  BY <1>2, <1>5, OthersKept
<1>7. \E what \in {"zero", Shown[n]} : Ours(ir', n, what, now)
  BY <1>2, <1>5, JustWritten, ValueFacts DEF Ours
<1>8. Stamped(stamp)'
  <2>1. "simulation_time" \in InputName /\ "system_status" \in InputName /\ Value8 \subseteq InputName
        /\ "simulation_time" # n /\ "system_status" # n
    BY DEF InputName, Value8
  <2>2. Ours(ir', "simulation_time", "time", stamp)
    BY <1>6, <2>1 DEF Stamped
  <2>3. StatusScan' = StatusScan
    BY <1>6, <2>1 DEF StatusScan
  <2>4. ASSUME NEW m \in Value8
        PROVE  \E what \in {"zero", Shown[m]} : Ours(ir', m, what, IF Fresh(m)' THEN now' ELSE stamp)
    <3>1. CASE m = n
      BY <1>2, <1>4, <1>7, <3>1
    <3>2. CASE m # n
      <4>1. Fresh(m)' <=> Fresh(m)
        BY <1>4, <3>2
      <4> DEFINE scan == IF Fresh(m) THEN now ELSE stamp
      <4>2. PICK what \in {"zero", Shown[m]} : Ours(ir, m, what, scan)
        BY DEF Stamped
      <4>3. scan = IF Fresh(m)' THEN now' ELSE stamp
        BY <1>2, <4>1
      <4> HIDE DEF scan
      <4>4. Ours(ir', m, what, scan)
        BY <1>6, <2>1, <3>2, <4>2
      <4> QED BY <4>3, <4>4
    <3> QED BY <3>1, <3>2
  <2>5. ~(phase'.next > 9)
    BY <1>3
  <2> QED BY <1>2, <2>2, <2>3, <2>4, <2>5 DEF Stamped
<1>9. DOMAIN ir' = Addresses(InputRegisters)
  BY <1>2, <1>5, JustWritten
<1> QED BY <1>2, <1>3, <1>8, <1>9 DEF ImageInv

(* The time is written: the values are all of this scan, and so is the stamp now.    *)
LEMMA TimeWritten ==
  ASSUME ImageInv, NEW stamp \in -1 .. now, Stamped(stamp), phase.at = "publish",
         phase.next = 9, Publish
  PROVE  ImageInv'
<1>1. /\ ir' = Stored(ir, Input("simulation_time"), ValueOf("simulation_time"))
      /\ di' = di /\ now' = now /\ phase' = [phase EXCEPT !.next = phase.next + 1]
  BY OrderFacts DEF Publish, UpdateInputRegister, Analog, Input
<1>2. /\ phase'.at = "publish" /\ phase'.next = 10
      /\ phase' \in [at : {"read", "publish", "serve"}, next : 1 .. 13]
  BY <1>1 DEF ImageInv
<1>3. \A m \in Value8 : Fresh(m) /\ Fresh(m)'
  <2> TAKE m \in Value8
  <2>1. PICK j \in 1 .. 8 : WriteOrder[j] = Analog(m)
    BY OrderFacts
  <2>2. j \in 1 .. phase.next - 1 /\ j \in 1 .. phase'.next - 1
    BY <1>2
  <2> QED BY <1>2, <2>1, <2>2 DEF Fresh
<1>4. DOMAIN ir = Addresses(InputRegisters) /\ "simulation_time" \in InputName
  BY DEF ImageInv, InputName
<1>5. \A m \in InputName : m # "simulation_time" =>
        /\ \A what, scan : Ours(ir, m, what, scan) => Ours(ir', m, what, scan)
        /\ ir'[Input(m).address] = ir[Input(m).address]
  BY <1>1, <1>4, OthersKept
<1>6. Ours(ir', "simulation_time", "time", now)
  BY <1>1, <1>4, JustWritten, ValueFacts DEF Ours
<1>7. "system_status" \in InputName /\ Value8 \subseteq InputName /\ "simulation_time" \notin Value8
  BY DEF InputName, Value8
<1>8. now \in Nat /\ now \in -1 .. now
  BY DEF ImageInv
<1>9. Stamped(now)'
  <2>1. ASSUME NEW m \in Value8
        PROVE  \E what \in {"zero", Shown[m]} : Ours(ir', m, what, now)
    <3>1. PICK what \in {"zero", Shown[m]} : Ours(ir, m, what, now)
      BY <1>3 DEF Stamped
    <3> QED BY <1>5, <1>7, <3>1
  <2>2. StatusScan' = StatusScan
    BY <1>5, <1>7 DEF StatusScan
  <2>3. StatusScan' \in -1 .. now'
    BY <1>1, <1>8, <2>2 DEF Stamped
  <2>4. \A a \in DOMAIN di' : di'[a].of.scan \in -1 .. now'
    BY <1>1, <1>8 DEF Stamped
  <2> QED BY <1>1, <1>3, <1>6, <2>1, <2>3, <2>4 DEF Stamped
<1>10. DOMAIN ir' = Addresses(InputRegisters)
  BY <1>1, <1>4, JustWritten
<1> QED BY <1>1, <1>2, <1>8, <1>9, <1>10 DEF ImageInv

(* After the time, what is written is of the stamp's scan.                       *)
LEMMA StatusWritten ==
  ASSUME ImageInv, NEW stamp \in -1 .. now, Stamped(stamp), phase.at = "publish",
         phase.next = 10, Publish
  PROVE  ImageInv'
<1>1. /\ ir' = Stored(ir, Input("system_status"), ValueOf("system_status"))
      /\ di' = di /\ now' = now /\ phase' = [phase EXCEPT !.next = phase.next + 1]
  BY OrderFacts DEF Publish, UpdateInputRegister, Analog, Input
<1>2. /\ phase'.at = "publish" /\ phase'.next = 11
      /\ phase' \in [at : {"read", "publish", "serve"}, next : 1 .. 13]
  BY <1>1 DEF ImageInv
<1>3. stamp = now /\ now \in Nat
  BY DEF Stamped, ImageInv
<1>4. DOMAIN ir = Addresses(InputRegisters) /\ "system_status" \in InputName
  BY DEF ImageInv, InputName
<1>5. \A m \in InputName : m # "system_status" =>
        \A what, scan : Ours(ir, m, what, scan) => Ours(ir', m, what, scan)
  BY <1>1, <1>4, OthersKept
<1>6. DOMAIN ir' = Addresses(InputRegisters)
  BY <1>1, <1>4, JustWritten
<1>7. Stamped(stamp)'
  <2>1. "simulation_time" \in InputName /\ Value8 \subseteq InputName
        /\ "system_status" \notin Value8
    BY DEF InputName, Value8
  <2>2. Ours(ir', "simulation_time", "time", stamp)
    BY <1>5, <2>1 DEF Stamped
  <2>3. ASSUME NEW m \in Value8
        PROVE  \E what \in {"zero", Shown[m]} : Ours(ir', m, what, now)
    <3>1. PICK what \in {"zero", Shown[m]} : Ours(ir, m, what, now)
      BY <1>3 DEF Stamped
    <3> QED BY <1>5, <2>1, <3>1
  <2>4. StatusScan' \in -1 .. stamp
    <3> DEFINE a == Input("system_status").address
    <3>1. InputRegisters \in Tables /\ Input("system_status") \in InputRegisters
      BY <1>4, InputFacts DEF Tables
    <3>2. a \in Addresses(InputRegisters)
      BY <3>1, WordFacts
    <3>3. ir'[a].of = ValueOf("system_status") \/ ir'[a] = ir[a]
      BY <1>1, <1>4, <3>1, <3>2, StoredFacts
    <3>4. StatusScan' = ir'[a].of.scan /\ StatusScan = ir[a].of.scan
      BY DEF StatusScan
    <3> HIDE DEF a
    <3>5. CASE ir'[a].of = ValueOf("system_status")
      BY <1>3, <3>4, <3>5, ValueFacts
    <3>6. CASE ir'[a] = ir[a]
      BY <3>4, <3>6 DEF Stamped
    <3> QED BY <3>3, <3>5, <3>6
  <2> QED BY <1>1, <1>3, <2>2, <2>3, <2>4 DEF Stamped
<1> QED BY <1>1, <1>2, <1>3, <1>6, <1>7 DEF ImageInv

LEMMA BitWritten ==
  ASSUME ImageInv, NEW stamp \in -1 .. now, Stamped(stamp), phase.at = "publish",
         phase.next \in 11 .. 13, Publish
  PROVE  ImageInv'
<1>1. PICK n \in {"sensor_fault_pH_inlet", "sensor_fault_pH_outlet", "sensor_fault_chlorine"} :
        WriteOrder[phase.next] = Digital(n)
  BY OrderFacts
<1> DEFINE r == ByName(DiscreteInputs, n)
           v == ValueOf(n)
<1>2. di' = Stored(di, r, v) /\ ir' = ir /\ now' = now
  BY <1>1 DEF Publish, UpdateDiscreteInput, Digital
<1>3. phase' \in [at : {"read", "publish", "serve"}, next : 1 .. 13]
  <2>1. phase' = IF phase.next < 13 THEN [phase EXCEPT !.next = phase.next + 1]
                 ELSE [at |-> "serve", next |-> 1]
    BY OrderFacts DEF Publish
  <2> QED BY <2>1 DEF ImageInv
<1>4. stamp = now /\ now \in Nat
  BY DEF Stamped, ImageInv
<1>5. DOMAIN di = Addresses(DiscreteInputs) /\ DiscreteInputs \in Tables /\ r \in DiscreteInputs
  BY DigitalFacts DEF ImageInv, Tables
<1>6. v.scan = now
  BY ValueFacts
<1> HIDE DEF r, v
<1>7. /\ DOMAIN di' = Addresses(DiscreteInputs)
      /\ \A a \in Addresses(DiscreteInputs) : di'[a].of = v \/ di'[a] = di[a]
  BY <1>2, <1>5, StoredFacts
<1>8. \A a \in DOMAIN di' : di'[a].of.scan \in -1 .. stamp
  <2> TAKE a \in DOMAIN di'
  <2>1. a \in DOMAIN di
    BY <1>5, <1>7
  <2>2. CASE di'[a].of = v
    BY <1>4, <1>6, <2>2
  <2>3. CASE di'[a] = di[a]
    BY <2>1, <2>3 DEF Stamped
  <2> QED BY <1>5, <1>7, <2>1, <2>2, <2>3
<1>9. Stamped(stamp)'
  <2>1. \A m \in Value8 : \E what \in {"zero", Shown[m]} : Ours(ir, m, what, now)
    BY <1>4 DEF Stamped
  <2>2. Ours(ir, "simulation_time", "time", stamp) /\ StatusScan \in -1 .. stamp
    BY DEF Stamped
  <2>3. StatusScan' = StatusScan
    BY <1>2 DEF StatusScan
  <2> QED BY <1>2, <1>4, <1>8, <2>1, <2>2, <2>3 DEF Stamped
<1> QED BY <1>2, <1>3, <1>4, <1>5, <1>7, <1>9 DEF ImageInv

(* Between two scans the stamp stays: what else is written there, the report of a     *)
(* maintenance command, has registers of its own.                             *)
LEMMA BetweenScans ==
  ASSUME ImageInv, NEW stamp \in -1 .. now, Stamped(stamp), phase.at # "publish",
         phase' \in [at : {"read", "publish", "serve"}, next : {1}],
         now' \in {now, now + 1}, di' = di, DOMAIN ir' = DOMAIN ir,
         \A m \in InputName \ Told3 :
           /\ \A what, scan : Ours(ir, m, what, scan) => Ours(ir', m, what, scan)
           /\ ir'[Input(m).address] = ir[Input(m).address]
  PROVE  ImageInv'
<1>1. now \in Nat /\ now' \in Nat /\ stamp \in -1 .. now'
  BY DEF ImageInv
<1>2. \A m \in Value8 : ~Fresh(m) /\ ~Fresh(m)'
  <2>1. \A j : j \notin 1 .. 1 - 1
    BY SMT
  <2> QED BY <2>1 DEF Fresh
<1>3. {"simulation_time", "system_status"} \cup Value8 \subseteq InputName \ Told3
  BY DEF InputName, Value8, Told3
<1>4. ~(phase'.next > 9)
  OBVIOUS
<1>5. Stamped(stamp)'
  <2>1. Ours(ir', "simulation_time", "time", stamp)
    BY <1>3 DEF Stamped
  <2>2. ASSUME NEW m \in Value8
        PROVE  \E what \in {"zero", Shown[m]} : Ours(ir', m, what, stamp)
    <3>1. PICK what \in {"zero", Shown[m]} : Ours(ir, m, what, stamp)
      BY <1>2 DEF Stamped
    <3> QED BY <1>3, <3>1
  <2>3. StatusScan' = StatusScan
    BY <1>3 DEF StatusScan
  <2> QED BY <1>2, <1>4, <2>1, <2>2, <2>3 DEF Stamped
<1>6. phase' \in [at : {"read", "publish", "serve"}, next : 1 .. 13]
  OBVIOUS
<1> QED BY <1>1, <1>5, <1>6 DEF ImageInv

LEMMA ReportKeeps ==
  ASSUME DOMAIN ir = Addresses(InputRegisters), Report
  PROVE  /\ DOMAIN ir' = DOMAIN ir
         /\ \A m \in InputName \ Told3 :
              /\ \A what, scan : Ours(ir, m, what, scan) => Ours(ir', m, what, scan)
              /\ ir'[Input(m).address] = ir[Input(m).address]
<1> DEFINE Tell(b, n) == Stored(b, Input(n), Flag(n, TRUE))
           b1 == Tell(ir, "maintenance_status_code")
           b2 == Tell(b1, "maintenance_last_target")
<1>1. ir' = Tell(b2, "maintenance_last_action")
  BY DEF Report, Input
<1>2. \A n \in Told3 : n \in InputName
  BY DEF InputName
<1>3. ASSUME NEW b, DOMAIN b = Addresses(InputRegisters), NEW n \in Told3
      PROVE  /\ DOMAIN Tell(b, n) = Addresses(InputRegisters)
             /\ \A m \in InputName \ Told3 :
                  /\ \A what, scan : Ours(b, m, what, scan) => Ours(Tell(b, n), m, what, scan)
                  /\ Tell(b, n)[Input(m).address] = b[Input(m).address]
  <2>1. n \in InputName
    BY <1>2
  <2>2. DOMAIN Tell(b, n) = Addresses(InputRegisters)
    BY <1>3, <2>1, JustWritten
  <2>3. ASSUME NEW m \in InputName \ Told3
        PROVE  /\ \A what, scan : Ours(b, m, what, scan) => Ours(Tell(b, n), m, what, scan)
               /\ Tell(b, n)[Input(m).address] = b[Input(m).address]
    <3>1. n # m /\ m \in InputName
      OBVIOUS
    <3> DEFINE v == Flag(n, TRUE)
    <3> HIDE DEF v
    <3>2. /\ \A what, scan : Ours(b, m, what, scan) => Ours(Stored(b, Input(n), v), m, what, scan)
          /\ Stored(b, Input(n), v)[Input(m).address] = b[Input(m).address]
      BY <1>3, <2>1, <3>1, OthersKept
    <3> QED BY <3>2 DEF v
  <2> QED BY <2>2, <2>3
<1>4. /\ "maintenance_status_code" \in Told3 /\ "maintenance_last_target" \in Told3
      /\ "maintenance_last_action" \in Told3
  BY DEF Told3
<1> HIDE DEF Tell
<1>5. /\ DOMAIN b1 = Addresses(InputRegisters)
      /\ \A m \in InputName \ Told3 :
           /\ \A what, scan : Ours(ir, m, what, scan) => Ours(b1, m, what, scan)
           /\ b1[Input(m).address] = ir[Input(m).address]
  BY <1>3, <1>4
<1> HIDE DEF b1
<1>6. /\ DOMAIN b2 = Addresses(InputRegisters)
      /\ \A m \in InputName \ Told3 :
           /\ \A what, scan : Ours(b1, m, what, scan) => Ours(b2, m, what, scan)
           /\ b2[Input(m).address] = b1[Input(m).address]
  BY <1>3, <1>4, <1>5
<1> HIDE DEF b2
<1>7. /\ DOMAIN ir' = Addresses(InputRegisters)
      /\ \A m \in InputName \ Told3 :
           /\ \A what, scan : Ours(b2, m, what, scan) => Ours(ir', m, what, scan)
           /\ ir'[Input(m).address] = b2[Input(m).address]
  BY <1>1, <1>3, <1>4, <1>6
<1> QED BY <1>5, <1>6, <1>7

LEMMA ImageStep == ImageInv /\ [Next]_vars => ImageInv'
<1> SUFFICES ASSUME ImageInv, [Next]_vars PROVE ImageInv'
  OBVIOUS
<1>1. PICK stamp \in -1 .. now : Stamped(stamp)
  BY DEF ImageInv
<1>2. DOMAIN ir = Addresses(InputRegisters)
  BY DEF ImageInv
<1>3. CASE ReadSensors
  BY <1>1, <1>3, BetweenScans DEF ReadSensors
<1>4. CASE Publish
  <2>1. phase.at = "publish" /\ phase.next \in 1 .. 13
    BY <1>4 DEF Publish, ImageInv
  <2>2. CASE phase.next \in 1 .. 8
    BY <1>1, <1>4, <2>1, <2>2, ValueWritten
  <2>3. CASE phase.next = 9
    BY <1>1, <1>4, <2>1, <2>3, TimeWritten
  <2>4. CASE phase.next = 10
    BY <1>1, <1>4, <2>1, <2>4, StatusWritten
  <2>5. CASE phase.next \in 11 .. 13
    BY <1>1, <1>4, <2>1, <2>5, BitWritten
  <2> QED BY <2>1, <2>2, <2>3, <2>4, <2>5
<1>5. CASE Serve
  <2>1. phase.at = "serve" /\ Report /\ NextScan /\ di' = di
    BY <1>5 DEF Serve
  <2> QED BY <1>1, <1>2, <2>1, ReportKeeps, BetweenScans DEF NextScan
<1>6. CASE Idle
  BY <1>1, <1>6, BetweenScans DEF Idle, NextScan
<1>7. CASE ServerStops \/ UNCHANGED vars
  <2>1. UNCHANGED <<now, phase, ir, di>>
    BY <1>7 DEF ServerStops, vars
  <2> QED BY <2>1 DEF ImageInv, Stamped, StatusScan, Fresh
<1> QED BY <1>3, <1>4, <1>5, <1>6, <1>7 DEF Next

(* Whatever a client reads, at any moment between any two writes of the loop, the    *)
(* value registers hold whole values of the scan that simulation_time names or, while *)
(* a scan is being written, of that one, and no status or fault bit is ahead of the  *)
(* time (update_modbus_inputs).                                                *)
THEOREM StampIsTrue == Spec => []StampTellsAge
<1>1. Spec => []ImageInv
  BY ImageStarts, ImageStep, PTL DEF Spec
<1> QED BY <1>1, ImageMeans, PTL

-----------------------------------------------------------------------------
(* SAMPLE LINES.  A line is a sequence of samples; which one it gives away is       *)
(* decided by their distance to the target alone.                              *)
Sample == [at : Nat, by : Fitted]

(* The pH sensor of a line is read first, so its sample comes first.             *)
PhSensor == {"pH_inlet", "pH_outlet"}

Sorted(line)  == \A i, j \in 1 .. Len(line) : i <= j => line[i].at <= line[j].at
Until(line, t) == \A i \in 1 .. Len(line) : line[i].at <= t
PhFirst(line) ==
  \A i, j \in 1 .. Len(line) : line[i].at = line[j].at /\ line[j].by \in PhSensor => j <= i

(* What was given away was the best for the target: no older one was closer.        *)
Behind(line, a, target) ==
  \A i \in 1 .. Len(line) : line[i].at < a =>
     line[i].at + a <= 2 * target /\ \E j \in 1 .. Len(line) : line[j].at = a

(* The sample that s put in at h is still there, with at most n others behind it.   *)
Kept(line, s, h, n) ==
  \E i \in 1 .. Len(line) : line[i].at = h /\ line[i].by = s /\ Len(line) - i <= n

LEMMA LeastNatural ==
  ASSUME NEW S, S \subseteq Nat, S # {}
  PROVE  \E m \in S : \A n \in S : m <= n
<1> DEFINE Initial == {0 .. n : n \in S}
           Smaller == StrictSubsetOrdering(Nat)
           Finite  == FiniteSubsetsOf(Nat)
<1>1. Initial \subseteq Finite
  <2> SUFFICES ASSUME NEW n \in S PROVE 0 .. n \in Finite
    OBVIOUS
  <2>1. n \in Nat /\ n \in Int /\ 0 \in Int /\ 0 .. n \subseteq Nat
    OBVIOUS
  <2>2. IsFiniteSet(0 .. n)
    BY <2>1, FS_Interval
  <2> QED BY <2>1, <2>2 DEF FiniteSubsetsOf
<1>2. PICK x \in Initial : \A y \in Initial : ~(<<y, x>> \in Smaller)
  <2>1. IsWellFoundedOn(Smaller, Finite)
    BY FS_StrictSubsetOrderingWellFounded
  <2>2. Initial # {}
    BY Zenon
  <2> HIDE DEF Initial, Smaller, Finite
  <2> QED BY <1>1, <2>1, <2>2, WFMin
<1>3. PICK m \in S : x = 0 .. m
  BY <1>2
<1>4. ASSUME NEW n \in S, n < m PROVE FALSE
  <2>1. 0 .. n \subseteq 0 .. m /\ 0 .. n # 0 .. m /\ {0 .. n, 0 .. m} \subseteq SUBSET Nat
    BY <1>4
  <2>2. <<0 .. n, 0 .. m>> \in Smaller
    BY <2>1 DEF StrictSubsetOrdering
  <2> QED BY <1>2, <1>3, <2>2
<1> QED BY <1>3, <1>4

LEMMA RoomFacts == MaxSamples \in Nat \ {0} /\ Delay \in Nat
BY LineAssumption DEF MaxSamples

LEMMA Elements ==
  ASSUME NEW line \in Seq(Sample)
  PROVE  /\ Len(line) \in Nat /\ DOMAIN line = 1 .. Len(line)
         /\ \A i \in 1 .. Len(line) : line[i] \in Sample /\ line[i].at \in Nat
<1>1. \A i \in 1 .. Len(line) : line[i] \in Sample
  OBVIOUS
<1>2. \A s \in Sample : s.at \in Nat
  BY DEF Sample
<1> QED BY <1>1, <1>2

(* What it means to be no farther from the target.                             *)
LEMMA NoFarther ==
  ASSUME NEW d \in Int, NEW x \in Int, NEW target \in Int,
         Distance(d, target) <= Distance(x, target)
  PROVE  /\ x < d => x + d <= 2 * target
         /\ d < x => d + x >= 2 * target
         /\ x = target => d = target
BY DEF Distance

LEMMA PutFacts ==
  ASSUME NEW line \in Seq(Sample), NEW sample \in Sample
  PROVE  /\ Put(line, sample) \in Seq(Sample)
         /\ \E gone \in {0, 1} :
              /\ gone = 1 => Len(line) >= MaxSamples
              /\ Len(Put(line, sample)) = Len(line) + 1 - gone
              /\ Put(line, sample)[Len(line) + 1 - gone] = sample
              /\ Len(line) + 1 - gone \in Nat \ {0}
              /\ \A j \in 1 .. Len(line) - gone : Put(line, sample)[j] = line[j + gone]
<1> DEFINE longer == Append(line, sample)
           n == Len(line)
<1>1. longer \in Seq(Sample) /\ Len(longer) = n + 1 /\ n \in Nat /\ longer[n + 1] = sample
  OBVIOUS
<1>2. \A j \in 1 .. n : longer[j] = line[j]
  OBVIOUS
<1>3. CASE n + 1 > MaxSamples
  <2>1. Put(line, sample) = Tail(longer)
    BY <1>1, <1>3 DEF Put
  <2>2. longer # <<>>
    BY <1>1
  <2> HIDE DEF longer
  <2>3. Tail(longer) \in Seq(Sample) /\ Len(Tail(longer)) = n
        /\ \A j \in 1 .. n : Tail(longer)[j] = longer[j + 1]
    BY <1>1, <2>2
  <2>4. n >= MaxSamples /\ n \in Nat \ {0}
    BY <1>1, <1>3, RoomFacts
  <2>5. Tail(longer)[n] = sample
    BY <1>1, <2>3, <2>4
  <2>6. \A j \in 1 .. n - 1 : Tail(longer)[j] = line[j + 1]
    <3> TAKE j \in 1 .. n - 1
    <3>1. j \in 1 .. n /\ j + 1 \in 1 .. n
      BY <1>1
    <3> QED BY <1>2, <2>3, <3>1
  <2>7. n + 1 - 1 = n
    BY <1>1
  <2> HIDE DEF n
  <2> QED BY <2>1, <2>3, <2>4, <2>5, <2>6, <2>7 DEF n
<1>4. CASE ~(n + 1 > MaxSamples)
  <2>1. Put(line, sample) = longer
    BY <1>1, <1>4 DEF Put
  <2> HIDE DEF longer
  <2>2. n + 1 - 0 = n + 1 /\ n - 0 = n /\ n + 1 \in Nat \ {0} /\ \A j \in 1 .. n : j + 0 = j
    BY <1>1
  <2> HIDE DEF n
  <2>3. \A j \in 1 .. n - 0 : longer[j] = line[j + 0]
    BY <1>2, <2>2
  <2>4. /\ 0 = 1 => n >= MaxSamples
        /\ Len(longer) = n + 1 - 0 /\ longer[n + 1 - 0] = sample /\ n + 1 - 0 \in Nat \ {0}
    BY <1>1, <2>2
  <2>5. \E gone \in {0, 1} :
          /\ gone = 1 => n >= MaxSamples
          /\ Len(longer) = n + 1 - gone /\ longer[n + 1 - gone] = sample
          /\ n + 1 - gone \in Nat \ {0}
          /\ \A j \in 1 .. n - gone : longer[j] = line[j + gone]
    BY <2>3, <2>4
  <2> QED BY <1>1, <2>1, <2>5 DEF n
<1> QED BY <1>3, <1>4

LEMMA PutKeeps ==
  ASSUME NEW line \in Seq(Sample), NEW sample \in Sample, Sorted(line), Until(line, sample.at)
  PROVE  /\ Put(line, sample) \in Seq(Sample) /\ Len(Put(line, sample)) \in Nat \ {0}
         /\ Sorted(Put(line, sample)) /\ Until(Put(line, sample), sample.at)
         /\ PhFirst(line) /\ (sample.by \in PhSensor => Until(line, sample.at - 1))
              => PhFirst(Put(line, sample))
         /\ \A a, target \in Int : a <= sample.at /\ Behind(line, a, target)
              => Behind(Put(line, sample), a, target)
         /\ \A s, h : \A n \in Int : n + 1 < MaxSamples /\ Kept(line, s, h, n)
              => Kept(Put(line, sample), s, h, n + 1)
         /\ Kept(Put(line, sample), sample.by, sample.at, 0)
<1> DEFINE after == Put(line, sample)
           z == Len(after)
           m == Len(line)
<1>1. after \in Seq(Sample)
  BY PutFacts
<1>0. PICK gone \in {0, 1} :
        /\ gone = 1 => Len(line) >= MaxSamples
        /\ Len(after) = Len(line) + 1 - gone
        /\ after[Len(line) + 1 - gone] = sample
        /\ Len(line) + 1 - gone \in Nat \ {0}
        /\ \A j \in 1 .. Len(line) - gone : after[j] = line[j + gone]
  BY PutFacts
<1> HIDE DEF after
<1>2. /\ gone = 1 => m >= MaxSamples
      /\ z = m + 1 - gone /\ after[z] = sample /\ z \in Nat \ {0}
      /\ \A j \in 1 .. m - gone : after[j] = line[j + gone]
  BY <1>0
<1>a. m \in Nat /\ \A i \in 1 .. m : line[i] \in Sample /\ line[i].at \in Nat
  BY Elements
<1>b. sample.at \in Nat
  BY DEF Sample
<1>3. m \in Nat /\ z \in Nat \ {0} /\ sample.at \in Nat /\ z - 1 = m - gone
      /\ \A i \in 1 .. m : line[i] \in Sample /\ line[i].at \in Nat
  <2> HIDE DEF m, z
  <2> QED BY <1>2, <1>a, <1>b
<1> HIDE DEF z, m
<1>4. \A j \in 1 .. z : j = z \/ j \in 1 .. z - 1
  BY <1>3
<1>5. \A j \in 1 .. z - 1 : j + gone \in 1 .. m /\ after[j] = line[j + gone]
  BY <1>2, <1>3
<1>6. z \in 1 .. z /\ Len(after) = z
  BY <1>3 DEF z
<1>7. /\ \A i, j \in 1 .. m : i <= j => line[i].at <= line[j].at
      /\ \A i \in 1 .. m : line[i].at <= sample.at
  BY DEF Sorted, Until, m
<1>8. \A j \in 1 .. z : after[j].at \in Nat /\ after[j].at <= sample.at
  <2> TAKE j \in 1 .. z
  <2>1. CASE j = z
    BY <1>2, <1>3, <2>1
  <2>2. CASE j \in 1 .. z - 1
    BY <1>3, <1>5, <1>7, <2>2
  <2> QED BY <1>4, <2>1, <2>2
<1>9. Sorted(after)
  <2> SUFFICES ASSUME NEW i \in 1 .. z, NEW j \in 1 .. z, i <= j
               PROVE  after[i].at <= after[j].at
    BY <1>6 DEF Sorted
  <2>1. CASE j = z
    BY <1>2, <1>8, <2>1
  <2>2. CASE j \in 1 .. z - 1
    <3>1. i \in 1 .. z - 1 /\ i + gone <= j + gone
      BY <1>2, <1>3, <2>2
    <3> QED BY <1>5, <1>7, <2>2, <3>1
  <2> QED BY <1>4, <2>1, <2>2
<1>10. Until(after, sample.at)
  BY <1>6, <1>8 DEF Until
<1>11. ASSUME PhFirst(line), sample.by \in PhSensor => Until(line, sample.at - 1)
       PROVE  PhFirst(after)
  <2> SUFFICES ASSUME NEW i \in 1 .. z, NEW j \in 1 .. z,
                      after[i].at = after[j].at, after[j].by \in PhSensor
               PROVE  j <= i
    BY <1>6 DEF PhFirst
  <2>1. CASE i = z
    BY <1>3, <2>1
  <2>2. CASE i \in 1 .. z - 1 /\ j = z
    <3>1. Until(line, sample.at - 1)
      BY <1>2, <1>11, <2>2
    <3>2. line[i + gone].at <= sample.at - 1
      BY <1>5, <2>2, <3>1 DEF Until, m
    <3>3. line[i + gone].at = sample.at /\ line[i + gone].at \in Nat
      BY <1>2, <1>3, <1>5, <2>2
    <3> QED BY <1>3, <3>2, <3>3
  <2>3. CASE i \in 1 .. z - 1 /\ j \in 1 .. z - 1
    <3>1. j + gone <= i + gone
      BY <1>5, <1>11, <2>3 DEF PhFirst, m
    <3> QED BY <1>2, <2>3, <3>1
  <2> QED BY <1>4, <2>1, <2>2, <2>3
<1>12. ASSUME NEW a \in Int, NEW target \in Int, a <= sample.at, Behind(line, a, target)
       PROVE  Behind(after, a, target)
  <2> SUFFICES ASSUME NEW i \in 1 .. z, after[i].at < a
               PROVE  after[i].at + a <= 2 * target /\ \E j \in 1 .. z : after[j].at = a
    BY <1>6 DEF Behind
  <2>0. ~(sample.at < a)
    BY <1>3, <1>12
  <2>1. i \in 1 .. z - 1
    BY <1>2, <1>4, <2>0
  <2>2. i + gone \in 1 .. m /\ after[i] = line[i + gone]
    BY <1>5, <2>1
  <2>3. line[i + gone].at + a <= 2 * target /\ \E j \in 1 .. m : line[j].at = a
    BY <1>12, <2>2 DEF Behind, m
  <2>4. PICK j \in 1 .. m : line[j].at = a
    BY <2>3
  <2>5. j > i + gone
    <3>1. line[i + gone].at < line[j].at /\ line[i + gone].at \in Nat /\ line[j].at \in Nat
      BY <1>3, <2>2, <2>4
    <3>2. ~(line[j].at <= line[i + gone].at)
      BY <3>1
    <3>3. ~(j <= i + gone)
      BY <1>7, <2>2, <2>4, <3>2
    <3> QED BY <1>2, <1>3, <2>2, <3>3
  <2>6. j - gone \in 1 .. z - 1 /\ j - gone + gone = j
    BY <1>2, <1>3, <2>1, <2>5
  <2>7. after[j - gone].at = a
    BY <1>5, <2>4, <2>6
  <2>8. j - gone \in 1 .. z
    BY <1>3, <2>6
  <2> QED BY <2>2, <2>3, <2>7, <2>8
<1>13. ASSUME NEW s, NEW h, NEW n \in Int, n + 1 < MaxSamples, Kept(line, s, h, n)
       PROVE  Kept(after, s, h, n + 1)
  <2>1. PICK i \in 1 .. m : line[i].at = h /\ line[i].by = s /\ m - i <= n
    BY <1>13 DEF Kept, m
  <2>2. ~(gone = 1 /\ i = 1)
    BY <1>2, <1>3, <1>13, <2>1, RoomFacts
  <2>3. i - gone \in 1 .. z - 1 /\ i - gone + gone = i /\ i - gone \in 1 .. z
        /\ z - (i - gone) <= n + 1
    BY <1>2, <1>3, <2>1, <2>2
  <2>4. after[i - gone] = line[i]
    BY <1>5, <2>3
  <2> QED BY <1>6, <2>1, <2>3, <2>4 DEF Kept
<1>14. Kept(after, sample.by, sample.at, 0)
  <2>1. z - z <= 0
    BY <1>3
  <2> QED BY <1>2, <1>6, <2>1 DEF Kept
<1> QED BY <1>1, <1>3, <1>6, <1>9, <1>10, <1>11, <1>12, <1>13, <1>14 DEF after

(* The search finds the closest sample, and of equally close ones the first.        *)
LEMMA ClosestFacts ==
  ASSUME NEW line \in Seq(Sample), Len(line) # 0, NEW target \in Int
  PROVE  /\ Closest(line, target) \in 1 .. Len(line)
         /\ \A j \in 1 .. Len(line) :
              \/ Distance(line[Closest(line, target)].at, target) < Distance(line[j].at, target)
              \/ /\ Distance(line[Closest(line, target)].at, target) = Distance(line[j].at, target)
                 /\ Closest(line, target) <= j
<1> DEFINE Far(i) == Distance(line[i].at, target)
           Best(i) == \A j \in 1 .. Len(line) : Far(i) < Far(j) \/ (Far(i) = Far(j) /\ i <= j)
<1>1. Len(line) \in Nat \ {0} /\ DOMAIN line = 1 .. Len(line) /\ 1 \in 1 .. Len(line)
      /\ 1 .. Len(line) \subseteq Nat
  OBVIOUS
<1>2. \A i \in 1 .. Len(line) : Far(i) \in Nat
  <2> TAKE i \in 1 .. Len(line)
  <2>1. line[i].at \in Nat
    BY Elements
  <2> QED BY <2>1 DEF Distance
<1> HIDE DEF Far
<1>3. \E i \in 1 .. Len(line) : Best(i)
  <2> DEFINE Fars == {Far(i) : i \in 1 .. Len(line)}
  <2>1. Fars \subseteq Nat /\ Fars # {}
    BY <1>1, <1>2
  <2>2. PICK d \in Fars : \A e \in Fars : d <= e
    <3> HIDE DEF Fars
    <3> QED BY <2>1, LeastNatural
  <2> DEFINE Nearest == {i \in 1 .. Len(line) : Far(i) = d}
  <2>3. Nearest \subseteq Nat /\ Nearest # {}
    BY <1>1, <2>2
  <2>4. PICK k \in Nearest : \A i \in Nearest : k <= i
    <3> HIDE DEF Nearest
    <3> QED BY <2>3, LeastNatural
  <2>5. ASSUME NEW j \in 1 .. Len(line) PROVE Far(k) < Far(j) \/ (Far(k) = Far(j) /\ k <= j)
    <3>1. Far(k) = d /\ d <= Far(j) /\ d \in Nat /\ Far(j) \in Nat
      BY <1>2, <2>2, <2>4
    <3>2. Far(j) = d => k <= j
      BY <2>4
    <3> QED BY <3>1, <3>2
  <2> QED BY <2>4, <2>5
<1>4. Closest(line, target) = CHOOSE i \in 1 .. Len(line) : Best(i)
  BY <1>1 DEF Closest, Far
<1>5. Closest(line, target) \in 1 .. Len(line) /\ Best(Closest(line, target))
  <2> HIDE DEF Best
  <2> QED BY <1>3, <1>4
<1> QED BY <1>5 DEF Far

(* What a line gives away for a target: nothing older than what it gave away for an  *)
(* earlier one, and the sample of the target itself, if it has it.               *)
LEMMA Delivers ==
  ASSUME NEW line \in Seq(Sample), Len(line) # 0, NEW target \in Int
  PROVE  /\ Closest(line, target) \in 1 .. Len(line)
         /\ line[Closest(line, target)] \in Sample
         /\ Behind(line, line[Closest(line, target)].at, target)
         /\ \A a, earlier \in Int : earlier < target /\ Behind(line, a, earlier)
              => line[Closest(line, target)].at >= a
         /\ \A i \in 1 .. Len(line) : line[i].at = target
              => line[Closest(line, target)].at = target /\ Closest(line, target) <= i
<1> DEFINE k == Closest(line, target)
           d == line[k].at
<1>1. k \in 1 .. Len(line)
  BY ClosestFacts
<1>2. \A j \in 1 .. Len(line) : \/ Distance(d, target) < Distance(line[j].at, target)
                                \/ Distance(d, target) = Distance(line[j].at, target) /\ k <= j
  BY ClosestFacts
<1>3. \A i \in 1 .. Len(line) : line[i] \in Sample /\ line[i].at \in Nat
  BY Elements
<1>4. d \in Nat /\ line[k] \in Sample
  BY <1>1, <1>3
<1> HIDE DEF k
<1>8. \A x \in Int : Distance(x, target) \in Int
  BY DEF Distance
<1>5. Behind(line, d, target)
  <2> SUFFICES ASSUME NEW i \in 1 .. Len(line), line[i].at < d
               PROVE  line[i].at + d <= 2 * target
    BY <1>1 DEF Behind
  <2>1. line[i].at \in Nat
    BY <1>3
  <2>2. Distance(d, target) <= Distance(line[i].at, target)
    <3>1. Distance(d, target) \in Int /\ Distance(line[i].at, target) \in Int
      <4>1. d \in Int /\ line[i].at \in Int
        BY <1>4, <2>1
      <4> HIDE DEF d
      <4> QED BY <1>8, <4>1
    <3> QED BY <1>2, <3>1
  <2>3. d \in Int /\ line[i].at \in Int
    BY <1>4, <2>1
  <2> HIDE DEF d
  <2> QED BY <2>2, <2>3, NoFarther, SMTT(30)
<1>6. ASSUME NEW a \in Int, NEW earlier \in Int, earlier < target, Behind(line, a, earlier), d < a
      PROVE  FALSE
  <2>1. d + a <= 2 * earlier /\ \E j \in 1 .. Len(line) : line[j].at = a
    BY <1>1, <1>6 DEF Behind
  <2>2. PICK j \in 1 .. Len(line) : line[j].at = a
    BY <2>1
  <2> HIDE DEF d
  <2>3. Distance(d, target) <= Distance(a, target)
    <3>1. Distance(d, target) \in Int /\ Distance(a, target) \in Int
      <4>1. d \in Int
        BY <1>4
      <4> QED BY <1>8, <4>1
    <3> QED BY <1>2, <2>2, <3>1
  <2>4. d + a >= 2 * target
    BY <1>4, <1>6, <2>3, NoFarther
  <2> QED BY <1>4, <1>6, <2>1, <2>4
<1>7. ASSUME NEW i \in 1 .. Len(line), line[i].at = target
      PROVE  d = target /\ k <= i
  <2>1. \/ Distance(d, target) < Distance(target, target)
        \/ Distance(d, target) = Distance(target, target) /\ k <= i
    BY <1>2, <1>7
  <2>2. target \in Nat
    BY <1>3, <1>7
  <2> HIDE DEF d
  <2> QED BY <1>4, <2>1, <2>2 DEF Distance
<1> QED BY <1>1, <1>4, <1>5, <1>6, <1>7 DEF k

-----------------------------------------------------------------------------
(* ONE SCAN.  What holds of the lines and of the readings when the sensors in done    *)
(* have been read in this scan and the others have not.                        *)
OnLine == {s \in Fitted : LineOf(s) \in Line}

PhOf(l)   == IF l = "inlet" THEN "pH_inlet" ELSE "pH_outlet"
TempOf(l) == IF l = "inlet" THEN "temp_inlet" ELSE "temp_outlet"

(* How many of the sensors of a line have had their turn.                       *)
Turns(done, l) ==
  (IF PhOf(l) \in done THEN 1 ELSE 0) + (IF TempOf(l) \in done THEN 1 ELSE 0)

(* A line keeps what both of its sensors put in during a transport delay.          *)
RoomForBoth == 2 * (Delay + 1) <= MaxSamples

HeardNow(s) == IF Speaks(s) /\ LineOf(s) # "none" THEN heard[s] \cup {now} ELSE heard[s]
HeardBy(s, done) == IF s \in done THEN HeardNow(s) ELSE heard[s]

Taken == [sample : Sample \cup {Nothing}, value : {"held", "lost"}, fault : BOOLEAN]

TargetBy(s, done) == (IF s \in done THEN now ELSE now - 1) - Delay

RightWater(rs, s) ==
  rs[s].sample # Nothing /\ (now - Delay) \in HeardNow(s) =>
     /\ rs[s].sample.at = now - Delay
     /\ \A t \in Fitted \cap PhSensor :
          LineOf(t) = LineOf(s) /\ (now - Delay) \in HeardNow(t) => rs[s].sample.by = t

LinesBy(ls, done) ==
  /\ ls \in [Line -> Seq(Sample)]
  /\ \A l \in Line : /\ Sorted(ls[l]) /\ PhFirst(ls[l]) /\ Until(ls[l], now)
                     /\ Turns(done, l) = 0 => Until(ls[l], now - 1)
  /\ \A s \in OnLine : \A h \in HeardBy(s, done) : RoomForBoth /\ h >= now - Delay =>
       Kept(ls[LineOf(s)], s, h, 2 * (now - h) - 1 + Turns(done, LineOf(s)))

ReadingsBy(ls, rs, done) ==
  /\ rs \in [Fitted -> Taken]
  /\ \A s \in OnLine : Behind(ls[LineOf(s)], rs[s].sample.at, TargetBy(s, done))
  /\ \A s \in Fitted \ done : rs[s] = readings[s]
  /\ \A s \in Fitted : rs[s].sample.at \in -1 .. now
  /\ \A s \in Fitted \cap done :
       /\ rs[s].sample # Nothing => rs[s].sample.at >= readings[s].sample.at
       /\ RoomForBoth => RightWater(rs, s)

Scanned(acc, done) == LinesBy(acc.lines, done) /\ ReadingsBy(acc.lines, acc.readings, done)

(* What a scan starts from.                                                  *)
Before ==
  /\ now \in Nat /\ readings \in [Fitted -> Taken]
  /\ silent \in [Fitted -> Nat \cup {Dead}]
  /\ heard \in [Fitted -> SUBSET Nat]
  /\ \A s \in Fitted : /\ readings[s].sample.at \in -1 .. now - 1
                       /\ \A h \in heard[s] : h <= now - 1
                       /\ LineOf(s) = "none" => heard[s] = {}

LEMMA LineFacts ==
  /\ \A s : LineOf(s) \in Line => s = PhOf(LineOf(s)) \/ s = TempOf(LineOf(s))
  /\ \A l \in Line : LineOf(PhOf(l)) = l /\ LineOf(TempOf(l)) = l
  /\ \A l, m \in Line : l # m => PhOf(l) # PhOf(m) /\ TempOf(l) # TempOf(m)
  /\ \A l, m \in Line : PhOf(l) # TempOf(m) /\ PhOf(l) \in PhSensor /\ TempOf(l) \notin PhSensor
  /\ \A s : LineOf(s) \in Line <=> LineOf(s) # "none"
  /\ "none" \notin Line
BY DEF LineOf, Line, PhOf, TempOf, PhSensor

LEMMA TurnsFacts ==
  ASSUME NEW done, NEW s, s \notin done
  PROVE  /\ \A l \in Line : Turns(done, l) \in Nat /\ Turns(done \cup {s}, l) \in Nat
         /\ \A l \in Line : l # LineOf(s) => Turns(done \cup {s}, l) = Turns(done, l)
         /\ LineOf(s) \in Line => /\ Turns(done \cup {s}, LineOf(s)) = Turns(done, LineOf(s)) + 1
                                  /\ Turns(done, LineOf(s)) <= 1
<1>1. \A l \in Line : Turns(done, l) \in Nat /\ Turns(done \cup {s}, l) \in Nat
  BY DEF Turns
<1>2. ASSUME NEW l \in Line, l # LineOf(s) PROVE Turns(done \cup {s}, l) = Turns(done, l)
  <2>1. s # PhOf(l) /\ s # TempOf(l)
    BY <1>2, LineFacts
  <2> QED BY <2>1 DEF Turns
<1>3. ASSUME LineOf(s) \in Line
      PROVE  /\ Turns(done \cup {s}, LineOf(s)) = Turns(done, LineOf(s)) + 1
             /\ Turns(done, LineOf(s)) <= 1
  <2> DEFINE l == LineOf(s)
  <2>1. (s = PhOf(l) /\ s # TempOf(l)) \/ (s = TempOf(l) /\ s # PhOf(l))
    BY <1>3, LineFacts
  <2> HIDE DEF l
  <2>2. Turns(done \cup {s}, l) = Turns(done, l) + 1 /\ Turns(done, l) <= 1
    BY <2>1 DEF Turns
  <2> QED BY <2>2 DEF l
<1> QED BY <1>1, <1>2, <1>3

LEMMA KeptLonger ==
  ASSUME NEW line \in Seq(Sample), NEW s, NEW h, NEW n \in Int, NEW n2 \in Int, n <= n2,
         Kept(line, s, h, n)
  PROVE  Kept(line, s, h, n2)
<1>1. PICK i \in 1 .. Len(line) : line[i].at = h /\ line[i].by = s /\ Len(line) - i <= n
  BY DEF Kept
<1>2. Len(line) - i <= n2
  BY <1>1, Elements
<1> QED BY <1>1, <1>2 DEF Kept

(* A turn that puts nothing into a line leaves the lines as they should be.        *)
LEMMA TurnOnly ==
  ASSUME Before, NEW ls, NEW done, LinesBy(ls, done), NEW s, s \notin done,
         \A u \in OnLine : HeardBy(u, done \cup {s}) = HeardBy(u, done)
  PROVE  LinesBy(ls, done \cup {s})
<1> DEFINE more == done \cup {s}
<1>1. \A l \in Line : /\ Turns(done, l) \in Nat /\ Turns(more, l) \in Nat
                      /\ Turns(done, l) <= Turns(more, l)
  BY DEF Turns
<1>2. \A u \in OnLine : HeardBy(u, more) = HeardBy(u, done)
  OBVIOUS
<1> HIDE DEF more
<1>3. \A l \in Line : Turns(more, l) = 0 => Until(ls[l], now - 1)
  BY <1>1 DEF LinesBy
<1>4. ASSUME NEW u \in OnLine, NEW h \in HeardBy(u, more), RoomForBoth, h >= now - Delay
      PROVE  Kept(ls[LineOf(u)], u, h, 2 * (now - h) - 1 + Turns(more, LineOf(u)))
  <2>1. h \in HeardBy(u, done)
    BY <1>2
  <2>2. LineOf(u) \in Line
    BY DEF OnLine
  <2>3. Kept(ls[LineOf(u)], u, h, 2 * (now - h) - 1 + Turns(done, LineOf(u)))
    BY <1>4, <2>1 DEF LinesBy
  <2>4. h \in Nat /\ now \in Nat
    BY <2>1 DEF HeardBy, HeardNow, Before, OnLine
  <2>5. ls[LineOf(u)] \in Seq(Sample)
    BY <2>2 DEF LinesBy
  <2> DEFINE n  == 2 * (now - h) - 1 + Turns(done, LineOf(u))
             n2 == 2 * (now - h) - 1 + Turns(more, LineOf(u))
  <2>6. n \in Int /\ n2 \in Int /\ n <= n2
    BY <1>1, <2>2, <2>4
  <2>7. Kept(ls[LineOf(u)], u, h, n)
    BY <2>3
  <2> HIDE DEF n, n2
  <2>8. Kept(ls[LineOf(u)], u, h, n2)
    BY <2>5, <2>6, <2>7, KeptLonger
  <2> QED BY <2>8 DEF n2
<1> QED BY <1>3, <1>4 DEF LinesBy, more

(* A sensor that is not fitted has its turn.                                    *)
LEMMA SkipSensor ==
  ASSUME Before, NEW acc, NEW done, Scanned(acc, done), NEW s, s \notin Fitted, s \notin done
  PROVE  Scanned(acc, done \cup {s})
<1> DEFINE more == done \cup {s}
<1>1. \A u \in Fitted : u \in more <=> u \in done
  OBVIOUS
<1>2. LinesBy(acc.lines, more)
  <2>1. \A u \in OnLine : HeardBy(u, more) = HeardBy(u, done)
    BY <1>1 DEF HeardBy, OnLine
  <2> QED BY <2>1, TurnOnly DEF Scanned
<1> HIDE DEF more
<1>3. ReadingsBy(acc.lines, acc.readings, more)
  <2>1. \A u \in OnLine : TargetBy(u, more) = TargetBy(u, done)
    BY <1>1 DEF TargetBy, OnLine
  <2> QED BY <1>1, <2>1 DEF Scanned, ReadingsBy
<1> QED BY <1>2, <1>3 DEF Scanned, more

LEMMA AnswerFacts ==
  ASSUME Before, NEW ls, NEW s \in Fitted, NEW shorted, NEW browned
  PROVE  /\ ~Speaks(s) => Answer(ls, s, shorted, browned).sample = Nothing
         /\ Speaks(s) => Answer(ls, s, shorted, browned).sample = ReadSensor(ls, s).sample
         /\ Answer(ls, s, shorted, browned).sample \in Sample \cup {Nothing}
              => Answer(ls, s, shorted, browned) \in Taken
<1>1. silent[s] \in Nat \cup {Dead}
  BY DEF Before
<1>2. silent[s] = Dead \/ silent[s] > 0 \/ silent[s] = 0
  BY <1>1
<1>3. CASE silent[s] = Dead
  <2>1. Answer(ls, s, shorted, browned) = Reading(Nothing, "lost", TRUE) /\ ~Speaks(s)
    BY <1>3 DEF Answer, Speaks, Dead
  <2> QED BY <2>1 DEF Reading, Taken
<1>4. CASE silent[s] > 0
  <2>0. silent[s] # Dead /\ silent[s] # 0
    BY <1>1, <1>4 DEF Dead
  <2>1. Answer(ls, s, shorted, browned) = Reading(Nothing, "lost", FALSE) /\ ~Speaks(s)
    BY <1>4, <2>0 DEF Answer, Speaks
  <2> QED BY <2>1 DEF Reading, Taken
<1>5. CASE silent[s] = 0
  <2>1. Speaks(s) /\ Answer(ls, s, shorted, browned) =
          Reading(ReadSensor(ls, s).sample,
                  IF s \in lost \cup shorted THEN "lost" ELSE "held",
                  s \in shorted \cup browned)
    BY <1>5 DEF Answer, Speaks, Dead
  <2>2. (s \in shorted \cup browned) \in BOOLEAN
    OBVIOUS
  <2> DEFINE x == ReadSensor(ls, s).sample
             y == s \in shorted \cup browned
             z == IF s \in lost \cup shorted THEN "lost" ELSE "held"
  <2>3. z \in {"held", "lost"}
    OBVIOUS
  <2> HIDE DEF x, y, z
  <2>4. Answer(ls, s, shorted, browned) = Reading(x, z, y)
    BY <2>1 DEF x, y, z
  <2>5. /\ Reading(x, z, y).sample = x /\ Reading(x, z, y).value = z /\ Reading(x, z, y).fault = y
        /\ Reading(x, z, y) = [sample |-> x, value |-> z, fault |-> y]
    BY DEF Reading
  <2>6. y \in BOOLEAN
    BY <2>2 DEF y
  <2> QED BY <2>1, <2>3, <2>4, <2>5, <2>6 DEF x, Taken
<1> QED BY <1>2, <1>3, <1>4, <1>5

(* What a turn must show of the answer, whoever had it.                           *)
LEMMA TurnTaken ==
  ASSUME Before, NEW acc, NEW done, Scanned(acc, done), NEW s \in Fitted, s \notin done,
         NEW shorted, NEW browned,
         LinesBy(Read(acc, s, shorted, browned).lines, done \cup {s}),
         \A u \in OnLine : \A a, target \in Int :
            a <= now /\ Behind(acc.lines[LineOf(u)], a, target) =>
              Behind(Read(acc, s, shorted, browned).lines[LineOf(u)], a, target),
         NEW given, given = Answer(acc.lines, s, shorted, browned).sample,
         given \in Sample \cup {Nothing}, given.at \in -1 .. now,
         s \in OnLine =>
           Behind(Read(acc, s, shorted, browned).lines[LineOf(s)], given.at, now - Delay),
         given # Nothing => given.at >= readings[s].sample.at,
         RoomForBoth => RightWater(Read(acc, s, shorted, browned).readings, s)
  PROVE  Scanned(Read(acc, s, shorted, browned), done \cup {s})
<1> DEFINE next == Read(acc, s, shorted, browned)
           more == done \cup {s}
           ls   == next.lines
           rs   == next.readings
           answer == Answer(acc.lines, s, shorted, browned)
<1>1. /\ rs = [acc.readings EXCEPT ![s] = answer] /\ rs[s] = answer
      /\ \A u \in Fitted : u # s => rs[u] = acc.readings[u]
  <2>1. acc.readings \in [Fitted -> Taken]
    BY DEF Scanned, ReadingsBy
  <2>2. rs = [acc.readings EXCEPT ![s] = answer]
    BY DEF Read
  <2> HIDE DEF answer, rs
  <2> QED BY <2>1, <2>2
<1>2. answer \in Taken
  BY AnswerFacts
<1>3. answer.sample = given
  OBVIOUS
<1>4. LinesBy(ls, more)
  OBVIOUS
<1>5. \A u \in OnLine : \A a, target \in Int :
        a <= now /\ Behind(acc.lines[LineOf(u)], a, target) => Behind(ls[LineOf(u)], a, target)
  OBVIOUS
<1>6. s \in OnLine => Behind(ls[LineOf(s)], given.at, now - Delay)
  OBVIOUS
<1>7. RoomForBoth => RightWater(rs, s)
  OBVIOUS
<1>8. now \in Nat /\ Delay \in Nat
  BY RoomFacts DEF Before
<1>9. next = Read(acc, s, shorted, browned) /\ \A u \in Fitted : u \in more <=> u \in done \/ u = s
  OBVIOUS
<1> HIDE DEF next, more, answer
<1>10. ReadingsBy(ls, rs, more)
  <2>1. rs \in [Fitted -> Taken]
    BY <1>1, <1>2 DEF Scanned, ReadingsBy
  <2>2. ASSUME NEW u \in OnLine PROVE Behind(ls[LineOf(u)], rs[u].sample.at, TargetBy(u, more))
    <3>1. CASE u = s
      <4>1. TargetBy(u, more) = now - Delay
        BY <1>9, <3>1 DEF TargetBy, OnLine
      <4> QED BY <1>1, <1>3, <1>6, <3>1, <4>1
    <3>2. CASE u # s
      <4>1. u \in Fitted
        BY DEF OnLine
      <4>2. TargetBy(u, more) = TargetBy(u, done)
        BY <1>9, <3>2, <4>1 DEF TargetBy
      <4>3. TargetBy(u, done) \in Int
        BY <1>8 DEF TargetBy
      <4>4. rs[u] = acc.readings[u]
        BY <1>1, <3>2, <4>1
      <4>5. acc.readings[u].sample.at \in Int /\ acc.readings[u].sample.at <= now
        BY <1>8, <4>1 DEF Scanned, ReadingsBy
      <4>6. Behind(acc.lines[LineOf(u)], acc.readings[u].sample.at, TargetBy(u, done))
        BY DEF Scanned, ReadingsBy
      <4> QED BY <1>5, <4>2, <4>3, <4>4, <4>5, <4>6
    <3> QED BY <3>1, <3>2
  <2>3. \A u \in Fitted \ more : rs[u] = readings[u]
    BY <1>1, <1>9 DEF Scanned, ReadingsBy
  <2>4. \A u \in Fitted : rs[u].sample.at \in -1 .. now
    BY <1>1, <1>3 DEF Scanned, ReadingsBy
  <2>5. ASSUME NEW u \in Fitted \cap more
        PROVE  /\ rs[u].sample # Nothing => rs[u].sample.at >= readings[u].sample.at
               /\ RoomForBoth => RightWater(rs, u)
    <3>1. CASE u = s
      BY <1>1, <1>3, <1>7, <3>1
    <3>2. CASE u # s
      <4>1. u \in Fitted \cap done /\ rs[u] = acc.readings[u]
        BY <1>1, <1>9, <3>2
      <4> QED BY <4>1 DEF Scanned, ReadingsBy, RightWater
    <3> QED BY <3>1, <3>2
  <2> QED BY <2>1, <2>2, <2>3, <2>4, <2>5 DEF ReadingsBy
<1> QED BY <1>4, <1>9, <1>10 DEF Scanned, more

(* A sensor without power, one that warms up, and one without a line.               *)
LEMMA LinelessTurn ==
  ASSUME Before, NEW acc, NEW done, Scanned(acc, done), NEW s \in Fitted, s \notin done,
         NEW shorted, NEW browned, ~Speaks(s) \/ LineOf(s) \notin Line
  PROVE  Scanned(Read(acc, s, shorted, browned), done \cup {s})
<1> DEFINE next == Read(acc, s, shorted, browned)
           given == Answer(acc.lines, s, shorted, browned).sample
<1>1. next.lines = acc.lines
  <2>1. \A l \in Line : next.lines[l] = acc.lines[l]
    BY DEF Read
  <2>2. next.lines = [l \in Line |-> next.lines[l]]
    BY DEF Read
  <2>3. acc.lines = [l \in Line |-> acc.lines[l]]
    BY DEF Scanned, LinesBy
  <2> HIDE DEF next
  <2> QED BY <2>1, <2>2, <2>3
<1>2. LinesBy(next.lines, done \cup {s})
  <2>0. HeardNow(s) = heard[s]
    BY LineFacts DEF HeardNow
  <2>1. \A u \in OnLine : HeardBy(u, done \cup {s}) = HeardBy(u, done)
    BY <2>0 DEF HeardBy
  <2> QED BY <1>1, <2>1, TurnOnly DEF Scanned
<1>3. given = Nothing \/ (LineOf(s) = "none" /\ given = [at |-> now, by |-> s])
  <2>0. /\ ~Speaks(s) => given = Nothing
        /\ Speaks(s) => given = ReadSensor(acc.lines, s).sample
    <3> DEFINE ls == acc.lines
    <3> HIDE DEF ls
    <3>1. /\ ~Speaks(s) => Answer(ls, s, shorted, browned).sample = Nothing
          /\ Speaks(s) => Answer(ls, s, shorted, browned).sample = ReadSensor(ls, s).sample
      BY AnswerFacts
    <3> QED BY <3>1 DEF ls
  <2> HIDE DEF given
  <2>1. CASE ~Speaks(s)
    BY <2>0, <2>1
  <2>2. CASE Speaks(s)
    <3>1. LineOf(s) = "none"
      BY <2>2 DEF LineOf, Line
    <3> QED BY <2>0, <2>2, <3>1 DEF ReadSensor
  <2> QED BY <2>1, <2>2
<1>4. now \in Nat /\ Nothing.at = -1
  BY DEF Before, Nothing
<1>5. given \in Sample \cup {Nothing} /\ given.at \in -1 .. now
  <2>1. CASE given = Nothing
    BY <1>4, <2>1
  <2>2. CASE given = [at |-> now, by |-> s]
    BY <1>4, <2>2 DEF Sample
  <2> QED BY <1>3, <2>1, <2>2
<1>6. s \in OnLine => Behind(next.lines[LineOf(s)], given.at, now - Delay)
  <2> SUFFICES ASSUME s \in OnLine PROVE Behind(next.lines[LineOf(s)], -1, now - Delay)
    BY <1>3, <1>4, LineFacts DEF OnLine
  <2>1. acc.lines[LineOf(s)] \in Seq(Sample)
    BY DEF OnLine, Scanned, LinesBy
  <2>2. \A i \in 1 .. Len(acc.lines[LineOf(s)]) : acc.lines[LineOf(s)][i].at \in Nat
    BY <2>1, Elements
  <2> QED BY <1>1, <2>2 DEF Behind
<1>7. given # Nothing => given.at >= readings[s].sample.at
  BY <1>3, <1>4 DEF Before
<1>8. RoomForBoth => RightWater(next.readings, s)
  <2>1. next.readings[s].sample = given
    <3>1. s \in DOMAIN acc.readings
      BY DEF Scanned, ReadingsBy
    <3> QED BY <3>1 DEF Read
  <2>2. given = Nothing \/ HeardNow(s) = {}
    <3> SUFFICES ASSUME LineOf(s) = "none" PROVE HeardNow(s) = {}
      BY <1>3
    <3> QED BY DEF HeardNow, Before
  <2> HIDE DEF next, given
  <2> QED BY <2>1, <2>2 DEF RightWater
<1> HIDE DEF given
<1>9. given = Answer(acc.lines, s, shorted, browned).sample
  BY DEF given
<1> QED BY <1>1, <1>2, <1>5, <1>6, <1>7, <1>8, <1>9, TurnTaken

(* A sensor with a line puts its sample in and takes one out.                      *)
LEMMA LineTurn ==
  ASSUME Before, NEW acc, NEW done, Scanned(acc, done), NEW s \in OnLine, s \notin done,
         NEW shorted, NEW browned, Speaks(s),
         s \in PhSensor => Turns(done, LineOf(s)) = 0,
         s \notin PhSensor => PhOf(LineOf(s)) \in done
  PROVE  Scanned(Read(acc, s, shorted, browned), done \cup {s})
<1> DEFINE next   == Read(acc, s, shorted, browned)
           more   == done \cup {s}
           l      == LineOf(s)
           line   == acc.lines[l]
           put    == [at |-> now, by |-> s]
           after  == Put(line, put)
           target == now - Delay
           k      == Closest(after, target)
           given  == after[k]
<1>1. s \in Fitted /\ l \in Line /\ now \in Nat /\ Delay \in Nat /\ target \in Int
  BY RoomFacts DEF OnLine, Before
<1>2. put \in Sample /\ put.at = now /\ put.by = s
  BY <1>1 DEF Sample
<1>3. line \in Seq(Sample) /\ Sorted(line) /\ PhFirst(line) /\ Until(line, now)
      /\ (Turns(done, l) = 0 => Until(line, now - 1))
  BY <1>1 DEF Scanned, LinesBy
<1>4. ReadSensor(acc.lines, s) = [line |-> after, sample |-> given]
  BY <1>1, <1>2, LineFacts DEF ReadSensor, Transported
<1>5. /\ \A m \in Line : next.lines[m] = IF m = l THEN after ELSE acc.lines[m]
      /\ next.lines = [m \in Line |-> next.lines[m]]
  BY <1>4 DEF Read
<1>6. next.readings[s].sample = given /\ given = Answer(acc.lines, s, shorted, browned).sample
  <2>1. s \in DOMAIN acc.readings
    BY <1>1 DEF Scanned, ReadingsBy
  <2>2. next.readings[s] = Answer(acc.lines, s, shorted, browned)
    BY <2>1 DEF Read
  <2>3. Answer(acc.lines, s, shorted, browned).sample = ReadSensor(acc.lines, s).sample
    BY <1>1, AnswerFacts
  <2> HIDE DEF next, given, after
  <2> QED BY <1>4, <2>2, <2>3
<1> HIDE DEF put, line
<1>7. /\ after \in Seq(Sample) /\ Len(after) \in Nat \ {0}
      /\ Sorted(after) /\ Until(after, now) /\ PhFirst(after)
      /\ \A a, goal \in Int : a <= now /\ Behind(line, a, goal) => Behind(after, a, goal)
      /\ \A u, h : \A n \in Int :
           n + 1 < MaxSamples /\ Kept(line, u, h, n) => Kept(after, u, h, n + 1)
      /\ Kept(after, s, now, 0)
  BY <1>2, <1>3, PutKeeps
<1> HIDE DEF after, target
<1>8. /\ k \in 1 .. Len(after) /\ given \in Sample
      /\ Behind(after, given.at, target)
      /\ \A a, earlier \in Int : earlier < target /\ Behind(after, a, earlier) => given.at >= a
      /\ \A i \in 1 .. Len(after) : after[i].at = target => given.at = target /\ k <= i
  BY <1>1, <1>7, Delivers
<1>9. given.at \in Nat /\ given.at <= now
  BY <1>7, <1>8, Elements DEF Until
<1>10. /\ Turns(more, l) = Turns(done, l) + 1 /\ Turns(done, l) <= 1 /\ Turns(done, l) \in Nat
       /\ \A m \in Line : m # l => Turns(more, m) = Turns(done, m)
  BY <1>1, TurnsFacts
<1>11. \A u \in Fitted : u \in more <=> u \in done \/ u = s
  OBVIOUS
<1> DEFINE ls == next.lines
<1>12. ls[l] = after /\ \A m \in Line : m # l => ls[m] = acc.lines[m]
  BY <1>1, <1>5
<1>13. ls \in [Line -> Seq(Sample)]
  <2>1. \A m \in Line : ls[m] \in Seq(Sample)
    BY <1>7, <1>12 DEF Scanned, LinesBy
  <2> HIDE DEF next
  <2> QED BY <1>5, <2>1
<1>14. HeardNow(s) = heard[s] \cup {now} /\ heard[s] \subseteq Nat /\ \A h \in heard[s] : h <= now - 1
  BY <1>1, LineFacts DEF HeardNow, Before
<1> HIDE DEF next, more, l
<1>15. ASSUME NEW u \in OnLine, NEW h \in HeardBy(u, more), RoomForBoth, h >= now - Delay
       PROVE  Kept(ls[LineOf(u)], u, h, 2 * (now - h) - 1 + Turns(more, LineOf(u)))
  <2> HIDE DEF ls
  <2>1. u \in Fitted /\ LineOf(u) \in Line
    BY DEF OnLine
  <2>2. h \in Nat
    BY <1>1, <2>1 DEF HeardBy, HeardNow, Before
  <2>3. CASE u = s /\ h = now
    <3> DEFINE n == 2 * (now - h) - 1 + Turns(more, l)
    <3>1. 0 <= n /\ n \in Int /\ 0 \in Int
      BY <1>1, <1>10, <2>3
    <3>2. Kept(after, s, now, n)
      <4> HIDE DEF n
      <4> QED BY <1>7, <3>1, KeptLonger
    <3> QED BY <1>12, <2>3, <3>2 DEF l
  <2>4. CASE ~(u = s /\ h = now)
    <3>1. h \in HeardBy(u, done)
      BY <1>11, <1>14, <2>1, <2>4 DEF HeardBy
    <3>2. Kept(acc.lines[LineOf(u)], u, h, 2 * (now - h) - 1 + Turns(done, LineOf(u)))
      BY <1>15, <3>1 DEF Scanned, LinesBy
    <3>3. CASE LineOf(u) # l
      BY <1>10, <1>12, <2>1, <3>2, <3>3
    <3>4. CASE LineOf(u) = l
      <4> DEFINE n == 2 * (now - h) - 1 + Turns(done, l)
      <4>1. n \in Int /\ n + 1 < MaxSamples /\ n + 1 = 2 * (now - h) - 1 + Turns(more, l)
        BY <1>1, <1>10, <1>15, <2>2, RoomFacts DEF RoomForBoth
      <4>2. Kept(line, u, h, n)
        BY <3>2, <3>4 DEF line
      <4> HIDE DEF n
      <4>3. Kept(after, u, h, n + 1)
        BY <1>7, <4>1, <4>2
      <4> QED BY <1>12, <3>4, <4>1, <4>3
    <3> QED BY <3>3, <3>4
  <2> QED BY <2>3, <2>4
<1>16. LinesBy(ls, more)
  <2>1. ASSUME NEW m \in Line
        PROVE  /\ Sorted(ls[m]) /\ PhFirst(ls[m]) /\ Until(ls[m], now)
               /\ Turns(more, m) = 0 => Until(ls[m], now - 1)
    <3>1. CASE m = l
      BY <1>7, <1>10, <1>12, <3>1
    <3>2. CASE m # l
      BY <1>10, <1>12, <3>2 DEF Scanned, LinesBy
    <3> QED BY <3>1, <3>2
  <2> HIDE DEF ls
  <2> QED BY <1>13, <1>15, <2>1 DEF LinesBy
<1>17. ASSUME NEW u \in OnLine, NEW a \in Int, NEW goal \in Int, a <= now,
              Behind(acc.lines[LineOf(u)], a, goal)
       PROVE  Behind(ls[LineOf(u)], a, goal)
  <2>1. LineOf(u) \in Line
    BY DEF OnLine
  <2>2. CASE LineOf(u) = l
    BY <1>7, <1>12, <1>17, <2>2 DEF line
  <2>3. CASE LineOf(u) # l
    BY <1>12, <1>17, <2>1, <2>3
  <2> QED BY <2>2, <2>3
<1>18. Behind(ls[LineOf(s)], given.at, now - Delay)
  BY <1>8, <1>12 DEF l, target
<1>19. given.at >= readings[s].sample.at
  <2> DEFINE a == readings[s].sample.at
             earlier == now - 1 - Delay
  <2>1. acc.readings[s] = readings[s] /\ TargetBy(s, done) = earlier
    BY <1>1 DEF Scanned, ReadingsBy, TargetBy
  <2>2. a \in Int /\ a <= now /\ earlier \in Int /\ earlier < target
    BY <1>1 DEF Before, target
  <2>3. Behind(line, a, earlier)
    BY <2>1 DEF Scanned, ReadingsBy, line, l
  <2> HIDE DEF a, earlier
  <2>4. Behind(after, a, earlier)
    BY <1>7, <2>2, <2>3
  <2>5. given.at >= a
    BY <1>8, <2>2, <2>4
  <2> QED BY <2>5 DEF a
<1>20. ASSUME RoomForBoth PROVE RightWater(next.readings, s)
  <2> SUFFICES ASSUME target \in HeardNow(s)
               PROVE  /\ given.at = target
                      /\ \A t \in Fitted \cap PhSensor :
                           LineOf(t) = LineOf(s) /\ target \in HeardNow(t) => given.by = t
    BY <1>6 DEF RightWater, target
  <2>1. ASSUME NEW t \in OnLine, LineOf(t) = l, t \in more, target \in HeardNow(t)
        PROVE  \E i \in 1 .. Len(after) : after[i].at = target /\ after[i].by = t
    <3>1. target \in HeardBy(t, more) /\ target >= now - Delay
      BY <1>1, <2>1 DEF HeardBy, target
    <3>2. Kept(ls[LineOf(t)], t, target, 2 * (now - target) - 1 + Turns(more, LineOf(t)))
      BY <1>15, <1>20, <3>1
    <3>3. \E i \in 1 .. Len(ls[LineOf(t)]) : ls[LineOf(t)][i].at = target /\ ls[LineOf(t)][i].by = t
      BY <3>2 DEF Kept
    <3> HIDE DEF ls
    <3> QED BY <1>12, <2>1, <3>3
  <2>2. given.at = target
    <3>1. \E i \in 1 .. Len(after) : after[i].at = target /\ after[i].by = s
      BY <1>1, <1>11, <2>1 DEF l
    <3> QED BY <1>8, <3>1
  <2>3. ASSUME NEW t \in Fitted \cap PhSensor, LineOf(t) = LineOf(s), target \in HeardNow(t)
        PROVE  given.by = t
    <3>1. t \in OnLine /\ LineOf(t) = l /\ t = PhOf(l)
      <4>1. LineOf(t) \in Line /\ LineOf(t) = l
        BY <1>1, <2>3 DEF l
      <4>2. t # TempOf(l)
        BY <2>3, <4>1, LineFacts
      <4> QED BY <4>1, <4>2, LineFacts DEF OnLine
    <3>2. t \in more
      <4>1. CASE s \in PhSensor
        <5>1. s = PhOf(l)
          BY <1>1, <4>1, LineFacts DEF l
        <5> QED BY <1>1, <1>11, <3>1, <5>1
      <4>2. CASE s \notin PhSensor
        BY <1>11, <3>1, <4>2 DEF l
      <4> QED BY <4>1, <4>2
    <3>3. PICK i \in 1 .. Len(after) : after[i].at = target /\ after[i].by = t
      BY <2>1, <2>3, <3>1, <3>2
    <3>4. k <= i
      BY <1>8, <3>3
    <3>5. i <= k
      BY <1>7, <1>8, <2>2, <2>3, <3>3 DEF PhFirst
    <3>6. i = k
      BY <1>7, <1>8, <3>3, <3>4, <3>5
    <3> QED BY <3>3, <3>6
  <2> QED BY <2>2, <2>3
<1>21. given \in Sample \cup {Nothing} /\ given.at \in -1 .. now
  BY <1>1, <1>8, <1>9
<1> HIDE DEF given
<1>22. given = Answer(acc.lines, s, shorted, browned).sample
  BY <1>6
<1> QED BY <1>1, <1>16, <1>17, <1>18, <1>19, <1>20, <1>21, <1>22, TurnTaken DEF next, more

(* THE SUITE.  Its order gives every sensor one turn, and the pH sensor of a line     *)
(* the turn before the temperature sensor's.                                   *)
DoneBy(n) == {SuiteOrder[i] : i \in 1 .. n}

LEMMA SuiteFacts ==
  /\ Len(SuiteOrder) = 8 /\ Fitted \subseteq DoneBy(8)
  /\ \A n \in 1 .. 8 : /\ SuiteOrder[n] \notin DoneBy(n - 1)
                       /\ DoneBy(n) = DoneBy(n - 1) \cup {SuiteOrder[n]}
                       /\ LineOf(SuiteOrder[n]) \in Line =>
                            IF SuiteOrder[n] \in PhSensor
                            THEN Turns(DoneBy(n - 1), LineOf(SuiteOrder[n])) = 0
                            ELSE PhOf(LineOf(SuiteOrder[n])) \in DoneBy(n - 1)
  /\ DoneBy(0) = {} /\ \A l \in Line : Turns({}, l) = 0 /\ Turns(DoneBy(8), l) = 2
<1>1. /\ SuiteOrder[1] = "pH_inlet" /\ SuiteOrder[2] = "pH_outlet"
      /\ SuiteOrder[3] = "pH_middle" /\ SuiteOrder[4] = "chlorine_inlet"
      /\ SuiteOrder[5] = "chlorine_outlet" /\ SuiteOrder[6] = "flow_main"
      /\ SuiteOrder[7] = "temp_inlet" /\ SuiteOrder[8] = "temp_outlet"
      /\ Len(SuiteOrder) = 8 /\ DOMAIN SuiteOrder = 1 .. 8
  BY DEF SuiteOrder
<1>2. \A n \in 1 .. 8 : n = 1 \/ n = 2 \/ n = 3 \/ n = 4 \/ n = 5 \/ n = 6 \/ n = 7 \/ n = 8
  OBVIOUS
<1>3. Fitted \subseteq DoneBy(8)
  BY <1>1, ScanAssumption DEF ToSet, DoneBy
<1> HIDE DEF SuiteOrder
<1>4. \A i, j \in 1 .. 8 : SuiteOrder[i] = SuiteOrder[j] => i = j
  <2> TAKE i, j \in 1 .. 8
  <2>1. CASE i \in {1, 2, 3, 4}
    BY <1>1, <1>2, <2>1
  <2>2. CASE i \in {5, 6, 7, 8}
    BY <1>1, <1>2, <2>2
  <2> QED BY <2>1, <2>2, <1>2
<1>5. ASSUME NEW n \in 1 .. 8
      PROVE  SuiteOrder[n] \notin DoneBy(n - 1) /\ DoneBy(n) = DoneBy(n - 1) \cup {SuiteOrder[n]}
  <2>1. \A i : i \in 1 .. n <=> i \in 1 .. n - 1 \/ i = n
    OBVIOUS
  <2>2. \A i \in 1 .. n - 1 : i \in 1 .. 8 /\ i # n
    OBVIOUS
  <2>3. SuiteOrder[n] \notin DoneBy(n - 1)
    BY <1>4, <2>2 DEF DoneBy
  <2>4. DoneBy(n) = DoneBy(n - 1) \cup {SuiteOrder[n]}
    BY <2>1 DEF DoneBy
  <2> QED BY <2>3, <2>4
<1>6. ASSUME NEW n \in 1 .. 8, LineOf(SuiteOrder[n]) \in Line
      PROVE  IF SuiteOrder[n] \in PhSensor
             THEN Turns(DoneBy(n - 1), LineOf(SuiteOrder[n])) = 0
             ELSE PhOf(LineOf(SuiteOrder[n])) \in DoneBy(n - 1)
  <2> DEFINE s == SuiteOrder[n]
  <2>1. s \in {"pH_inlet", "pH_outlet", "temp_inlet", "temp_outlet"}
    BY <1>6, LineFacts DEF PhOf, TempOf
  <2>2. /\ 1 \in 1 .. 8 /\ 2 \in 1 .. 8 /\ 7 \in 1 .. 8 /\ 8 \in 1 .. 8
        /\ "pH_inlet" = SuiteOrder[1] /\ "pH_outlet" = SuiteOrder[2]
        /\ "temp_inlet" = SuiteOrder[7] /\ "temp_outlet" = SuiteOrder[8]
    BY <1>1
  <2>3. /\ s = "pH_inlet" => n = 1
        /\ s = "pH_outlet" => n = 2
        /\ s = "temp_inlet" => n = 7
        /\ s = "temp_outlet" => n = 8
    BY <1>4, <2>2
  <2>4. \A k \in 1 .. 8 : SuiteOrder[k] \in DoneBy(n - 1) => k <= n - 1
    BY <1>4 DEF DoneBy
  <2>5. \A k \in 1 .. 8 : k <= n - 1 => SuiteOrder[k] \in DoneBy(n - 1)
    BY DEF DoneBy
  <2>6. CASE s = "pH_inlet"
    <3>1. "pH_inlet" \notin DoneBy(n - 1) /\ "temp_inlet" \notin DoneBy(n - 1)
      BY <2>2, <2>3, <2>4, <2>6
    <3> QED BY <2>6, <3>1 DEF Turns, LineOf, PhOf, TempOf, PhSensor
  <2>7. CASE s = "pH_outlet"
    <3>1. "pH_outlet" \notin DoneBy(n - 1) /\ "temp_outlet" \notin DoneBy(n - 1)
      BY <2>2, <2>3, <2>4, <2>7
    <3> QED BY <2>7, <3>1 DEF Turns, LineOf, PhOf, TempOf, PhSensor
  <2>8. CASE s = "temp_inlet"
    <3>1. "pH_inlet" \in DoneBy(n - 1)
      BY <2>2, <2>3, <2>5, <2>8
    <3> QED BY <2>8, <3>1 DEF LineOf, PhOf, PhSensor
  <2>9. CASE s = "temp_outlet"
    <3>1. "pH_outlet" \in DoneBy(n - 1)
      BY <2>2, <2>3, <2>5, <2>9
    <3> QED BY <2>9, <3>1 DEF LineOf, PhOf, PhSensor
  <2> QED BY <2>1, <2>6, <2>7, <2>8, <2>9
<1>7. DoneBy(0) = {}
  BY DEF DoneBy
<1>8. \A l \in Line : Turns({}, l) = 0 /\ Turns(DoneBy(8), l) = 2
  <2>1. /\ "pH_inlet" \in DoneBy(8) /\ "pH_outlet" \in DoneBy(8)
        /\ "temp_inlet" \in DoneBy(8) /\ "temp_outlet" \in DoneBy(8)
    <3>1. 1 \in 1 .. 8 /\ 2 \in 1 .. 8 /\ 7 \in 1 .. 8 /\ 8 \in 1 .. 8
      OBVIOUS
    <3> QED BY <1>1, <3>1 DEF DoneBy
  <2> QED BY <2>1 DEF Turns, PhOf, TempOf
<1> QED BY <1>1, <1>3, <1>5, <1>6, <1>7, <1>8

-----------------------------------------------------------------------------
(* The recursive function of ReadAll exists, and has the turns taken one by one.     *)
ScanStep(u, n, shorted, browned) ==
  IF n = 0 THEN [lines |-> lines, readings |-> readings]
  ELSE IF SuiteOrder[n] \in Fitted THEN Read(u[n - 1], SuiteOrder[n], shorted, browned)
       ELSE u[n - 1]

IsScan(u, m, shorted, browned) == u = [n \in 0 .. m |-> ScanStep(u, n, shorted, browned)]

LEMMA ScanExists ==
  ASSUME NEW shorted, NEW browned, NEW n \in Nat
  PROVE  \E u : IsScan(u, n, shorted, browned)
<1> DEFINE Bad == {i \in Nat : ~\E u : IsScan(u, i, shorted, browned)}
<1> SUFFICES ASSUME Bad # {} PROVE FALSE
  OBVIOUS
<1>1. PICK m \in Bad : \A i \in Bad : m <= i
  BY LeastNatural
<1>2. m # 0
  <2>1. IsScan([i \in 0 .. 0 |-> [lines |-> lines, readings |-> readings]], 0, shorted, browned)
    BY DEF IsScan, ScanStep
  <2> QED BY <2>1
<1>3. PICK g : IsScan(g, m - 1, shorted, browned)
  <2>1. m - 1 \in Nat /\ ~(m <= m - 1)
    BY <1>1, <1>2
  <2> QED BY <1>1, <2>1
<1> DEFINE h == [i \in 0 .. m |-> IF i < m THEN g[i] ELSE ScanStep(g, m, shorted, browned)]
<1>4. \A i \in 0 .. m : h[i] = ScanStep(h, i, shorted, browned)
  <2> TAKE i \in 0 .. m
  <2>1. i # 0 => h[i - 1] = g[i - 1]
    BY <1>1
  <2>2. ScanStep(h, i, shorted, browned) = ScanStep(g, i, shorted, browned)
    <3>1. CASE i = 0
      BY <3>1 DEF ScanStep
    <3>2. CASE i # 0
      <4> DEFINE before == h[i - 1]
      <4>1. before = g[i - 1]
        BY <2>1, <3>2, Zenon
      <4>2. ScanStep(h, i, shorted, browned) =
              IF SuiteOrder[i] \in Fitted THEN Read(before, SuiteOrder[i], shorted, browned)
              ELSE before
        BY <3>2, Zenon DEF ScanStep
      <4> HIDE DEF before, h
      <4> QED BY <3>2, <4>1, <4>2, Zenon DEF ScanStep
    <3> QED BY <3>1, <3>2
  <2>3. CASE i = m
    BY <1>1, <2>2, <2>3
  <2>4. CASE i < m
    <3>1. i \in 0 .. m - 1
      BY <1>1, <2>4
    <3>2. g[i] = ScanStep(g, i, shorted, browned)
      BY <1>3, <3>1 DEF IsScan
    <3> QED BY <2>2, <2>4, <3>2
  <2> QED BY <1>1, <2>3, <2>4
<1>5. h = [i \in 0 .. m |-> h[i]]
  OBVIOUS
<1>6. IsScan(h, m, shorted, browned)
  <2> HIDE DEF h
  <2> QED BY <1>4, <1>5 DEF IsScan
<1> QED BY <1>1, <1>6

LEMMA ReadAllFacts ==
  ASSUME NEW shorted, NEW browned
  PROVE  \E u : /\ ReadAll(shorted, browned) = u[8]
                /\ u[0] = [lines |-> lines, readings |-> readings]
                /\ \A n \in 1 .. 8 :
                     u[n] = IF SuiteOrder[n] \in Fitted
                            THEN Read(u[n - 1], SuiteOrder[n], shorted, browned) ELSE u[n - 1]
<1> DEFINE u == CHOOSE g : IsScan(g, 8, shorted, browned)
<1>1. ReadAll(shorted, browned) = u[8]
  BY SuiteFacts DEF ReadAll, IsScan, ScanStep
<1>2. IsScan(u, 8, shorted, browned)
  <2>1. \E g : IsScan(g, 8, shorted, browned)
    BY ScanExists
  <2> QED BY <2>1
<1> HIDE DEF u
<1>3. \A n \in 0 .. 8 : u[n] = ScanStep(u, n, shorted, browned)
  BY <1>2 DEF IsScan
<1>4. u[0] = [lines |-> lines, readings |-> readings]
  BY <1>3 DEF ScanStep
<1>5. ASSUME NEW n \in 1 .. 8
      PROVE  u[n] = IF SuiteOrder[n] \in Fitted
                    THEN Read(u[n - 1], SuiteOrder[n], shorted, browned) ELSE u[n - 1]
  <2>1. n \in 0 .. 8 /\ n # 0
    OBVIOUS
  <2>2. u[n] = ScanStep(u, n, shorted, browned)
    BY <1>3, <2>1
  <2> QED BY <2>1, <2>2, Zenon DEF ScanStep
<1> QED BY <1>1, <1>4, <1>5

(* One scan, from what it starts from to what it leaves.                          *)
LEMMA WholeScan ==
  ASSUME Before, Scanned([lines |-> lines, readings |-> readings], {}),
         NEW shorted, NEW browned
  PROVE  Scanned(ReadAll(shorted, browned), DoneBy(8))
<1>1. PICK u : /\ ReadAll(shorted, browned) = u[8]
               /\ u[0] = [lines |-> lines, readings |-> readings]
               /\ \A n \in 1 .. 8 :
                    u[n] = IF SuiteOrder[n] \in Fitted
                           THEN Read(u[n - 1], SuiteOrder[n], shorted, browned) ELSE u[n - 1]
  BY ReadAllFacts
<1> DEFINE Bad == {n \in 0 .. 8 : ~Scanned(u[n], DoneBy(n))}
<1>2. Bad = {}
  <2> SUFFICES ASSUME Bad # {} PROVE FALSE
    OBVIOUS
  <2>1. PICK n \in Bad : \A i \in Bad : n <= i
    <3>1. Bad \subseteq Nat
      OBVIOUS
    <3> HIDE DEF Bad
    <3> QED BY <3>1, LeastNatural
  <2>2. n # 0
    BY <1>1, SuiteFacts
  <2>3. n \in 1 .. 8 /\ n - 1 \in 0 .. 8 /\ ~(n <= n - 1)
    BY <2>2
  <2>4. Scanned(u[n - 1], DoneBy(n - 1))
    BY <2>1, <2>3
  <2> DEFINE acc  == u[n - 1]
             done == DoneBy(n - 1)
             s    == SuiteOrder[n]
             next == Read(acc, s, shorted, browned)
  <2>5. /\ u[n] = IF s \in Fitted THEN next ELSE acc
        /\ s \notin done /\ DoneBy(n) = done \cup {s} /\ Scanned(acc, done)
    BY <1>1, <2>3, <2>4, SuiteFacts
  <2>6. LineOf(s) \in Line => IF s \in PhSensor THEN Turns(done, LineOf(s)) = 0
                             ELSE PhOf(LineOf(s)) \in done
    BY <2>3, SuiteFacts
  <2>7. ~Scanned(u[n], DoneBy(n))
    BY <2>1
  <2> HIDE DEF acc, done, s
  <2>8. CASE s \notin Fitted
    BY <2>5, <2>7, <2>8, SkipSensor
  <2>9. CASE s \in Fitted /\ (~Speaks(s) \/ LineOf(s) \notin Line)
    BY <2>5, <2>7, <2>9, LinelessTurn
  <2>10. CASE s \in Fitted /\ Speaks(s) /\ LineOf(s) \in Line
    <3>1. s \in OnLine
      BY <2>10 DEF OnLine
    <3> QED BY <2>5, <2>6, <2>7, <2>10, <3>1, LineTurn
  <2> QED BY <2>8, <2>9, <2>10
<1>3. 8 \in 0 .. 8
  OBVIOUS
<1> QED BY <1>1, <1>2, <1>3


-----------------------------------------------------------------------------
(* BETWEEN SCANS.  The scan the readings are of: while one waits to be taken, the     *)
(* one before.                                                               *)
LastScan == IF phase.at = "read" THEN now - 1 ELSE now

LinesTyped ==
  /\ now \in Nat /\ phase \in [at : {"read", "publish", "serve"}, next : 1 .. 13]
  /\ silent \in [Fitted -> Nat \cup {Dead}] /\ heard \in [Fitted -> SUBSET Nat]
  /\ lines \in [Line -> Seq(Sample)] /\ readings \in [Fitted -> Taken]

(* A line is in the order of its samples' times, the pH sensor's first, and has none  *)
(* of a scan yet to come.                                                      *)
LinesOrdered ==
  \A l \in Line : Sorted(lines[l]) /\ PhFirst(lines[l]) /\ Until(lines[l], LastScan)

(* Nothing was delivered, or is remembered, of a scan yet to come.                *)
NotAhead ==
  \A s \in Fitted : /\ readings[s].sample.at \in -1 .. LastScan
                    /\ \A h \in heard[s] : h <= LastScan
                    /\ LineOf(s) = "none" => heard[s] = {}

(* What a sensor was given was the best for its scan, and a sample that is not older  *)
(* than the transport delay is still in its line.                               *)
StillThere ==
  \A s \in OnLine :
     /\ Behind(lines[LineOf(s)], readings[s].sample.at, LastScan - Delay)
     /\ \A h \in heard[s] : RoomForBoth /\ h >= LastScan - Delay =>
          Kept(lines[LineOf(s)], s, h, 2 * (LastScan - h) + 1)

LinesInv == LinesTyped /\ LinesOrdered /\ NotAhead /\ StillThere /\ (RoomForBoth => SettledSample)

LEMMA LinesStart == Init => LinesInv
<1> SUFFICES ASSUME Init PROVE LinesInv
  OBVIOUS
<1>1. /\ now = 0 /\ phase = [at |-> "read", next |-> 1] /\ silent = WarmUp
      /\ \A l \in Line : lines[l] = <<>>
      /\ \A s \in Fitted : readings[s] = Reading(Nothing, "lost", FALSE) /\ heard[s] = {}
  BY DEF Init
<1>2. LastScan = -1
  BY <1>1 DEF LastScan
<1>3. /\ Reading(Nothing, "lost", FALSE).sample = Nothing /\ Nothing.at = -1
      /\ Reading(Nothing, "lost", FALSE) \in Taken
  BY DEF Reading, Nothing, Taken
<1>4. LinesTyped
  <2>1. silent \in [Fitted -> Nat \cup {Dead}] /\ heard \in [Fitted -> SUBSET Nat]
    BY <1>1, ScanAssumption DEF Init
  <2>2. lines \in [Line -> Seq(Sample)]
    <3>1. lines = [l \in Line |-> <<>>] /\ <<>> \in Seq(Sample)
      BY DEF Init
    <3> QED BY <3>1
  <2>3. readings \in [Fitted -> Taken]
    <3>1. readings = [s \in Fitted |-> Reading(Nothing, "lost", FALSE)]
      BY DEF Init
    <3> QED BY <1>3, <3>1
  <2> QED BY <1>1, <2>1, <2>2, <2>3 DEF LinesTyped
<1>5. LinesOrdered
  BY <1>1 DEF LinesOrdered, Sorted, PhFirst, Until
<1>6. NotAhead
  <2>1. \A s \in Fitted : readings[s].sample.at = -1 /\ heard[s] = {}
    BY <1>1, <1>3, Zenon
  <2>2. -1 \in -1 .. LastScan
    BY <1>2
  <2> QED BY <2>1, <2>2 DEF NotAhead
<1>7. StillThere
  <2> SUFFICES ASSUME NEW s \in OnLine
               PROVE  /\ Behind(lines[LineOf(s)], readings[s].sample.at, LastScan - Delay)
                      /\ heard[s] = {}
    BY DEF StillThere
  <2>1. lines[LineOf(s)] = <<>> /\ heard[s] = {}
    BY <1>1 DEF OnLine
  <2> QED BY <2>1 DEF Behind
<1>8. SettledSample
  BY <1>1 DEF SettledSample
<1> QED BY <1>4, <1>5, <1>6, <1>7, <1>8 DEF LinesInv

(* What the next scan starts from.                                             *)
LEMMA ScanStarts ==
  ASSUME LinesInv, phase.at = "read"
  PROVE  Before /\ Scanned([lines |-> lines, readings |-> readings], {})
<1>1. LastScan = now - 1 /\ now \in Nat /\ Delay \in Nat
  BY RoomFacts DEF LastScan, LinesInv, LinesTyped
<1>2. Before
  BY <1>1 DEF LinesInv, LinesTyped, NotAhead, Before
<1>3. LinesBy(lines, {})
  <2>1. ASSUME NEW l \in Line
        PROVE  /\ Sorted(lines[l]) /\ PhFirst(lines[l]) /\ Until(lines[l], now)
               /\ Until(lines[l], now - 1)
    <3>1. Sorted(lines[l]) /\ PhFirst(lines[l]) /\ Until(lines[l], now - 1)
      BY <1>1 DEF LinesInv, LinesOrdered
    <3>2. \A i \in 1 .. Len(lines[l]) : lines[l][i].at \in Nat
      BY Elements DEF LinesInv, LinesTyped
    <3>3. Until(lines[l], now)
      BY <1>1, <3>1, <3>2 DEF Until
    <3> QED BY <3>1, <3>3
  <2>2. ASSUME NEW s \in OnLine, NEW h \in HeardBy(s, {}), RoomForBoth, h >= now - Delay
        PROVE  Kept(lines[LineOf(s)], s, h, 2 * (now - h) - 1 + Turns({}, LineOf(s)))
    <3>1. h \in heard[s] /\ h \in Nat
      BY DEF HeardBy, LinesInv, LinesTyped, OnLine
    <3>2. h >= LastScan - Delay
      BY <1>1, <2>2, <3>1
    <3>3. Kept(lines[LineOf(s)], s, h, 2 * (LastScan - h) + 1)
      BY <2>2, <3>1, <3>2 DEF LinesInv, StillThere
    <3>4. Turns({}, LineOf(s)) = 0
      BY SuiteFacts DEF OnLine
    <3>5. 2 * (LastScan - h) + 1 = 2 * (now - h) - 1 + Turns({}, LineOf(s))
      BY <1>1, <3>1, <3>4
    <3> QED BY <3>3, <3>5
  <2>3. lines \in [Line -> Seq(Sample)]
    BY DEF LinesInv, LinesTyped
  <2> QED BY <2>1, <2>2, <2>3 DEF LinesBy
<1>4. ReadingsBy(lines, readings, {})
  <2>1. readings \in [Fitted -> Taken]
    BY DEF LinesInv, LinesTyped
  <2>2. \A s \in OnLine : Behind(lines[LineOf(s)], readings[s].sample.at, TargetBy(s, {}))
    BY <1>1 DEF TargetBy, LinesInv, StillThere
  <2>3. \A s \in Fitted : readings[s].sample.at \in -1 .. now
    BY <1>1 DEF LinesInv, NotAhead
  <2> QED BY <2>1, <2>2, <2>3 DEF ReadingsBy
<1> QED BY <1>2, <1>3, <1>4 DEF Scanned

(* One pass of read_all_sensors.                                               *)
LEMMA PassKeeps ==
  ASSUME LinesInv, ReadSensors
  PROVE  /\ LinesInv'
         /\ \A s \in Fitted : readings'[s].sample # Nothing =>
              readings'[s].sample.at >= readings[s].sample.at
<1>1. PICK shorted, browned \in SUBSET {s \in Fitted : silent[s] # Dead} :
        /\ lines' = ReadAll(shorted, browned).lines
        /\ readings' = ReadAll(shorted, browned).readings
        /\ silent' = [s \in Fitted |-> CASE s \in browned -> Dead
                                         [] s \notin browned /\ silent[s] > 0 -> silent[s] - 1
                                         [] OTHER -> silent[s]]
  BY DEF ReadSensors
<1>2. /\ phase.at = "read" /\ now' = now /\ now \in Nat /\ Delay \in Nat
      /\ phase' \in [at : {"publish", "serve"}, next : 1 .. 13]
  BY RoomFacts DEF ReadSensors, LinesInv, LinesTyped
<1>3. heard' = [s \in Fitted |-> HeardNow(s)]
  BY DEF ReadSensors, HeardNow
<1>4. Before /\ Scanned([lines |-> lines, readings |-> readings], {})
  BY <1>2, ScanStarts
<1>5. Scanned(ReadAll(shorted, browned), DoneBy(8))
  BY <1>4, WholeScan
<1>6. LinesBy(lines', DoneBy(8)) /\ ReadingsBy(lines', readings', DoneBy(8))
  BY <1>1, <1>5 DEF Scanned
<1>7. \A s \in Fitted : s \in DoneBy(8) /\ HeardBy(s, DoneBy(8)) = HeardNow(s)
                        /\ heard'[s] = HeardNow(s)
  BY <1>3, SuiteFacts DEF HeardBy
<1>8. LastScan' = now
  BY <1>2 DEF LastScan
<1>9. LinesTyped'
  <2>1. silent' \in [Fitted -> Nat \cup {Dead}]
    <3>1. \A s \in Fitted : silent[s] \in Nat \cup {Dead}
      BY <1>4 DEF Before
    <3>2. \A s \in Fitted : silent[s] > 0 => silent[s] - 1 \in Nat
      BY <3>1 DEF Dead
    <3> QED BY <1>1, <3>1, <3>2
  <2>2. heard' \in [Fitted -> SUBSET Nat]
    <3>1. \A s \in Fitted : HeardNow(s) \subseteq Nat
      BY <1>2, <1>4 DEF Before, HeardNow
    <3> QED BY <1>3, <3>1
  <2>3. lines' \in [Line -> Seq(Sample)] /\ readings' \in [Fitted -> Taken]
    BY <1>6 DEF LinesBy, ReadingsBy
  <2>4. phase' \in [at : {"read", "publish", "serve"}, next : 1 .. 13]
    BY <1>2
  <2> QED BY <1>2, <2>1, <2>2, <2>3, <2>4 DEF LinesTyped
<1>10. LinesOrdered'
  BY <1>6, <1>8 DEF LinesOrdered, LinesBy
<1>11. NotAhead'
  <2> SUFFICES ASSUME NEW s \in Fitted
               PROVE  /\ readings'[s].sample.at \in -1 .. now
                      /\ \A h \in heard'[s] : h <= now
                      /\ LineOf(s) = "none" => heard'[s] = {}
    BY <1>8 DEF NotAhead
  <2>1. readings'[s].sample.at \in -1 .. now
    BY <1>6 DEF ReadingsBy
  <2>2. \A h \in HeardNow(s) : h <= now
    <3>1. \A h \in heard[s] : h \in Nat /\ h <= now - 1
      BY <1>4 DEF Before
    <3> QED BY <1>2, <3>1 DEF HeardNow
  <2>3. LineOf(s) = "none" => HeardNow(s) = {}
    BY <1>4 DEF HeardNow, Before
  <2> QED BY <1>7, <2>1, <2>2, <2>3
<1>12. StillThere'
  <2> SUFFICES ASSUME NEW s \in OnLine
               PROVE  /\ Behind(lines'[LineOf(s)], readings'[s].sample.at, now - Delay)
                      /\ \A h \in heard'[s] : RoomForBoth /\ h >= now - Delay =>
                           Kept(lines'[LineOf(s)], s, h, 2 * (now - h) + 1)
    BY <1>8 DEF StillThere, OnLine, RoomForBoth
  <2>0. s \in Fitted /\ LineOf(s) \in Line
    BY DEF OnLine
  <2>1. TargetBy(s, DoneBy(8)) = now - Delay
    BY <1>7, <2>0 DEF TargetBy
  <2>2. Behind(lines'[LineOf(s)], readings'[s].sample.at, now - Delay)
    BY <1>6, <2>1 DEF ReadingsBy
  <2>3. ASSUME NEW h \in heard'[s], RoomForBoth, h >= now - Delay
        PROVE  Kept(lines'[LineOf(s)], s, h, 2 * (now - h) + 1)
    <3>1. h \in HeardBy(s, DoneBy(8)) /\ h \in Nat
      BY <1>7, <1>9, <2>0 DEF LinesTyped
    <3>2. Kept(lines'[LineOf(s)], s, h, 2 * (now - h) - 1 + Turns(DoneBy(8), LineOf(s)))
      BY <1>6, <2>3, <3>1 DEF LinesBy
    <3>3. 2 * (now - h) - 1 + Turns(DoneBy(8), LineOf(s)) = 2 * (now - h) + 1
      BY <1>2, <2>0, <3>1, SuiteFacts
    <3> QED BY <3>2, <3>3
  <2> QED BY <2>2, <2>3
<1>13. ASSUME RoomForBoth' PROVE SettledSample'
  <2> SUFFICES ASSUME NEW s \in Fitted, readings'[s].sample # Nothing, now - Delay \in heard'[s]
               PROVE  /\ readings'[s].sample.at = now - Delay
                      /\ \A t \in Fitted \cap PhSensor :
                           LineOf(t) = LineOf(s) /\ (now - Delay) \in heard'[t]
                             => readings'[s].sample.by = t
    BY <1>2 DEF SettledSample, PhSensor
  <2>1. RightWater(readings', s)
    BY <1>6, <1>7, <1>13 DEF ReadingsBy, RoomForBoth
  <2> QED BY <1>7, <2>1 DEF RightWater
<1>14. \A s \in Fitted : readings'[s].sample # Nothing =>
         readings'[s].sample.at >= readings[s].sample.at
  BY <1>6, <1>7 DEF ReadingsBy
<1> QED BY <1>9, <1>10, <1>11, <1>12, <1>13, <1>14 DEF LinesInv

(* A service between two scans may empty a line, of which nothing is remembered then.  *)
LEMMA ServiceKeeps ==
  ASSUME LinesInv, phase.at = "serve", NextScan, readings' = readings,
         silent' \in [Fitted -> Nat \cup {Dead}],
         \/ lines' = lines /\ heard' = heard
         \/ \E s \in Fitted : ResetSensor(s)
  PROVE  LinesInv'
<1>1. /\ now' = now + 1 /\ phase' = [at |-> "read", next |-> 1] /\ LastScan = now
      /\ now \in Nat
  BY DEF NextScan, LastScan, LinesInv, LinesTyped
<1>2. LastScan' = LastScan
  BY <1>1 DEF LastScan
<1>3. /\ \A l \in Line : lines'[l] = lines[l] \/ lines'[l] = <<>>
      /\ lines' = [l \in Line |-> lines'[l]]
      /\ \A s \in Fitted : \/ heard'[s] = heard[s] /\ lines'[LineOf(s)] = lines[LineOf(s)]
                           \/ heard'[s] = heard[s] /\ LineOf(s) \notin Line
                           \/ heard'[s] = {}
      /\ heard' = [s \in Fitted |-> heard'[s]]
  <2>1. CASE lines' = lines /\ heard' = heard
    BY <2>1 DEF LinesInv, LinesTyped
  <2>2. ASSUME NEW s \in Fitted, ResetSensor(s)
        PROVE  <1>3!1 /\ <1>3!2 /\ <1>3!3 /\ <1>3!4
    BY <2>2 DEF ResetSensor
  <2> QED BY <2>1, <2>2
<1>4. \A l \in Line : lines'[l] \in Seq(Sample)
  <2> TAKE l \in Line
  <2>1. lines[l] \in Seq(Sample) /\ <<>> \in Seq(Sample)
    BY DEF LinesInv, LinesTyped
  <2>2. lines'[l] = lines[l] \/ lines'[l] = <<>>
    BY <1>3
  <2> QED BY <2>1, <2>2
<1>5. \A s \in Fitted : heard'[s] \subseteq heard[s]
  BY <1>3
<1>6. LinesTyped'
  <2>1. lines' \in [Line -> Seq(Sample)]
    BY <1>3, <1>4
  <2>2. heard' \in [Fitted -> SUBSET Nat]
    BY <1>3, <1>5 DEF LinesInv, LinesTyped
  <2>3. now' \in Nat /\ phase' \in [at : {"read", "publish", "serve"}, next : 1 .. 13]
    BY <1>1
  <2> QED BY <2>1, <2>2, <2>3 DEF LinesTyped, LinesInv
<1>7. LinesOrdered'
  <2> SUFFICES ASSUME NEW l \in Line
               PROVE  Sorted(lines'[l]) /\ PhFirst(lines'[l]) /\ Until(lines'[l], LastScan)
    BY <1>2 DEF LinesOrdered
  <2>1. CASE lines'[l] = lines[l]
    BY <2>1 DEF LinesInv, LinesOrdered
  <2>2. CASE lines'[l] = <<>>
    BY <2>2 DEF Sorted, PhFirst, Until
  <2> QED BY <1>3, <2>1, <2>2
<1>8. NotAhead'
  BY <1>2, <1>5 DEF LinesInv, NotAhead
<1>9. StillThere'
  <2> SUFFICES ASSUME NEW s \in OnLine
               PROVE  /\ Behind(lines'[LineOf(s)], readings[s].sample.at, LastScan - Delay)
                      /\ \A h \in heard'[s] : RoomForBoth /\ h >= LastScan - Delay =>
                           Kept(lines'[LineOf(s)], s, h, 2 * (LastScan - h) + 1)
    BY <1>2 DEF StillThere, OnLine, RoomForBoth
  <2>0. s \in Fitted /\ LineOf(s) \in Line
    BY DEF OnLine
  <2>1. Behind(lines'[LineOf(s)], readings[s].sample.at, LastScan - Delay)
    <3>1. CASE lines'[LineOf(s)] = lines[LineOf(s)]
      BY <3>1 DEF LinesInv, StillThere
    <3>2. CASE lines'[LineOf(s)] = <<>>
      BY <3>2 DEF Behind
    <3> QED BY <1>3, <2>0, <3>1, <3>2
  <2>2. CASE heard'[s] = heard[s] /\ lines'[LineOf(s)] = lines[LineOf(s)]
    BY <2>1, <2>2 DEF LinesInv, StillThere
  <2>3. CASE heard'[s] = {}
    BY <2>1, <2>3
  <2> QED BY <1>3, <2>0, <2>2, <2>3
<1>10. SettledSample'
  BY <1>1 DEF SettledSample
<1> QED BY <1>6, <1>7, <1>8, <1>9, <1>10 DEF LinesInv

LEMMA LinesStep ==
  ASSUME LinesInv, [Next]_vars
  PROVE  /\ LinesInv'
         /\ \A s \in Fitted : readings'[s].sample # Nothing =>
              readings'[s].sample.at >= readings[s].sample.at
<1>1. CASE ReadSensors
  BY <1>1, PassKeeps
<1>2. ASSUME readings' = readings
      PROVE  \A s \in Fitted : readings'[s].sample.at >= readings[s].sample.at
  <2>1. \A s \in Fitted : readings[s].sample.at \in Int
    BY DEF LinesInv, NotAhead
  <2> QED BY <1>2, <2>1
<1>3. ASSUME /\ now' = now /\ phase' \in [at : {"read", "publish", "serve"}, next : 1 .. 13]
             /\ phase'.at = "read" <=> phase.at = "read"
             /\ UNCHANGED <<silent, lines, readings, heard>>
      PROVE  LinesInv'
  <2>1. LastScan' = LastScan
    BY <1>3 DEF LastScan
  <2>2. LinesTyped' /\ LinesOrdered' /\ NotAhead' /\ StillThere'
    BY <1>3, <2>1 DEF LinesInv, LinesTyped, LinesOrdered, NotAhead, StillThere, OnLine, RoomForBoth
  <2>3. SettledSample => SettledSample'
    <3>1. phase.at \in {"read", "publish", "serve"} /\ phase'.at \in {"read", "publish", "serve"}
      BY <1>3 DEF LinesInv, LinesTyped
    <3> QED BY <1>3, <3>1 DEF SettledSample
  <2> QED BY <2>2, <2>3 DEF LinesInv, RoomForBoth
<1>4. CASE Publish
  <2>1. /\ phase.at = "publish" /\ now' = now /\ UNCHANGED <<silent, lines, readings, heard>>
        /\ phase' = IF phase.next < 13 THEN [phase EXCEPT !.next = @ + 1]
                    ELSE [at |-> "serve", next |-> 1]
    BY <1>4, OrderFacts DEF Publish
  <2>2. phase \in [at : {"read", "publish", "serve"}, next : 1 .. 13]
    BY DEF LinesInv, LinesTyped
  <2>3. phase' \in [at : {"publish", "serve"}, next : 1 .. 13]
    BY <2>1, <2>2
  <2> QED BY <1>2, <1>3, <2>1, <2>3
<1>5. CASE Serve
  <2>1. /\ phase.at = "serve" /\ NextScan /\ readings' = readings
        /\ \E s \in Fitted : ResetSensor(s) \/ Recalibrate(s)
    BY <1>5 DEF Serve
  <2>2. PICK s \in Fitted : ResetSensor(s) \/ Recalibrate(s)
    BY <2>1
  <2>3. silent' = silent \/ WarmsUp(s)
    BY <2>2 DEF ResetSensor, Recalibrate
  <2>4. silent' \in [Fitted -> Nat \cup {Dead}]
    <3>1. CASE silent' = silent
      BY <3>1 DEF LinesInv, LinesTyped
    <3>2. CASE WarmsUp(s)
      <4>1. PICK lag \in 0 .. MaxLag :
              silent' = [silent EXCEPT ![s] = IF @ = Dead THEN Dead ELSE WarmUp[s] + lag]
        BY <3>2 DEF WarmsUp
      <4>2. WarmUp[s] + lag \in Nat
        BY ScanAssumption
      <4> QED BY <4>1, <4>2 DEF LinesInv, LinesTyped
    <3> QED BY <2>3, <3>1, <3>2
  <2>5. (lines' = lines /\ heard' = heard) \/ ResetSensor(s)
    BY <2>2 DEF Recalibrate
  <2>6. LinesInv'
    BY <2>1, <2>4, <2>5, ServiceKeeps
  <2> QED BY <1>2, <2>1, <2>6
<1>6. CASE Idle
  <2>1. /\ phase.at = "serve" /\ NextScan /\ readings' = readings /\ silent' = silent
        /\ lines' = lines /\ heard' = heard
    BY <1>6 DEF Idle
  <2>2. silent' \in [Fitted -> Nat \cup {Dead}]
    BY <2>1 DEF LinesInv, LinesTyped
  <2>3. LinesInv'
    BY <2>1, <2>2, ServiceKeeps
  <2> QED BY <1>2, <2>1, <2>3
<1>7. CASE ServerStops \/ UNCHANGED vars
  <2>1. UNCHANGED <<now, phase, silent, lines, readings, heard>>
    BY <1>7 DEF ServerStops, vars
  <2>2. phase' \in [at : {"read", "publish", "serve"}, next : 1 .. 13]
    BY <2>1 DEF LinesInv, LinesTyped
  <2> QED BY <1>2, <1>3, <2>1, <2>2
<1> QED BY <1>1, <1>4, <1>5, <1>6, <1>7 DEF Next

LEMMA LinesAlways == Spec => []LinesInv
<1>1. LinesInv /\ [Next]_vars => LinesInv'
  BY LinesStep
<1> QED BY <1>1, LinesStart, PTL DEF Spec

(* A sensor is never given water older than what it was given before, whatever is     *)
(* reset, silent or faulty beside it and however short the delay buffer           *)
(* (SampleLine.transport_sample, called in the order of read_all_sensors).         *)
THEOREM InOrder == Spec => SamplesInOrder
<1>1. ASSUME LinesInv, [Next]_vars
      PROVE  [\A s \in Fitted : readings'[s].sample # Nothing =>
                readings'[s].sample.at >= readings[s].sample.at]_vars
  BY <1>1, LinesStep
<1> QED BY <1>1, LinesAlways, PTL DEF Spec, SamplesInOrder

(* With room for both sensors of a line during one transport delay, as the buffer of   *)
(* __post_init__ has at one scan a second (62 samples of its 100), a settled line delivers the water of      *)
(* exactly one transport delay ago, and the pH sensor's sample of it               *)
(* (SampleLine.transport_sample).                                              *)
THEOREM WaterOfTheMoment == RoomForBoth => (Spec => []SettledSample)
<1>1. ASSUME RoomForBoth PROVE LinesInv => SettledSample
  BY <1>1 DEF LinesInv
<1> SUFFICES ASSUME RoomForBoth PROVE Spec => []SettledSample
  OBVIOUS
<1>2. LinesInv => SettledSample
  BY <1>1
<1> QED BY <1>2, LinesAlways, PTL

=============================================================================
