-------------------------- MODULE BundleExport_proofs --------------------------
(***************************************************************************)
(* Machine-checked facts about BundleExport, for any number of exporters, any   *)
(* requests, any number of artifacts and any number of retries.  What a request *)
(* selects and whether it can be built is never looked into: whatever Refusals  *)
(* says, the directory is written by one export only.                         *)
(***************************************************************************)
EXTENDS BundleExport, TLAPS

USE ExportAssumption

Busy(e) == pc[e] \in {"build", "write"}

(* A whole file of the export e is running.                                   *)
Mine(e) == [by |-> e, of |-> request[e], whole |-> TRUE]

(* Who passed mkdir has the directory to itself, which is why nothing needs a    *)
(* lock afterwards.                                                        *)
OneWriter ==
  /\ \A e, d \in Exporters : Busy(e) /\ Busy(d) => e = d
  /\ \A e \in Exporters : Busy(e) => made

NothingWithoutIt == ~made => \A f \in 1 .. Seal : file[f] = Absent

(* An export starts with an empty directory and fills it from the first file on.  *)
Filling ==
  \A e \in Exporters :
    /\ pc[e] \in {"check", "mkdir", "build"} => pos[e] = 1
    /\ Busy(e) => \A f \in 1 .. Seal : file[f] = IF f < pos[e] THEN Mine(e) ELSE Absent

BundleInv == TypeOK /\ OneWriter /\ NothingWithoutIt /\ Filling /\ SealedIsWhole

LEMMA SealFacts == Seal \in Nat /\ 1 \in 1 .. Seal /\ 1 .. Artifacts \subseteq 1 .. Seal
                   /\ Seal \in 1 .. Seal /\ Seal \notin 1 .. Artifacts
  BY DEF Seal

(* What a file of the directory may be.                                       *)
FileRecord == [by : Exporters \cup {Nobody}, of : Requests \cup {NoRequest}, whole : BOOLEAN]

LEMMA AbsentIsAFile == Absent \in FileRecord /\ [f \in 1 .. Seal |-> Absent] \in [1 .. Seal -> FileRecord]
<1>1. Absent \in FileRecord
  BY DEF Absent, FileRecord
<1> QED BY <1>1

LEMMA BundleStarts == Init => BundleInv
<1> SUFFICES ASSUME Init PROVE BundleInv
  OBVIOUS
<1>0. file \in [1 .. Seal -> FileRecord]
  BY AbsentIsAFile DEF Init
<1>1. TypeOK
  <2>1. made \in BOOLEAN
    BY DEF Init
  <2>2. /\ pc \in [Exporters -> {"check", "mkdir", "build", "write", "done", "stopped"}]
        /\ request \in [Exporters -> Requests]
        /\ pos \in [Exporters -> 1 .. Seal]
        /\ retries \in 0 .. MaxRetries
    BY SealFacts DEF Init
  <2> QED BY <1>0, <2>1, <2>2 DEF TypeOK, FileRecord
<1>2. OneWriter /\ NothingWithoutIt /\ Filling
  BY DEF Init, OneWriter, NothingWithoutIt, Filling, Busy
<1>3. SealedIsWhole
  BY SealFacts DEF Init, SealedIsWhole, Absent
<1> QED BY <1>1, <1>2, <1>3 DEF BundleInv

(* Before its first file and after its last, an export only moves on.           *)
LEMMA QuietStep ==
  ASSUME BundleInv, NEW e \in Exporters, Check(e) \/ Build(e) \/ Crash(e)
  PROVE  BundleInv'
<1> USE DEF BundleInv
<1>1. /\ UNCHANGED <<made, file, request, pos, retries>>
      /\ \E l \in {"mkdir", "build", "write", "done", "stopped"} : pc' = [pc EXCEPT ![e] = l]
      /\ Busy(e)' => Busy(e)
      /\ pc[e]' \in {"mkdir", "write", "stopped"}
      /\ pc[e]' = "mkdir" => pc[e] = "check"
  BY DEF Check, Build, Crash, Goto, Busy, TypeOK
<1>2. TypeOK'
  BY <1>1 DEF TypeOK
<1>3. \A d \in Exporters : d # e => pc'[d] = pc[d]
  BY <1>1 DEF TypeOK
<1>4. \A d \in Exporters : Busy(d)' => Busy(d)
  BY <1>1, <1>3 DEF Busy
<1>5. OneWriter' /\ NothingWithoutIt' /\ SealedIsWhole'
  BY <1>1, <1>4 DEF OneWriter, NothingWithoutIt, SealedIsWhole
<1>6. Filling'
  BY <1>1, <1>3, <1>4 DEF Filling, Mine
<1> QED BY <1>2, <1>5, <1>6

LEMMA MkdirStep ==
  ASSUME BundleInv, NEW e \in Exporters, Mkdir(e)
  PROVE  BundleInv'
<1> USE DEF BundleInv, Mkdir, Goto
<1>1. TypeOK'
  BY DEF TypeOK
<1>2. \A d \in Exporters : d # e => pc'[d] = pc[d]
  BY DEF TypeOK
<1>3. pc'[e] = IF made THEN "stopped" ELSE "build"
  BY DEF TypeOK
<1>4. ~made => \A d \in Exporters : ~Busy(d)
  BY DEF OneWriter
<1>5. OneWriter'
  BY <1>2, <1>3, <1>4 DEF OneWriter, Busy
<1>6. NothingWithoutIt' /\ SealedIsWhole'
  BY DEF NothingWithoutIt, SealedIsWhole
<1>7. pos[e] = 1 /\ \A f \in 1 .. Seal : ~(f < 1)
  BY DEF Filling
<1>8. Filling'
  <2> SUFFICES ASSUME NEW d \in Exporters
               PROVE  /\ pc'[d] \in {"check", "mkdir", "build"} => pos'[d] = 1
                      /\ Busy(d)' => \A f \in 1 .. Seal :
                           file'[f] = IF f < pos'[d] THEN Mine(d)' ELSE Absent
    BY DEF Filling
  <2>1. CASE d = e
    BY <1>3, <1>7, <2>1 DEF NothingWithoutIt, Busy
  <2>2. CASE d # e
    BY <1>2, <2>2 DEF Filling, Busy, Mine
  <2> QED BY <2>1, <2>2
<1> QED BY <1>1, <1>5, <1>6, <1>8

(* A write only touches the file its export has come to, which was absent.       *)
LEMMA WritesOneFile ==
  ASSUME BundleInv, NEW e \in Exporters, Write(e) \/ WriteFails(e)
  PROVE  /\ made /\ pos[e] \in 1 .. Seal /\ file[pos[e]] = Absent
         /\ \A d \in Exporters : d # e => ~Busy(d) /\ pc'[d] = pc[d] /\ pos'[d] = pos[d]
         /\ \A f \in 1 .. Seal : f # pos[e] => file'[f] = file[f]
<1>1. pc[e] = "write" /\ Busy(e) /\ pos[e] \in 1 .. Seal /\ made /\ ~(pos[e] < pos[e])
  BY DEF BundleInv, TypeOK, OneWriter, Busy, Write, WriteFails
<1>2. file[pos[e]] = Absent
  BY <1>1 DEF BundleInv, Filling
<1>3. \A d \in Exporters : d # e => ~Busy(d)
  BY <1>1 DEF BundleInv, OneWriter
<1>4. \A d \in Exporters : d # e => pc'[d] = pc[d] /\ pos'[d] = pos[d]
  BY DEF BundleInv, TypeOK, Write, WriteFails, Goto
<1>5. \A f \in 1 .. Seal : f # pos[e] => file'[f] = file[f]
  BY DEF BundleInv, TypeOK, Write, WriteFails
<1> QED BY <1>1, <1>2, <1>3, <1>4, <1>5

LEMMA WriteStep ==
  ASSUME BundleInv, NEW e \in Exporters, Write(e)
  PROVE  BundleInv'
<1> USE DEF BundleInv
<1>1. /\ pc[e] = "write" /\ Busy(e) /\ made' = made /\ request' = request /\ retries' = retries
      /\ file' = [file EXCEPT ![pos[e]] = Mine(e)]
  BY DEF Write, Busy, Mine
<1>2. /\ made /\ pos[e] \in 1 .. Seal
      /\ \A d \in Exporters : d # e => ~Busy(d) /\ pc'[d] = pc[d] /\ pos'[d] = pos[d]
      /\ \A f \in 1 .. Seal : f # pos[e] => file'[f] = file[f]
  BY WritesOneFile
<1>3. file'[pos[e]] = Mine(e)
  BY <1>1, <1>2 DEF TypeOK
<1>4. Mine(e) \in FileRecord
  BY DEF Mine, TypeOK, FileRecord
<1>5. file' \in [1 .. Seal -> FileRecord]
  BY <1>1, <1>4 DEF TypeOK, FileRecord
<1>6. \A f \in 1 .. Seal : file[f] = IF f < pos[e] THEN Mine(e) ELSE Absent
  BY <1>1 DEF Filling
<1>7. CASE pos[e] = Seal
  <2>1. pc' = [pc EXCEPT ![e] = "done"] /\ pos' = pos
    BY <1>7 DEF Write, Goto
  <2>2. TypeOK'
    BY <1>1, <1>5, <2>1 DEF TypeOK, FileRecord
  <2>3. pc'[e] = "done"
    BY <2>1 DEF TypeOK
  <2>4. \A d \in Exporters : ~Busy(d)'
    BY <1>2, <2>3 DEF Busy
  <2>5. OneWriter' /\ NothingWithoutIt'
    BY <1>1, <1>2, <2>4 DEF OneWriter, NothingWithoutIt
  <2>6. Filling'
    BY <1>2, <2>1, <2>3, <2>4 DEF Filling
  <2>7. SealedIsWhole'
    <3>1. \A f \in 1 .. Artifacts : f \in 1 .. Seal /\ f # Seal /\ f < Seal
      BY DEF Seal
    <3>2. \A f \in 1 .. Artifacts : file'[f] = Mine(e)
      BY <1>2, <1>6, <1>7, <3>1
    <3> QED BY <1>3, <1>7, <3>2 DEF SealedIsWhole, Mine
  <2> QED BY <2>2, <2>5, <2>6, <2>7
<1>8. CASE pos[e] # Seal
  <2>1. pos' = [pos EXCEPT ![e] = pos[e] + 1] /\ pc' = pc
    BY <1>8 DEF Write
  <2>2. pos[e] + 1 \in 1 .. Seal
    BY <1>2, <1>8, SealFacts
  <2>3. TypeOK'
    BY <1>1, <1>5, <2>1, <2>2 DEF TypeOK, FileRecord
  <2>4. pos'[e] = pos[e] + 1
    BY <2>1 DEF TypeOK
  <2>5. OneWriter' /\ NothingWithoutIt'
    BY <1>1, <1>2, <2>1 DEF OneWriter, NothingWithoutIt, Busy
  <2>6. \A f \in 1 .. Seal : file'[f] = IF f < pos[e] + 1 THEN Mine(e) ELSE Absent
    BY <1>2, <1>3, <1>6, SealFacts
  <2>7. Filling'
    <3> SUFFICES ASSUME NEW d \in Exporters
                 PROVE  /\ pc'[d] \in {"check", "mkdir", "build"} => pos'[d] = 1
                        /\ Busy(d)' => \A f \in 1 .. Seal :
                             file'[f] = IF f < pos'[d] THEN Mine(d)' ELSE Absent
      BY DEF Filling
    <3>1. CASE d = e
      BY <1>1, <2>1, <2>4, <2>6, <3>1 DEF Mine
    <3>2. CASE d # e
      BY <1>2, <2>1, <3>2 DEF Filling, Busy
    <3> QED BY <3>1, <3>2
  <2>8. SealedIsWhole'
    <3>1. file'[Seal] = Absent
      BY <1>2, <1>6, <1>8, SealFacts
    <3> QED BY <3>1 DEF SealedIsWhole, Absent
  <2> QED BY <2>3, <2>5, <2>7, <2>8
<1> QED BY <1>7, <1>8

LEMMA WriteFailsStep ==
  ASSUME BundleInv, NEW e \in Exporters, WriteFails(e)
  PROVE  BundleInv'
<1> USE DEF BundleInv
<1> DEFINE cut == [by |-> e, of |-> request[e], whole |-> FALSE]
<1>1. /\ pc[e] = "write" /\ Busy(e)
      /\ made' = made /\ request' = request /\ retries' = retries /\ pos' = pos
      /\ file' = [file EXCEPT ![pos[e]] = cut] /\ pc' = [pc EXCEPT ![e] = "stopped"]
  BY DEF WriteFails, Busy, Goto
<1>2. /\ made /\ pos[e] \in 1 .. Seal
      /\ \A d \in Exporters : d # e => ~Busy(d) /\ pc'[d] = pc[d] /\ pos'[d] = pos[d]
      /\ \A f \in 1 .. Seal : f # pos[e] => file'[f] = file[f]
  BY WritesOneFile
<1>3. cut \in [by : Exporters \cup {Nobody}, of : Requests \cup {NoRequest}, whole : BOOLEAN]
  BY DEF TypeOK
<1>4. TypeOK'
  BY <1>1, <1>3 DEF TypeOK
<1>5. pc'[e] = "stopped" /\ file'[pos[e]] = cut
  BY <1>1, <1>2 DEF TypeOK
<1>6. \A d \in Exporters : ~Busy(d)'
  BY <1>2, <1>5 DEF Busy
<1>7. OneWriter' /\ NothingWithoutIt'
  BY <1>1, <1>2, <1>6 DEF OneWriter, NothingWithoutIt
<1>8. Filling'
  BY <1>1, <1>2, <1>5, <1>6 DEF Filling
<1>9. SealedIsWhole'
  <2>1. \A f \in 1 .. Seal : file[f] = IF f < pos[e] THEN Mine(e) ELSE Absent
    BY <1>1 DEF Filling
  <2>2. file'[Seal] = cut \/ file'[Seal] = Absent
    BY <1>2, <1>5, <2>1, SealFacts
  <2> QED BY <2>2 DEF SealedIsWhole, Absent
<1> QED BY <1>4, <1>7, <1>8, <1>9

LEMMA UserStep ==
  ASSUME BundleInv, Remove \/ \E e \in Exporters : Retry(e)
  PROVE  BundleInv'
<1> USE DEF BundleInv
<1>1. CASE Remove
  <2>0. file' \in [1 .. Seal -> FileRecord]
    BY <1>1, AbsentIsAFile DEF Remove
  <2>1. TypeOK'
    <3>1. made' \in BOOLEAN
      BY <1>1 DEF Remove
    <3>2. retries' \in 0 .. MaxRetries /\ UNCHANGED <<pc, request, pos>>
      BY <1>1 DEF Remove, TypeOK
    <3> QED BY <2>0, <3>1, <3>2 DEF TypeOK, FileRecord
  <2> USE <1>1 DEF Remove
  <2>2. \A d \in Exporters : ~Busy(d)'
    BY DEF Busy
  <2>3. OneWriter' /\ NothingWithoutIt' /\ Filling'
    BY <2>2 DEF OneWriter, NothingWithoutIt, Filling
  <2>4. SealedIsWhole'
    BY SealFacts DEF SealedIsWhole, Absent
  <2> QED BY <2>1, <2>3, <2>4
<1>2. ASSUME NEW e \in Exporters, Retry(e)
      PROVE  BundleInv'
  <2> USE <1>2 DEF Retry, Goto
  <2>1. TypeOK'
    BY SealFacts DEF TypeOK
  <2>2. pc'[e] = "check" /\ pos'[e] = 1
    BY DEF TypeOK
  <2>3. \A d \in Exporters : d # e => pc'[d] = pc[d] /\ pos'[d] = pos[d] /\ request'[d] = request[d]
    BY DEF TypeOK
  <2>4. \A d \in Exporters : Busy(d)' => d # e /\ Busy(d)
    BY <2>2, <2>3 DEF Busy
  <2>5. OneWriter' /\ NothingWithoutIt' /\ SealedIsWhole'
    BY <2>4 DEF OneWriter, NothingWithoutIt, SealedIsWhole
  <2>6. Filling'
    BY <2>2, <2>3, <2>4 DEF Filling, Mine
  <2> QED BY <2>1, <2>5, <2>6
<1> QED BY <1>1, <1>2

LEMMA BundleKeeps ==
  ASSUME BundleInv, [Next]_vars
  PROVE  BundleInv'
<1>1. CASE UNCHANGED vars
  BY <1>1 DEF vars, BundleInv, TypeOK, OneWriter, NothingWithoutIt, Filling, Busy, Mine,
              SealedIsWhole
<1>2. CASE Remove \/ \E e \in Exporters : Retry(e)
  BY <1>2, UserStep
<1>3. ASSUME NEW e \in Exporters, Export(e)
      PROVE  BundleInv'
  BY <1>3, QuietStep, MkdirStep, WriteStep, WriteFailsStep DEF Export
<1> QED BY <1>1, <1>2, <1>3 DEF Next, Idle

-----------------------------------------------------------------------------
LEMMA BundleInvariant == Spec => []BundleInv
  BY BundleStarts, BundleKeeps, PTL DEF Spec

(* Type correctness; in particular no export writes past the checksums.         *)
THEOREM BundleTyped == Spec => []TypeOK
<1>1. BundleInv => TypeOK
  BY DEF BundleInv
<1> QED BY <1>1, BundleInvariant, PTL

(* Whatever crashes, fails and is tried again, a directory with its checksums    *)
(* holds one complete bundle of one request (bundle.py:97-158).                 *)
THEOREM SealMeansWhole == Spec => []SealedIsWhole
<1>1. BundleInv => SealedIsWhole
  BY DEF BundleInv
<1> QED BY <1>1, BundleInvariant, PTL

(* A file that was written, whole or cut short, stays as it is until the user     *)
(* removes the directory (bundle.py:89-92).                                   *)
THEOREM FilesStay == Spec => NeverRewritten
<1> DEFINE Stays == \A f \in 1 .. Seal : file[f] # Absent => file'[f] = file[f] \/ ~made'
<1>1. BundleInv /\ [Next]_vars => [Stays]_vars
  <2> SUFFICES ASSUME BundleInv, Next PROVE Stays
    OBVIOUS
  <2>1. CASE Remove
    BY <2>1 DEF Remove
  <2>2. CASE Idle
    BY <2>2 DEF Idle, vars
  <2>3. ASSUME NEW e \in Exporters, Export(e) \/ Retry(e)
        PROVE  Stays
    <3>1. CASE Write(e) \/ WriteFails(e)
      BY <3>1, WritesOneFile
    <3>2. CASE ~(Write(e) \/ WriteFails(e))
      BY <2>3, <3>2 DEF Export, Check, Mkdir, Build, Crash, Retry
    <3> QED BY <3>1, <3>2
  <2> QED BY <2>1, <2>2, <2>3 DEF Next
<1> QED BY <1>1, BundleInvariant, PTL DEF Spec, NeverRewritten

-----------------------------------------------------------------------------
(* Only what could be built is written: a directory may stay behind after a        *)
(* refusal, but nothing is in it.                                            *)
OnlyBuilt ==
  /\ \A e \in Exporters : pc[e] = "write" => ~Refusals[request[e]]
  /\ \A f \in 1 .. Seal : file[f] # Absent => file[f].of \in Requests /\ ~Refusals[file[f].of]

LEMMA OnlyBuiltKeeps ==
  ASSUME TypeOK, OnlyBuilt, [Next]_vars
  PROVE  OnlyBuilt'
<1> HIDE DEF Refusals
<1>1. CASE UNCHANGED vars
  BY <1>1 DEF vars, OnlyBuilt
<1>2. CASE Remove
  BY <1>2 DEF Remove, OnlyBuilt
<1>3. ASSUME NEW e \in Exporters, Check(e) \/ Mkdir(e) \/ Crash(e) \/ Retry(e)
      PROVE  OnlyBuilt'
  <2>1. \A d \in Exporters : pc'[d] = "write" => pc[d] = "write" /\ request'[d] = request[d]
    BY <1>3 DEF Check, Mkdir, Crash, Retry, Goto, TypeOK
  <2>2. file' = file
    BY <1>3 DEF Check, Mkdir, Crash, Retry
  <2> QED BY <2>1, <2>2 DEF OnlyBuilt
<1>4. ASSUME NEW e \in Exporters, Build(e)
      PROVE  OnlyBuilt'
  <2>1. \A d \in Exporters : d # e => pc'[d] = pc[d]
    BY <1>4 DEF Build, Goto, TypeOK
  <2>2. pc'[e] = IF Refusals[request[e]] THEN "stopped" ELSE "write"
    BY <1>4 DEF Build, Goto, TypeOK
  <2>3. file' = file /\ request' = request
    BY <1>4 DEF Build
  <2> QED BY <2>1, <2>2, <2>3 DEF OnlyBuilt
<1>5. ASSUME NEW e \in Exporters, Write(e) \/ WriteFails(e)
      PROVE  OnlyBuilt'
  <2>1. pc[e] = "write" /\ request' = request /\ request[e] \in Requests
    BY <1>5 DEF Write, WriteFails, TypeOK
  <2>2. \A d \in Exporters : pc'[d] = "write" => pc[d] = "write"
    BY <1>5 DEF Write, WriteFails, Goto, TypeOK
  <2>3. \A f \in 1 .. Seal : file'[f] = file[f] \/ file'[f].of = request[e]
    <3>1. PICK w \in BOOLEAN :
            file' = [file EXCEPT ![pos[e]] = [by |-> e, of |-> request[e], whole |-> w]]
      BY <1>5 DEF Write, WriteFails
    <3> DEFINE rec == [by |-> e, of |-> request[e], whole |-> w]
    <3>2. rec.of = request[e] /\ DOMAIN file = 1 .. Seal
      BY DEF TypeOK
    <3> HIDE DEF rec
    <3>3. \A f \in 1 .. Seal : file'[f] = file[f] \/ file'[f] = rec
      BY <3>1, <3>2 DEF rec
    <3> QED BY <3>2, <3>3
  <2> QED BY <2>1, <2>2, <2>3 DEF OnlyBuilt
<1> QED BY <1>1, <1>2, <1>3, <1>4, <1>5 DEF Next, Idle, Export

(* A sealed bundle is of a request that could be built: its plant is known, its     *)
(* selection was accepted and every one of its transactions could be rendered.     *)
THEOREM NothingRefusedIsSealed ==
  Spec => [](file[Seal].whole => file[Seal].of \in Requests /\ ~BuildFails(file[Seal].of))
<1>1. Init => OnlyBuilt
  BY DEF Init, OnlyBuilt
<1>2. TypeOK /\ OnlyBuilt /\ [Next]_vars => OnlyBuilt'
  BY OnlyBuiltKeeps
<1>3. OnlyBuilt => (file[Seal].whole => file[Seal].of \in Requests /\ ~BuildFails(file[Seal].of))
  <2>1. \A r \in Requests : Refusals[r] = BuildFails(r)
    BY DEF Refusals
  <2>2. Absent.whole = FALSE
    BY DEF Absent
  <2> HIDE DEF Refusals, BuildFails
  <2> QED BY <2>1, <2>2, SealFacts DEF OnlyBuilt
<1> QED BY <1>1, <1>2, <1>3, BundleTyped, PTL DEF Spec

(* When what is told of every request that can be built agrees, so does every       *)
(* sealed bundle, whoever exported it after whatever failures: what is left to     *)
(* look at is the catalogue of plants and scenarios, which is data.             *)
THEOREM SealedStory ==
  (\A r \in Requests : Staged(r) /\ ~BuildFails(r) => Agrees(r)) => (Spec => []SealedAgrees)
<1> SUFFICES ASSUME \A r \in Requests : Staged(r) /\ ~BuildFails(r) => Agrees(r)
             PROVE  Spec => []SealedAgrees
  OBVIOUS
<1>1. (file[Seal].whole => file[Seal].of \in Requests /\ ~BuildFails(file[Seal].of)) => SealedAgrees
  BY DEF SealedAgrees, Agreeing
<1> QED BY <1>1, NothingRefusedIsSealed, PTL
=============================================================================
