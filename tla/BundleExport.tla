----------------------------- MODULE BundleExport -----------------------------
(***************************************************************************)
(* Exporting a lab bundle, of a staged plant (plant/bundle.py) or of a scenario   *)
(* file (scenarios/bundle.py): the target directory must not exist, is created  *)
(* before anything is computed, and then receives the artifacts one by one and  *)
(* their checksums last. Several users may export to the same directory, runs   *)
(* crash or run out of space, and users try again.                            *)
(***************************************************************************)
EXTENDS PlantCatalog, PlantScenarios, PlantEvidence, PcapFrames

CONSTANTS
  CustomFiles,  \* the transactions of each scenario file the loader accepts
  Exporters,    \* processes exporting to one directory
  Requests,     \* what they may ask for: [profile, scenario, area, stage]
  Artifacts,    \* number of files before the checksums
  MaxRetries    \* bound: how often the users clean up and try again

ASSUME ExportAssumption == Artifacts \in Nat \ {0} /\ MaxRetries \in Nat

Seal == Artifacts + 1
Nobody == "nobody"

(* A request for a staged plant has a profile and the number of a scenario; one    *)
(* for a scenario file has the file's and no profile.                           *)
NoProfile == "none"
Staged(r) == r.profile # NoProfile

ShippedAs(n) == {Scenarios[n][i] : i \in 1 .. Len(Scenarios[n])}

Plan(p, n) == INSTANCE PlantSelection WITH Profile <- Profiles[p], Scenario <- ShippedAs(n)

(* The selected transactions, in the scenario's order.                         *)
Transactions(r) ==
  IF Staged(r)
  THEN LET selected == Plan(r.profile, r.scenario)!SelectedTransactions(r.area, r.stage)
       IN  SelectSeq(Scenarios[r.scenario], LAMBDA t : t \in selected)
  ELSE CustomFiles[r.scenario]

EvidenceOf(r) ==
  Evidence(Plan(r.profile, r.scenario)!ActiveNodes(r.area, r.stage), Transactions(r))

VARIABLES
  made,      \* does the directory exist?
  file,      \* each file of it: who wrote it, of which request, and whether to the end
  pc,        \* where each export is
  request,   \* what it exports
  pos,       \* the file it writes next
  retries

vars == <<made, file, pc, request, pos, retries>>

NoRequest == [profile |-> NoProfile, scenario |-> 0, area |-> Nobody, stage |-> Nobody]

Absent == [by |-> Nobody, of |-> NoRequest, whole |-> FALSE]

TypeOK ==
  /\ made \in BOOLEAN
  /\ file \in [1 .. Seal -> [by : Exporters \cup {Nobody},
                         of : Requests \cup {NoRequest}, whole : BOOLEAN]]
  /\ pc \in [Exporters -> {"check", "mkdir", "build", "write", "done", "stopped"}]
  /\ request \in [Exporters -> Requests]
  /\ pos \in [Exporters -> 1 .. Seal]
  /\ retries \in 0 .. MaxRetries

Init ==
  /\ made = FALSE
  /\ file = [f \in 1 .. Seal |-> Absent]
  /\ pc = [e \in Exporters |-> "check"]
  /\ request \in [Exporters -> Requests]
  /\ pos = [e \in Exporters |-> 1]
  /\ retries = 0

Goto(e, l) == pc' = [pc EXCEPT ![e] = l]

(* target.exists(): FileExistsError.                                         *)
Check(e) ==
  /\ pc[e] = "check"
  /\ Goto(e, IF made THEN "stopped" ELSE "mkdir")
  /\ UNCHANGED <<made, file, request, pos, retries>>

(* Mutant: mkdir(parents=True, exist_ok=True).                               *)
MkdirAnyway(e) ==
  /\ pc[e] = "mkdir"
  /\ made' = TRUE
  /\ Goto(e, "build")
  /\ UNCHANGED <<file, request, pos, retries>>

(* target.mkdir(parents=True) raises FileExistsError when another was faster.  *)
Mkdir(e) ==
  /\ pc[e] = "mkdir"
  /\ made' = TRUE
  /\ Goto(e, IF made THEN "stopped" ELSE "build")
  /\ UNCHANGED <<file, request, pos, retries>>

(* An unknown or invalid profile, a refused selection, an area without a mesh, or  *)
(* a transaction that cannot be rendered: the directory stays.                  *)
StagedFails(r) ==
  \/ r.profile \notin DOMAIN Profiles
  \/ ~ValidProfile(Profiles[r.profile])
  \/ Plan(r.profile, r.scenario)!ArtifactRefused(r.area, r.stage)
  \/ EvolutionRefused(Transactions(r))

BuildFails(r) ==
  \/ Staged(r) /\ StagedFails(r)
  \/ \E i \in 1 .. Len(Transactions(r)) : ~Renders(Transactions(r)[i])

Refusals == [r \in Requests |-> BuildFails(r)]

Build(e) ==
  /\ pc[e] = "build"
  /\ Goto(e, IF Refusals[request[e]] THEN "stopped" ELSE "write")
  /\ UNCHANGED <<made, file, request, pos, retries>>

(* write_bytes truncates, writes and closes; no space left stops it half way.   *)
Write(e) ==
  /\ pc[e] = "write"
  /\ file' = [file EXCEPT ![pos[e]] = [by |-> e, of |-> request[e], whole |-> TRUE]]
  /\ IF pos[e] = Seal THEN Goto(e, "done") /\ pos' = pos
                      ELSE pos' = [pos EXCEPT ![e] = @ + 1] /\ pc' = pc
  /\ UNCHANGED <<made, request, retries>>

(* Mutant: a write that fails is skipped.                                    *)
WriteFailsSilently(e) ==
  /\ pc[e] = "write"
  /\ pos[e] < Seal
  /\ file' = [file EXCEPT ![pos[e]] = [by |-> e, of |-> request[e], whole |-> FALSE]]
  /\ pos' = [pos EXCEPT ![e] = @ + 1]
  /\ UNCHANGED <<made, pc, request, retries>>

WriteFails(e) ==
  /\ pc[e] = "write"
  /\ file' = [file EXCEPT ![pos[e]] = [by |-> e, of |-> request[e], whole |-> FALSE]]
  /\ Goto(e, "stopped")
  /\ UNCHANGED <<made, request, pos, retries>>

Crash(e) ==
  /\ pc[e] \in {"mkdir", "build", "write"}
  /\ Goto(e, "stopped")
  /\ UNCHANGED <<made, file, request, pos, retries>>

(* The user runs the command again, perhaps for something else.                *)
Retry(e) ==
  /\ pc[e] \in {"done", "stopped"}
  /\ retries < MaxRetries
  /\ retries' = retries + 1
  /\ Goto(e, "check")
  /\ pos' = [pos EXCEPT ![e] = 1]
  /\ \E r \in Requests : request' = [request EXCEPT ![e] = r]
  /\ UNCHANGED <<made, file>>

(* The user removes the directory; nobody is exporting into it then.           *)
Remove ==
  /\ made
  /\ \A e \in Exporters : pc[e] \notin {"build", "write"}
  /\ retries < MaxRetries
  /\ retries' = retries + 1
  /\ made' = FALSE
  /\ file' = [f \in 1 .. Seal |-> Absent]
  /\ UNCHANGED <<pc, request, pos>>

Export(e) == Check(e) \/ Mkdir(e) \/ Build(e) \/ Write(e) \/ WriteFails(e) \/ Crash(e)

Idle == (\A e \in Exporters : pc[e] \in {"done", "stopped"}) /\ UNCHANGED vars

Next == Remove \/ Idle \/ \E e \in Exporters : Export(e) \/ Retry(e)

Spec == Init /\ [][Next]_vars

----------------------------------------------------------------------------
(* A bundle that has its checksums is complete and of one piece: every artifact   *)
(* is there to its last byte, of one request, written by the export that sealed  *)
(* it (bundle.py:97-158).                                                    *)
SealedIsWhole ==
  file[Seal].whole =>
    \A f \in 1 .. Artifacts :
      file[f] = [by |-> file[Seal].by, of |-> file[Seal].of, whole |-> TRUE]

(* No file of a bundle is ever rewritten: whoever is second, or tries again after  *)
(* a failure, is refused until the directory is removed (bundle.py:89-92).      *)
NeverRewritten ==
  [][\A f \in 1 .. Seal : file[f] # Absent => file'[f] = file[f] \/ ~made']_vars

----------------------------------------------------------------------------
(* What is told of an area agrees: one truth, review and CFD snapshot for an area   *)
(* with traffic and none for others; the snapshot shows the truth's change where    *)
(* it happens and nothing elsewhere; the trend has the sign of the change; and      *)
(* exceptions and manual operation pass for neither normal nor stable.            *)
AreaAgrees(told, area) ==
  LET record   == CHOOSE r \in told.evolution : r.area = area
      snapshot == CHOOSE s \in told.snapshots : s.area = area
      review   == CHOOSE v \in told.reviews : v.area = area
      source   == SourceCell(AreaModels[area])
  IN  /\ snapshot.samples[source].end = record.end
      /\ \A c \in DOMAIN snapshot.samples \ {source} :
           snapshot.samples[c] = [start |-> record.start, end |-> record.start]
      /\ CASE record.trend = "increase" -> record.end > record.start
           [] record.trend = "decrease" -> record.end < record.start
           [] record.trend = "stable"   -> record.end = record.start
           [] OTHER                     -> TRUE
      /\ review.exceptions > 0 =>
           record.trend \notin {"stable", "increase"} /\ "normal" \notin review.alarms
      /\ (\E s \in told.states : s.area = area /\ s.mode = "manual") => record.trend # "stable"

Agrees(r) ==
  LET told == EvidenceOf(r)
      txs  == Transactions(r)
  IN  /\ \A part \in {told.evolution, told.reviews, told.snapshots} :
           /\ {x.area : x \in part} = AreasOf(txs)
           /\ Cardinality(part) = Cardinality(AreasOf(txs))
      /\ \A area \in AreasOf(txs) : AreaAgrees(told, area)

Agreeing == {r \in Requests : Staged(r) /\ ~BuildFails(r) /\ Agrees(r)}

(* The files of a sealed bundle tell one story about the process: the truth, its     *)
(* review, the controllers and the sampled fields are derived from the same        *)
(* transactions by different rules, and agree (process_truth.py, control.py,        *)
(* process_review.py, cfd_bundle.py).                                         *)
SealedAgrees ==
  file[Seal].whole /\ Staged(file[Seal].of) => file[Seal].of \in Agreeing
=============================================================================
