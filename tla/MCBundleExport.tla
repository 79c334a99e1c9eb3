---------------------------- MODULE MCBundleExport ----------------------------
(* Exports into one directory: every shipped scenario of the reference plant, whole *)
(* and cut down to a stage of an area; a profile without the scenario's nodes, an    *)
(* area and stage that do not go together; and scenario files, of which one's        *)
(* ordinal does not fit the client port and one's block its byte count.             *)
EXTENDS BundleExport

MCCaptured(ordinal, fc, quantity, wire) ==
  [ordinal |-> ordinal, fc |-> fc, address |-> 0, quantity |-> quantity,
   wire |-> wire, refused |-> FALSE]

MCCustomFiles ==
  <<<<MCCaptured(1, 4, 1, <<>>), MCCaptured(2, 6, 1, <<7>>)>>,
    <<MCCaptured(30000, 3, 1, <<>>)>>,
    <<MCCaptured(1, 16, 128, [i \in 1 .. 128 |-> i])>>>>

MCAsk(profile, scenario, area, stage) ==
  [profile |-> profile, scenario |-> scenario, area |-> area, stage |-> stage]

MCFile(n) == MCAsk(NoProfile, n, "all", "offline-export")

MCReference(n, area, stage) == MCAsk("reference-water-plant", n, area, stage)

MCRequests ==
  {MCReference(n, "all", "offline-export") : n \in 1 .. 12}
  \cup {MCReference(5, "storage-pumping", "supervisory"),
        MCReference(12, "dosing", "field-controllers"),
        MCReference(11, "all", "full-cell"),
        MCAsk("single-stage-legacy", 9, "disinfection", "full-cell")}
  \cup {MCFile(f) : f \in DOMAIN MCCustomFiles}
=============================================================================
