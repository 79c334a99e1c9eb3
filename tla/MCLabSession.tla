----------------------------- MODULE MCLabSession -----------------------------
(* Small instances of a lab session on the plant of MCPlant.                    *)
EXTENDS LabSession, MCPlant

MCSelect(area, stage, base, duration) ==
  [area |-> area, stage |-> stage, base |-> base, duration |-> duration]

(* Two that are launched, and one for each refusal: the ports run out, nothing to  *)
(* launch, all areas, no launchable stage, no duration.                         *)
MCSelections ==
  {MCSelect("disinfection", "full-cell", 1, 1), MCSelect("disinfection", "field-devices", 2, 1),
   MCSelect("disinfection", "full-cell", 2, 1), MCSelect("intake", "field-devices", 1, 1),
   MCSelect("all", "full-cell", 1, 1), MCSelect("disinfection", "supervisory", 1, 1),
   MCSelect("disinfection", "full-cell", 1, 0)}

----------------------------------------------------------------------------
MCNodeOrder == <<"chlorine-analyzer-ai", "disinfection-plc", "passive-observer",
                 "plant-historian">>

MCSend(s, ts, fc, quantity, wire) ==
  [actor |-> "plant-historian", server |-> s, ts |-> ts, fc |-> fc, op |-> fc,
   quantity |-> quantity, wire |-> wire]

MCRead == MCSend("disinfection-plc", 1, 3, 1, <<>>)

MCWrite(fc, quantity, wire) == MCSend("chlorine-analyzer-ai", 0, fc, quantity, wire)

(* Two scenarios the loader accepts, both of which write the analyzer twice, and  *)
(* some it must refuse: wire values that are missing, too many or too large, an   *)
(* unknown function code, a passive server, a step back in time.               *)
MCScripts ==
  {<<MCWrite(16, 2, <<2, 3>>), MCRead, MCSend("chlorine-analyzer-ai", 2, 6, 1, <<2>>)>>,
   <<MCWrite(5, 1, <<1>>), MCSend("chlorine-analyzer-ai", 1, 16, 1, <<3>>)>>}
  \cup {<<MCWrite(5, 1, <<2>>)>>, <<MCWrite(6, 1, <<>>)>>, <<MCWrite(6, 1, <<4>>)>>,
        <<MCWrite(16, 1, <<>>)>>, <<MCWrite(16, 1, <<1, 2>>)>>, <<MCWrite(2, 1, <<>>)>>,
        <<MCRead, MCWrite(5, 1, <<1>>)>>,
        <<MCSend("passive-observer", 0, 3, 1, <<>>)>>}
=============================================================================
