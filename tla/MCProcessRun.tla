---------------------------- MODULE MCProcessRun ----------------------------
(* Three zones filled at 20 degrees and fed with warmer water, so that the    *)
(* lower zone turns lighter and the exchange above it is suppressed.         *)
EXTENDS ProcessRun

MCSite == [k \in {"tank", "inlet", "dose", "ambient"} |->
             IF k = "inlet" THEN 24 ELSE 20]

MCOrders == {<<"acid-flow", 1>>, <<"inlet-flow", 0>>, <<"inlet-flow", 1>>,
             <<"chlorine-concentration", 0>>, <<"chlorine-pump-enable", 0>>,
             <<"simulation-running", 0>>}
=============================================================================
