------------------------------ MODULE SampleLine ------------------------------
(***************************************************************************)
(* A sample line (sensors/sensor_models.py, class SampleLine): the water a   *)
(* sensor sees left the process transport_delay_s ago.  A line keeps the      *)
(* samples its sensors have put in, oldest first; both sensors of a line put  *)
(* in, and take out, whatever quantity they measure.                         *)
(***************************************************************************)
EXTENDS Integers, Sequences, FiniteSets

CONSTANTS
  Delay,     \* transport_delay_s, in scans (30 of 1 s)
  DelaySeconds, \* the whole seconds of it, whatever a scan lasts (30)
  Margin,    \* the 10 of __post_init__
  LeastRoom  \* the 100 of __post_init__

ASSUME LineAssumption ==
  {Delay, DelaySeconds, Margin} \subseteq Nat /\ LeastRoom \in Nat \ {0}

(* Mutant: the line has room for the samples of one sensor.                  *)
MaxSamplesOfOne == DelaySeconds + Margin

(* maxlen of the delay buffer: so many samples, for seconds.                  *)
MaxSamples == IF DelaySeconds + Margin > LeastRoom THEN DelaySeconds + Margin ELSE LeastRoom

Put(line, sample) ==
  LET longer == Append(line, sample)
  IN  IF Len(longer) > MaxSamples THEN Tail(longer) ELSE longer

Distance(i, j) == IF i < j THEN j - i ELSE i - j

(* Mutant: the newest sample of that age or younger.                         *)
ClosestFar(line, target) ==
  CHOOSE i \in DOMAIN line : \A j \in DOMAIN line :
     \/ Distance(line[i].at, target) > Distance(line[j].at, target)
     \/ Distance(line[i].at, target) = Distance(line[j].at, target) /\ i <= j

(* The linear search of transport_sample: of equally close samples, the one   *)
(* put in first.                                                             *)
Closest(line, target) ==
  CHOOSE i \in DOMAIN line : \A j \in DOMAIN line :
     \/ Distance(line[i].at, target) < Distance(line[j].at, target)
     \/ Distance(line[i].at, target) = Distance(line[j].at, target) /\ i <= j

(* transport_sample: the line with the new sample, and the one delivered.    *)
Transported(line, sample) ==
  LET l == Put(line, sample)
  IN  [line |-> l, sample |-> l[Closest(l, sample.at - Delay)]]
=============================================================================
