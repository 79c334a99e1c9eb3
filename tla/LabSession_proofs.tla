--------------------------- MODULE LabSession_proofs ---------------------------
(***************************************************************************)
(* Proofs about a lab session, for every profile, command line, scenario file  *)
(* and number of interrupts.  The launcher and the replay share no variable,   *)
(* so each has an inductive invariant of its own.                            *)
(***************************************************************************)
EXTENDS LabSession, FiniteSetTheorems, TLAPS

-----------------------------------------------------------------------------
(* Every set of natural numbers has a least one: what the inductions below     *)
(* rest on, as the least counterexample to what they claim.                   *)
LEMMA LeastNatural ==
  ASSUME NEW S, S \subseteq Nat, S # {}
  PROVE  \E m \in S : \A n \in S : m <= n
<1> DEFINE Initial == {0 .. n : n \in S}
           Below   == StrictSubsetOrdering(Nat)
           Finite  == FiniteSubsetsOf(Nat)
<1>1. Initial \subseteq Finite
  <2> SUFFICES ASSUME NEW n \in S PROVE 0 .. n \in Finite
    OBVIOUS
  <2>1. n \in Nat /\ n \in Int /\ 0 \in Int /\ 0 .. n \subseteq Nat
    OBVIOUS
  <2>2. IsFiniteSet(0 .. n)
    BY <2>1, FS_Interval
  <2> QED BY <2>1, <2>2 DEF FiniteSubsetsOf
<1>2. PICK x \in Initial : \A y \in Initial : ~(<<y, x>> \in Below)
  <2>1. IsWellFoundedOn(Below, Finite)
    BY FS_StrictSubsetOrderingWellFounded
  <2>2. Initial # {}
    OBVIOUS
  <2> HIDE DEF Initial, Below, Finite
  <2> QED BY <1>1, <2>1, <2>2, WFMin
<1>3. PICK m \in S : x = 0 .. m
  BY <1>2
<1>4. ASSUME NEW n \in S, n < m PROVE FALSE
  <2>1. 0 .. n \subseteq 0 .. m /\ 0 .. n # 0 .. m /\ {0 .. n, 0 .. m} \subseteq SUBSET Nat
    BY <1>4
  <2>2. <<0 .. n, 0 .. m>> \in Below
    BY <2>1 DEF StrictSubsetOrdering
  <2> QED BY <1>2, <1>3, <2>2
<1> QED BY <1>3, <1>4

-----------------------------------------------------------------------------
(* The order of the launch.                                                 *)

Distinct(s) == \A i, j \in 1 .. Len(s) : s[i] = s[j] => i = j

LEMMA IdOrderFacts ==
  /\ Len(IdOrder) \in Nat
  /\ IdOrder \in Seq(Ids)
  /\ Distinct(IdOrder)
<1>1. IdOrder \in Seq({n.id : n \in Profile.nodes})
  BY LauncherAssumption
<1> QED BY <1>1, LauncherAssumption DEF Ids, Distinct

(* The recursive function that collects the chosen among the identifiers.     *)
AmongStep(f, ids, i) ==
  IF i = 0 THEN <<>>
  ELSE IF IdOrder[i] \in ids THEN Append(f[i - 1], IdOrder[i]) ELSE f[i - 1]

IsAmong(f, ids, n) == f = [i \in 0 .. n |-> AmongStep(f, ids, i)]

LEMMA AmongExists ==
  ASSUME NEW ids, NEW n \in Nat
  PROVE  \E f : IsAmong(f, ids, n)
<1> DEFINE Bad == {i \in Nat : ~\E f : IsAmong(f, ids, i)}
<1> SUFFICES ASSUME Bad # {} PROVE FALSE
  OBVIOUS
<1>1. PICK m \in Bad : \A i \in Bad : m <= i
  BY LeastNatural
<1>2. m # 0
  <2>1. IsAmong([i \in 0 .. 0 |-> <<>>], ids, 0)
    BY DEF IsAmong, AmongStep
  <2> QED BY <2>1
<1>3. PICK g : IsAmong(g, ids, m - 1)
  <2>1. m - 1 \in Nat /\ ~(m <= m - 1)
    BY <1>1, <1>2
  <2> QED BY <1>1, <2>1
<1> DEFINE h == [i \in 0 .. m |-> IF i < m THEN g[i] ELSE AmongStep(g, ids, m)]
<1>4. \A i \in 0 .. m : h[i] = AmongStep(h, ids, i)
  <2> TAKE i \in 0 .. m
  <2>1. i # 0 => h[i - 1] = g[i - 1]
    BY <1>1
  <2>2. AmongStep(h, ids, i) = AmongStep(g, ids, i)
    BY <2>1 DEF AmongStep
  <2>3. CASE i = m
    BY <1>1, <2>2, <2>3
  <2>4. CASE i < m
    <3>1. i \in 0 .. m - 1
      BY <1>1, <2>4
    <3>2. g[i] = AmongStep(g, ids, i)
      BY <1>3, <3>1 DEF IsAmong
    <3> QED BY <2>2, <2>4, <3>2
  <2> QED BY <1>1, <2>3, <2>4
<1>5. h = [i \in 0 .. m |-> h[i]]
  OBVIOUS
<1>6. IsAmong(h, ids, m)
  <2> HIDE DEF h
  <2> QED BY <1>4, <1>5 DEF IsAmong
<1> QED BY <1>1, <1>6

(* What was collected has each identifier once, and no other.                 *)
LEMMA AmongDistinct ==
  ASSUME NEW ids, NEW f, IsAmong(f, ids, Len(IdOrder)), NEW n \in 0 .. Len(IdOrder)
  PROVE  /\ f[n] \in Seq(Ids) /\ Len(f[n]) <= n /\ Distinct(f[n])
         /\ \A i \in 1 .. Len(f[n]) : \E j \in 1 .. n : f[n][i] = IdOrder[j]
<1> DEFINE Good(m) ==
             /\ f[m] \in Seq(Ids) /\ Len(f[m]) <= m /\ Distinct(f[m])
             /\ \A i \in 1 .. Len(f[m]) : \E j \in 1 .. m : f[m][i] = IdOrder[j]
           Bad == {m \in 0 .. Len(IdOrder) : ~Good(m)}
<1> SUFFICES ASSUME Bad # {} PROVE FALSE
  OBVIOUS
<1>0. Len(IdOrder) \in Nat /\ IdOrder \in Seq(Ids) /\ Distinct(IdOrder)
  BY IdOrderFacts
<1>1. PICK m \in Bad : \A i \in Bad : m <= i
  <2>1. Bad \subseteq Nat
    BY <1>0
  <2> HIDE DEF Bad
  <2> QED BY <2>1, LeastNatural
<1>2. \A i \in 0 .. Len(IdOrder) : f[i] = AmongStep(f, ids, i)
  BY DEF IsAmong
<1>3. m # 0
  <2>1. f[0] = <<>>
    BY <1>0, <1>2 DEF AmongStep
  <2>2. Good(0)
    BY <2>1 DEF Distinct
  <2> QED BY <1>1, <2>2
<1>4. m \in 1 .. Len(IdOrder) /\ m - 1 \in 0 .. Len(IdOrder) /\ Good(m - 1)
  <2>1. m \in 1 .. Len(IdOrder) /\ m - 1 \in 0 .. Len(IdOrder) /\ ~(m <= m - 1)
    BY <1>0, <1>1, <1>3
  <2> QED BY <1>1, <2>1
<1>5. CASE IdOrder[m] \notin ids
  <2>1. f[m] = f[m - 1]
    BY <1>2, <1>4, <1>5, <1>0 DEF AmongStep
  <2>2. Good(m)
    BY <1>0, <1>4, <2>1
  <2> QED BY <1>1, <2>2
<1>6. CASE IdOrder[m] \in ids
  <2> DEFINE s == f[m - 1]
  <2>1. f[m] = Append(s, IdOrder[m])
    <3>1. m \in 0 .. Len(IdOrder) /\ m # 0
      BY <1>3
    <3>2. f[m] = AmongStep(f, ids, m)
      BY <1>2, <3>1
    <3> QED BY <1>6, <3>1, <3>2, Zenon DEF AmongStep
  <2>2. s \in Seq(Ids) /\ IdOrder[m] \in Ids /\ Len(s) <= m - 1 /\ Distinct(s)
    BY <1>0, <1>4
  <2>3. \A i \in 1 .. Len(s) : \E j \in 1 .. m - 1 : s[i] = IdOrder[j]
    BY <1>4
  <2> HIDE DEF s
  <2>4. /\ f[m] \in Seq(Ids) /\ Len(f[m]) = Len(s) + 1 /\ f[m][Len(s) + 1] = IdOrder[m]
        /\ \A i \in 1 .. Len(s) : f[m][i] = s[i]
    BY <2>1, <2>2
  <2>5. \A i \in 1 .. Len(s) : s[i] # IdOrder[m]
    BY <1>0, <1>4, <2>3 DEF Distinct
  <2>6. Distinct(f[m])
    <3> SUFFICES ASSUME NEW i \in 1 .. Len(s) + 1, NEW j \in 1 .. Len(s) + 1,
                        f[m][i] = f[m][j]
                 PROVE  i = j
      BY <2>4 DEF Distinct
    <3>1. Len(s) \in Nat
      BY <2>2
    <3>2. CASE i \in 1 .. Len(s) /\ j \in 1 .. Len(s)
      BY <2>2, <2>4, <3>2 DEF Distinct
    <3>3. CASE i = Len(s) + 1 \/ j = Len(s) + 1
      <4>1. \A p \in 1 .. Len(s) : f[m][p] # f[m][Len(s) + 1]
        BY <2>4, <2>5
      <4>2. CASE i = Len(s) + 1
        <5>1. j \notin 1 .. Len(s)
          BY <4>1, <4>2
        <5> QED BY <3>1, <4>2, <5>1
      <4>3. CASE j = Len(s) + 1
        <5>1. i \notin 1 .. Len(s)
          BY <4>1, <4>3
        <5> QED BY <3>1, <4>3, <5>1
      <4> QED BY <3>3, <4>2, <4>3
    <3> QED BY <3>1, <3>2, <3>3
  <2>7. \A i \in 1 .. Len(f[m]) : \E j \in 1 .. m : f[m][i] = IdOrder[j]
    <3> TAKE i \in 1 .. Len(f[m])
    <3>1. Len(s) \in Nat
      BY <2>2
    <3>2. CASE i \in 1 .. Len(s)
      <4>1. PICK j \in 1 .. m - 1 : s[i] = IdOrder[j]
        BY <2>3, <3>2
      <4> QED BY <1>4, <2>4, <3>2, <4>1
    <3>3. CASE i = Len(s) + 1
      BY <1>4, <2>4, <3>3
    <3> QED BY <2>4, <3>1, <3>2, <3>3
  <2>8. Good(m)
    BY <2>2, <2>4, <2>6, <2>7, <1>4, <1>0
  <2> QED BY <1>1, <2>8
<1> QED BY <1>5, <1>6

LEMMA LaunchOrderFacts ==
  ASSUME NEW area, NEW stage
  PROVE  /\ LaunchOrder(area, stage) \in Seq(Ids)
         /\ Len(LaunchOrder(area, stage)) <= Len(IdOrder)
         /\ Distinct(LaunchOrder(area, stage))
<1> DEFINE ids == {n.id : n \in {m \in ActiveNodes(area, stage) : Launchable(m)}}
           f == CHOOSE g : IsAmong(g, ids, Len(IdOrder))
<1>1. Len(IdOrder) \in Nat
  BY IdOrderFacts
<1>2. LaunchOrder(area, stage) = f[Len(IdOrder)]
  BY DEF LaunchOrder, IsAmong, AmongStep
<1>3. IsAmong(f, ids, Len(IdOrder))
  <2>1. \E g : IsAmong(g, ids, Len(IdOrder))
    BY <1>1, AmongExists
  <2> QED BY <2>1
<1> HIDE DEF f, ids
<1>4. Len(IdOrder) \in 0 .. Len(IdOrder)
  BY <1>1
<1> QED BY <1>2, <1>3, <1>4, AmongDistinct

-----------------------------------------------------------------------------
(* The launcher.  A stray is a process or an open log the list does not have.   *)

Stray(n) == n \notin Listed /\ (child[n] # "none" \/ log[n] = "open")

(* In the body of the call: what is listed, and what is not yet.               *)
BodyInv ==
  /\ at = "plan" => plan = <<>> /\ k = 1
  /\ at \in {"open", "spawn"} => k \in 1 .. Len(plan) /\ listed = k - 1
  /\ at = "delay" => k \in 1 .. Len(plan) /\ listed = k
  /\ at = "run" => Len(plan) # 0 /\ listed = Len(plan)
  /\ at \in {"plan", "open", "delay", "run"} => \A n \in Ids : ~Stray(n)
  /\ at = "spawn" => \A n \in Ids : n \notin Listed => child[n] = "none"

(* In the finally clause: the processes it has come past are asked, then all in  *)
(* the list are asked and those it has come past are gone.                     *)
CleanInv ==
  /\ at \in {"ask", "wait", "reap", "unasked"} =>
       /\ listed = 0 => at \in {"ask", "unasked"} /\ k = 1
       /\ listed # 0 => k \in 1 .. listed
  /\ at \in {"ask", "unasked"} =>
       \A i \in 1 .. k - 1 : child[plan[i]] \in Running => plan[i] \in asked
  /\ at \in {"wait", "reap"} =>
       /\ AliveIds \cap Listed \subseteq asked
       /\ \A i \in 1 .. k - 1 : child[plan[i]] \in Exited /\ log[plan[i]] # "open"

OverInv ==
  /\ at \in {"returned", "raised"} =>
       \A n \in Listed : child[n] \notin Running /\ log[n] # "open"
  /\ at = "aborted" => AliveIds \cap Listed \subseteq asked

(* A stray belongs to the node that was being started when the body ended, and   *)
(* without an exception the list is complete.                                 *)
StrayInv ==
  /\ \A n \in Ids : Stray(n) => n \in InFlight
  /\ \A n \in Ids : Stray(n) /\ child[n] # "none" => interrupts > 0
  /\ at \in {"ask", "wait", "reap"} /\ ~raising => listed = Len(plan)
  /\ at = "returned" => listed = Len(plan)
  /\ \A n \in Ids : log[n] = "open" => WithLogs

LauncherInv ==
  /\ LauncherTypeOK
  /\ plan \in Seq(Ids) /\ Len(plan) <= Len(IdOrder) /\ Distinct(plan)
  /\ listed \in 0 .. Len(plan)
  /\ BodyInv /\ CleanInv /\ OverInv /\ StrayInv

(* A plan is type-correct if it is as long as the assumptions allow.          *)
LEMMA PlanTyped ==
  ASSUME NEW p \in Seq(Ids), Len(p) <= Len(IdOrder)
  PROVE  \E m \in 0 .. Len(IdOrder) : p \in [1 .. m -> Ids]
<1>1. Len(p) \in 0 .. Len(IdOrder) /\ p \in [1 .. Len(p) -> Ids]
  BY IdOrderFacts
<1> QED BY <1>1

LEMMA LauncherStarts == LauncherInit => LauncherInv
<1> SUFFICES ASSUME LauncherInit PROVE LauncherInv
  OBVIOUS
<1> USE DEF LauncherInit
<1>1. Len(IdOrder) \in Nat /\ MaxInterrupts \in Nat
  BY IdOrderFacts, LauncherAssumption
<1>2. plan \in Seq(Ids) /\ Len(plan) = 0 /\ plan \in [1 .. 0 -> Ids] /\ Distinct(plan)
  BY DEF Distinct
<1>3. LauncherTypeOK
  <2>1. \E m \in 0 .. Len(IdOrder) : plan \in [1 .. m -> Ids]
    BY <1>1, <1>2, PlanTyped
  <2>2. /\ k \in 1 .. Len(IdOrder) + 1 /\ interrupts \in 0 .. MaxInterrupts
        /\ listed \in 0 .. Len(IdOrder)
    BY <1>1
  <2>3. /\ child \in [Ids -> {"none"} \cup Running \cup Exited]
        /\ log \in [Ids -> {"none", "open", "closed"}]
    OBVIOUS
  <2> QED BY <2>1, <2>2, <2>3 DEF LauncherTypeOK
<1>4. \A n \in Ids : ~Stray(n)
  BY DEF Stray
<1>5. BodyInv /\ CleanInv /\ OverInv /\ StrayInv
  BY <1>4 DEF BodyInv, CleanInv, OverInv, StrayInv
<1> QED BY <1>1, <1>2, <1>3, <1>5 DEF LauncherInv

LEMMA PlanStep ==
  ASSUME LauncherInv, NEW line, NEW last, MakePlan(line, last)
  PROVE  LauncherInv'
<1> USE DEF LauncherInv, MakePlan
<1>1. at = "plan" /\ plan = <<>> /\ k = 1 /\ listed = 0 /\ \A n \in Ids : ~Stray(n)
  BY DEF BodyInv
<1>2. Listed = {} /\ Listed' = {}
  BY <1>1 DEF Listed
<1>3. \A n \in Ids : ~Stray(n)'
  BY <1>1, <1>2 DEF Stray
<1>4. \A n \in Ids : log'[n] # "open"
  BY <1>1, <1>2 DEF Stray
<1>5. CASE PlanRefused(line, last)
  <2>1. LauncherTypeOK'
    BY <1>5 DEF LauncherTypeOK
  <2>2. BodyInv' /\ CleanInv' /\ OverInv' /\ StrayInv'
    BY <1>2, <1>3, <1>4, <1>5 DEF BodyInv, CleanInv, OverInv, StrayInv
  <2> QED BY <1>5, <2>1, <2>2
<1>6. CASE ~PlanRefused(line, last)
  <2>1. plan' \in Seq(Ids) /\ Len(plan') <= Len(IdOrder) /\ Distinct(plan') /\ plan' # <<>>
    BY <1>6, LaunchOrderFacts DEF PlanRefused
  <2>2. 1 \in 1 .. Len(plan') /\ listed' = k' - 1 /\ listed' \in 0 .. Len(plan')
    BY <1>1, <2>1
  <2>3. LauncherTypeOK'
    BY <1>6, <2>1, PlanTyped DEF LauncherTypeOK
  <2>4. BodyInv' /\ CleanInv' /\ OverInv' /\ StrayInv'
    BY <1>1, <1>3, <1>4, <1>6, <2>2 DEF BodyInv, CleanInv, OverInv, StrayInv
  <2> QED BY <1>6, <2>1, <2>2, <2>3, <2>4
<1> QED BY <1>5, <1>6

(* A step that keeps the plan and the list keeps what they stand for.          *)
LEMMA SameList ==
  ASSUME plan' = plan, listed' = listed
  PROVE  Listed' = Listed /\ InFlight' = InFlight
BY DEF Listed, InFlight

(* The current node while it is being started.                               *)
LEMMA Starting ==
  ASSUME LauncherInv, at \in {"open", "spawn"}
  PROVE  /\ k \in 1 .. Len(plan) /\ listed = k - 1 /\ k \in Nat /\ Len(plan) \in Nat
         /\ Len(plan) <= Len(IdOrder) /\ Len(IdOrder) \in Nat
         /\ plan[k] \in Ids /\ plan[k] \notin Listed /\ InFlight = {plan[k]}
<1> USE DEF LauncherInv
<1>1. k \in 1 .. Len(plan) /\ listed = k - 1 /\ Len(plan) \in Nat /\ Len(IdOrder) \in Nat
  BY IdOrderFacts DEF BodyInv
<1>2. k \in Nat /\ plan[k] \in Ids /\ listed + 1 = k
  BY <1>1
<1>3. plan[k] \notin Listed
  BY <1>1, <1>2 DEF Listed, Distinct
<1>4. InFlight = {plan[k]}
  BY <1>1, <1>2 DEF InFlight
<1> QED BY <1>1, <1>2, <1>3, <1>4

LEMMA LogOpenedFacts ==
  ASSUME LauncherInv, at \in {"open", "spawn"}
  PROVE  /\ LogOpened \in [Ids -> {"none", "open", "closed"}]
         /\ \A n \in Ids : LogOpened[n] = "open" => WithLogs /\ (n = plan[k] \/ log[n] = "open")
<1>1. plan[k] \in Ids /\ log \in [Ids -> {"none", "open", "closed"}]
  BY Starting DEF LauncherInv, LauncherTypeOK
<1> QED BY <1>1 DEF LogOpened, LauncherInv, StrayInv

LEMMA BegunFacts ==
  ASSUME LauncherInv, at \in {"open", "spawn"}
  PROVE  /\ Begun \in [Ids -> {"none"} \cup Running \cup Exited]
         /\ \A n \in Ids : Begun[n] = IF n = plan[k] THEN "booting" ELSE child[n]
<1>1. plan[k] \in Ids /\ child \in [Ids -> {"none"} \cup Running \cup Exited]
  BY Starting DEF LauncherInv, LauncherTypeOK
<1> QED BY <1>1 DEF Begun, Running

LEMMA OpenLogStep ==
  ASSUME LauncherInv, OpenLog
  PROVE  LauncherInv'
<1> USE DEF LauncherInv, OpenLog
<1>1. \A n \in Ids : ~Stray(n)
  BY DEF BodyInv
<1>2. Listed' = Listed /\ InFlight' = InFlight
  BY SameList
<1>3. LauncherTypeOK'
  BY LogOpenedFacts DEF LauncherTypeOK
<1>4. \A n \in Ids : n \notin Listed => child[n] = "none" /\ log[n] # "open"
  BY <1>1 DEF Stray
<1>5. \A n \in Ids : Stray(n)' => n = plan[k] /\ child'[n] = "none"
  BY <1>2, <1>4, LogOpenedFacts DEF Stray
<1>6. BodyInv' /\ CleanInv' /\ OverInv'
  BY <1>2, <1>4, Starting DEF BodyInv, CleanInv, OverInv
<1>7. StrayInv'
  BY <1>2, <1>5, Starting, LogOpenedFacts DEF StrayInv
<1> QED BY <1>3, <1>6, <1>7

(* The finally clause begins: at the end of the run, or because the body raised,  *)
(* perhaps with the log open or, at a Ctrl-C, the process started already.      *)
LEMMA EnterFinally ==
  ASSUME LauncherInv, at \in {"open", "spawn", "delay", "run"},
         at' = "ask", k' = 1, plan' = plan, listed' = listed, asked' = asked,
         raising' \in BOOLEAN, at # "run" => raising',
         interrupts' \in 0 .. MaxInterrupts, interrupts' >= interrupts,
         log' = log \/ (at = "open" /\ log' = LogOpened),
         child' = child \/ (at = "spawn" /\ interrupts' > 0 /\ child' = Begun)
  PROVE  LauncherInv'
<1> USE DEF LauncherInv
<1>1. Listed' = Listed /\ InFlight' = InFlight
  BY SameList
<1>2. 1 \in 1 .. Len(IdOrder) + 1 /\ Len(plan) \in Nat /\ interrupts \in Nat /\ interrupts' \in Nat
  BY IdOrderFacts, LauncherAssumption DEF LauncherTypeOK
<1>3. LauncherTypeOK'
  BY <1>2, LogOpenedFacts, BegunFacts DEF LauncherTypeOK
<1>4. BodyInv' /\ OverInv'
  BY DEF BodyInv, OverInv
<1>5. CleanInv'
  BY <1>2 DEF CleanInv
<1>6. \A n \in Ids : Stray(n) => n \in InFlight /\ child[n] = "none"
  BY DEF BodyInv, Stray, StrayInv
<1>7. \A n \in Ids : Stray(n)' => n \in InFlight
  <2> SUFFICES ASSUME NEW n \in Ids, Stray(n)', n # plan[k] \/ ~(at \in {"open", "spawn"})
               PROVE  n \in InFlight
    BY Starting
  <2>1. child'[n] = child[n] /\ (log'[n] = "open" => log[n] = "open")
    BY LogOpenedFacts, BegunFacts
  <2> QED BY <1>1, <1>6, <2>1 DEF Stray
<1>8. \A n \in Ids : Stray(n)' /\ child'[n] # "none" => interrupts' > 0
  <2> SUFFICES ASSUME NEW n \in Ids, Stray(n)', child'[n] # "none", child' = child PROVE FALSE
    OBVIOUS
  <2>1. Stray(n)
    BY <1>1 DEF Stray
  <2> QED BY <1>6, <2>1
<1>9. \A n \in Ids : log'[n] = "open" => WithLogs
  BY LogOpenedFacts DEF StrayInv
<1>10. raising' \/ listed = Len(plan)
  BY DEF BodyInv
<1>11. StrayInv'
  BY <1>1, <1>7, <1>8, <1>9, <1>10 DEF StrayInv
<1> QED BY <1>3, <1>4, <1>5, <1>11

LEMMA FailureStep ==
  ASSUME LauncherInv, OpenFails \/ SpawnFails \/ RunEnds
  PROVE  LauncherInv'
<1>1. raising \in BOOLEAN /\ interrupts \in 0 .. MaxInterrupts /\ MaxInterrupts \in Nat
  BY LauncherAssumption DEF LauncherInv, LauncherTypeOK
<1>2. interrupts >= interrupts
  BY <1>1
<1>3. CASE OpenFails \/ SpawnFails
  BY <1>1, <1>2, <1>3, EnterFinally DEF OpenFails, SpawnFails, Unwind
<1>4. CASE RunEnds
  BY <1>1, <1>2, <1>4, EnterFinally DEF RunEnds
<1> QED BY <1>3, <1>4

(* The body goes on to the next node, or to the run.                         *)
LEMMA StartedFacts ==
  ASSUME LauncherInv, k \in 1 .. Len(plan), Started
  PROVE  /\ at' \in {"open", "run"} /\ k' \in 1 .. Len(IdOrder) + 1
         /\ at' = "open" => k' \in 1 .. Len(plan) /\ k' - 1 = k
         /\ at' = "run" => Len(plan) # 0 /\ Len(plan) = k
<1>1. Len(plan) \in Nat /\ Len(plan) <= Len(IdOrder) /\ Len(IdOrder) \in Nat /\ k \in Nat
  BY IdOrderFacts DEF LauncherInv
<1> QED BY <1>1 DEF Started

LEMMA SpawnStep ==
  ASSUME LauncherInv, Spawn
  PROVE  LauncherInv'
<1> USE DEF LauncherInv, Spawn
<1>1. /\ k \in 1 .. Len(plan) /\ listed = k - 1 /\ k \in Nat /\ Len(plan) \in Nat
      /\ Len(plan) <= Len(IdOrder) /\ Len(IdOrder) \in Nat
      /\ plan[k] \in Ids /\ plan[k] \notin Listed /\ InFlight = {plan[k]}
  BY Starting
<1>2. Listed' = Listed \cup {plan[k]}
  BY <1>1 DEF Listed
<1>3. \A n \in Ids : ~Stray(n)'
  <2> SUFFICES ASSUME NEW n \in Ids, n \notin Listed, n # plan[k]
               PROVE  child'[n] = "none" /\ log'[n] # "open"
    BY <1>2 DEF Stray
  <2>1. child'[n] = "none"
    BY BegunFacts DEF BodyInv
  <2>2. ~Stray(n)
    BY <1>1 DEF StrayInv
  <2> QED BY <2>1, <2>2 DEF Stray
<1>4. /\ at' \in {"delay", "open", "run"}
      /\ at' = "delay" => k' = k
      /\ k' \in 1 .. Len(IdOrder) + 1
      /\ at' = "open" => k' \in 1 .. Len(plan) /\ k' - 1 = k
      /\ at' = "run" => Len(plan) # 0 /\ Len(plan) = k
  <2>1. CASE Started
    BY <1>1, <2>1, StartedFacts
  <2>2. CASE at' = "delay" /\ k' = k
    BY <2>2 DEF LauncherTypeOK
  <2> QED BY <2>1, <2>2
<1>5. listed' \in 0 .. Len(plan) /\ listed' \in 0 .. Len(IdOrder)
  BY <1>1
<1>6. LauncherTypeOK'
  BY <1>4, <1>5, BegunFacts DEF LauncherTypeOK
<1>7. BodyInv'
  BY <1>1, <1>3, <1>4 DEF BodyInv
<1>8. CleanInv' /\ OverInv'
  BY <1>4 DEF CleanInv, OverInv
<1>9. StrayInv'
  BY <1>3, <1>4 DEF StrayInv
<1> QED BY <1>5, <1>6, <1>7, <1>8, <1>9

LEMMA DelayStep ==
  ASSUME LauncherInv, DelayEnds
  PROVE  LauncherInv'
<1> USE DEF LauncherInv, DelayEnds
<1>1. k \in 1 .. Len(plan) /\ listed = k /\ (\A n \in Ids : ~Stray(n))
  BY DEF BodyInv
<1>2. Listed' = Listed /\ InFlight' = InFlight
  BY SameList
<1>3. \A n \in Ids : ~Stray(n)'
  BY <1>1, <1>2 DEF Stray
<1>4. /\ at' \in {"open", "run"} /\ k' \in 1 .. Len(IdOrder) + 1
      /\ at' = "open" => k' \in 1 .. Len(plan) /\ k' - 1 = k
      /\ at' = "run" => Len(plan) # 0 /\ Len(plan) = k
  BY <1>1, StartedFacts
<1>5. LauncherTypeOK'
  BY <1>4 DEF LauncherTypeOK
<1>6. BodyInv' /\ CleanInv' /\ OverInv' /\ StrayInv'
  BY <1>1, <1>3, <1>4 DEF BodyInv, CleanInv, OverInv, StrayInv
<1> QED BY <1>5, <1>6

(* Where the finally clause is, in numbers.                                  *)
LEMMA InFinally ==
  ASSUME LauncherInv, at \in {"ask", "wait", "reap", "unasked"}, listed # 0
  PROVE  /\ listed \in 1 .. Len(plan) /\ k \in 1 .. listed /\ k \in 1 .. Len(plan)
         /\ k \in Nat /\ listed \in Nat /\ Len(plan) \in Nat
         /\ plan[k] \in Ids /\ plan[k] \in Listed
         /\ Len(plan) <= Len(IdOrder) /\ Len(IdOrder) \in Nat
         /\ \A i \in 1 .. Len(plan) : plan[i] \in Ids /\ (plan[i] = plan[k] => i = k)
<1> USE DEF LauncherInv
<1>1. listed \in 0 .. Len(plan) /\ k \in 1 .. listed /\ Len(plan) \in Nat /\ Len(IdOrder) \in Nat
  BY IdOrderFacts DEF CleanInv
<1>2. k \in 1 .. Len(plan) /\ k \in Nat /\ listed \in 1 .. Len(plan) /\ listed \in Nat
  BY <1>1
<1>3. \A i \in 1 .. Len(plan) : plan[i] \in Ids
  OBVIOUS
<1>4. plan[k] \in Listed
  BY <1>1 DEF Listed
<1> QED BY <1>1, <1>2, <1>3, <1>4 DEF Distinct

(* A step of the finally clause that leaves the processes and what is listed     *)
(* alone adds no stray.                                                      *)
LEMMA StraysStay ==
  ASSUME LauncherInv, plan' = plan, listed' = listed, interrupts' >= interrupts,
         interrupts \in Nat, interrupts' \in Nat, raising' = raising,
         \A n \in Ids : child'[n] = "none" <=> child[n] = "none",
         \A n \in Ids : log'[n] = "open" => log[n] = "open",
         at' \in {"ask", "wait", "reap"} => at \in {"ask", "wait", "reap"},
         at' = "returned" => at = "returned" \/ (at \in {"ask", "wait", "reap"} /\ ~raising)
  PROVE  StrayInv' /\ \A n \in Ids : Stray(n)' => Stray(n)
<1>1. Listed' = Listed /\ InFlight' = InFlight
  BY SameList
<1>2. \A n \in Ids : Stray(n)' => Stray(n)
  BY <1>1 DEF Stray
<1>3. \A n \in Ids : Stray(n)' /\ child'[n] # "none" => interrupts' > 0
  <2> SUFFICES ASSUME NEW n \in Ids, Stray(n)', child'[n] # "none" PROVE interrupts' > 0
    OBVIOUS
  <2>1. interrupts > 0
    BY <1>2 DEF LauncherInv, StrayInv
  <2> QED BY <2>1
<1> QED BY <1>1, <1>2, <1>3 DEF LauncherInv, StrayInv

LEMMA AskStep ==
  ASSUME LauncherInv, Ask
  PROVE  LauncherInv'
<1> USE DEF LauncherInv, Ask
<1>1. Listed' = Listed /\ InFlight' = InFlight /\ AliveIds' = AliveIds
  BY SameList DEF AliveIds
<1>2. interrupts \in Nat /\ interrupts' = interrupts /\ interrupts >= interrupts
  BY LauncherAssumption DEF LauncherTypeOK
<1>3. CASE listed = 0
  <2>1. at' = (IF raising THEN "raised" ELSE "returned") /\ k' = k /\ asked' = asked
    BY <1>3 DEF Finished
  <2>2. LauncherTypeOK'
    BY <2>1 DEF LauncherTypeOK
  <2>3. Listed = {}
    BY <1>3 DEF Listed
  <2>4. BodyInv' /\ CleanInv' /\ OverInv'
    BY <1>1, <2>1, <2>3 DEF BodyInv, CleanInv, OverInv
  <2>5. StrayInv'
    BY <1>2, <2>1, StraysStay
  <2> QED BY <2>2, <2>4, <2>5
<1>4. CASE listed # 0
  <2>1. /\ listed \in 1 .. Len(plan) /\ k \in 1 .. listed
        /\ k \in Nat /\ listed \in Nat /\ plan[k] \in Ids
        /\ Len(plan) <= Len(IdOrder) /\ Len(IdOrder) \in Nat /\ Len(plan) \in Nat
    BY <1>4, InFinally
  <2>2. /\ asked' = IF child[plan[k]] \in Running THEN asked \cup {plan[k]} ELSE asked
        /\ \/ at' = "ask" /\ k' = k + 1 /\ k < listed
           \/ at' = "wait" /\ k' = 1 /\ ~(k < listed)
    BY <1>4 DEF AfterAsking
  <2>3. \A i \in 1 .. k : child[plan[i]] \in Running => plan[i] \in asked'
    <3> TAKE i \in 1 .. k
    <3>1. i = k \/ i \in 1 .. k - 1
      BY <2>1
    <3> QED BY <2>2, <3>1 DEF CleanInv
  <2>4. k' \in 1 .. listed /\ k' \in 1 .. Len(IdOrder) + 1
    BY <2>1, <2>2
  <2>5. asked' \subseteq Ids
    BY <2>1, <2>2 DEF LauncherTypeOK
  <2>6. LauncherTypeOK'
    BY <2>2, <2>4, <2>5 DEF LauncherTypeOK
  <2>7. StrayInv'
    BY <1>2, <2>2, StraysStay
  <2>8. CASE at' = "ask"
    <3>1. k' - 1 = k
      BY <2>1, <2>2, <2>8
    <3>2. CleanInv'
      BY <1>4, <2>3, <2>4, <2>8, <3>1 DEF CleanInv
    <3> QED BY <2>6, <2>7, <2>8, <3>2 DEF BodyInv, OverInv
  <2>9. CASE at' = "wait"
    <3>1. k = listed /\ k' = 1
      BY <2>1, <2>2, <2>9
    <3>2. AliveIds \cap Listed \subseteq asked'
      BY <2>3, <3>1 DEF AliveIds, Listed
    <3>3. CleanInv'
      BY <1>1, <1>4, <2>4, <2>9, <3>1, <3>2 DEF CleanInv
    <3> QED BY <2>6, <2>7, <2>9, <3>3 DEF BodyInv, OverInv
  <2> QED BY <2>2, <2>8, <2>9
<1> QED BY <1>3, <1>4

(* A process that is gone: its log is closed and the next one is waited for.   *)
LEMMA CloseStep ==
  ASSUME LauncherInv, at \in {"wait", "reap"}, child[plan[k]] \in Exited, CloseAndGoOn,
         plan' = plan, raising' = raising, child' = child, listed' = listed, asked' = asked,
         interrupts' = interrupts
  PROVE  LauncherInv'
<1> USE DEF LauncherInv
<1>1. listed # 0
  BY DEF CleanInv
<1>2. /\ listed \in 1 .. Len(plan) /\ k \in 1 .. listed
      /\ k \in Nat /\ listed \in Nat /\ plan[k] \in Ids
      /\ Len(plan) <= Len(IdOrder) /\ Len(IdOrder) \in Nat /\ Len(plan) \in Nat
      /\ \A i \in 1 .. Len(plan) : plan[i] \in Ids
  BY <1>1, InFinally
<1>3. /\ log' = IF WithLogs THEN [log EXCEPT ![plan[k]] = "closed"] ELSE log
      /\ \/ at' = "wait" /\ k' = k + 1 /\ k < listed
         \/ at' = (IF raising THEN "raised" ELSE "returned") /\ k' = k /\ ~(k < listed)
  BY DEF CloseAndGoOn, Finished
<1>4. log \in [Ids -> {"none", "open", "closed"}]
  BY DEF LauncherTypeOK
<1>5. log' \in [Ids -> {"none", "open", "closed"}]
  BY <1>3, <1>4
<1>6. k' \in 1 .. Len(IdOrder) + 1
  BY <1>2, <1>3
<1>7. LauncherTypeOK'
  BY <1>3, <1>5, <1>6 DEF LauncherTypeOK
<1>8. \A n \in Ids : log'[n] = "open" => log[n] = "open" /\ n # plan[k]
  <2> TAKE n \in Ids
  <2>1. CASE WithLogs
    BY <1>2, <1>3, <1>4, <2>1
  <2>2. CASE ~WithLogs
    BY <1>2, <1>3, <2>2 DEF StrayInv
  <2> QED BY <2>1, <2>2
<1>9. StrayInv'
  <2>1. interrupts \in Nat /\ interrupts' >= interrupts
    BY LauncherAssumption DEF LauncherTypeOK
  <2> QED BY <1>3, <1>8, <2>1, StraysStay
<1>10. \A i \in 1 .. k : child[plan[i]] \in Exited /\ log'[plan[i]] # "open"
  <2> TAKE i \in 1 .. k
  <2>1. i \in 1 .. Len(plan) /\ plan[i] \in Ids /\ (i = k \/ i \in 1 .. k - 1)
    BY <1>2
  <2>2. child[plan[i]] \in Exited
    BY <2>1 DEF CleanInv
  <2>3. i = k \/ log[plan[i]] # "open"
    BY <2>1 DEF CleanInv
  <2> QED BY <1>8, <2>1, <2>2, <2>3
<1>11. Listed' = Listed /\ AliveIds' = AliveIds /\ AliveIds \cap Listed \subseteq asked
  BY SameList DEF AliveIds, CleanInv
<1>12. CASE at' = "wait"
  <2>1. k' - 1 = k /\ k' \in 1 .. listed
    BY <1>2, <1>3, <1>12
  <2>2. CleanInv'
    BY <1>1, <1>10, <1>11, <1>12, <2>1 DEF CleanInv
  <2> QED BY <1>7, <1>9, <1>12, <2>2 DEF BodyInv, OverInv
<1>13. CASE at' \in {"raised", "returned"}
  <2>1. k = listed
    BY <1>2, <1>3, <1>13
  <2>2. \A n \in Listed : child[n] \in Exited /\ log'[n] # "open"
    BY <1>10, <2>1 DEF Listed
  <2>3. OverInv'
    BY <1>11, <1>13, <2>2 DEF OverInv, Running, Exited
  <2> QED BY <1>7, <1>9, <1>13, <2>3 DEF BodyInv, CleanInv
<1> QED BY <1>3, <1>12, <1>13

(* A process comes nearer to its end, in the call or by itself.               *)
LEMMA ChildMoveStep ==
  ASSUME LauncherInv, NEW n \in Ids, NEW s \in Running \cup Exited,
         child[n] \in Running, child' = [child EXCEPT ![n] = s],
         plan' = plan, k' = k, raising' = raising, listed' = listed, asked' = asked, log' = log,
         interrupts' = interrupts, at' = at \/ (at = "wait" /\ at' = "reap")
  PROVE  LauncherInv'
<1> USE DEF LauncherInv
<1>1. child \in [Ids -> {"none"} \cup Running \cup Exited]
  BY DEF LauncherTypeOK
<1>2. \A m \in Ids : child'[m] = IF m = n THEN s ELSE child[m]
  BY <1>1
<1>3. child[n] # "none" /\ s # "none" /\ child[n] \notin Exited
  BY DEF Running, Exited
<1>4. /\ child' \in [Ids -> {"none"} \cup Running \cup Exited]
      /\ \A m \in Ids : child[m] \in Exited => child'[m] \in Exited
      /\ \A m \in Ids : child'[m] \in Running => child[m] \in Running
      /\ \A m \in Ids : child'[m] = "none" <=> child[m] = "none"
      /\ AliveIds' \subseteq AliveIds
  BY <1>1, <1>2, <1>3 DEF AliveIds
<1>5. Listed' = Listed
  BY SameList
<1>6. Listed \subseteq Ids
  <2>1. listed \in 0 .. Len(plan) /\ Len(plan) \in Nat /\ \A i \in 1 .. Len(plan) : plan[i] \in Ids
    OBVIOUS
  <2> QED BY <2>1 DEF Listed
<1>7. LauncherTypeOK'
  BY <1>4 DEF LauncherTypeOK
<1>8. StrayInv' /\ \A m \in Ids : Stray(m)' => Stray(m)
  <2>1. interrupts \in Nat /\ interrupts' >= interrupts
    BY LauncherAssumption DEF LauncherTypeOK
  <2> QED BY <1>4, <2>1, StraysStay
<1>9. BodyInv'
  BY <1>4, <1>5, <1>8 DEF BodyInv
<1>10. OverInv'
  BY <1>4, <1>5, <1>6 DEF OverInv
<1>11. CleanInv'
  <2>1. at' \in {"ask", "wait", "reap", "unasked"} => \A i \in 1 .. k - 1 : plan[i] \in Ids
    <3> SUFFICES ASSUME at \in {"ask", "wait", "reap", "unasked"}, NEW i \in 1 .. k - 1
                 PROVE  plan[i] \in Ids
      OBVIOUS
    <3>1. CASE listed = 0
      BY <3>1 DEF CleanInv
    <3>2. CASE listed # 0
      <4>1. k \in 1 .. Len(plan) /\ Len(plan) \in Nat
        BY <3>2, InFinally
      <4> QED BY <4>1
    <3> QED BY <3>1, <3>2
  <2> QED BY <1>4, <1>5, <2>1 DEF CleanInv
<1> QED BY <1>7, <1>8, <1>9, <1>10, <1>11

LEMMA SameChildStep ==
  ASSUME LauncherInv, plan' = plan, k' = k, raising' = raising, listed' = listed,
         asked' = asked, log' = log, child' = child,
         interrupts' \in 0 .. MaxInterrupts, interrupts' >= interrupts,
         \/ at' = at \/ (at = "wait" /\ at' = "reap") \/ (at \in {"wait", "reap"} /\ at' = "aborted")
         \/ at = "ask" /\ at' = "unasked"
  PROVE  LauncherInv'
<1> USE DEF LauncherInv
<1>1. Listed' = Listed /\ AliveIds' = AliveIds
  BY SameList DEF AliveIds
<1>2. LauncherTypeOK'
  BY DEF LauncherTypeOK
<1>3. StrayInv' /\ \A m \in Ids : Stray(m)' => Stray(m)
  <2>1. interrupts \in Nat /\ interrupts' \in Nat
    BY LauncherAssumption DEF LauncherTypeOK
  <2> QED BY <2>1, StraysStay
<1>4. BodyInv'
  BY <1>1, <1>3 DEF BodyInv
<1>5. OverInv'
  BY <1>1 DEF OverInv, CleanInv
<1>6. CleanInv'
  BY <1>1 DEF CleanInv
<1> QED BY <1>2, <1>3, <1>4, <1>5, <1>6

LEMMA WaitStep ==
  ASSUME LauncherInv, WaitEnds \/ WaitTimesOut \/ ReapEnds \/ ReapTimesOut
  PROVE  LauncherInv'
<1>1. CASE WaitEnds
  BY <1>1, CloseStep DEF WaitEnds
<1>2. CASE ReapEnds
  BY <1>2, CloseStep DEF ReapEnds
<1>3. interrupts \in 0 .. MaxInterrupts /\ interrupts >= interrupts
  BY LauncherAssumption DEF LauncherInv, LauncherTypeOK
<1>4. CASE ReapTimesOut
  BY <1>3, <1>4, SameChildStep DEF ReapTimesOut
<1>5. CASE WaitTimesOut
  <2>1. CASE child' = child
    BY <1>3, <1>5, <2>1, SameChildStep DEF WaitTimesOut
  <2>2. CASE child' = [child EXCEPT ![plan[k]] = "nonzero"]
    <3>1. listed # 0 /\ at = "wait"
      BY <1>5 DEF WaitTimesOut, LauncherInv, CleanInv
    <3>2. plan[k] \in Ids /\ "nonzero" \in Running \cup Exited
      BY <3>1, InFinally DEF Exited
    <3> QED BY <1>5, <2>2, <3>2, ChildMoveStep DEF WaitTimesOut
  <2> QED BY <1>5, <2>1, <2>2 DEF WaitTimesOut
<1> QED BY <1>1, <1>2, <1>4, <1>5

(* A Ctrl-C while the plan is made: nothing was started.                      *)
LEMMA NothingStarted ==
  ASSUME LauncherInv, at = "plan", at' = "raised", interrupts' \in 0 .. MaxInterrupts,
         UNCHANGED <<plan, k, raising, child, listed, asked, log>>
  PROVE  LauncherInv'
<1> USE DEF LauncherInv
<1>1. \A n \in Ids : ~Stray(n)
  BY DEF BodyInv
<1>2. Listed = {} /\ Listed' = {} /\ \A n \in Ids : ~Stray(n)'
  <2>1. Len(plan) = 0 /\ listed = 0
    BY DEF BodyInv
  <2>2. Listed = {} /\ Listed' = Listed
    BY <2>1, SameList DEF Listed
  <2> QED BY <1>1, <2>2 DEF Stray
<1>3. LauncherTypeOK'
  BY DEF LauncherTypeOK
<1>4. BodyInv' /\ CleanInv' /\ OverInv' /\ StrayInv'
  BY <1>2 DEF BodyInv, CleanInv, OverInv, StrayInv
<1> QED BY <1>3, <1>4

LEMMA InterruptStep ==
  ASSUME LauncherInv, Interrupt
  PROVE  LauncherInv'
<1>1. MaxInterrupts \in Nat /\ interrupts \in 0 .. MaxInterrupts
  BY LauncherAssumption DEF LauncherInv, LauncherTypeOK
<1>2. interrupts' \in 0 .. MaxInterrupts /\ interrupts' >= interrupts /\ interrupts' > 0
  BY <1>1 DEF Interrupt
<1>3. CASE at = "plan"
  BY <1>2, <1>3, NothingStarted DEF Interrupt
<1>4. CASE at \in {"ask", "wait", "reap"}
  BY <1>2, <1>4, SameChildStep DEF Interrupt
<1>5. CASE at \in {"open", "spawn", "delay", "run"}
  BY <1>2, <1>5, EnterFinally DEF Interrupt, Unwind
<1> QED BY <1>3, <1>4, <1>5 DEF Interrupt

LEMMA ChildStepStep ==
  ASSUME LauncherInv, ChildStep
  PROVE  LauncherInv'
<1>1. PICK n \in Ids : ChildBoots(n) \/ ChildFails(n) \/ ChildEnds(n)
  BY DEF ChildStep
<1>2. \E s \in Running \cup Exited : child[n] \in Running /\ child' = [child EXCEPT ![n] = s]
  BY <1>1 DEF ChildBoots, ChildFails, ChildEnds, Running, Exited
<1>3. UNCHANGED <<plan, at, k, raising, listed, asked, log, interrupts>>
  BY <1>1 DEF ChildBoots, ChildFails, ChildEnds
<1> QED BY <1>2, <1>3, ChildMoveStep

LEMMA LauncherKeeps ==
  ASSUME LauncherInv, [Next]_vars
  PROVE  LauncherInv'
<1>1. CASE UNCHANGED launcherVars
  <2>1. interrupts \in 0 .. MaxInterrupts /\ interrupts >= interrupts
    BY LauncherAssumption DEF LauncherInv, LauncherTypeOK
  <2> QED BY <1>1, <2>1, SameChildStep DEF launcherVars
<1>2. CASE Launch
  <2>1. CASE \E s \in Selections : MakePlan(s, LastPort)
    BY <2>1, PlanStep
  <2>2. CASE LauncherStep
    BY <2>2, OpenLogStep, FailureStep, SpawnStep, DelayStep, AskStep, WaitStep DEF LauncherStep
  <2> QED BY <1>2, <2>1, <2>2 DEF Launch
<1>3. CASE Operator \/ Child
  BY <1>3, InterruptStep, ChildStepStep DEF Operator, Child
<1> QED BY <1>1, <1>2, <1>3 DEF Next, Replay, Clock, Done, vars, launcherVars

-----------------------------------------------------------------------------
(* The replay.  What an accepted script guarantees.                          *)

ScriptTyped == script \in Seq(Transaction)

LEMMA AcceptedFacts ==
  ASSUME ScriptTyped, Accepted(script), NEW i \in 1 .. Len(script)
  PROVE  /\ script[i].server \in Network /\ script[i].ts \in Int
         /\ ~RefusedToSend(script[i])
         /\ script[i].fc \in WriteCodes => Written(script[i]) # <<>>
         /\ i > 1 => script[i].ts >= script[i - 1].ts /\ script[i - 1].ts \in Int
         /\ Len(script) \in Nat /\ Len(script) >= 1
<1> DEFINE t == script[i]
<1>1. t \in Transaction /\ Len(script) \in Nat /\ (i > 1 => script[i - 1] \in Transaction)
  BY DEF ScriptTyped
<1>2. TransactionFits(t) /\ TimesFit(script)
  BY DEF Accepted
<1>3. t.ts \in Int /\ t.wire \in Seq(Int) /\ t.fc \in Int /\ t.quantity \in Int
  BY <1>1 DEF Transaction
<1>4. i > 1 => script[i - 1].ts \in Int
  BY <1>1 DEF Transaction
<1>5. t.server \in Network /\ t.fc \in SupportedCodes /\ t.quantity > 0 /\ WireFits(t)
  BY <1>2 DEF TransactionFits
<1>6. t.fc \in {6, 16} => Len(t.wire) > 0
  BY <1>3, <1>5 DEF WireFits
<1>7. t.fc \in {6, 16} => t.wire # <<>>
  BY <1>3, <1>6
<1>8. ~RefusedToSend(t)
  BY <1>5, <1>7 DEF RefusedToSend
<1>9. t.fc \in WriteCodes => Written(t) # <<>>
  <2>1. CASE t.fc = 5
    BY <2>1 DEF Written
  <2>2. CASE t.fc = 6
    BY <2>2 DEF Written
  <2>3. CASE t.fc = 16
    BY <1>7, <2>3 DEF Written
  <2> QED BY <2>1, <2>2, <2>3 DEF WriteCodes
<1>10. i > 1 => script[i].ts >= script[i - 1].ts
  BY <1>2 DEF TimesFit
<1> QED BY <1>1, <1>3, <1>4, <1>5, <1>8, <1>9, <1>10

Result == [i : 1 .. Len(script), time : Nat, status : {"ok", "error"}]

(* What was sent when: each result is that of the transaction in its place, and   *)
(* no two are closer than in the script.                                      *)
Spaced ==
  Paced => \A i, j \in 1 .. Len(results) :
             i < j => results[j].time - results[i].time >= script[j].ts - script[i].ts

(* The next transaction is due no sooner than the script says after the last     *)
(* one that was sent.                                                       *)
DueInTime ==
  phase \in {"pause", "send"} /\ Paced /\ next > 1 =>
    due - results[next - 1].time >= script[next].ts - script[next - 1].ts

(* The last write the replay confirmed to a server is what the server holds.     *)
Held ==
  phase \in {"connect", "pause", "send", "close", "completed"} =>
    \A i \in 1 .. Len(results) :
      /\ results[i].status = "ok" /\ script[i].fc \in WriteCodes
      /\ \A j \in i + 1 .. Len(results) : script[j].server # script[i].server
      => holds[script[i].server] = i

Places ==
  /\ phase # "load" => (phase = "failed" /\ results = <<>>) \/ Accepted(script)
  /\ phase \in {"load", "connect"} => results = <<>>
  /\ phase \in {"pause", "send"} => next \in 1 .. Len(script)
  /\ phase \in {"close", "completed"} => Len(results) = Len(script)
  /\ phase = "connect" => conn \subseteq ServersOf(script) /\ conn # ServersOf(script)
  /\ phase \in {"load", "completed", "failed"} => conn = {}
  /\ phase = "send" => due <= now
  /\ next = Len(results) + 1

ReplayInv ==
  /\ ReplayTypeOK /\ ScriptTyped
  /\ Places /\ Spaced /\ DueInTime /\ Held

LEMMA ReplayStarts == ReplayInit(Scripts) => ReplayInv
<1> SUFFICES ASSUME ReplayInit(Scripts) PROVE ReplayInv
  OBVIOUS
<1> USE DEF ReplayInit
<1>1. ScriptTyped /\ Len(script) \in Nat
  BY SessionAssumption DEF ScriptTyped
<1>2. results = <<>> /\ Len(results) = 0 /\ results \in Seq(Result) /\ next = 1
  OBVIOUS
<1>3. ReplayTypeOK
  BY <1>1, <1>2 DEF ReplayTypeOK, Result
<1>4. Places /\ Spaced /\ DueInTime /\ Held
  BY <1>2 DEF Places, Spaced, DueInTime, Held
<1> QED BY <1>1, <1>3, <1>4 DEF ReplayInv

LEMMA LoadStep ==
  ASSUME ReplayInv, NEW targets, Load(targets)
  PROVE  ReplayInv'
<1> USE DEF ReplayInv, Load
<1>1. results = <<>> /\ Len(results) = 0 /\ conn = {} /\ next = 1
  BY DEF Places
<1>2. ReplayTypeOK' /\ ScriptTyped'
  BY DEF ReplayTypeOK, ScriptTyped
<1>3. Accepted(script) => ServersOf(script) # {}
  <2>1. Accepted(script) => Len(script) >= 1 /\ Len(script) \in Nat
    BY DEF Accepted, ScriptTyped
  <2> QED BY <2>1 DEF ServersOf
<1>4. Places'
  BY <1>1, <1>3 DEF Places
<1>5. Spaced' /\ DueInTime' /\ Held'
  BY <1>1 DEF Spaced, DueInTime, Held
<1> QED BY <1>2, <1>4, <1>5

(* The pause before transaction i lasts at least what the script says.         *)
LEMMA PauseFacts ==
  ASSUME ReplayInv, Accepted(script), NEW i \in 1 .. Len(script)
  PROVE  /\ PauseBefore(i) \in Nat
         /\ Paced /\ i > 1 => PauseBefore(i) >= script[i].ts - script[i - 1].ts
<1>1. /\ script[i].ts \in Int
      /\ i > 1 => script[i].ts >= script[i - 1].ts /\ script[i - 1].ts \in Int
  BY AcceptedFacts DEF ReplayInv
<1>2. Previous(i) \in Int /\ (i > 1 => Previous(i) = script[i - 1].ts)
  BY <1>1 DEF Previous
<1> QED BY <1>1, <1>2 DEF PauseBefore

(* The server to connect to next is one of the script's without a connection.   *)
LEMMA NextServerFacts ==
  ASSUME ScriptTyped, Accepted(script), conn \subseteq ServersOf(script), conn # ServersOf(script)
  PROVE  NextServer \in ServersOf(script) /\ ServersOf(script) \subseteq Network
<1> DEFINE open == ServersOf(script) \ conn
           isOpen(i) == NodeOrder[i] \in open
           S == {i \in 1 .. Len(NodeOrder) : isOpen(i)}
<1>1. ServersOf(script) \subseteq Network
  BY AcceptedFacts DEF ServersOf
<1>2. PICK s \in open : TRUE
  OBVIOUS
<1>3. S \subseteq Nat /\ S # {}
  BY <1>1, <1>2 DEF Network
<1>4. PICK m \in S : \A n \in S : m <= n
  BY <1>3, LeastNatural
<1>5. \E i \in 1 .. Len(NodeOrder) :
         /\ NodeOrder[i] \in open
         /\ \A j \in 1 .. i - 1 : NodeOrder[j] \notin open
  <2>1. m \in 1 .. Len(NodeOrder) /\ NodeOrder[m] \in open
    OBVIOUS
  <2>2. \A j \in 1 .. m - 1 : NodeOrder[j] \notin open
    <3> SUFFICES ASSUME NEW j \in 1 .. m - 1, NodeOrder[j] \in open PROVE FALSE
      OBVIOUS
    <3>1. j \in 1 .. Len(NodeOrder) /\ ~(m <= j)
      BY <1>3, <2>1
    <3> QED BY <1>4, <3>1
  <2> QED BY <2>1, <2>2
<1>6. NextServer \in open
  BY <1>5 DEF NextServer
<1> QED BY <1>1, <1>6

LEMMA ConnectStep ==
  ASSUME ReplayInv, NEW reachable, Connect(reachable)
  PROVE  ReplayInv'
<1> USE DEF ReplayInv
<1>1. /\ phase = "connect" /\ results = <<>> /\ Accepted(script) /\ next = 1
      /\ conn \subseteq ServersOf(script) /\ conn # ServersOf(script)
  BY DEF Connect, Places
<1>2. NextServer \in ServersOf(script) /\ ServersOf(script) \subseteq Network
  BY <1>1, NextServerFacts
<1>3. UNCHANGED <<script, next, now, results, holds>>
  BY DEF Connect
<1>4. Len(results) = 0 /\ Spaced'
  BY <1>1, <1>3 DEF Spaced
<1>5. Held'
  BY <1>1, <1>3 DEF Held
<1>6. CASE NextServer \notin reachable
  <2>1. phase' = "abandon" /\ UNCHANGED <<conn, due>>
    BY <1>6 DEF Connect
  <2>2. ReplayTypeOK' /\ ScriptTyped'
    BY <1>3, <2>1 DEF ReplayTypeOK, ScriptTyped
  <2> QED BY <1>1, <1>3, <1>4, <1>5, <2>1, <2>2 DEF Places, DueInTime
<1>7. CASE NextServer \in reachable
  <2>1. conn' = conn \cup {NextServer} /\ conn' \subseteq ServersOf(script) /\ conn' \subseteq Network
    BY <1>1, <1>2, <1>7 DEF Connect
  <2>2. CASE conn' = ServersOf(script)
    <3>1. 1 \in 1 .. Len(script)
      BY <1>1 DEF Accepted, ScriptTyped
    <3>2. phase' = "pause" /\ due' = now + PauseBefore(1)
      BY <1>7, <2>2, <3>1 DEF Connect, StartPause
    <3>3. due' \in Nat
      BY <1>1, <3>1, <3>2, PauseFacts DEF ReplayTypeOK
    <3>4. ReplayTypeOK' /\ ScriptTyped'
      BY <1>3, <2>1, <3>2, <3>3 DEF ReplayTypeOK, ScriptTyped
    <3> QED BY <1>1, <1>3, <1>4, <1>5, <3>1, <3>2, <3>4 DEF Places, DueInTime
  <2>3. CASE conn' # ServersOf(script)
    <3>1. UNCHANGED <<phase, due>>
      BY <1>7, <2>3 DEF Connect
    <3>2. ReplayTypeOK' /\ ScriptTyped'
      BY <1>3, <2>1, <3>1 DEF ReplayTypeOK, ScriptTyped
    <3>3. ServersOf(script)' = ServersOf(script)
      BY <1>3 DEF ServersOf
    <3> QED BY <1>1, <1>3, <1>4, <1>5, <2>1, <2>3, <3>1, <3>2, <3>3 DEF Places, DueInTime
  <2> QED BY <2>2, <2>3
<1> QED BY <1>6, <1>7

LEMMA PauseEndsStep ==
  ASSUME ReplayInv, PauseEnds
  PROVE  ReplayInv'
<1> USE DEF ReplayInv, PauseEnds
<1>1. ReplayTypeOK' /\ ScriptTyped'
  BY DEF ReplayTypeOK, ScriptTyped
<1>2. next \in 1 .. Len(script) /\ Accepted(script) /\ next = Len(results) + 1
  BY DEF Places
<1>3. Places' /\ Spaced' /\ Held'
  BY <1>2 DEF Places, Spaced, Held, ReplayTypeOK
<1>4. DueInTime'
  <2> SUFFICES ASSUME Paced, next > 1
               PROVE  due' - results[next - 1].time >= script[next].ts - script[next - 1].ts
    BY DEF DueInTime
  <2>1. due - results[next - 1].time >= script[next].ts - script[next - 1].ts
    BY DEF DueInTime
  <2>2. due \in Nat /\ now \in Nat /\ due' >= due
    BY DEF ReplayTypeOK
  <2>3. next - 1 \in 1 .. Len(results) /\ results \in Seq(Result)
    BY <1>2 DEF ReplayTypeOK, Result
  <2>4. results[next - 1].time \in Nat
    <3>1. results[next - 1] \in Result
      BY <2>3
    <3> QED BY <3>1 DEF Result
  <2>5. script[next].ts \in Int /\ script[next - 1].ts \in Int
    BY <1>2, AcceptedFacts
  <2> QED BY <2>1, <2>2, <2>4, <2>5
<1> QED BY <1>1, <1>3, <1>4

LEMMA EndStep ==
  ASSUME ReplayInv, Refuse \/ Close \/ Pass \/ \E reachable : SendRaises(reachable)
  PROVE  ReplayInv'
<1> USE DEF ReplayInv
<1>1. CASE Refuse
  BY <1>1, AcceptedFacts DEF Refuse, Places
<1>2. CASE Close
  <2> USE <1>2 DEF Close
  <2>1. ReplayTypeOK' /\ ScriptTyped'
    BY DEF ReplayTypeOK, ScriptTyped
  <2>2. Places' /\ Spaced' /\ DueInTime'
    BY DEF Places, Spaced, DueInTime
  <2>3. Held'
    BY DEF Held
  <2> QED BY <2>1, <2>2, <2>3
<1>3. CASE Pass
  <2> USE <1>3 DEF Pass
  <2>1. ReplayTypeOK' /\ ScriptTyped'
    BY DEF ReplayTypeOK, ScriptTyped
  <2>2. Places'
    BY DEF Places, ReplayTypeOK, ServersOf
  <2>3. Spaced' /\ DueInTime' /\ Held'
    BY DEF Spaced, DueInTime, Held
  <2> QED BY <2>1, <2>2, <2>3
<1>4. CASE \E reachable : SendRaises(reachable)
  <2> USE DEF SendRaises
  <2>1. /\ phase = "send" /\ phase' = "abandon" /\ UNCHANGED <<script, next, due, now, conn, results>>
        /\ holds' = holds \/ holds' = Apply(script[next])
    BY <1>4
  <2>2. next \in 1 .. Len(script)
    BY <2>1 DEF Places
  <2>3. holds' \in [Network -> 0 .. Len(script)]
    <3>1. holds \in [Network -> 0 .. Len(script)]
      BY DEF ReplayTypeOK
    <3>2. next \in 0 .. Len(script)
      BY <2>2
    <3>3. Apply(script[next]) \in [Network -> 0 .. Len(script)]
      BY <3>1, <3>2 DEF Apply
    <3> QED BY <2>1, <3>1, <3>3
  <2>4. ReplayTypeOK' /\ ScriptTyped'
    BY <2>1, <2>3 DEF ReplayTypeOK, ScriptTyped
  <2>5. Places' /\ Spaced' /\ DueInTime' /\ Held'
    BY <2>1 DEF Places, Spaced, DueInTime, Held
  <2> QED BY <2>4, <2>5
<1> QED BY <1>1, <1>2, <1>3, <1>4

LEMMA SendStep ==
  ASSUME ReplayInv, NEW reachable, Send(reachable)
  PROVE  ReplayInv'
<1> USE DEF ReplayInv
<1> DEFINE t == script[next]
           n == Len(results)
<1>1. /\ phase = "send" /\ Accepted(script) /\ next \in 1 .. Len(script) /\ next = n + 1
      /\ due <= now
  BY DEF Send, Places
<1>2. PICK status \in {"ok", "error"} :
        /\ results' = Append(results, [i |-> next, time |-> due, status |-> status])
        /\ holds' = Apply(t) \/ (status = "error" /\ holds' = holds)
  BY DEF Send
<1>3. next' = next + 1 /\ StartPause(next + 1) /\ UNCHANGED <<script, now, conn>>
  BY DEF Send
<1>4. /\ results \in Seq(Result) /\ due \in Nat /\ now \in Nat /\ n \in Nat /\ next \in Nat
      /\ Len(script) \in Nat
  BY DEF ReplayTypeOK, Result, ScriptTyped
<1>5. /\ t.server \in Network /\ t.ts \in Int
      /\ t.fc \in WriteCodes => Written(t) # <<>>
  BY <1>1, AcceptedFacts
<1>6. [i |-> next, time |-> due, status |-> status] \in Result
  BY <1>1, <1>4 DEF Result
<1>7. /\ results' \in Seq(Result) /\ Len(results') = next
      /\ results'[next] = [i |-> next, time |-> due, status |-> status]
      /\ \A i \in 1 .. n : results'[i] = results[i]
  BY <1>1, <1>2, <1>4, <1>6
<1>8. holds' \in [Network -> 0 .. Len(script)]
  BY <1>1, <1>2 DEF Apply, ReplayTypeOK
<1>9. ASSUME next + 1 \in 1 .. Len(script)
      PROVE  ReplayTypeOK' /\ Places' /\ DueInTime'
  <2>1. phase' = "pause" /\ due' = now + PauseBefore(next + 1)
    BY <1>3, <1>9 DEF StartPause
  <2>2. /\ PauseBefore(next + 1) \in Nat
        /\ Paced => PauseBefore(next + 1) >= script[next + 1].ts - t.ts
    <3>1. next + 1 - 1 = next /\ next + 1 > 1
      BY <1>1, <1>4
    <3> QED BY <1>1, <1>9, <3>1, PauseFacts
  <2>3. due' \in Nat
    BY <1>4, <2>1, <2>2
  <2>4. script[next + 1].ts \in Int
    BY <1>1, <1>9, AcceptedFacts
  <2>5. DueInTime'
    <3>1. next' - 1 = next /\ script' = script
      BY <1>1, <1>3, <1>4
    <3>2. Paced => due' - due >= script[next + 1].ts - t.ts
      <4> DEFINE p == PauseBefore(next + 1)
                 a == script[next + 1].ts
                 z == t.ts
      <4>1. due' = now + p /\ p \in Nat /\ a \in Int /\ z \in Int /\ (Paced => p >= a - z)
        BY <1>5, <2>1, <2>2, <2>4
      <4>2. due <= now /\ due \in Nat /\ now \in Nat
        BY <1>1, <1>4
      <4> HIDE DEF p, a, z
      <4>3. Paced => due' - due >= a - z
        BY <4>1, <4>2
      <4> QED BY <4>3 DEF a, z
    <3> QED BY <1>3, <1>7, <3>1, <3>2 DEF DueInTime
  <2> HIDE DEF t, n
  <2>6. Places'
    BY <1>1, <1>3, <1>7, <1>9, <2>1 DEF Places
  <2>7. ReplayTypeOK'
    BY <1>3, <1>4, <1>7, <1>8, <1>9, <2>1, <2>3 DEF ReplayTypeOK, Result
  <2> QED BY <2>5, <2>6, <2>7
<1>10. ASSUME next + 1 \notin 1 .. Len(script)
       PROVE  ReplayTypeOK' /\ Places' /\ DueInTime'
  <2>1. phase' = "close" /\ due' = due
    BY <1>1, <1>3, <1>4, <1>10 DEF StartPause
  <2>2. Len(results') = Len(script)
    BY <1>1, <1>4, <1>7, <1>10
  <2>3. Places' /\ DueInTime'
    BY <1>1, <1>3, <1>7, <2>1, <2>2 DEF Places, DueInTime
  <2>4. ReplayTypeOK'
    BY <1>1, <1>3, <1>4, <1>7, <1>8, <2>1 DEF ReplayTypeOK, Result
  <2> QED BY <2>3, <2>4
<1>11. Spaced'
  <2> SUFFICES ASSUME Paced, NEW i \in 1 .. next, NEW j \in 1 .. next, i < j
               PROVE  results'[j].time - results'[i].time >= script[j].ts - script[i].ts
    BY <1>3, <1>7 DEF Spaced
  <2>0. /\ i \in 1 .. n /\ script[i].ts \in Int /\ script[j].ts \in Int
        /\ results[i].time \in Nat
    <3>1. i \in 1 .. Len(script) /\ j \in 1 .. Len(script) /\ i \in 1 .. n
      BY <1>1, <1>4
    <3>2. results[i] \in Result
      BY <1>4, <3>1
    <3> QED BY <1>1, <3>1, <3>2, AcceptedFacts DEF Result
  <2>1. CASE j \in 1 .. n
    BY <1>7, <2>0, <2>1 DEF Spaced
  <2>2. CASE j = next
    <3>1. n \in 1 .. n /\ n = next - 1 /\ next > 1
      BY <1>1, <1>4, <2>0
    <3>2. results[n] \in Result /\ n \in 1 .. Len(script)
      BY <1>1, <1>4, <3>1
    <3>3. results[n].time \in Nat /\ script[n].ts \in Int
      BY <1>1, <3>2, AcceptedFacts DEF Result
    <3>4. due - results[n].time >= t.ts - script[n].ts
      BY <1>1, <3>1 DEF DueInTime
    <3>5. i = n \/ results[n].time - results[i].time >= script[n].ts - script[i].ts
      BY <1>4, <2>0, <3>1 DEF Spaced
    <3>6. results'[j].time = due /\ results'[i].time = results[i].time
      BY <1>7, <2>0, <2>2
    <3>7. due - results[i].time >= t.ts - script[i].ts
      <4>1. CASE i = n
        BY <3>4, <4>1
      <4>2. CASE results[n].time - results[i].time >= script[n].ts - script[i].ts
        <5> DEFINE a == results[i].time
                   b == results[n].time
                   u == script[i].ts
                   v == script[n].ts
                   w == t.ts
        <5>1. a \in Nat /\ b \in Nat /\ u \in Int /\ v \in Int /\ w \in Int /\ due \in Nat
          BY <1>4, <1>5, <2>0, <3>3
        <5>2. due - b >= w - v /\ b - a >= v - u
          BY <3>4, <4>2
        <5> HIDE DEF a, b, u, v, w
        <5>3. due - a >= w - u
          BY <5>1, <5>2
        <5> QED BY <5>3 DEF a, u, w
      <4> QED BY <3>5, <4>1, <4>2
    <3> QED BY <2>2, <3>6, <3>7
  <2> QED BY <1>1, <1>4, <2>1, <2>2
<1>12. Held'
  <2> SUFFICES ASSUME NEW i \in 1 .. next, results'[i].status = "ok",
                      script[i].fc \in WriteCodes,
                      \A j \in i + 1 .. next : script[j].server # script[i].server
               PROVE  holds'[script[i].server] = i
    BY <1>3, <1>7 DEF Held
  <2>1. CASE i = next
    <3>1. holds' = Apply(t) /\ Written(t) # <<>>
      BY <1>2, <1>5, <1>7, <2>1
    <3> QED BY <1>5, <2>1, <3>1 DEF Apply, ReplayTypeOK
  <2>2. CASE i \in 1 .. n
    <3>1. /\ next \in i + 1 .. next /\ i \in 1 .. Len(script)
          /\ \A j \in i + 1 .. n : script[j].server # script[i].server
      BY <1>1, <1>4, <2>2
    <3>2. holds[script[i].server] = i
      BY <1>1, <1>7, <2>2, <3>1 DEF Held
    <3>3. script[i].server # t.server /\ script[i].server \in Network
      BY <1>1, <3>1, AcceptedFacts
    <3> QED BY <1>2, <3>2, <3>3 DEF Apply, ReplayTypeOK
  <2> QED BY <1>1, <1>4, <2>1, <2>2
<1>13. ScriptTyped'
  BY <1>3 DEF ScriptTyped
<1> QED BY <1>9, <1>10, <1>11, <1>12, <1>13

LEMMA ReplayKeeps ==
  ASSUME ReplayInv, [Next]_vars
  PROVE  ReplayInv'
<1>1. CASE UNCHANGED replayVars
  <2> USE <1>1 DEF replayVars, ReplayInv
  <2>1. ReplayTypeOK' /\ ScriptTyped'
    BY DEF ReplayTypeOK, ScriptTyped
  <2>2. Places' /\ Spaced' /\ DueInTime' /\ Held'
    BY DEF Places, Spaced, DueInTime, Held, ServersOf
  <2> QED BY <2>1, <2>2
<1>2. CASE Replay
  <2>1. ReplayStep(Planned, Reachable)
    BY <1>2 DEF Replay
  <2> QED BY <2>1, LoadStep, ConnectStep, PauseEndsStep, SendStep, EndStep DEF ReplayStep
<1>3. CASE Clock
  BY <1>3, EndStep DEF Clock
<1> QED BY <1>1, <1>2, <1>3 DEF Next, Launch, Operator, Child, Done, vars

-----------------------------------------------------------------------------
LEMMA SessionInv == Spec => [](LauncherInv /\ ReplayInv)
<1>1. Init => LauncherInv /\ ReplayInv
  BY LauncherStarts, ReplayStarts DEF Init
<1>2. LauncherInv /\ ReplayInv /\ [Next]_vars => (LauncherInv /\ ReplayInv)'
  BY LauncherKeeps, ReplayKeeps
<1> QED BY <1>1, <1>2, PTL DEF Spec

(* Type correctness of the launcher and the replay; in particular the position  *)
(* in the plan and in the script is never out of bounds where it is used.      *)
THEOREM SessionTyped == Spec => []TypeOK
<1>1. LauncherInv /\ ReplayInv => TypeOK
  BY DEF LauncherInv, ReplayInv, TypeOK
<1> QED BY <1>1, SessionInv, PTL

(* All processes in the list are asked to stop before any is waited for, killed   *)
(* or given up, and a Ctrl-C in the loop that asks leaves none of those unasked    *)
(* that it had come past (orchestration.py:172-181).                          *)
THEOREM EveryoneIsAsked == Spec => []NobodyForgotten
<1>1. LauncherInv => NobodyForgotten
  <2> SUFFICES ASSUME LauncherInv PROVE NobodyForgotten
    OBVIOUS
  <2>1. at \in {"wait", "reap", "returned", "raised", "aborted"} => AliveIds \cap Listed \subseteq asked
    BY DEF LauncherInv, CleanInv, OverInv, AliveIds
  <2>2. at \in {"ask", "unasked"} => \A i \in 1 .. k - 1 : plan[i] \in AliveIds => plan[i] \in asked
    BY DEF LauncherInv, CleanInv, AliveIds
  <2> QED BY <2>1, <2>2 DEF NobodyForgotten
<1> QED BY <1>1, SessionInv, PTL

(* A launcher that returns results leaves nothing behind; one that raises leaves   *)
(* at most the log, and after a Ctrl-C the process, of the node that was being      *)
(* started (orchestration.py:153-184).                                        *)
THEOREM NoProcessIsLeft == Spec => []NoOrphans
<1>1. LauncherInv => NoOrphans
  <2> SUFFICES ASSUME LauncherInv, at \in {"returned", "raised"} PROVE NoOrphans
    BY DEF NoOrphans
  <2> USE DEF LauncherInv
  <2>1. \A n \in Listed : child[n] \notin Running /\ log[n] # "open"
    BY DEF OverInv
  <2>2. \A n \in Ids : n \in AliveIds \/ log[n] = "open" => Stray(n) /\ n \in InFlight
    BY <2>1 DEF AliveIds, Stray, StrayInv, Running
  <2>3. AliveIds # {} => interrupts > 0
    BY <2>2 DEF AliveIds, StrayInv, Running
  <2>4. at = "returned" => InFlight = {}
    <3>1. Len(plan) \in Nat /\ Len(plan) + 1 \notin 1 .. Len(plan)
      OBVIOUS
    <3> QED BY <3>1 DEF StrayInv, InFlight
  <2> QED BY <2>2, <2>3, <2>4 DEF NoOrphans, AliveIds
<1> QED BY <1>1, SessionInv, PTL

(* A validated scenario is never refused half way, every connection is closed    *)
(* again, and a server holds the last write it confirmed (executor.py:91-109,    *)
(* live.py:64-80).                                                          *)
THEOREM ReplayKeepsFaith == Spec => []ReplayIsFaithful
<1>1. ReplayInv => ReplayIsFaithful
  <2> SUFFICES ASSUME ReplayInv PROVE ReplayIsFaithful
    OBVIOUS
  <2>1. phase = "send" => ~RefusedToSend(script[next])
    BY AcceptedFacts DEF ReplayInv, Places
  <2>2. phase \in {"completed", "failed"} => conn = {}
    BY DEF ReplayInv, Places
  <2>3. phase = "completed" => Len(results) = Len(script)
    BY DEF ReplayInv, Places
  <2> QED BY <2>1, <2>2, <2>3 DEF ReplayIsFaithful, ReplayInv, Held
<1> QED BY <1>1, SessionInv, PTL

(* Replayed in real time, no transaction is sent earlier after any other than     *)
(* the scenario says (executor.py:103-108).                                  *)
THEOREM NothingIsRushed == Spec => []NeverEarly
<1>1. ReplayInv => NeverEarly
  BY DEF ReplayInv, Spaced, NeverEarly
<1> QED BY <1>1, SessionInv, PTL
=============================================================================
