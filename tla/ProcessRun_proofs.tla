--------------------------- MODULE ProcessRun_proofs ---------------------------
(***************************************************************************)
(* Machine-checked facts about ProcessRun, for a tank of any number of zones,    *)
(* any rates, streams and temperatures, and any number of steps, commands and    *)
(* failures: chlorine is conserved, and a quiet screen hides nothing.           *)
(***************************************************************************)
EXTENDS ProcessRun, FiniteSetTheorems, TLAPS

USE TopLevelAssumption, TransportAssumption, DynamicsAssumption, RunAssumption

-----------------------------------------------------------------------------
(* Every set of natural numbers has a least one: what the inductions below     *)
(* rest on, as the least counterexample to what they claim.                   *)
LEMMA LeastNatural ==
  ASSUME NEW S, S \subseteq Nat, S # {}
  PROVE  \E m \in S : \A n \in S : m <= n
<1> DEFINE Initial == {0 .. n : n \in S}
           Smaller == StrictSubsetOrdering(Nat)
           Finite  == FiniteSubsetsOf(Nat)
<1>1. Initial \subseteq Finite
  <2> SUFFICES ASSUME NEW n \in S PROVE 0 .. n \in Finite
    OBVIOUS
  <2>1. n \in Nat /\ n \in Int /\ 0 \in Int /\ 0 .. n \subseteq Nat
    OBVIOUS
  <2>2. IsFiniteSet(0 .. n)
    BY <2>1, FS_Interval
  <2> QED BY <2>1, <2>2 DEF FiniteSubsetsOf
<1>2. PICK x \in Initial : \A y \in Initial : ~(<<y, x>> \in Smaller)
  <2>1. IsWellFoundedOn(Smaller, Finite)
    BY FS_StrictSubsetOrderingWellFounded
  <2>2. Initial # {}
    <3>1. PICK n \in S : TRUE
      OBVIOUS
    <3>2. 0 .. n \in Initial
      BY Zenon, <3>1
    <3> QED BY Zenon, <3>2
  <2> HIDE DEF Initial, Smaller, Finite
  <2> QED BY <1>1, <2>1, <2>2, WFMin
<1>3. PICK m \in S : x = 0 .. m
  BY <1>2
<1>4. ASSUME NEW n \in S, n < m PROVE FALSE
  <2>1. 0 .. n \subseteq 0 .. m /\ 0 .. n # 0 .. m /\ {0 .. n, 0 .. m} \subseteq SUBSET Nat
    BY <1>4
  <2>2. <<0 .. n, 0 .. m>> \in Smaller
    BY <2>1 DEF StrictSubsetOrdering
  <2> QED BY <1>2, <1>3, <2>2
<1> QED BY <1>3, <1>4


(* Induction from the inlet to the outlet, over the set of the places reached.    *)
LEMMA ZoneInduction ==
  ASSUME NEW S, 0 \in S, \A n \in Zone : n \in S => n + 1 \in S
  PROVE  \A n \in 0 .. Zones : n \in S
<1> DEFINE Bad == {n \in 0 .. Zones : n \notin S}
<1> SUFFICES ASSUME Bad # {} PROVE FALSE
  OBVIOUS
<1>1. PICK m \in Bad : \A n \in Bad : m <= n
  <2>1. Bad \subseteq Nat
    OBVIOUS
  <2> HIDE DEF Bad
  <2> QED BY <2>1, LeastNatural
<1>2. m \in 1 .. Zones
  BY <1>1
<1>3. m - 1 \in Zone /\ m - 1 \in 0 .. Zones /\ ~(m <= m - 1) /\ m - 1 + 1 = m
  BY <1>2 DEF Zone
<1>4. m - 1 \in S
  BY <1>1, <1>3
<1> QED BY <1>1, <1>3, <1>4

-----------------------------------------------------------------------------
(* ZoneSum.  Its recursive function exists, and has whole numbers.              *)
SumStep(u, f, n) == IF n = 0 THEN 0 ELSE u[n - 1] + f[n - 1]

IsSum(u, f, m) == u = [n \in 0 .. m |-> SumStep(u, f, n)]

LEMMA SumExists ==
  ASSUME NEW f, NEW n \in Nat
  PROVE  \E u : IsSum(u, f, n)
<1> DEFINE Bad == {i \in Nat : ~\E u : IsSum(u, f, i)}
<1> SUFFICES ASSUME Bad # {} PROVE FALSE
  OBVIOUS
<1>1. PICK m \in Bad : \A i \in Bad : m <= i
  BY LeastNatural
<1>2. m # 0
  <2>1. IsSum([i \in 0 .. 0 |-> 0], f, 0)
    BY DEF IsSum, SumStep
  <2> QED BY <2>1
<1>3. PICK g : IsSum(g, f, m - 1)
  <2>1. m - 1 \in Nat /\ ~(m <= m - 1)
    BY <1>1, <1>2
  <2> QED BY <1>1, <2>1
<1> DEFINE h == [i \in 0 .. m |-> IF i < m THEN g[i] ELSE SumStep(g, f, m)]
<1>4. \A i \in 0 .. m : h[i] = SumStep(h, f, i)
  <2> TAKE i \in 0 .. m
  <2>1. i # 0 => h[i - 1] = g[i - 1]
    BY <1>1
  <2>2. SumStep(h, f, i) = SumStep(g, f, i)
    BY <2>1 DEF SumStep
  <2>3. CASE i = m
    BY <1>1, <2>2, <2>3
  <2>4. CASE i < m
    <3>1. i \in 0 .. m - 1
      BY <1>1, <2>4
    <3>2. g[i] = SumStep(g, f, i)
      BY <1>3, <3>1 DEF IsSum
    <3> QED BY <2>2, <2>4, <3>2
  <2> QED BY <1>1, <2>3, <2>4
<1>5. h = [i \in 0 .. m |-> h[i]]
  OBVIOUS
<1>6. IsSum(h, f, m)
  <2> HIDE DEF h
  <2> QED BY <1>4, <1>5 DEF IsSum
<1> QED BY <1>1, <1>6

LEMMA ZoneSumFacts ==
  ASSUME NEW f, \A n \in Zone : f[n] \in Int
  PROVE  \E u : /\ u[0] = 0 /\ ZoneSum(f) = u[Zones]
                /\ \A n \in 0 .. Zones : u[n] \in Int
                /\ \A n \in Zone : u[n + 1] = u[n] + f[n]
<1> DEFINE u == CHOOSE g : IsSum(g, f, Zones)
<1>1. ZoneSum(f) = u[Zones]
  BY DEF ZoneSum, IsSum, SumStep
<1>2. IsSum(u, f, Zones)
  <2>1. \E g : IsSum(g, f, Zones)
    BY SumExists
  <2> QED BY <2>1
<1> HIDE DEF u
<1>3. \A n \in 0 .. Zones : u[n] = SumStep(u, f, n)
  BY <1>2 DEF IsSum
<1>4. u[0] = 0
  BY <1>3 DEF SumStep
<1>5. \A n \in Zone : u[n + 1] = u[n] + f[n]
  <2> TAKE n \in Zone
  <2>1. n + 1 \in 0 .. Zones /\ n + 1 # 0 /\ n + 1 - 1 = n
    BY DEF Zone
  <2>2. u[n + 1] = SumStep(u, f, n + 1)
    BY <1>3, <2>1
  <2>3. \A k \in 0 .. Zones : k # 0 => SumStep(u, f, k) = u[k - 1] + f[k - 1]
    BY DEF SumStep
  <2> DEFINE k == n + 1
  <2>4. k \in 0 .. Zones /\ k # 0 /\ k - 1 = n /\ u[k] = SumStep(u, f, k)
    <3>1. u[k] = SumStep(u, f, k)
      BY <2>2, Zenon
    <3>2. k \in 0 .. Zones /\ k # 0 /\ k - 1 = n
      BY DEF Zone
    <3> QED BY <3>1, <3>2
  <2> HIDE DEF k
  <2>5. u[k] = u[k - 1] + f[k - 1]
    BY <2>3, <2>4
  <2>6. u[k] = u[n] + f[n]
    BY <2>4, <2>5, Zenon
  <2> QED BY <2>6 DEF k
<1>6. \A n \in 0 .. Zones : u[n] \in Int
  <2> DEFINE S == {n \in 0 .. Zones : u[n] \in Int}
  <2>1. 0 \in S
    BY <1>4
  <2>2. \A n \in Zone : n \in S => n + 1 \in S
    BY <1>5 DEF Zone
  <2> HIDE DEF S
  <2>3. \A n \in 0 .. Zones : n \in S
    BY <2>1, <2>2, ZoneInduction
  <2> QED BY <2>3 DEF S
<1> QED BY <1>1, <1>4, <1>5, <1>6

(* A sum of differences is the difference of its ends.                        *)
LEMMA SumTelescopes ==
  ASSUME NEW f, NEW w, w[0] = 0, \A n \in 0 .. Zones : w[n] \in Int,
         \A n \in Zone : f[n] = w[n + 1] - w[n]
  PROVE  ZoneSum(f) = w[Zones]
<1>1. \A n \in Zone : n \in 0 .. Zones /\ n + 1 \in 0 .. Zones
  BY DEF Zone
<1>2. \A n \in Zone : f[n] \in Int
  BY <1>1
<1>3. PICK u : /\ u[0] = 0 /\ ZoneSum(f) = u[Zones]
               /\ \A n \in 0 .. Zones : u[n] \in Int
               /\ \A n \in Zone : u[n + 1] = u[n] + f[n]
  BY <1>2, ZoneSumFacts
<1> DEFINE S == {n \in 0 .. Zones : u[n] = w[n]}
<1>4. 0 \in S
  BY <1>3
<1>5. \A n \in Zone : n \in S => n + 1 \in S
  BY <1>1, <1>3
<1> HIDE DEF S
<1>6. \A n \in 0 .. Zones : n \in S
  BY <1>4, <1>5, ZoneInduction
<1> QED BY <1>3, <1>6 DEF S

(* A sum of combinations is the combination of the sums.                      *)
LEMMA SumCombines ==
  ASSUME NEW f, NEW g, NEW h, NEW a \in Int, NEW b \in Int,
         \A n \in Zone : f[n] \in Int /\ g[n] \in Int /\ h[n] = a * f[n] + b * g[n]
  PROVE  /\ ZoneSum(f) \in Int /\ ZoneSum(g) \in Int
         /\ ZoneSum(h) = a * ZoneSum(f) + b * ZoneSum(g)
<1>1. PICK u : /\ u[0] = 0 /\ ZoneSum(f) = u[Zones]
               /\ \A n \in 0 .. Zones : u[n] \in Int
               /\ \A n \in Zone : u[n + 1] = u[n] + f[n]
  BY ZoneSumFacts
<1>2. PICK v : /\ v[0] = 0 /\ ZoneSum(g) = v[Zones]
               /\ \A n \in 0 .. Zones : v[n] \in Int
               /\ \A n \in Zone : v[n + 1] = v[n] + g[n]
  BY ZoneSumFacts
<1> DEFINE w == [n \in 0 .. Zones |-> a * u[n] + b * v[n]]
<1>3. w[0] = 0 /\ \A n \in 0 .. Zones : w[n] \in Int
  <2>1. a * 0 + b * 0 = 0 /\ \A p, q \in Int : a * p + b * q \in Int
    OBVIOUS
  <2>2. 0 \in 0 .. Zones
    OBVIOUS
  <2>3. w[0] = a * 0 + b * 0
    BY <1>1, <1>2, <2>2
  <2>4. \A n \in 0 .. Zones : w[n] = a * u[n] + b * v[n]
    OBVIOUS
  <2> HIDE DEF w
  <2>5. \A n \in 0 .. Zones : u[n] \in Int /\ v[n] \in Int
    BY <1>1, <1>2
  <2>6. u[0] = 0 /\ v[0] = 0
    BY <1>1, <1>2
  <2>7. \A n \in 0 .. Zones : w[n] \in Int
    BY <2>1, <2>4, <2>5
  <2> QED BY <2>1, <2>3, <2>6, <2>7
<1>4. \A n \in Zone : h[n] = w[n + 1] - w[n]
  <2> TAKE n \in Zone
  <2>1. n \in 0 .. Zones /\ n + 1 \in 0 .. Zones
    BY DEF Zone
  <2>2. w[n + 1] = a * (u[n] + f[n]) + b * (v[n] + g[n]) /\ w[n] = a * u[n] + b * v[n]
    BY <1>1, <1>2, <2>1
  <2>3. u[n] \in Int /\ v[n] \in Int /\ f[n] \in Int /\ g[n] \in Int
    BY <1>1, <1>2, <2>1
  <2>4. \A p, q, r, s \in Int : (a * (p + r) + b * (q + s)) - (a * p + b * q) = a * r + b * s
    OBVIOUS
  <2>5. (a * (u[n] + f[n]) + b * (v[n] + g[n])) - (a * u[n] + b * v[n]) = a * f[n] + b * g[n]
    BY <2>3, <2>4
  <2> QED BY <2>2, <2>5
<1>5. w[Zones] = a * u[Zones] + b * v[Zones] /\ Zones \in 0 .. Zones
  OBVIOUS
<1> HIDE DEF w
<1>6. ZoneSum(h) = w[Zones]
  BY <1>3, <1>4, SumTelescopes
<1> QED BY <1>1, <1>2, <1>5, <1>6

(* What is nothing but in one zone and next to it adds up to those three.        *)
LEMMA SumOfNeighbours ==
  ASSUME NEW f, NEW i \in Zone, \A n \in Zone : f[n] \in Int,
         \A n \in Zone : n \notin {i - 1, i, i + 1} => f[n] = 0
  PROVE  ZoneSum(f) = (IF i > 0 THEN f[i - 1] ELSE 0) + f[i] + (IF i < Last THEN f[i + 1] ELSE 0)
<1> DEFINE w == [n \in 0 .. Zones |-> (IF i > 0 /\ n > i - 1 THEN f[i - 1] ELSE 0)
                                     + (IF n > i THEN f[i] ELSE 0)
                                     + (IF i < Last /\ n > i + 1 THEN f[i + 1] ELSE 0)]
<1>1. i \in Nat /\ i < Zones /\ f[i] \in Int /\ (i > 0 => f[i - 1] \in Int)
      /\ (i < Last => f[i + 1] \in Int)
  BY DEF Zone, Last
<1>2. w[0] = 0 /\ \A n \in 0 .. Zones : w[n] \in Int
  BY <1>1
<1>3. \A n \in Zone : f[n] = w[n + 1] - w[n]
  <2> TAKE n \in Zone
  <2>1. n \in 0 .. Zones /\ n + 1 \in 0 .. Zones /\ n < Zones
    BY DEF Zone
  <2>2. CASE i > 0 /\ n = i - 1
    BY <1>1, <2>1, <2>2
  <2>3. CASE n = i
    BY <1>1, <2>1, <2>3
  <2>4. CASE n = i + 1
    BY <1>1, <2>1, <2>4 DEF Last
  <2>5. CASE n \notin {i - 1, i, i + 1}
    BY <1>1, <2>1, <2>5
  <2> QED BY <1>1, <2>1, <2>2, <2>3, <2>4, <2>5
<1>4. w[Zones] = (IF i > 0 THEN f[i - 1] ELSE 0) + f[i] + (IF i < Last THEN f[i + 1] ELSE 0)
  BY <1>1 DEF Last
<1> HIDE DEF w
<1> QED BY <1>2, <1>3, <1>4, SumTelescopes
-----------------------------------------------------------------------------
(* Transport.  What zone i takes from a neighbour is what the neighbour takes     *)
(* from it, whatever the layering of the water.                              *)
Exchange(temperature, i) ==
  IF Suppressed(temperature, i) THEN MixRate \div 2 ELSE MixRate

Upward(t, i)   == IF i > 0 THEN Exchange(t, i - 1) ELSE 0
Downward(t, i) == IF i < Last THEN Exchange(t, i) ELSE 0

LEMMA ExchangeType == \A t, i : Exchange(t, i) \in Nat
  BY DEF Exchange

LEMMA ExchangeMatrixFacts ==
  ASSUME NEW i \in Zone, NEW j \in Zone, i # j
  PROVE  ExchangeMatrix[<<i, j>>] = IF i - j \in {-1, 1} THEN MixRate ELSE 0
<1>1. <<i, j>> \in Zone \X Zone /\ <<i, j>> # <<Last, Last>>
  OBVIOUS
<1> DEFINE tri == [c \in Zone \X Zone |-> IF c[1] - c[2] \in {-1, 1} THEN MixRate ELSE 0]
<1>2. ExchangeMatrix = [WithDiagonal(tri) EXCEPT ![<<Last, Last>>] = @ - DesignFlow]
  BY DEF ExchangeMatrix
<1>3. WithDiagonal(tri)[<<i, j>>] = tri[<<i, j>>]
  <2> HIDE DEF tri
  <2> QED BY <1>1 DEF WithDiagonal
<1>4. ExchangeMatrix[<<i, j>>] = WithDiagonal(tri)[<<i, j>>]
  <2> HIDE DEF tri
  <2>1. DOMAIN WithDiagonal(tri) = Zone \X Zone
    BY DEF WithDiagonal
  <2> QED BY <1>1, <1>2, <2>1
<1>5. tri[<<i, j>>] = IF i - j \in {-1, 1} THEN MixRate ELSE 0
  BY <1>1
<1> QED BY <1>3, <1>4, <1>5

LEMMA OffDiagonal ==
  ASSUME NEW t, NEW i \in Zone, NEW j \in Zone, i # j
  PROVE  MixingMatrix(t)[<<i, j>>] =
           IF j = i - 1 THEN Upward(t, i) ELSE IF j = i + 1 THEN Downward(t, i) ELSE 0
<1> DEFINE below(c) == IF c[1] < c[2] THEN c[1] ELSE c[2]
           rate == [c \in Zone \X Zone |->
                      IF c[1] - c[2] \in {-1, 1} /\ Suppressed(t, below(c))
                      THEN ExchangeMatrix[c] \div 2 ELSE ExchangeMatrix[c]]
<1>1. <<i, j>> \in Zone \X Zone /\ i \in Nat /\ j \in Nat /\ i < Zones /\ j < Zones
  BY DEF Zone
<1>2. MixingMatrix(t) = WithDiagonal(rate)
  BY DEF MixingMatrix
<1>3. WithDiagonal(rate)[<<i, j>>] = rate[<<i, j>>]
  <2> HIDE DEF rate
  <2> QED BY <1>1 DEF WithDiagonal
<1>4. rate[<<i, j>>] = IF i - j \in {-1, 1} /\ Suppressed(t, IF i < j THEN i ELSE j)
                      THEN ExchangeMatrix[<<i, j>>] \div 2 ELSE ExchangeMatrix[<<i, j>>]
  BY <1>1
<1> HIDE DEF rate
<1>5. ExchangeMatrix[<<i, j>>] = IF i - j \in {-1, 1} THEN MixRate ELSE 0
  BY ExchangeMatrixFacts
<1>6. CASE j = i - 1
  BY <1>1, <1>2, <1>3, <1>4, <1>5, <1>6 DEF Upward, Exchange
<1>7. CASE j = i + 1
  BY <1>1, <1>2, <1>3, <1>4, <1>5, <1>7 DEF Downward, Exchange, Last
<1>8. CASE j # i - 1 /\ j # i + 1
  BY <1>1, <1>2, <1>3, <1>4, <1>5, <1>8
<1> QED BY <1>6, <1>7, <1>8

LEMMA Diagonal ==
  ASSUME NEW t, NEW i \in Zone
  PROVE  MixingMatrix(t)[<<i, i>>] = -(Upward(t, i) + Downward(t, i))
<1> DEFINE m == MixingMatrix(t)
           row == [j \in Zone |-> IF j = i THEN 0 ELSE m[<<i, j>>]]
           below(c) == IF c[1] < c[2] THEN c[1] ELSE c[2]
           rate == [c \in Zone \X Zone |->
                      IF c[1] - c[2] \in {-1, 1} /\ Suppressed(t, below(c))
                      THEN ExchangeMatrix[c] \div 2 ELSE ExchangeMatrix[c]]
           old == [j \in Zone |-> IF j = i THEN 0 ELSE rate[<<i, j>>]]
<1>1. m = WithDiagonal(rate)
  BY DEF MixingMatrix
<1>2. \A j \in Zone : <<i, j>> \in Zone \X Zone
  OBVIOUS
<1> HIDE DEF rate
<1>3. m[<<i, i>>] = -ZoneSum(old)
  <2> HIDE DEF m
  <2> QED BY <1>1, <1>2 DEF WithDiagonal
<1>4. old = row
  <2>1. \A j \in Zone : j # i => m[<<i, j>>] = rate[<<i, j>>]
    <3> HIDE DEF m
    <3> QED BY <1>1, <1>2 DEF WithDiagonal
  <2> HIDE DEF m
  <2> QED BY <2>1
<1>5. \A j \in Zone : row[j] = IF j = i - 1 THEN Upward(t, i) ELSE IF j = i + 1 THEN Downward(t, i) ELSE 0
  <2> TAKE j \in Zone
  <2>1. i \in Int /\ j \in Int
    BY DEF Zone
  <2>2. CASE j = i
    BY <2>1, <2>2
  <2>3. CASE j # i
    BY <2>3, OffDiagonal
  <2> QED BY <2>2, <2>3
<1> HIDE DEF row, old, m
<1>6. Upward(t, i) \in Int /\ Downward(t, i) \in Int
  BY ExchangeType DEF Upward, Downward
<1>7. ZoneSum(row) = (IF i > 0 THEN row[i - 1] ELSE 0) + row[i] + (IF i < Last THEN row[i + 1] ELSE 0)
  <2>1. \A j \in Zone : row[j] \in Int
    BY <1>5, <1>6
  <2>2. \A j \in Zone : j \notin {i - 1, i, i + 1} => row[j] = 0
    BY <1>5
  <2> QED BY <2>1, <2>2, SumOfNeighbours
<1>8. /\ i > 0 => row[i - 1] = Upward(t, i)
      /\ row[i] = 0
      /\ i < Last => row[i + 1] = Downward(t, i)
  <2>1. i \in Int /\ (i > 0 => i - 1 \in Zone) /\ (i < Last => i + 1 \in Zone)
    BY DEF Zone, Last
  <2> QED BY <1>5, <2>1
<1>9. ZoneSum(row) = Upward(t, i) + Downward(t, i)
  <2>1. (~(i > 0) => Upward(t, i) = 0) /\ (~(i < Last) => Downward(t, i) = 0)
    BY DEF Upward, Downward
  <2> QED BY <1>6, <1>7, <1>8, <2>1
<1> QED BY <1>3, <1>4, <1>9 DEF m

(* No tank is ever refused, whatever its number of zones and its rates: the rows of   *)
(* the matrix add up to nothing, and the last one to the outflow                  *)
(* (_build_exchange_matrix, transport.py:229-244).                             *)
THEOREM EveryTankIsBuilt == MassBalanced
<1> SUFFICES ASSUME NEW i \in Zone
             PROVE  ZoneSum([j \in Zone |-> ExchangeMatrix[<<i, j>>]])
                      = IF i = Last THEN -DesignFlow ELSE 0
  BY DEF MassBalanced
<1> DEFINE tri   == [c \in Zone \X Zone |-> IF c[1] - c[2] \in {-1, 1} THEN MixRate ELSE 0]
           others == [j \in Zone |-> IF j = i THEN 0 ELSE tri[<<i, j>>]]
           row   == [j \in Zone |-> ExchangeMatrix[<<i, j>>]]
           up    == IF i > 0 THEN MixRate ELSE 0
           down  == IF i < Last THEN MixRate ELSE 0
           out   == IF i = Last THEN DesignFlow ELSE 0
<1>1. /\ i \in Nat /\ i < Zones /\ Zones \in Nat /\ MixRate \in Nat /\ DesignFlow \in Nat
      /\ up \in Int /\ down \in Int /\ out \in Int
      /\ i > 0 => i - 1 \in Zone
      /\ i < Last => i + 1 \in Zone
  BY TransportAssumption DEF Zone, Last
<1>2. \A j \in Zone : others[j] = IF j # i /\ i - j \in {-1, 1} THEN MixRate ELSE 0
  OBVIOUS
<1>3. \A j \in Zone : others[j] \in Int
  BY <1>1, <1>2
<1>4. ExchangeMatrix[<<i, i>>] = -ZoneSum(others) - out
  <2>1. <<i, i>> \in Zone \X Zone /\ (<<i, i>> = <<Last, Last>> <=> i = Last)
    OBVIOUS
  <2>2. ExchangeMatrix = [WithDiagonal(tri) EXCEPT ![<<Last, Last>>] = @ - DesignFlow]
    BY DEF ExchangeMatrix
  <2>3. WithDiagonal(tri)[<<i, i>>] = -ZoneSum(others)
    <3> HIDE DEF tri
    <3> QED BY <2>1 DEF WithDiagonal
  <2>4. DOMAIN WithDiagonal(tri) = Zone \X Zone
    BY DEF WithDiagonal
  <2>5. ZoneSum(others) \in Int
    <3> HIDE DEF others
    <3>1. \E u : ZoneSum(others) = u[Zones] /\ \A n \in 0 .. Zones : u[n] \in Int
      BY <1>3, ZoneSumFacts
    <3> QED BY <1>1, <3>1
  <2> HIDE DEF others, tri
  <2> QED BY <1>1, <2>1, <2>2, <2>3, <2>4, <2>5
<1> HIDE DEF tri
<1>5. ZoneSum(others) = up + down
  <2>2. \A j \in Zone : j \notin {i - 1, i, i + 1} => others[j] = 0
    <3> TAKE j \in Zone
    <3>1. j \in Int
      BY DEF Zone
    <3> QED BY <1>1, <1>2, <3>1
  <2>3. /\ i > 0 => others[i - 1] = MixRate
        /\ others[i] = 0
        /\ i < Last => others[i + 1] = MixRate
    BY <1>1, <1>2
  <2> HIDE DEF others
  <2>4. ZoneSum(others) = (IF i > 0 THEN others[i - 1] ELSE 0) + others[i]
                            + (IF i < Last THEN others[i + 1] ELSE 0)
    BY <1>3, <2>2, SumOfNeighbours
  <2> QED BY <1>1, <2>3, <2>4
<1> HIDE DEF others
<1>6. \A j \in Zone : row[j] = IF j = i THEN -(up + down) - out
                              ELSE IF i - j \in {-1, 1} THEN MixRate ELSE 0
  <2> TAKE j \in Zone
  <2>1. CASE j = i
    BY <1>4, <1>5, <2>1
  <2>2. CASE j # i
    BY <2>2, ExchangeMatrixFacts
  <2> QED BY <2>1, <2>2
<1> HIDE DEF row
<1>7. ZoneSum(row) = (IF i > 0 THEN row[i - 1] ELSE 0) + row[i]
                       + (IF i < Last THEN row[i + 1] ELSE 0)
  <2>1. \A j \in Zone : row[j] \in Int
    <3> HIDE DEF up, down, out
    <3> QED BY <1>1, <1>6
  <2>2. \A j \in Zone : j \notin {i - 1, i, i + 1} => row[j] = 0
    <3> TAKE j \in Zone
    <3>1. j \in Int
      BY DEF Zone
    <3> QED BY <1>1, <1>6, <3>1
  <2> QED BY <2>1, <2>2, SumOfNeighbours
<1>8. /\ i > 0 => row[i - 1] = MixRate
      /\ row[i] = -(up + down) - out
      /\ i < Last => row[i + 1] = MixRate
  BY <1>1, <1>6
<1>9. ZoneSum(row) = -out
  BY <1>1, <1>7, <1>8
<1> QED BY <1>9 DEF row

(* Mixing is what comes from either neighbour less what goes to it.             *)
LEMMA MixingFacts ==
  ASSUME NEW t, NEW c, \A n \in Zone : c[n] \in Int, NEW i \in Zone
  PROVE  Mixing(MixingMatrix(t), c, i) =
           (IF i > 0 THEN Upward(t, i) * (c[i - 1] - c[i]) ELSE 0)
           + (IF i < Last THEN Downward(t, i) * (c[i + 1] - c[i]) ELSE 0)
<1> DEFINE m == MixingMatrix(t)
           f == [j \in Zone |-> m[<<i, j>>] * c[j]]
           p == Upward(t, i)
           q == Downward(t, i)
<1>1. i \in Int /\ (i > 0 => i - 1 \in Zone) /\ (i < Last => i + 1 \in Zone)
  BY DEF Zone, Last
<1>2. p \in Int /\ q \in Int
  BY ExchangeType DEF Upward, Downward
<1>3. (~(i > 0) => p = 0) /\ (~(i < Last) => q = 0)
  BY DEF Upward, Downward
<1>4. m[<<i, i>>] = -(p + q) /\ (i > 0 => m[<<i, i - 1>>] = p) /\ (i < Last => m[<<i, i + 1>>] = q)
  <2>1. i > 0 => m[<<i, i - 1>>] = p
    BY <1>1, OffDiagonal
  <2>2. i < Last => m[<<i, i + 1>>] = q
    BY <1>1, OffDiagonal
  <2> QED BY <2>1, <2>2, Diagonal
<1>5. \A j \in Zone : m[<<i, j>>] \in Int
  <2> TAKE j \in Zone
  <2>1. CASE j = i
    BY <1>2, <1>4, <2>1
  <2>2. CASE j # i
    BY <1>2, <2>2, OffDiagonal
  <2> QED BY <2>1, <2>2
<1>6. \A j \in Zone : j \notin {i - 1, i, i + 1} => m[<<i, j>>] = 0
  BY OffDiagonal
<1>7. Mixing(m, c, i) = ZoneSum(f)
  BY DEF Mixing
<1> HIDE DEF m, p, q
<1>8. \A j \in Zone : f[j] = m[<<i, j>>] * c[j]
  OBVIOUS
<1> HIDE DEF f
<1>9. ASSUME NEW j \in Zone PROVE f[j] \in Int
  <2> DEFINE a == m[<<i, j>>]
             b == c[j]
  <2>1. a \in Int /\ b \in Int /\ f[j] = a * b
    BY <1>5, <1>8
  <2> HIDE DEF a, b
  <2> QED BY <2>1
<1>10. \A j \in Zone : j \notin {i - 1, i, i + 1} => f[j] = 0
  <2>1. \A b \in Int : 0 * b = 0
    OBVIOUS
  <2> QED BY <1>6, <1>8, <2>1
<1>11. ZoneSum(f) = (IF i > 0 THEN f[i - 1] ELSE 0) + f[i] + (IF i < Last THEN f[i + 1] ELSE 0)
  BY <1>9, <1>10, SumOfNeighbours
<1>12. /\ f[i] = (-(p + q)) * c[i]
       /\ i > 0 => f[i - 1] = p * c[i - 1]
       /\ i < Last => f[i + 1] = q * c[i + 1]
  <2>1. f[i] = m[<<i, i>>] * c[i]
    BY <1>8
  <2>2. i > 0 => f[i - 1] = m[<<i, i - 1>>] * c[i - 1]
    BY <1>1, <1>8
  <2>3. i < Last => f[i + 1] = m[<<i, i + 1>>] * c[i + 1]
    BY <1>1, <1>8
  <2>4. f[i] = (-(p + q)) * c[i]
    BY <1>4, <2>1, Zenon
  <2>5. i > 0 => f[i - 1] = p * c[i - 1]
    BY <1>4, <2>2, Zenon
  <2>6. i < Last => f[i + 1] = q * c[i + 1]
    BY <1>4, <2>3, Zenon
  <2> QED BY <2>4, <2>5, <2>6
<1>13. \A a, x, y \in Int : /\ a * (x - y) = a * x - a * y
                           /\ (-(a + x)) * y = -(a * y) - x * y
                           /\ 0 * y = 0 /\ a * y \in Int
  OBVIOUS
<1> DEFINE A == IF i > 0 THEN p * (c[i - 1] - c[i]) ELSE 0
           B == IF i < Last THEN q * (c[i + 1] - c[i]) ELSE 0
           X == IF i > 0 THEN f[i - 1] ELSE 0
           Y == IF i < Last THEN f[i + 1] ELSE 0
<1>14. c[i] \in Int /\ p * c[i] \in Int /\ q * c[i] \in Int
  BY <1>2, <1>13
<1>15. A = X - p * c[i] /\ X \in Int
  <2>1. CASE i > 0
    <3>1. c[i - 1] \in Int /\ X = p * c[i - 1] /\ A = p * (c[i - 1] - c[i])
      BY <1>1, <1>12, <2>1
    <3>2. p * (c[i - 1] - c[i]) = p * c[i - 1] - p * c[i] /\ p * c[i - 1] \in Int
      BY <1>2, <1>13, <1>14, <3>1
    <3> HIDE DEF A, X
    <3> QED BY <3>1, <3>2
  <2>2. CASE ~(i > 0)
    <3>1. X = 0 /\ A = 0 /\ p = 0
      BY <1>3, <2>2
    <3>2. p * c[i] = 0
      BY <1>13, <1>14, <3>1
    <3> HIDE DEF A, X
    <3> QED BY <3>1, <3>2
  <2> QED BY <2>1, <2>2
<1>16. B = Y - q * c[i] /\ Y \in Int
  <2>1. CASE i < Last
    <3>1. c[i + 1] \in Int /\ Y = q * c[i + 1] /\ B = q * (c[i + 1] - c[i])
      BY <1>1, <1>12, <2>1
    <3>2. q * (c[i + 1] - c[i]) = q * c[i + 1] - q * c[i] /\ q * c[i + 1] \in Int
      BY <1>2, <1>13, <1>14, <3>1
    <3> HIDE DEF B, Y
    <3> QED BY <3>1, <3>2
  <2>2. CASE ~(i < Last)
    <3>1. Y = 0 /\ B = 0 /\ q = 0
      BY <1>3, <2>2
    <3>2. q * c[i] = 0
      BY <1>13, <1>14, <3>1
    <3> HIDE DEF B, Y
    <3> QED BY <3>1, <3>2
  <2> QED BY <2>1, <2>2
<1>17. f[i] = -(p * c[i]) - q * c[i]
  <2>1. (-(p + q)) * c[i] = -(p * c[i]) - q * c[i]
    BY <1>2, <1>13, <1>14
  <2> QED BY <1>12, <2>1
<1> HIDE DEF A, B, X, Y
<1>18. X + f[i] + Y = A + B
  BY <1>14, <1>15, <1>16, <1>17
<1> QED BY <1>7, <1>11, <1>18 DEF A, B, X, Y, m, p, q
-----------------------------------------------------------------------------
(* What flows into the tank, of a species, and what flows out of its last zone.   *)
Streams ==
  [flow : [Stream -> Level], carries : [Stream -> [Species -> Nat]], ambient : Nat]

Feed(b, s) == StreamSum(LAMBDA k : b.flow[k] * b.carries[k][s])

LEMMA FlowFacts ==
  ASSUME NEW b \in Streams
  PROVE  /\ TotalFlow(b) \in Nat /\ b.ambient \in Nat
         /\ \A s \in Species : Feed(b, s) \in Nat
<1>1. /\ {"inlet", "acid", "chlorine"} = Stream
      /\ \A k \in Stream : b.flow[k] \in Nat /\ \A s \in Species : b.carries[k][s] \in Nat
  BY DEF Streams, Stream, Level
<1>2. TotalFlow(b) = b.flow["inlet"] + b.flow["acid"] + b.flow["chlorine"]
  BY DEF TotalFlow, StreamSum
<1>3. \A s \in Species : Feed(b, s) =
        b.flow["inlet"] * b.carries["inlet"][s] + b.flow["acid"] * b.carries["acid"][s]
          + b.flow["chlorine"] * b.carries["chlorine"][s]
  BY DEF Feed, StreamSum
<1>4. \A x, y \in Nat : x * y \in Nat
  OBVIOUS
<1>5. \A s \in Species : \A k \in Stream : b.flow[k] * b.carries[k][s] \in Nat
  BY <1>1, <1>4
<1>6. b.ambient \in Nat
  BY DEF Streams
<1>7. ASSUME NEW s \in Species PROVE Feed(b, s) \in Nat
  <2> DEFINE x == b.flow["inlet"] * b.carries["inlet"][s]
             y == b.flow["acid"] * b.carries["acid"][s]
             z == b.flow["chlorine"] * b.carries["chlorine"][s]
  <2>1. x \in Nat /\ y \in Nat /\ z \in Nat
    BY <1>1, <1>5
  <2>2. Feed(b, s) = x + y + z
    BY <1>3
  <2> HIDE DEF x, y, z
  <2> QED BY <2>1, <2>2
<1> QED BY <1>1, <1>2, <1>6, <1>7

(* Through-flow and mixing only move a species about: added up over the zones,    *)
(* what is left is what the streams bring and what the last zone passes on.      *)
LEMMA TransportSum ==
  ASSUME NEW b \in Streams, NEW t, NEW s \in Species, NEW c, \A n \in Zone : c[n] \in Int,
         NEW d \in Int
  PROVE  /\ \A i \in Zone : Transport(b, MixingMatrix(t), s, c, d, i) \in Int
         /\ ZoneSum([i \in Zone |-> Transport(b, MixingMatrix(t), s, c, d, i)])
              = Feed(b, s) * d - TotalFlow(b) * c[Last]
<1> DEFINE f  == [i \in Zone |-> Transport(b, MixingMatrix(t), s, c, d, i)]
           F  == TotalFlow(b)
           in == Feed(b, s) * d
           up(i)   == Exchange(t, i) * (c[i + 1] - c[i])
           out(i)  == F * c[i]
           w  == [n \in 0 .. Zones |->
                   IF n = 0 THEN 0
                   ELSE in - out(n - 1) + (IF n < Zones THEN up(n - 1) ELSE 0)]
<1>1. \A x, y \in Int : x * y \in Int
  OBVIOUS
<1>2. F \in Int /\ in \in Int
  BY <1>1, FlowFacts
<1>3. \A i \in Zone : out(i) \in Int
  BY <1>1, <1>2
<1>4. \A i \in Zone : i < Last => up(i) \in Int /\ i + 1 \in Zone
  <2> TAKE i \in Zone
  <2> HAVE i < Last
  <2>1. i + 1 \in Zone
    BY DEF Zone, Last
  <2>2. Exchange(t, i) \in Int /\ c[i + 1] - c[i] \in Int
    BY <2>1, ExchangeType
  <2> QED BY <1>1, <2>1, <2>2
<1>5. Last \in Zone /\ 0 \in Zone /\ 0 < Last /\ Last = Zones - 1 /\ Zones \in 0 .. Zones
  BY DEF Last, Zone
<1>6. \A i \in Zone : Mixing(MixingMatrix(t), c, i) =
        (IF i < Last THEN up(i) ELSE 0) - (IF i > 0 THEN up(i - 1) ELSE 0)
  <2> TAKE i \in Zone
  <2>1. Mixing(MixingMatrix(t), c, i) =
           (IF i > 0 THEN Upward(t, i) * (c[i - 1] - c[i]) ELSE 0)
           + (IF i < Last THEN Downward(t, i) * (c[i + 1] - c[i]) ELSE 0)
    BY MixingFacts
  <2>2. i < Last => Downward(t, i) * (c[i + 1] - c[i]) = up(i)
    BY DEF Downward
  <2>3. i > 0 => Upward(t, i) * (c[i - 1] - c[i]) = -up(i - 1)
    <3> HAVE i > 0
    <3>1. i - 1 \in Zone /\ i - 1 + 1 = i
      BY DEF Zone
    <3> DEFINE e == Exchange(t, i - 1)
               x == c[i - 1]
               y == c[i]
    <3>2. e \in Int /\ x \in Int /\ y \in Int
      BY <3>1, ExchangeType
    <3>3. up(i - 1) = e * (y - x)
      BY <3>1
    <3>4. Upward(t, i) = e
      BY DEF Upward
    <3> HIDE DEF e, x, y, up
    <3>5. e * (x - y) = -(e * (y - x))
      BY <3>2
    <3> QED BY <3>3, <3>4, <3>5 DEF x, y
  <2>4. (i > 0 => up(i - 1) \in Int) /\ (i < Last => up(i) \in Int)
    <3>1. i > 0 => i - 1 \in Zone /\ i - 1 < Last
      BY DEF Zone, Last
    <3> HIDE DEF up
    <3> QED BY <1>4, <3>1
  <2> HIDE DEF up
  <2> QED BY <2>1, <2>2, <2>3, <2>4
<1>7. \A i \in Zone : Advection(b, s, c, d, i) = (IF i = 0 THEN in ELSE out(i - 1)) - out(i)
  <2> TAKE i \in Zone
  <2>1. CASE i = 0
    BY <2>1 DEF Advection, Inflow, Feed
  <2>2. CASE i # 0
    <3>1. i - 1 \in Zone
      BY <2>2 DEF Zone
    <3>2. Advection(b, s, c, d, i) = F * (c[i - 1] - c[i])
      BY <2>2 DEF Advection
    <3>3. c[i - 1] \in Int /\ c[i] \in Int
      BY <3>1
    <3>4. \A x, y \in Int : F * (x - y) = F * x - F * y
      BY <1>2
    <3> HIDE DEF F
    <3> QED BY <2>2, <3>2, <3>3, <3>4
  <2> QED BY <2>1, <2>2
<1> HIDE DEF up, out, F, in
<1>8. \A i \in Zone : f[i] =
        ((IF i = 0 THEN in ELSE out(i - 1)) - out(i))
        + ((IF i < Last THEN up(i) ELSE 0) - (IF i > 0 THEN up(i - 1) ELSE 0))
  BY <1>6, <1>7 DEF Transport
<1>9. \A i \in Zone : i # 0 => i - 1 \in Zone /\ i - 1 < Last /\ i > 0
  BY DEF Zone, Last
<1>10. w[0] = 0 /\ \A n \in 0 .. Zones : w[n] \in Int
  <2> SUFFICES ASSUME NEW n \in 0 .. Zones, n # 0 PROVE w[n] \in Int
    OBVIOUS
  <2>1. n - 1 \in Zone /\ (n < Zones => n - 1 < Last)
    BY DEF Zone, Last
  <2>2. out(n - 1) \in Int /\ (n < Zones => up(n - 1) \in Int)
    BY <1>3, <1>4, <2>1
  <2> QED BY <1>2, <2>2
<1>11. \A i \in Zone : f[i] = w[i + 1] - w[i]
  <2> TAKE i \in Zone
  <2>1. i \in 0 .. Zones /\ i + 1 \in 0 .. Zones /\ i + 1 # 0 /\ (i < Last <=> i + 1 < Zones)
        /\ i < Zones
    BY DEF Zone, Last
  <2>2. w[i + 1] = in - out(i) + (IF i < Last THEN up(i) ELSE 0)
    <3> DEFINE k == i + 1
    <3>1. k \in 0 .. Zones /\ k # 0 /\ (i < Last <=> k < Zones) /\ k - 1 = i
      BY <2>1 DEF Zone
    <3> HIDE DEF k
    <3>2. w[k] = in - out(k - 1) + (IF k < Zones THEN up(k - 1) ELSE 0)
      BY <3>1
    <3> HIDE DEF w
    <3>3. w[k] = in - out(i) + (IF i < Last THEN up(i) ELSE 0)
      BY <3>1, <3>2
    <3> QED BY <3>3 DEF k
  <2>3. w[i] = IF i = 0 THEN 0 ELSE in - out(i - 1) + up(i - 1)
    BY <2>1
  <2>4. out(i) \in Int /\ (i < Last => up(i) \in Int)
        /\ (i # 0 => i > 0 /\ out(i - 1) \in Int /\ up(i - 1) \in Int)
    BY <1>3, <1>4, <1>9
  <2>5. i = 0 => ~(i > 0)
    OBVIOUS
  <2> HIDE DEF w, f
  <2>6. CASE i = 0
    BY <1>2, <1>8, <2>2, <2>3, <2>4, <2>5, <2>6
  <2>7. CASE i # 0
    BY <1>2, <1>8, <2>2, <2>3, <2>4, <2>7
  <2> QED BY <2>6, <2>7
<1>12. w[Zones] = in - out(Last)
  <2>1. Zones # 0 /\ ~(Zones < Zones) /\ Zones - 1 = Last
    BY <1>5
  <2>2. w[Zones] = in - out(Zones - 1) + 0
    BY <1>5, <2>1
  <2>3. out(Zones - 1) = out(Last) /\ out(Last) \in Int
    BY <1>3, <1>5, <2>1
  <2> HIDE DEF w
  <2> QED BY <1>2, <2>2, <2>3
<1>13. \A i \in Zone : f[i] \in Int
  <2> HIDE DEF w, f
  <2>1. \A i \in Zone : i \in 0 .. Zones /\ i + 1 \in 0 .. Zones
    BY DEF Zone
  <2> QED BY <1>10, <1>11, <2>1
<1>14. ZoneSum(f) = w[Zones]
  <2> HIDE DEF w, f
  <2> QED BY <1>10, <1>11, SumTelescopes
<1> HIDE DEF w
<1> QED BY <1>12, <1>13, <1>14 DEF in, out, F
-----------------------------------------------------------------------------
(* One step of the solver.  The reactions turn free chlorine into combined, and   *)
(* what they spend of both is what the ledger posts.                          *)
TankOK == tank \in [Species -> [Zone -> Int]] /\ scale \in Nat \ {0}

LEMMA TankTransport ==
  ASSUME TankOK, NEW b \in Streams, NEW t, NEW s \in Species
  PROVE  /\ \A i \in Zone : Transport(b, MixingMatrix(t), s, tank[s], scale, i) \in Int
         /\ ZoneSum([i \in Zone |-> Transport(b, MixingMatrix(t), s, tank[s], scale, i)])
              = Feed(b, s) * scale - TotalFlow(b) * tank[s][Last]
<1> DEFINE c == tank[s]
<1>1. (\A n \in Zone : c[n] \in Int) /\ scale \in Int
  BY DEF TankOK
<1> HIDE DEF c
<1>2. /\ \A i \in Zone : Transport(b, MixingMatrix(t), s, c, scale, i) \in Int
      /\ ZoneSum([i \in Zone |-> Transport(b, MixingMatrix(t), s, c, scale, i)])
           = Feed(b, s) * scale - TotalFlow(b) * c[Last]
  BY <1>1, TransportSum
<1> QED BY <1>2 DEF c

Spent(i) == FreeDecay(tank, i) + ChloramineDecay(tank, i) + DemandConsumed(tank, scale, i)

LEMMA ReactionFacts ==
  ASSUME TankOK, NEW i \in Zone
  PROVE  /\ \A s \in Reagent : Reaction(tank, scale, s, i) \in Int
         /\ Spent(i) \in Int
         /\ Reaction(tank, scale, "chlorine", i) + Reaction(tank, scale, "chloramine", i) = -Spent(i)
<1>0. \A x, y \in Int : x * y \in Int
  OBVIOUS
<1>1. \A s \in Species : tank[s][i] \in Int
  BY DEF TankOK
<1>2. \A s \in Reagent : tank["chlorine"][i] * tank[s][i] \in Int
  BY <1>0, <1>1 DEF Species, Reagent
<1> DEFINE p == AmmoniaConsumed(tank, scale, i)
           q == DemandConsumed(tank, scale, i)
           r == ChloramineDecay(tank, i)
           x == FreeDecay(tank, i)
<1>3. p \in Int /\ q \in Int
  <2>1. \A y \in Int : y \div scale \in Int
    BY DEF TankOK
  <2> QED BY <1>2, <2>1 DEF AmmoniaConsumed, DemandConsumed, Reagent
<1>4. r \in Int /\ x \in Int
  BY <1>1 DEF ChloramineDecay, FreeDecay, Species, Reagent
<1>5. Ratio * p \in Int
  BY <1>0, <1>3
<1> DEFINE z == Ratio * p
<1>6. /\ Reaction(tank, scale, "chlorine", i) = -(x + z + q)
      /\ Reaction(tank, scale, "ammonia", i) = -p
      /\ Reaction(tank, scale, "demand", i) = -q
      /\ Reaction(tank, scale, "chloramine", i) = z - r
  BY DEF Reaction
<1>7. Spent(i) = x + r + q
  BY DEF Spent
<1>8. z \in Int
  BY <1>5
<1> HIDE DEF p, q, r, x, z
<1> QED BY <1>3, <1>4, <1>6, <1>7, <1>8 DEF Reagent

Change(b, s) ==
  [i \in Zone |-> Derivative(b, MixingMatrix(tank["temperature"]), tank, scale, s, i)]

LEMMA ChangeFacts ==
  ASSUME TankOK, NEW b \in Streams
  PROVE  \A s \in Species : \A i \in Zone : Change(b, s)[i] \in Int
<1> SUFFICES ASSUME NEW s \in Species, NEW i \in Zone PROVE Change(b, s)[i] \in Int
  OBVIOUS
<1> DEFINE moved == Transport(b, MixingMatrix(tank["temperature"]), s, tank[s], scale, i)
<1>1. moved \in Int
  BY TankTransport
<1> HIDE DEF moved
<1>2. Change(b, s)[i] =
        CASE s \in Reagent     -> moved + Reaction(tank, scale, s, i)
          [] s = "acidity"     -> Buffered(moved)
          [] s = "temperature" -> moved - Cooling(b, tank, scale, i)
  BY DEF Change, Derivative, moved
<1>3. Buffered(moved) \in Int
  BY <1>1 DEF Buffered
<1>4. Cooling(b, tank, scale, i) \in Int
  <2>1. \A x, y \in Int : x * y \in Int /\ x - y \in Int
    OBVIOUS
  <2>2. b.ambient \in Int /\ tank["temperature"][i] \in Int /\ scale \in Int /\ HeatLoss \in Int
    BY FlowFacts DEF TankOK, Species
  <2>3. b.ambient * scale \in Int
    BY <2>1, <2>2
  <2>4. tank["temperature"][i] - b.ambient * scale \in Int
    BY <2>1, <2>2, <2>3
  <2> QED BY <2>1, <2>2, <2>4 DEF Cooling
<1>5. CASE s \in Reagent
  <2>1. Change(b, s)[i] = moved + Reaction(tank, scale, s, i)
    BY <1>2, <1>5 DEF Reagent
  <2> QED BY <1>1, <1>5, <2>1, ReactionFacts
<1>6. CASE s = "acidity"
  BY <1>2, <1>3, <1>6 DEF Reagent
<1>7. CASE s = "temperature"
  <2>1. Change(b, s)[i] = moved - Cooling(b, tank, scale, i)
    BY <1>2, <1>7 DEF Reagent
  <2> QED BY <1>1, <1>4, <2>1
<1> QED BY <1>5, <1>6, <1>7 DEF Species

(* What a rate does to an ordered pair.                                         *)
LEMMA Monotone ==
  ASSUME NEW r \in Nat, NEW x \in Int, NEW y \in Int, x <= y
  PROVE  r * x \in Int /\ r * y \in Int /\ r * x <= r * y
<1>1. y - x \in Nat
  OBVIOUS
<1>2. r * (y - x) \in Nat /\ r * (y - x) = r * y - r * x /\ r * x \in Int /\ r * y \in Int
  BY <1>1
<1> QED BY <1>2

(* A part of a step is cut finer than a step.                                 *)
LEMMA CutFacts ==
  ASSUME NEW cut \in Cut
  PROVE  cut \in Nat \ {0} /\ Den <= cut
<1>1. PICK part \in {1} \cup Parts : cut = part * Den
  BY DEF Cut
<1>2. part \in Nat \ {0} /\ Den \in Nat \ {0}
  BY RunAssumption
<1>3. Den * 1 <= Den * part /\ Den * 1 = Den /\ Den * part = part * Den /\ part * Den \in Nat
  BY <1>2, Monotone
<1> QED BY <1>1, <1>2, <1>3

LEMMA SolvedFacts ==
  ASSUME TankOK, NEW b \in Streams, NEW cut \in Nat
  PROVE  /\ Solved(b, cut) \in [Species -> [Zone -> Int]]
         /\ \A s \in Species : ZoneSum(tank[s]) \in Int /\ ZoneSum(Change(b, s)) \in Int
              /\ ZoneSum(Solved(b, cut)[s]) = cut * ZoneSum(tank[s]) + ZoneSum(Change(b, s))
<1>1. \A s \in Species : \A i \in Zone :
        Solved(b, cut)[s][i] = cut * tank[s][i] + Change(b, s)[i]
  BY DEF Solved, Change
<1>2. \A s \in Species : \A i \in Zone : tank[s][i] \in Int /\ Change(b, s)[i] \in Int
  BY ChangeFacts DEF TankOK
<1>3. \A s \in Species : \A i \in Zone : Solved(b, cut)[s][i] \in Int
  <2>1. \A x \in Int : cut * x \in Int
    OBVIOUS
  <2> QED BY <1>1, <1>2, <2>1
<1>4. Solved(b, cut) = [s \in Species |-> [i \in Zone |-> Solved(b, cut)[s][i]]]
  BY DEF Solved
<1>5. Solved(b, cut) \in [Species -> [Zone -> Int]]
  BY <1>3, <1>4
<1>6. ASSUME NEW s \in Species
      PROVE  /\ ZoneSum(tank[s]) \in Int /\ ZoneSum(Change(b, s)) \in Int
             /\ ZoneSum(Solved(b, cut)[s]) = cut * ZoneSum(tank[s]) + ZoneSum(Change(b, s))
  <2> DEFINE f == tank[s]
             g == Change(b, s)
             h == Solved(b, cut)[s]
  <2>1. \A n \in Zone : f[n] \in Int /\ g[n] \in Int /\ h[n] = cut * f[n] + g[n]
    BY <1>1, <1>2
  <2> HIDE DEF f, g, h
  <2>2. \A n \in Zone : h[n] = cut * f[n] + 1 * g[n]
    BY <2>1
  <2>3. ZoneSum(f) \in Int /\ ZoneSum(g) \in Int /\ ZoneSum(h) = cut * ZoneSum(f) + 1 * ZoneSum(g)
    BY <2>1, <2>2, SumCombines
  <2>4. 1 * ZoneSum(g) = ZoneSum(g)
    BY <2>3
  <2> QED BY <2>3, <2>4 DEF f, g, h
<1> QED BY <1>5, <1>6

(* Chlorine, free and combined, over the whole tank.                           *)
Posting == ZoneSum([i \in Zone |-> FreeDecay(tank, i) + ChloramineDecay(tank, i)
                                        + DemandConsumed(tank, scale, i)])

LEMMA ChlorineChange ==
  ASSUME TankOK, NEW b \in Streams
  PROVE  /\ Posting \in Int
         /\ ZoneSum(Change(b, "chlorine")) + ZoneSum(Change(b, "chloramine"))
              = Feed(b, "chlorine") * scale - TotalFlow(b) * tank["chlorine"][Last]
                + (Feed(b, "chloramine") * scale - TotalFlow(b) * tank["chloramine"][Last])
                - Posting
<1> DEFINE m  == MixingMatrix(tank["temperature"])
           T(s) == [i \in Zone |-> Transport(b, m, s, tank[s], scale, i)]
           R(s) == [i \in Zone |-> Reaction(tank, scale, s, i)]
           P  == [i \in Zone |-> FreeDecay(tank, i) + ChloramineDecay(tank, i)
                                   + DemandConsumed(tank, scale, i)]
           S  == {"chlorine", "chloramine"}
<1>1. S \subseteq Species /\ S \subseteq Reagent
  BY DEF Species, Reagent
<1>2. \A s \in S : /\ \A i \in Zone : T(s)[i] \in Int
                  /\ ZoneSum(T(s)) = Feed(b, s) * scale - TotalFlow(b) * tank[s][Last]
  <2> TAKE s \in S
  <2>1. \A i \in Zone : Transport(b, m, s, tank[s], scale, i) \in Int
    BY <1>1, TankTransport
  <2>2. ZoneSum(T(s)) = Feed(b, s) * scale - TotalFlow(b) * tank[s][Last]
    BY <1>1, TankTransport
  <2> QED BY <2>1, <2>2
<1>3. \A s \in S : \A i \in Zone : R(s)[i] \in Int
  BY <1>1, ReactionFacts
<1>4. \A i \in Zone : P[i] \in Int /\ R("chlorine")[i] + R("chloramine")[i] = -P[i]
  BY ReactionFacts DEF Spent
<1>5. \A s \in S : \A i \in Zone : Change(b, s)[i] = T(s)[i] + R(s)[i]
  BY <1>1 DEF Change, Derivative
<1> HIDE DEF T, R, P
<1>6. \A s \in S : /\ ZoneSum(T(s)) \in Int /\ ZoneSum(R(s)) \in Int
                  /\ ZoneSum(Change(b, s)) = ZoneSum(T(s)) + ZoneSum(R(s))
  <2> TAKE s \in S
  <2> DEFINE f == T(s)
             g == R(s)
             h == Change(b, s)
  <2>1. \A n \in Zone : f[n] \in Int /\ g[n] \in Int /\ h[n] = f[n] + g[n]
    BY <1>2, <1>3, <1>5
  <2> HIDE DEF f, g, h
  <2>2. \A n \in Zone : h[n] = 1 * f[n] + 1 * g[n]
    BY <2>1
  <2>3. ZoneSum(f) \in Int /\ ZoneSum(g) \in Int /\ ZoneSum(h) = 1 * ZoneSum(f) + 1 * ZoneSum(g)
    BY <2>1, <2>2, SumCombines
  <2>4. ZoneSum(h) = ZoneSum(f) + ZoneSum(g)
    BY <2>3
  <2> QED BY <2>3, <2>4 DEF f, g, h
<1>7. /\ ZoneSum(P) \in Int
      /\ ZoneSum(R("chlorine")) + ZoneSum(R("chloramine")) = -ZoneSum(P)
  <2> DEFINE f == R("chlorine")
             g == R("chloramine")
  <2>1. \A n \in Zone : f[n] \in Int /\ g[n] \in Int /\ P[n] \in Int /\ f[n] + g[n] = -P[n]
    BY <1>3, <1>4
  <2> HIDE DEF f, g
  <2>2. \A n \in Zone : P[n] = (-1) * f[n] + (-1) * g[n]
    BY <2>1
  <2>3. ZoneSum(f) \in Int /\ ZoneSum(g) \in Int /\ ZoneSum(P) = (-1) * ZoneSum(f) + (-1) * ZoneSum(g)
    BY <2>1, <2>2, SumCombines
  <2> QED BY <2>3 DEF f, g
<1>8. Posting = ZoneSum(P)
  BY DEF Posting, P
<1> DEFINE A(s) == Feed(b, s) * scale - TotalFlow(b) * tank[s][Last]
<1>9. \A s \in S : ZoneSum(T(s)) = A(s)
  BY <1>2
<1> HIDE DEF A
<1>10. ZoneSum(Change(b, "chlorine")) + ZoneSum(Change(b, "chloramine"))
         = A("chlorine") + A("chloramine") - ZoneSum(P)
  BY <1>6, <1>7, <1>9
<1> QED BY <1>7, <1>8, <1>10 DEF A
-----------------------------------------------------------------------------
(* The invariant.  Numbers stay whole, chlorine is all accounted for, and the     *)
(* snapshot on show is one that the outputs on show produced.                 *)
Fraction == [num : Int, den : Nat \ {0}]

Shown == [known : {TRUE}, elapsed : Nat, read : [Readings -> Fraction],
          dosed : [{"acid", "chlorine"} -> Nat], status : {0, 1}, running : BOOLEAN,
          facts : [sensors : {"good", "warming", "faulted"}, control : Control]]

NoChloramine(b) == \A k \in Stream : b.carries[k]["chloramine"] = 0

WorkerInv ==
  /\ setpoint \in [Stream -> Level] /\ elapsed \in Nat
  /\ boundary \in Streams /\ NoChloramine(boundary)
  /\ TankOK
  /\ ledger \in [{"entered", "left", "spent"} -> Int] /\ clipped \in BOOLEAN
  /\ ChlorineBalanced

(* The outputs and the status on show belong to the snapshot on show.            *)
OneTick ==
  process = Unknown
  \/ /\ process \in Shown
     /\ process.facts.control = control
     /\ process.running = control.binary["simulation-running"]
     /\ process.status = SystemStatus([of |-> process.facts.sensors, slow |-> FALSE])

ScreenInv == control \in Control /\ error \in BOOLEAN /\ OneTick

RunInv ==
  /\ operator \in OperatorState /\ writes \in 0 .. MaxWrites /\ errors \in 0 .. MaxErrors
  /\ WorkerInv /\ ScreenInv

LEMMA BoundedType ==
  ASSUME NEW t \in [Species -> [Zone -> Int]], NEW d \in Int
  PROVE  Bounded(t, d) \in [Species -> [Zone -> Int]]
<1>1. \A x \in Int : x * d \in Int
  OBVIOUS
<1>2. TopAcidity * d \in Int /\ 100 * d \in Int
  BY <1>1
<1> DEFINE top(s, i) == CASE s = "acidity"     -> TopAcidity * d
                          [] s = "temperature" -> 100 * d
                          [] OTHER             -> t[s][i]
           put(s, i) == CASE t[s][i] < 0   -> 0
                          [] t[s][i] > top(s, i) /\ t[s][i] >= 0 -> top(s, i)
                          [] OTHER         -> t[s][i]
<1>3. \A s \in Species : \A i \in Zone : t[s][i] \in Int /\ top(s, i) \in Int
  BY <1>2
<1> HIDE DEF top
<1>4. \A s \in Species : \A i \in Zone : put(s, i) \in Int
  BY <1>3
<1>5. Bounded(t, d) = [s \in Species |-> [i \in Zone |-> put(s, i)]]
  BY DEF Bounded, top
<1> HIDE DEF put
<1> QED BY <1>4, <1>5

LEMMA BalanceScales ==
  ASSUME NEW p \in Int, NEW q \in Int, NEW r \in Int, NEW e \in Int, NEW l \in Int,
         NEW u \in Int, NEW cut \in Int, p + q = r + e - l - u
  PROVE  cut * p + cut * q = cut * r + cut * e - cut * l - cut * u
<1>1. \A x, y \in Int : /\ cut * (x + y) = cut * x + cut * y /\ cut * (x - y) = cut * x - cut * y
                        /\ cut * x \in Int
  OBVIOUS
<1>2. cut * p + cut * q = cut * (r + e - l - u)
  BY <1>1
<1>3. cut * (r + e - l - u) = cut * (r + e - l) - cut * u
  BY <1>1
<1>4. cut * (r + e - l) = cut * (r + e) - cut * l
  BY <1>1
<1>5. cut * (r + e) = cut * r + cut * e
  BY <1>1
<1> QED BY <1>1, <1>2, <1>3, <1>4, <1>5

(* A step of the solver, or one in which it gives up, keeps chlorine accounted.   *)
LEMMA StepReactorKeeps ==
  ASSUME TankOK, elapsed \in Nat, ledger \in [{"entered", "left", "spent"} -> Int],
         clipped \in BOOLEAN, ChlorineBalanced,
         NEW b \in Streams, NoChloramine(b), StepReactor(b)
  PROVE  /\ TankOK' /\ elapsed' \in Nat /\ ledger' \in [{"entered", "left", "spent"} -> Int]
         /\ clipped' \in BOOLEAN /\ ChlorineBalanced'
<1>1. elapsed' \in Nat
  BY DEF StepReactor
<1>2. CASE UNCHANGED <<tank, scale, ledger, clipped>>
  BY <1>1, <1>2 DEF TankOK, ChlorineBalanced, TankTotal
<1>3. ASSUME NEW cut \in Cut,
             tank' = Bounded(Solved(b, cut), cut * scale),
             clipped' = (clipped \/ tank' # Solved(b, cut)),
             scale' = cut * scale,
             ledger' = Posted(b, cut)
      PROVE  /\ TankOK' /\ ledger' \in [{"entered", "left", "spent"} -> Int]
             /\ clipped' \in BOOLEAN /\ ChlorineBalanced'
  <2>a. cut \in Nat \ {0} /\ cut \in Int
    BY CutFacts
  <2> DEFINE K   == Zones * (Fill["chlorine"] + Fill["chloramine"])
             out == tank["chlorine"][Last]
             cmb == tank["chloramine"][Last]
             in  == Feed(b, "chlorine") * scale
             F   == TotalFlow(b)
  <2>1. \A x, y \in Int : x * y \in Int
    OBVIOUS
  <2>2. scale' \in Nat \ {0}
    BY <1>3, <2>a DEF TankOK
  <2>3. tank' \in [Species -> [Zone -> Int]]
    <3>1. cut * scale \in Int
      BY <2>a, <2>1 DEF TankOK
    <3>2. Solved(b, cut) \in [Species -> [Zone -> Int]]
      BY <2>a, SolvedFacts
    <3> QED BY <1>3, <3>1, <3>2, BoundedType
  <2>4. K \in Int
    <3>1. Fill["chlorine"] = 2 /\ Fill["chloramine"] = 0
      BY DEF Fill, Species, Reagent
    <3> QED BY <3>1
  <2>5. out \in Int /\ cmb \in Int /\ scale \in Int /\ F \in Int /\ in \in Int
    <3>1. Last \in Zone /\ {"chlorine", "chloramine"} \subseteq Species
      BY DEF Last, Zone, Species, Reagent
    <3>2. out \in Int /\ cmb \in Int /\ scale \in Int
      BY <3>1 DEF TankOK
    <3>3. F \in Int /\ Feed(b, "chlorine") \in Int
      BY <3>1, FlowFacts
    <3> QED BY <2>1, <3>2, <3>3
  <2>6. F * (out + cmb) = F * out + F * cmb /\ F * out \in Int /\ F * cmb \in Int
    <3> HIDE DEF F, out, cmb
    <3> QED BY <2>5
  <2>7. ledger.entered \in Int /\ ledger.left \in Int /\ ledger.spent \in Int
    OBVIOUS
  <2>8. Posting \in Int
    BY ChlorineChange
  <2>9. /\ Posted(b, cut).entered = cut * ledger.entered + in
        /\ Posted(b, cut).left = cut * ledger.left + F * (out + cmb)
        /\ Posted(b, cut).spent = cut * ledger.spent + Posting
        /\ DOMAIN Posted(b, cut) = {"entered", "left", "spent"}
    BY DEF Posted, Feed, Posting
  <2>10. ledger' \in [{"entered", "left", "spent"} -> Int]
    <3> DEFINE G == F * (out + cmb)
    <3>1. G \in Int
      BY <2>6
    <3> HIDE DEF F, out, cmb, in, G
    <3>2. /\ cut * ledger.entered + in \in Int /\ cut * ledger.left + G \in Int
          /\ cut * ledger.spent + Posting \in Int
      BY <2>a, <2>1, <2>5, <2>7, <2>8, <3>1
    <3>3. Posted(b, cut).entered \in Int /\ Posted(b, cut).left \in Int /\ Posted(b, cut).spent \in Int
      BY <2>9, <3>2 DEF G
    <3>4. Posted(b, cut) = [entered |-> Posted(b, cut).entered, left |-> Posted(b, cut).left, spent |-> Posted(b, cut).spent]
      BY DEF Posted
    <3> QED BY <1>3, <3>3, <3>4
  <2>11. ChlorineBalanced'
    <3> SUFFICES ASSUME ~clipped'
                 PROVE  TankTotal("chlorine")' + TankTotal("chloramine")'
                          = K * scale' + ledger'.entered - ledger'.left - ledger'.spent
      BY DEF ChlorineBalanced
    <3>1. ~clipped /\ tank' = Solved(b, cut)
      BY <1>3
    <3> DEFINE x == ZoneSum(tank["chlorine"])
               y == ZoneSum(tank["chloramine"])
               dx == ZoneSum(Change(b, "chlorine"))
               dy == ZoneSum(Change(b, "chloramine"))
    <3>2. /\ x \in Int /\ y \in Int /\ dx \in Int /\ dy \in Int
          /\ TankTotal("chlorine")' = cut * x + dx
          /\ TankTotal("chloramine")' = cut * y + dy
      BY <2>a, <3>1, SolvedFacts DEF TankTotal, Species, Reagent
    <3>3. Feed(b, "chloramine") = 0
      BY DEF Feed, StreamSum, NoChloramine, Stream, Streams, Level
    <3>4. dx + dy = in - F * (out + cmb) - Posting
      <4>1. 0 * scale = 0
        BY <2>5
      <4>2. dx + dy = in - F * out + (0 * scale - F * cmb) - Posting
        BY <3>3, ChlorineChange
      <4> DEFINE P == F * out
                 Q == F * cmb
                 R == F * (out + cmb)
      <4>3. P \in Int /\ Q \in Int /\ R = P + Q /\ dx + dy = in - P + (0 - Q) - Posting
        BY <2>6, <4>1, <4>2
      <4> HIDE DEF P, Q, R, F, in, dx, dy
      <4>4. dx + dy = in - R - Posting
        BY <2>5, <2>8, <4>3
      <4> QED BY <4>4 DEF R
    <3>5. x + y = K * scale + ledger.entered - ledger.left - ledger.spent
      BY <3>1 DEF ChlorineBalanced, TankTotal
    <3>6. K * scale' = cut * (K * scale) /\ K * scale \in Int
      <4> HIDE DEF K
      <4> QED BY <1>3, <2>a, <2>4, <2>5
    <3> DEFINE G == F * (out + cmb)
               L == K * scale
    <3>7. G \in Int
      BY <2>6
    <3>8. /\ ledger'.entered = cut * ledger.entered + in
          /\ ledger'.left = cut * ledger.left + G
          /\ ledger'.spent = cut * ledger.spent + Posting
      BY <1>3, <2>9
    <3>9. /\ x + y = L + ledger.entered - ledger.left - ledger.spent
          /\ K * scale' = cut * L /\ L \in Int
          /\ dx + dy = in - G - Posting
      BY <3>4, <3>5, <3>6
    <3>10. in \in Int /\ dx \in Int /\ dy \in Int
      BY <2>5, <3>2
    <3> HIDE DEF G, L, K, x, y, dx, dy, in
    <3>11. cut * x + cut * y = cut * L + cut * ledger.entered - cut * ledger.left - cut * ledger.spent
      <4> DEFINE e == ledger.entered
                 l == ledger.left
                 u == ledger.spent
      <4>1. x \in Int /\ y \in Int /\ L \in Int /\ e \in Int /\ l \in Int /\ u \in Int
        BY <2>7, <3>2, <3>9
      <4>2. x + y = L + e - l - u
        BY <3>9
      <4> HIDE DEF e, l, u
      <4>3. cut * x + cut * y = cut * L + cut * e - cut * l - cut * u
        BY SMTT(30), <2>a, <4>1, <4>2, BalanceScales
      <4> QED BY <4>3 DEF e, l, u
    <3> DEFINE a1 == cut * x
               a2 == cut * y
               a3 == cut * L
               a4 == cut * ledger.entered
               a5 == cut * ledger.left
               a6 == cut * ledger.spent
    <3>12. {a1, a2, a3, a4, a5, a6} \subseteq Int
      BY <2>a, <2>1, <2>7, <3>2, <3>9
    <3>13. /\ a1 + a2 = a3 + a4 - a5 - a6
           /\ TankTotal("chlorine")' = a1 + dx /\ TankTotal("chloramine")' = a2 + dy
           /\ K * scale' = a3 /\ ledger'.entered = a4 + in /\ ledger'.left = a5 + G
           /\ ledger'.spent = a6 + Posting
      BY <3>2, <3>8, <3>9, <3>11
    <3>14. a1 + dx + (a2 + dy) = a3 + (a4 + in) - (a5 + G) - (a6 + Posting)
      <4>1. dx + dy = in - G - Posting /\ a1 + a2 = a3 + a4 - a5 - a6
        BY <3>9, <3>13
      <4> HIDE DEF a1, a2, a3, a4, a5, a6
      <4> QED BY <2>8, <3>7, <3>10, <3>12, <4>1
    <3> HIDE DEF a1, a2, a3, a4, a5, a6
    <3> QED BY <3>13, <3>14
  <2> QED BY <1>3, <2>2, <2>3, <2>10, <2>11 DEF TankOK
<1> QED BY <1>1, <1>2, <1>3 DEF StepReactor
-----------------------------------------------------------------------------
(* What the operators ask for stays within what the commands accept, and so do    *)
(* the outputs evaluated from it.                                            *)
LEMMA ControlTypes ==
  /\ DefaultOperator \in OperatorState
  /\ \A op \in OperatorState : Evaluate(op) \in Control
  /\ \A op \in OperatorState : \A o \in Orders :
       (IF o[1] \in NumericId THEN WriteNumeric(op, o[1], o[2]) ELSE WriteBinary(op, o[1], o[2] = 1))
         \in OperatorState
<1>1. DefaultOperator \in OperatorState
  BY DEF DefaultOperator, OperatorState, Level
<1>2. ASSUME NEW op \in OperatorState PROVE Evaluate(op) \in Control
  <2>1. \A dose \in DosingId : EnabledFlow(op, dose) \in Level
    BY DEF EnabledFlow, OperatorState, Level, NumericId, DosingId
  <2> QED BY <2>1 DEF Evaluate, Control, OperatorState, Level, NumericId
<1>3. ASSUME NEW op \in OperatorState, NEW o \in Orders
      PROVE  (IF o[1] \in NumericId THEN WriteNumeric(op, o[1], o[2]) ELSE WriteBinary(op, o[1], o[2] = 1))
               \in OperatorState
  <2>1. \A id \in NumericId : id \notin CoilId
    BY DEF NumericId, DosingId, CoilId
  <2>2. CASE o[1] \in NumericId
    <3>1. o[2] \in Level
      BY <2>1, <2>2, OrdersAssumption DEF AcceptsNumeric, AcceptsBinary
    <3> QED BY <2>2, <3>1 DEF WriteNumeric, OperatorState
  <2>3. CASE o[1] \notin NumericId
    <3>1. o[1] \in CoilId
      BY <2>3, OrdersAssumption DEF AcceptsNumeric, AcceptsBinary
    <3>2. (o[2] = 1) \in BOOLEAN
      OBVIOUS
    <3> DEFINE v == o[2] = 1
    <3> HIDE DEF v
    <3>3. v \in BOOLEAN
      BY <3>2 DEF v
    <3>4. WriteBinary(op, o[1], v) \in OperatorState
      BY <3>1, <3>3 DEF WriteBinary, OperatorState
    <3> QED BY <2>3, <3>4 DEF v
  <2> QED BY <2>2, <2>3
<1> QED BY <1>1, <1>2, <1>3

(* Streams stay streams, and no stream carries combined chlorine.               *)
LEMMA CarriesFacts ==
  ASSUME NEW a \in Level, NEW c \in Level
  PROVE  /\ Carries(a, c) \in [Stream -> [Species -> Nat]]
         /\ \A k \in Stream : Carries(a, c)[k]["chloramine"] = 0
<1>1. AcidStrength * a \in Nat /\ StockStrength * c \in Nat
  BY DEF Level
<1>2. ASSUME NEW k \in Stream, NEW s \in Species
      PROVE  Carries(a, c)[k][s] \in Nat /\ (s = "chloramine" => Carries(a, c)[k][s] = 0)
  <2>1. \A q \in DOMAIN Site : Site[q] \in Nat
    OBVIOUS
  <2>2. CASE s = "temperature"
    BY <2>1, <2>2 DEF Carries
  <2>3. CASE s = "acidity"
    BY <1>1, <2>3 DEF Carries, Stream
  <2>4. CASE s = "chlorine"
    BY <1>1, <2>4 DEF Carries
  <2>5. CASE s \in {"ammonia", "demand"}
    BY <2>5 DEF Carries
  <2>6. CASE s = "chloramine"
    BY <2>6 DEF Carries
  <2> QED BY <2>2, <2>3, <2>4, <2>5, <2>6 DEF Species, Reagent
<1>3. ASSUME NEW k \in Stream PROVE Carries(a, c)[k] \in [Species -> Nat]
  <2> DEFINE load(s) ==
     CASE s = "temperature" -> Site[IF k = "inlet" THEN "inlet" ELSE "dose"]
       [] s = "acidity"     -> CASE k = "inlet" -> 1
                                 [] k = "acid"  -> AcidStrength * a
                                 [] OTHER       -> 0
       [] s = "chlorine"    -> IF k = "chlorine" THEN StockStrength * c ELSE 0
       [] s \in {"ammonia", "demand"} -> IF k = "inlet" THEN 1 ELSE 0
       [] s = "chloramine"  -> 0
  <2>1. Carries(a, c)[k] = [s \in Species |-> load(s)]
    BY Zenon DEF Carries
  <2> HIDE DEF load
  <2> QED BY <1>2, <2>1
<1>4. Carries(a, c) = [k \in Stream |-> Carries(a, c)[k]]
  BY Zenon DEF Carries
<1>5. "chloramine" \in Species
  BY DEF Species, Reagent
<1> QED BY <1>2, <1>3, <1>4, <1>5

LEMMA StreamsChange ==
  ASSUME NEW b \in Streams, NEW a \in Level, NEW c \in Level, NEW f \in [Stream -> Level]
  PROVE  /\ [b EXCEPT !.carries = Carries(a, c)] \in Streams
         /\ NoChloramine([b EXCEPT !.carries = Carries(a, c)])
         /\ [[b EXCEPT !.carries = Carries(a, c)] EXCEPT !.flow = f] \in Streams
         /\ NoChloramine([[b EXCEPT !.carries = Carries(a, c)] EXCEPT !.flow = f])
<1> DEFINE m == Carries(a, c)
<1>1. m \in [Stream -> [Species -> Nat]] /\ \A k \in Stream : m[k]["chloramine"] = 0
  BY CarriesFacts
<1> HIDE DEF m
<1> DEFINE d == [b EXCEPT !.carries = m]
           e == [d EXCEPT !.flow = f]
<1>2. d \in Streams /\ d.carries = m
  BY <1>1 DEF Streams
<1> HIDE DEF d
<1>3. e \in Streams /\ e.carries = m
  BY <1>2 DEF Streams
<1> HIDE DEF e
<1>4. NoChloramine(d) /\ NoChloramine(e)
  BY <1>1, <1>2, <1>3 DEF NoChloramine
<1> QED BY <1>2, <1>3, <1>4 DEF d, e, m

LEMMA SetActuatorsType ==
  ASSUME NEW c \in Control
  PROVE  SetActuators(c) \in [Stream -> Level]
<1>1. \A k \in Stream : FlowCommand[k] \in NumericId
  BY DEF FlowCommand, Stream, NumericId, DosingId
<1> QED BY <1>1 DEF SetActuators, Control, Level

(* A tick of the worker, or a write that only sets it.                          *)
LEMMA AdvanceKeeps ==
  ASSUME WorkerInv, NEW c \in Control, NEW dt \in {0, 1}, Advance(c, dt)
  PROVE  WorkerInv'
<1> DEFINE x == c.numeric["acid-concentration"]
           y == c.numeric["chlorine-concentration"]
           mixed == [boundary EXCEPT !.carries = Carries(x, y)]
<1>1. x \in Level /\ y \in Level
  BY DEF Control, NumericId
<1> HIDE DEF x, y
<1>2. mixed \in Streams /\ NoChloramine(mixed)
  BY <1>1, StreamsChange DEF WorkerInv
<1>3. CASE boundary' = mixed /\ UNCHANGED <<tank, scale, elapsed, ledger, clipped>>
           /\ setpoint' \in [Stream -> Level]
  <2> HIDE DEF mixed
  <2> QED BY <1>2, <1>3 DEF WorkerInv, TankOK, ChlorineBalanced, TankTotal
<1>4. ASSUME NEW slow \in SUBSET Stream,
             setpoint' = SetActuators(c),
             boundary' = [mixed EXCEPT !.flow = Delivered(setpoint', slow)],
             StepReactor(boundary')
      PROVE  WorkerInv'
  <2> DEFINE set == SetActuators(c)
             f == Delivered(set, slow)
             b == [mixed EXCEPT !.flow = f]
  <2>1. set \in [Stream -> Level]
    BY SetActuatorsType
  <2> HIDE DEF set
  <2>2. f \in [Stream -> Level]
    BY <2>1 DEF Delivered, WorkerInv, Streams
  <2> HIDE DEF f
  <2>3. b \in Streams /\ NoChloramine(b)
    BY <1>1, <2>2, StreamsChange DEF WorkerInv
  <2> HIDE DEF mixed
  <2>4. boundary' = b /\ setpoint' = set
    BY <1>4 DEF f, set
  <2> HIDE DEF b
  <2>5. StepReactor(b)
    BY <1>4, <2>4
  <2>6. /\ TankOK' /\ elapsed' \in Nat /\ ledger' \in [{"entered", "left", "spent"} -> Int]
        /\ clipped' \in BOOLEAN /\ ChlorineBalanced'
    BY <2>3, <2>5, StepReactorKeeps DEF WorkerInv
  <2> QED BY <2>1, <2>3, <2>4, <2>6 DEF WorkerInv
<1>5. \/ boundary' = mixed /\ UNCHANGED <<tank, scale, elapsed, setpoint, ledger, clipped>>
      \/ /\ setpoint' = SetActuators(c)
         /\ \/ boundary' = mixed /\ UNCHANGED <<tank, scale, elapsed, ledger, clipped>>
            \/ \E slow \in SUBSET Stream : \E flow \in {Delivered(setpoint', slow)} :
                 /\ boundary' = [mixed EXCEPT !.flow = flow]
                 /\ StepReactor(boundary')
  BY DEF Advance, x, y
<1> QED BY <1>3, <1>4, <1>5, SetActuatorsType DEF WorkerInv

LEMMA SumOfConstant ==
  ASSUME NEW v \in Int, NEW f, \A n \in Zone : f[n] = v
  PROVE  ZoneSum(f) = Zones * v
<1> DEFINE w == [n \in 0 .. Zones |-> n * v]
<1>1. \A n \in Int : n * v \in Int /\ (n + 1) * v - n * v = v
  OBVIOUS
<1>2. \A n \in 0 .. Zones : w[n] = n * v
  OBVIOUS
<1>3. \A n \in Zone : n \in 0 .. Zones /\ n + 1 \in 0 .. Zones /\ n \in Int
  BY DEF Zone
<1>4. 0 \in 0 .. Zones /\ Zones \in 0 .. Zones /\ 0 * v = 0
  OBVIOUS
<1>5. \A n \in 0 .. Zones : n \in Int
  OBVIOUS
<1> HIDE DEF w
<1>6. w[0] = 0 /\ w[Zones] = Zones * v
  BY <1>2, <1>4
<1>7. \A n \in 0 .. Zones : w[n] \in Int
  BY <1>1, <1>2, <1>5
<1>8. \A n \in Zone : f[n] = w[n + 1] - w[n]
  BY <1>1, <1>2, <1>3
<1> QED BY <1>6, <1>7, <1>8, SumTelescopes

(* The worker starts with a full tank and nothing in the ledger.                *)
LEMMA WorkerStarts == Init => WorkerInv
<1> SUFFICES ASSUME Init PROVE WorkerInv
  OBVIOUS
<1>1. Fill["chlorine"] = 2 /\ Fill["chloramine"] = 0 /\ \A s \in Species : Fill[s] \in Int
  <2>1. Site["tank"] \in Int
    OBVIOUS
  <2> QED BY <2>1 DEF Fill, Species, Reagent
<1>2. TankOK
  BY <1>1 DEF Init, TankOK
<1>3. boundary.flow \in [Stream -> Level]
  BY DEF Init, Level
<1>4. boundary \in Streams /\ NoChloramine(boundary)
  <2> DEFINE m == Carries(1, 1)
             f == [k \in Stream |-> IF k = "inlet" THEN 1 ELSE 0]
  <2>1. 1 \in Level /\ Site["ambient"] \in Nat
    BY DEF Level
  <2>2. m \in [Stream -> [Species -> Nat]] /\ \A k \in Stream : m[k]["chloramine"] = 0
    BY <2>1, CarriesFacts
  <2>3. f \in [Stream -> Level]
    BY DEF Level
  <2>4. boundary = [flow |-> f, carries |-> m, ambient |-> Site["ambient"]]
    BY DEF Init
  <2> HIDE DEF m, f
  <2> QED BY <2>1, <2>2, <2>3, <2>4 DEF Streams, NoChloramine
<1>5. setpoint \in [Stream -> Level]
  BY <1>3 DEF Init
<1>6. ChlorineBalanced
  <2>1. \A s \in {"chlorine", "chloramine"} : TankTotal(s) = Zones * Fill[s]
    <3> TAKE s \in {"chlorine", "chloramine"}
    <3> DEFINE f == tank[s]
    <3>1. \A n \in Zone : f[n] = Fill[s]
      BY DEF Init, Species, Reagent
    <3> HIDE DEF f
    <3>2. ZoneSum(f) = Zones * Fill[s]
      BY <1>1, <3>1, SumOfConstant DEF Species, Reagent
    <3> QED BY <3>2 DEF f, TankTotal
  <2>2. ledger.entered = 0 /\ ledger.left = 0 /\ ledger.spent = 0 /\ scale = 1
    BY DEF Init
  <2> QED BY <1>1, <2>1, <2>2 DEF ChlorineBalanced
<1>7. elapsed \in Nat
  BY DEF Init
<1>8. ledger \in [{"entered", "left", "spent"} -> Int]
  BY DEF Init
<1>9. clipped \in BOOLEAN
  BY Zenon DEF Init
<1> QED BY <1>2, <1>4, <1>5, <1>6, <1>7, <1>8, <1>9 DEF WorkerInv

-----------------------------------------------------------------------------
(* What is published is of one tick.  A number that is shown again was shown     *)
(* before, and it had a scale then.                                          *)
LEMMA SnapshotFacts ==
  ASSUME WorkerInv', ScreenInv, NEW sensors \in Sensors, NEW c \in Control
  PROVE  Snapshot(sensors, c) \in Shown
<1>1. \A b \in Streams : TotalFlow(b) \in Int
  BY FlowFacts
<1>2. ASSUME NEW n \in Readings
      PROVE  TrueValue(n) \in Fraction
  <2>1. CASE n = "flow_rate"
    BY <1>1, <2>1 DEF WorkerInv, TrueValue, Value, Fraction
  <2>2. CASE n # "flow_rate"
    <3>1. 0 \in Zone /\ Zones \div 2 \in Zone /\ Last \in Zone
      BY TransportAssumption DEF Last, Zone
    <3>2. n \in DOMAIN Sampled
      BY <1>2, <2>2 DEF Readings
    <3>3. Sampled[n][1] \in Species /\ Sampled[n][2] \in Zone
      BY <3>1, <3>2 DEF Sampled, Species, Reagent
    <3> DEFINE s == Sampled[n][1]
               i == Sampled[n][2]
    <3>4. TrueValue(n) = Value(tank'[s][i], scale')
      BY <2>2 DEF TrueValue
    <3> HIDE DEF s, i
    <3>5. tank'[s][i] \in Int /\ scale' \in Nat \ {0}
      BY <3>3 DEF WorkerInv, TankOK, s, i
    <3> QED BY <3>4, <3>5 DEF Value, Fraction
  <2> QED BY <2>1, <2>2
<1>3. \A n \in Readings : Seen(sensors, n) \in Fraction
  <2>1. process.known => process.read \in [Readings -> Fraction]
    <3>1. process.known => process \in Shown
      BY DEF ScreenInv, OneTick, Unknown
    <3> QED BY <3>1 DEF Shown
  <2> QED BY <1>2, <2>1 DEF Seen
<1>4. \A k \in {"acid", "chlorine"} : boundary'.flow[k] \in Nat
  BY DEF WorkerInv, Streams, Stream, Level
<1>5. SystemStatus(sensors) \in {0, 1} /\ sensors.of \in {"good", "warming", "faulted"}
  BY DEF SystemStatus, Sensors
<1>6. c.binary["simulation-running"] \in BOOLEAN
  BY DEF Control, CoilId
<1>7. elapsed' \in Nat
  BY DEF WorkerInv
<1> QED BY <1>3, <1>4, <1>5, <1>6, <1>7 DEF Snapshot, Shown

LEMMA TickKeeps ==
  ASSUME WorkerInv, ScreenInv, errors \in 0 .. MaxErrors,
         NEW op \in OperatorState, NEW dt \in {0, 1}, TickOnce(op, dt)
  PROVE  operator' = op /\ WorkerInv' /\ ScreenInv' /\ errors' \in 0 .. MaxErrors
<1>1. Evaluate(op) \in Control
  BY ControlTypes
<1>2. CASE Succeed(op, dt)
  <2>1. control' = Evaluate(op) /\ operator' = op /\ error' = FALSE /\ errors' = errors
    BY <1>2 DEF Succeed
  <2>2. WorkerInv'
    <3>1. Advance(Evaluate(op), dt)
      BY <1>2, <2>1 DEF Succeed
    <3> QED BY <1>1, <3>1, AdvanceKeeps
  <2>3. PICK sensors \in Sensors : process' = Snapshot(sensors, Evaluate(op))
    BY <1>2, <2>1 DEF Succeed
  <2>4. process' \in Shown
    BY <1>1, <2>2, <2>3, SnapshotFacts
  <2>5. /\ process'.facts.control = Evaluate(op)
        /\ process'.running = Evaluate(op).binary["simulation-running"]
        /\ process'.status = SystemStatus([of |-> process'.facts.sensors, slow |-> FALSE])
    BY <2>3 DEF Snapshot, SystemStatus
  <2> QED BY <1>1, <2>1, <2>2, <2>4, <2>5 DEF ScreenInv, OneTick
<1>3. CASE Raise(op, dt)
  <2>1. /\ UNCHANGED <<control, process>> /\ error' = TRUE /\ operator' = op
        /\ errors < MaxErrors /\ errors' = errors + 1
    BY <1>3 DEF Raise
  <2>2. WorkerInv'
    <3>1. CASE Advance(Evaluate(op), dt)
      BY <1>1, <3>1, AdvanceKeeps
    <3>2. CASE UNCHANGED workerVars
      BY <3>2 DEF workerVars, WorkerInv, TankOK, ChlorineBalanced, TankTotal
    <3> QED BY <1>3, <3>1, <3>2 DEF Raise
  <2> QED BY <2>1, <2>2 DEF ScreenInv, OneTick
<1> QED BY <1>2, <1>3 DEF TickOnce

LEMMA Invariance == Spec => []RunInv
<1>1. Init => RunInv
  <2> SUFFICES ASSUME Init PROVE RunInv
    OBVIOUS
  <2>1. operator \in OperatorState /\ control \in Control
    BY ControlTypes DEF Init
  <2>2. writes \in 0 .. MaxWrites /\ errors \in 0 .. MaxErrors
    BY DEF Init
  <2>3. error \in BOOLEAN /\ OneTick
    BY DEF Init, OneTick
  <2> QED BY <2>1, <2>2, <2>3, WorkerStarts DEF RunInv, ScreenInv
<1>2. RunInv /\ [Next]_vars => RunInv'
  <2> SUFFICES ASSUME RunInv, [Next]_vars PROVE RunInv'
    OBVIOUS
  <2> USE DEF RunInv
  <2>1. CASE Tick
    BY <2>1, TickKeeps DEF Tick
  <2>2. CASE Write
    <3>1. writes' \in 0 .. MaxWrites
      BY <2>2 DEF Write
    <3>2. PICK o \in Orders : TickOnce(Ordered(o[1], o[2]), 0)
      BY <2>2 DEF Write
    <3>3. Ordered(o[1], o[2]) \in OperatorState
      BY ControlTypes DEF Ordered
    <3> DEFINE op == Ordered(o[1], o[2])
    <3>4. op \in OperatorState /\ TickOnce(op, 0)
      BY <3>2, <3>3
    <3> QED BY <3>1, <3>4, TickKeeps
  <2>3. CASE FirstView
    BY <2>3, TickKeeps DEF FirstView
  <2>4. CASE UNCHANGED vars
    BY <2>4 DEF vars, workerVars, WorkerInv, ScreenInv, OneTick, TankOK, ChlorineBalanced, TankTotal
  <2> QED BY <2>1, <2>2, <2>3, <2>4 DEF Next
<1> QED BY <1>1, <1>2, PTL DEF Spec

-----------------------------------------------------------------------------
(* THE TANK CONSERVES CHLORINE.  For any number of zones, any layering of the     *)
(* water, any streams and any history of commands, failures and steps.         *)
THEOREM ChlorineIsConserved == Spec => []ChlorineBalanced
<1>1. RunInv => ChlorineBalanced
  BY DEF RunInv, WorkerInv
<1> QED BY <1>1, Invariance, PTL

(* NO SILENT TROUBLE.  A page without an alarm shows a plant that runs, that no     *)
(* interlock holds back, whose last tick succeeded and no sensor of which is        *)
(* faulty; the tiles it vouches for are those of the outlet's pH, of its residual   *)
(* unless that is too high, and of the status word (snapshot.rs:39-47, 265-313).    *)
THEOREM QuietIsHonest == Spec => []NothingHidden
<1>1. ScreenInv => NothingHidden
  <2> SUFFICES ASSUME ScreenInv, process.known, Quiet(Screen)
               PROVE  /\ ~error
                      /\ process.facts.control.binary["simulation-running"]
                      /\ process.facts.control = control /\ ~control.interlock
                      /\ process.facts.sensors # "faulted"
                      /\ \A tag \in Tags \ Unwatched :
                           Screen.tiles[tag] # "normal" =>
                             tag = "AIT-CL-001" /\ Above(process.read["chlorine_outlet"], 22)
    BY DEF NothingHidden
  <2>1. /\ process \in Shown
        /\ process.facts.control = control
        /\ process.running = control.binary["simulation-running"]
        /\ process.status = SystemStatus([of |-> process.facts.sensors, slow |-> FALSE])
    BY DEF ScreenInv, OneTick, Unknown
  <2> DEFINE status == ProcessStatus(process)
             ph == process.read["acidity_outlet"]
             cl == process.read["chlorine_outlet"]
  <2>2. ActiveAlarms(process, control, error) = {Alarm("simulation-boundary", "notice")}
    BY DEF Quiet, Screen, HmiSnapshot
  <2>3. \A id, severity : Alarm(id, severity) \in ActiveAlarms(process, control, error)
                            => id = "simulation-boundary"
    BY <2>2 DEF Alarm
  <2>4. ~error
    BY <2>3 DEF ActiveAlarms
  <2>5. ~control.interlock
    BY <2>3 DEF ActiveAlarms
  <2>6. status = "normal" /\ process.running
    <3> DEFINE severity == IF status = "alarm" THEN "critical" ELSE "warning"
    <3>1. status # "normal" \/ ~process.running
            => Alarm("process-status", severity) \in ActiveAlarms(process, control, error)
      BY DEF ActiveAlarms
    <3> HIDE DEF severity, status
    <3> QED BY <2>3, <3>1
  <2>7. /\ process.status = 0 /\ ~Below(cl, 6) /\ ~Below(cl, 9)
        /\ ~Below(ph, 5) /\ ~Above(ph, 15)
    <3>1. process.status \in {0, 1}
      BY <2>1 DEF Shown
    <3> QED BY <2>6, <3>1 DEF ProcessStatus, TooLittle, OffTarget
  <2>8. process.facts.sensors # "faulted"
    BY <2>1, <2>7 DEF SystemStatus
  <2>9. ASSUME NEW tag \in Tags \ Unwatched, Screen.tiles[tag] # "normal"
        PROVE  tag = "AIT-CL-001" /\ Above(cl, 22)
    <3>1. Screen.tiles[tag] = StatusForSignal(SignalValue(process, tag), Limits(tag))
      BY DEF Screen, HmiSnapshot, Tiles
    <3>2. ph.num \in Int /\ ph.den \in Nat /\ cl.num \in Int /\ cl.den \in Nat
      <4>1. process.read \in [Readings -> Fraction]
        BY <2>1 DEF Shown
      <4>2. {"acidity_outlet", "chlorine_outlet"} \subseteq Readings
        BY DEF Readings, Sampled
      <4>3. ph \in Fraction /\ cl \in Fraction
        BY <4>1, <4>2
      <4> QED BY <4>3 DEF Fraction
    <3>3. tag \in {"AIT-PH-001", "AIT-CL-001", "HS-STAT-001"}
      BY DEF Tags, ReadingOf, DosingOf, Unwatched
    <3> HIDE DEF ph, cl
    <3>4. tag # "AIT-PH-001"
      <4> SUFFICES ASSUME tag = "AIT-PH-001" PROVE FALSE
        OBVIOUS
      <4>1. SignalValue(process, tag) = ph /\ Limits(tag) = Limit({2}, {5}, {15}, {30})
        BY DEF SignalValue, ReadingOf, DosingOf, Limits, ph
      <4>2. ~Below(ph, 2) /\ ~Above(ph, 30)
        BY <2>7, <3>2 DEF Below, Above
      <4> QED BY <2>7, <2>9, <3>1, <4>1, <4>2 DEF StatusForSignal, Limit
    <3>5. tag # "HS-STAT-001"
      <4> SUFFICES ASSUME tag = "HS-STAT-001" PROVE FALSE
        OBVIOUS
      <4>1. SignalValue(process, tag) = Value(0, 1) /\ Limits(tag) = Limit({}, {}, {0}, {10})
        BY <2>7 DEF SignalValue, ReadingOf, DosingOf, Limits
      <4>2. ~Above(Value(0, 1), 0) /\ ~Above(Value(0, 1), 10)
        BY DEF Above, Value
      <4> QED BY <2>9, <3>1, <4>1, <4>2 DEF StatusForSignal, Limit
    <3>6. tag = "AIT-CL-001"
      BY <3>3, <3>4, <3>5
    <3>7. SignalValue(process, tag) = cl /\ Limits(tag) = Limit({6}, {9}, {22}, {28})
      BY <3>6 DEF SignalValue, ReadingOf, DosingOf, Limits, cl
    <3>8. Above(cl, 28) => Above(cl, 22)
      BY <3>2 DEF Above
    <3> QED BY <2>7, <2>9, <3>1, <3>6, <3>7, <3>8 DEF StatusForSignal, Limit
  <2> QED BY <2>1, <2>4, <2>5, <2>6, <2>8, <2>9
<1>2. RunInv => ScreenInv
  BY DEF RunInv
<1> QED BY <1>1, <1>2, Invariance, PTL

-----------------------------------------------------------------------------
(* The state stays physical.  Arithmetic first.                               *)

(* What is drawn at a rate r towards x from y, both between L and H.              *)
LEMMA Drawn ==
  ASSUME NEW r \in Nat, NEW cap \in Nat, r <= cap, NEW x \in Int, NEW y \in Int
  PROVE  /\ r * (x - y) \in Int
         /\ \A L \in Int : L <= x /\ L <= y => -(cap * (y - L)) <= r * (x - y)
         /\ \A H \in Int : x <= H /\ y <= H => r * (x - y) <= cap * (H - y)
<1>1. r * (x - y) \in Int
  OBVIOUS
<1>2. ASSUME NEW L \in Int, L <= x, L <= y PROVE -(cap * (y - L)) <= r * (x - y)
  <2> DEFINE z == y - L
             w == x - y
  <2>1. z \in Nat /\ w \in Int /\ -z <= w
    BY <1>2
  <2> HIDE DEF z, w
  <2>2. r * (-z) <= r * w /\ r * (-z) \in Int /\ r * w \in Int
    BY <2>1, Monotone
  <2>3. z * r <= z * cap /\ z * r \in Int /\ z * cap \in Int
    BY <2>1, Monotone
  <2>4. z * r = r * z /\ z * cap = cap * z /\ r * (-z) = -(r * z)
    BY <2>1
  <2>5. -(cap * z) <= r * w
    BY <2>2, <2>3, <2>4
  <2> QED BY <2>5 DEF z, w
<1>3. ASSUME NEW H \in Int, x <= H, y <= H PROVE r * (x - y) <= cap * (H - y)
  <2> DEFINE z == H - y
             w == x - y
  <2>1. z \in Nat /\ w \in Int /\ w <= z
    BY <1>3
  <2> HIDE DEF z, w
  <2>2. r * w <= r * z /\ r * w \in Int /\ r * z \in Int
    BY <2>1, Monotone
  <2>3. z * r <= z * cap /\ z * r \in Int /\ z * cap \in Int
    BY <2>1, Monotone
  <2>4. z * r = r * z /\ z * cap = cap * z
    BY <2>1
  <2>5. r * w <= cap * z
    BY <2>2, <2>3, <2>4
  <2> QED BY <2>5 DEF z, w
<1> QED BY <1>1, <1>2, <1>3

LEMMA ShortStep ==
  ASSUME NEW T \in Nat, NEW R \in Nat, NEW cut \in Nat, T + R <= cut,
         NEW y \in Int, NEW m \in Int, NEW r \in Int
  PROVE  /\ \A L \in Int : L <= y /\ -(T * (y - L)) <= m /\ -(R * (y - L)) <= r
                            => cut * L <= cut * y + m + r
         /\ \A H \in Int : y <= H /\ m <= T * (H - y) /\ r <= R * (H - y)
                            => cut * y + m + r <= cut * H
<1>1. \A z \in Nat : /\ T * z \in Int /\ R * z \in Int /\ cut * z \in Int
                     /\ T * z + R * z <= cut * z
  <2> TAKE z \in Nat
  <2>1. z * (T + R) <= z * cut /\ z * (T + R) \in Int /\ z * cut \in Int
    BY Monotone
  <2>2. z * (T + R) = T * z + R * z /\ z * cut = cut * z /\ T * z \in Int /\ R * z \in Int
    OBVIOUS
  <2> QED BY <2>1, <2>2
<1>2. ASSUME NEW L \in Int, L <= y, -(T * (y - L)) <= m, -(R * (y - L)) <= r
      PROVE  cut * L <= cut * y + m + r
  <2> DEFINE z == y - L
             a == cut * y
             b == cut * L
             e == T * z
             f == R * z
             g == cut * z
  <2>1. z \in Nat
    BY <1>2
  <2>2. e \in Int /\ f \in Int /\ g \in Int /\ e + f <= g
    BY <1>1, <2>1
  <2>3. a - b = g /\ a \in Int /\ b \in Int
    OBVIOUS
  <2>4. -e <= m /\ -f <= r
    BY <1>2
  <2> HIDE DEF a, b, e, f, g, z
  <2>5. b <= a + m + r
    BY <2>2, <2>3, <2>4
  <2> QED BY <2>5 DEF a, b
<1>3. ASSUME NEW H \in Int, y <= H, m <= T * (H - y), r <= R * (H - y)
      PROVE  cut * y + m + r <= cut * H
  <2> DEFINE z == H - y
             a == cut * y
             b == cut * H
             e == T * z
             f == R * z
             g == cut * z
  <2>1. z \in Nat
    BY <1>3
  <2>2. e \in Int /\ f \in Int /\ g \in Int /\ e + f <= g
    BY <1>1, <2>1
  <2>3. b - a = g /\ a \in Int /\ b \in Int
    OBVIOUS
  <2>4. m <= e /\ r <= f
    BY <1>3
  <2> HIDE DEF a, b, e, f, g, z
  <2>5. a + m + r <= b
    BY <2>2, <2>3, <2>4
  <2> QED BY <2>5 DEF a, b
<1> QED BY <1>2, <1>3

(* The influent is no more and no less of a species than the streams are.        *)
LEMMA FeedBounds ==
  ASSUME NEW b \in Streams, NEW s \in Species, NEW v \in Int
  PROVE  /\ TotalFlow(b) * v \in Int /\ TotalFlow(b) <= 3 * TopLevel
         /\ (\A k \in Stream : v <= b.carries[k][s]) => TotalFlow(b) * v <= Feed(b, s)
         /\ (\A k \in Stream : b.carries[k][s] <= v) => Feed(b, s) <= TotalFlow(b) * v
<1> DEFINE f(k) == b.flow[k]
           g(k) == b.carries[k][s]
<1>1. {"inlet", "acid", "chlorine"} = Stream
  BY DEF Stream
<1>2. \A k \in Stream : f(k) \in Nat /\ f(k) <= TopLevel /\ g(k) \in Int
  BY DEF Streams, Level
<1>3. TotalFlow(b) = f("inlet") + f("acid") + f("chlorine")
  BY DEF TotalFlow, StreamSum
<1>4. Feed(b, s) = f("inlet") * g("inlet") + f("acid") * g("acid") + f("chlorine") * g("chlorine")
  BY DEF Feed, StreamSum
<1> HIDE DEF f, g
<1>5. TotalFlow(b) * v = f("inlet") * v + f("acid") * v + f("chlorine") * v
  <2>1. \A x, y, z \in Int : (x + y + z) * v = x * v + y * v + z * v
    OBVIOUS
  <2> QED BY <1>1, <1>2, <1>3, <2>1
<1>6. \A k \in Stream : f(k) * v \in Int /\ f(k) * g(k) \in Int
                       /\ (v <= g(k) => f(k) * v <= f(k) * g(k))
                       /\ (g(k) <= v => f(k) * g(k) <= f(k) * v)
  <2> TAKE k \in Stream
  <2> DEFINE r == f(k)
             x == g(k)
  <2>1. r \in Nat /\ x \in Int
    BY <1>2
  <2> HIDE DEF r, x
  <2>2. r * v \in Int /\ r * x \in Int
    BY <2>1
  <2>3. (v <= x => r * v <= r * x) /\ (x <= v => r * x <= r * v)
    BY <2>1, Monotone
  <2> QED BY <2>2, <2>3 DEF r, x
<1> DEFINE a1 == f("inlet") * v
           a2 == f("acid") * v
           a3 == f("chlorine") * v
           b1 == f("inlet") * g("inlet")
           b2 == f("acid") * g("acid")
           b3 == f("chlorine") * g("chlorine")
<1>7. /\ {a1, a2, a3, b1, b2, b3} \subseteq Int
      /\ (\A k \in Stream : v <= g(k)) => a1 <= b1 /\ a2 <= b2 /\ a3 <= b3
      /\ (\A k \in Stream : g(k) <= v) => b1 <= a1 /\ b2 <= a2 /\ b3 <= a3
  BY <1>1, <1>6
<1>8. TotalFlow(b) * v = a1 + a2 + a3 /\ Feed(b, s) = b1 + b2 + b3
  BY <1>4, <1>5
<1> HIDE DEF a1, a2, a3, b1, b2, b3
<1>9. TotalFlow(b) <= 3 * TopLevel
  BY <1>1, <1>2, <1>3
<1> QED BY <1>7, <1>8, <1>9 DEF g

LEMMA TransportWithin ==
  ASSUME NEW b \in Streams, NEW t, NEW s \in Species, NEW c, \A n \in Zone : c[n] \in Int,
         NEW d \in Nat, NEW i \in Zone
  PROVE  LET moved == Transport(b, MixingMatrix(t), s, c, d, i) IN
         /\ \A v \in Int :
              (\A k \in Stream : v <= b.carries[k][s]) /\ (\A n \in Zone : v * d <= c[n])
                => -(Throughput * (c[i] - v * d)) <= moved
         /\ \A v \in Int :
              (\A k \in Stream : b.carries[k][s] <= v) /\ (\A n \in Zone : c[n] <= v * d)
                => moved <= Throughput * (v * d - c[i])
<1> DEFINE y  == c[i]
           x1 == IF i > 0 THEN c[i - 1] ELSE y
           x2 == IF i < Last THEN c[i + 1] ELSE y
           p  == Upward(t, i)
           q  == Downward(t, i)
           F  == TotalFlow(b)
           e  == Feed(b, s)
           in == Advection(b, s, c, d, i)
           T3 == 3 * TopLevel
<1>1. i \in Int /\ (i > 0 => i - 1 \in Zone) /\ (i < Last => i + 1 \in Zone)
  BY DEF Zone, Last
<1>2. y \in Int /\ x1 \in Int /\ x2 \in Int
  BY <1>1
<1>3. p \in Nat /\ q \in Nat /\ p <= MixRate /\ q <= MixRate
  BY DEF Upward, Downward, Exchange
<1>4. F \in Nat /\ e \in Int /\ F <= T3 /\ T3 \in Nat
  BY FlowFacts, FeedBounds
<1>5. Mixing(MixingMatrix(t), c, i) = p * (x1 - y) + q * (x2 - y)
  <2>1. /\ i > 0 => x1 = c[i - 1]
        /\ ~(i > 0) => x1 - y = 0
        /\ i < Last => x2 = c[i + 1]
        /\ ~(i < Last) => x2 - y = 0
    BY <1>2
  <2>2. Mixing(MixingMatrix(t), c, i) =
           (IF i > 0 THEN Upward(t, i) * (c[i - 1] - c[i]) ELSE 0)
           + (IF i < Last THEN Downward(t, i) * (c[i + 1] - c[i]) ELSE 0)
    BY MixingFacts
  <2>3. p * 0 = 0 /\ q * 0 = 0
    BY <1>3
  <2>4. (IF i > 0 THEN Upward(t, i) * (c[i - 1] - c[i]) ELSE 0) = p * (x1 - y)
    BY <2>1, <2>3
  <2>5. (IF i < Last THEN Downward(t, i) * (c[i + 1] - c[i]) ELSE 0) = q * (x2 - y)
    BY <2>1, <2>3
  <2> QED BY <2>2, <2>4, <2>5
<1>6. in = IF i = 0 THEN e * d - F * y ELSE F * (x1 - y)
  <2>1. CASE i = 0
    BY <2>1 DEF Advection, Inflow, Feed
  <2>2. CASE i # 0
    <3>1. i > 0
      BY <2>2 DEF Zone
    <3> QED BY <2>2, <3>1 DEF Advection
  <2> QED BY <2>1, <2>2
<1>7. Transport(b, MixingMatrix(t), s, c, d, i) = in + (p * (x1 - y) + q * (x2 - y))
  BY <1>5 DEF Transport
<1>8. Throughput \in Nat /\ Throughput = T3 + MixRate + MixRate
  BY DEF Throughput
<1>9. \A z \in Int : Throughput * z = T3 * z + MixRate * z + MixRate * z
                    /\ T3 * z \in Int /\ MixRate * z \in Int
  <2> TAKE z \in Int
  <2> HIDE DEF T3
  <2>1. (T3 + MixRate + MixRate) * z = T3 * z + MixRate * z + MixRate * z
    BY <1>4
  <2> QED BY <1>4, <1>8, <2>1
<1>10. \A v \in Int : F * (v * d - y) = (F * v) * d - F * y /\ v * d \in Int
  BY <1>2, <1>4
<1>11. ASSUME NEW v \in Int, \A k \in Stream : v <= b.carries[k][s], \A n \in Zone : v * d <= c[n]
       PROVE  -(Throughput * (y - v * d)) <= Transport(b, MixingMatrix(t), s, c, d, i)
  <2> DEFINE L == v * d
             u1 == p * (x1 - y)
             u2 == q * (x2 - y)
             z == y - L
             m == MixRate * z
             w == T3 * z
  <2>1. L \in Int /\ L <= x1 /\ L <= x2 /\ L <= y /\ z \in Int
    BY <1>1, <1>2, <1>10, <1>11
  <2> HIDE DEF x1, x2, y, p, q, L
  <2>2. u1 \in Int /\ u2 \in Int /\ -m <= u1 /\ -m <= u2
    BY <1>2, <1>3, <2>1, Drawn
  <2>3. in \in Int /\ -w <= in
    <3>1. CASE i # 0
      <4>1. in = F * (x1 - y)
        BY <1>6, <3>1
      <4> HIDE DEF F, T3, in
      <4> QED BY <1>2, <1>4, <2>1, <4>1, Drawn
    <3>2. CASE i = 0
      <4>1. in = e * d - F * y
        BY <1>6, <3>2
      <4>2. F * v <= e /\ F * v \in Int
        BY <1>11, FeedBounds
      <4>3. d * (F * v) <= d * e /\ d * (F * v) \in Int /\ d * e \in Int
        BY <1>4, <4>2, Monotone
      <4>4. d * (F * v) = (F * v) * d /\ d * e = e * d
        BY <1>4, <4>2
      <4>5. F * (L - y) = (F * v) * d - F * y
        BY <1>10 DEF L
      <4> HIDE DEF F, T3, in, e
      <4>6. F * (L - y) \in Int /\ -w <= F * (L - y)
        BY <1>2, <1>4, <2>1, Drawn
      <4>7. F * y \in Int /\ e * d \in Int /\ (F * v) * d \in Int
        BY <1>2, <1>4, <4>3, <4>4
      <4> DEFINE k1 == F * y
                 k2 == e * d
                 k3 == (F * v) * d
                 k4 == F * (L - y)
      <4>8. k1 \in Int /\ k2 \in Int /\ k3 \in Int /\ k4 = k3 - k1 /\ k3 <= k2 /\ in = k2 - k1
            /\ -w <= k4
        BY <4>1, <4>3, <4>4, <4>5, <4>6, <4>7
      <4>9. w \in Int
        BY <1>9, <2>1
      <4> HIDE DEF k1, k2, k3, k4, w
      <4> QED BY <4>8, <4>9
    <3> QED BY <3>1, <3>2
  <2>4. Throughput * z = w + m + m /\ w \in Int /\ m \in Int
    BY <1>9, <2>1
  <2> HIDE DEF u1, u2, z, m, w, in
  <2>5. -(Throughput * z) <= in + (u1 + u2)
    BY <2>2, <2>3, <2>4
  <2> QED BY <1>7, <2>5 DEF z, u1, u2, L
<1>12. ASSUME NEW v \in Int, \A k \in Stream : b.carries[k][s] <= v, \A n \in Zone : c[n] <= v * d
       PROVE  Transport(b, MixingMatrix(t), s, c, d, i) <= Throughput * (v * d - y)
  <2> DEFINE H == v * d
             u1 == p * (x1 - y)
             u2 == q * (x2 - y)
             z == H - y
             m == MixRate * z
             w == T3 * z
  <2>1. H \in Int /\ x1 <= H /\ x2 <= H /\ y <= H /\ z \in Int
    BY <1>1, <1>2, <1>10, <1>12
  <2> HIDE DEF x1, x2, y, p, q, H
  <2>2. u1 \in Int /\ u2 \in Int /\ u1 <= m /\ u2 <= m
    BY <1>2, <1>3, <2>1, Drawn
  <2>3. in \in Int /\ in <= w
    <3>1. CASE i # 0
      <4>1. in = F * (x1 - y)
        BY <1>6, <3>1
      <4> HIDE DEF F, T3, in
      <4> QED BY <1>2, <1>4, <2>1, <4>1, Drawn
    <3>2. CASE i = 0
      <4>1. in = e * d - F * y
        BY <1>6, <3>2
      <4>2. e <= F * v /\ F * v \in Int
        BY <1>12, FeedBounds
      <4>3. d * e <= d * (F * v) /\ d * (F * v) \in Int /\ d * e \in Int
        BY <1>4, <4>2, Monotone
      <4>4. d * (F * v) = (F * v) * d /\ d * e = e * d
        BY <1>4, <4>2
      <4>5. F * (H - y) = (F * v) * d - F * y
        BY <1>10 DEF H
      <4> HIDE DEF F, T3, in, e
      <4>6. F * (H - y) \in Int /\ F * (H - y) <= w
        BY <1>2, <1>4, <2>1, Drawn
      <4>7. F * y \in Int /\ e * d \in Int /\ (F * v) * d \in Int
        BY <1>2, <1>4, <4>3, <4>4
      <4> DEFINE k1 == F * y
                 k2 == e * d
                 k3 == (F * v) * d
                 k4 == F * (H - y)
      <4>8. k1 \in Int /\ k2 \in Int /\ k3 \in Int /\ k4 = k3 - k1 /\ k2 <= k3 /\ in = k2 - k1
            /\ k4 <= w
        BY <4>1, <4>3, <4>4, <4>5, <4>6, <4>7
      <4>9. w \in Int
        BY <1>9, <2>1
      <4> HIDE DEF k1, k2, k3, k4, w
      <4> QED BY <4>8, <4>9
    <3> QED BY <3>1, <3>2
  <2>4. Throughput * z = w + m + m /\ w \in Int /\ m \in Int
    BY <1>9, <2>1
  <2> HIDE DEF u1, u2, z, m, w, in
  <2>5. in + (u1 + u2) <= Throughput * z
    BY <2>2, <2>3, <2>4
  <2> QED BY <1>7, <2>5 DEF z, u1, u2, H
<1> QED BY <1>11, <1>12

-----------------------------------------------------------------------------
(* Rounding down keeps what a whole bound bounds.                               *)
LEMMA Floor ==
  ASSUME NEW k \in Nat \ {0}, NEW x \in Int
  PROVE  /\ x \div k \in Int
         /\ \A a \in Int : k * a <= x => a <= x \div k
         /\ \A a \in Int : x <= k * a => x \div k <= a
<1> DEFINE q == x \div k
<1>1. q \in Int /\ k * q <= x /\ x < k * q + k
  OBVIOUS
<1> HIDE DEF q
<1>2. ASSUME NEW a \in Int, k * a <= x PROVE a <= q
  <2> SUFFICES ASSUME q + 1 <= a PROVE FALSE
    BY <1>1
  <2>1. k * (q + 1) <= k * a /\ k * (q + 1) \in Int /\ k * a \in Int
    BY <1>1, Monotone
  <2>2. k * (q + 1) = k * q + k /\ k * q \in Int
    BY <1>1
  <2> QED BY <1>1, <1>2, <2>1, <2>2
<1>3. ASSUME NEW a \in Int, x <= k * a PROVE q <= a
  <2> SUFFICES ASSUME a + 1 <= q PROVE FALSE
    BY <1>1
  <2>1. k * (a + 1) <= k * q /\ k * (a + 1) \in Int /\ k * q \in Int
    BY <1>1, Monotone
  <2>2. k * (a + 1) = k * a + k /\ k * a \in Int
    OBVIOUS
  <2> QED BY <1>1, <1>3, <2>1, <2>2
<1> QED BY <1>1, <1>2, <1>3 DEF q

(* A product over its scale, when one factor is within so many scales.            *)
LEMMA Reacted ==
  ASSUME NEW k \in Nat \ {0}, NEW x \in Nat, NEW y \in Nat, NEW a \in Nat, y <= a * k
  PROVE  (x * y) \div k \in Nat /\ (x * y) \div k <= a * x
<1>1. x * y <= x * (a * k) /\ x * y \in Nat /\ x * (a * k) \in Int
  <2>1. a * k \in Int /\ x * y \in Nat
    OBVIOUS
  <2> QED BY <2>1, Monotone
<1>2. x * (a * k) = k * (a * x) /\ a * x \in Int /\ k * 0 = 0
  OBVIOUS
<1> DEFINE p == x * y
           e == a * x
<1>3. p \in Int /\ e \in Int /\ p <= k * e /\ k * 0 <= p
  BY <1>1, <1>2
<1> HIDE DEF p, e
<1>4. p \div k \in Int /\ 0 <= p \div k /\ p \div k <= e
  <2>1. /\ p \div k \in Int
        /\ \A z \in Int : k * z <= p => z <= p \div k
        /\ \A z \in Int : p <= k * z => p \div k <= z
    BY <1>3, Floor
  <2> QED BY <1>3, <2>1
<1> QED BY <1>4 DEF p, e

(* Between what of a species, in one unit, a zone can hold.  Combined chlorine has  *)
(* no upper limit of its own.                                                 *)
Richest == IF StockStrength * TopLevel > 2 THEN StockStrength * TopLevel ELSE 2

Lower(lo, s) == IF s = "temperature" THEN lo ELSE 0

Upper(hi, s) ==
  CASE s = "temperature" -> hi
    [] s = "acidity"     -> TopAcidity
    [] s = "chlorine"    -> Richest
    [] OTHER             -> 1

Within(lo, hi, s, v, d) ==
  Lower(lo, s) * d <= v /\ (s # "chloramine" => v <= Upper(hi, s) * d)

TankWithin(lo, hi) == \A s \in Species : \A i \in Zone : Within(lo, hi, s, tank[s][i], scale)

BoundaryWithin(b, lo, hi) ==
  /\ lo <= b.ambient /\ b.ambient <= hi
  /\ \A k \in Stream : \A s \in Species : Within(lo, hi, s, b.carries[k][s], 1)

LEMMA LimitTypes ==
  ASSUME NEW lo \in Nat, NEW hi \in Nat
  PROVE  /\ Richest \in Nat /\ \A s \in Species : Lower(lo, s) \in Nat /\ Upper(hi, s) \in Nat
         /\ Throughput \in Nat /\ Throughput + Richest <= Den /\ Throughput + HeatLoss <= Den
         /\ Throughput + 2 + Ratio <= Den
<1>1. StockStrength * TopLevel \in Nat
  OBVIOUS
<1>2. Throughput \in Nat
  BY DEF Throughput
<1> QED BY <1>1, <1>2, StepAssumption DEF Richest, Lower, Upper

(* The reactions use up no more than there is, at a rate the step is short for.     *)
LEMMA ReactionWithin ==
  ASSUME TankOK, NEW lo \in Nat, NEW hi \in Nat, TankWithin(lo, hi), NEW i \in Zone
  PROVE  /\ -((2 + Ratio) * tank["chlorine"][i]) <= Reaction(tank, scale, "chlorine", i)
         /\ -tank["chloramine"][i] <= Reaction(tank, scale, "chloramine", i)
         /\ \A s \in {"ammonia", "demand"} : -(Richest * tank[s][i]) <= Reaction(tank, scale, s, i)
         /\ \A s \in {"chlorine", "ammonia", "demand"} : Reaction(tank, scale, s, i) <= 0
<1> DEFINE c == tank["chlorine"][i]
           a == tank["ammonia"][i]
           d == tank["demand"][i]
           m == tank["chloramine"][i]
           p == AmmoniaConsumed(tank, scale, i)
           q == DemandConsumed(tank, scale, i)
           r == ChloramineDecay(tank, i)
           z == Ratio * p
<1>1. /\ c \in Nat /\ a \in Nat /\ d \in Nat /\ m \in Nat
      /\ c <= Richest * scale /\ a <= 1 * scale /\ d <= 1 * scale /\ Richest \in Nat
  <2>1. {"chlorine", "ammonia", "demand", "chloramine"} \subseteq Species
    BY DEF Species, Reagent
  <2>2. c \in Int /\ a \in Int /\ d \in Int /\ m \in Int /\ 0 * scale = 0
    BY <2>1 DEF TankOK
  <2>3. \A s \in {"chlorine", "ammonia", "demand", "chloramine"} : 0 * scale <= tank[s][i]
    BY <2>1 DEF TankWithin, Within, Lower
  <2>4. c <= Richest * scale /\ a <= 1 * scale /\ d <= 1 * scale
    BY <2>1 DEF TankWithin, Within, Upper
  <2> QED BY <2>2, <2>3, <2>4, LimitTypes
<1>2. /\ p = (c * a) \div scale /\ q = (c * d) \div scale /\ r = m \div 2
      /\ c * a = a * c /\ c * d = d * c
  BY <1>1 DEF AmmoniaConsumed, DemandConsumed, ChloramineDecay
<1> HIDE DEF c, a, d, m, p, q, r
<1>3. p \in Nat /\ q \in Nat /\ p <= 1 * c /\ q <= 1 * c /\ p <= Richest * a /\ q <= Richest * d
  <2>1. scale \in Nat \ {0}
    BY DEF TankOK
  <2>2. (c * a) \div scale \in Nat /\ (c * a) \div scale <= 1 * c
    BY <1>1, <2>1, Reacted
  <2>3. (c * d) \div scale \in Nat /\ (c * d) \div scale <= 1 * c
    BY <1>1, <2>1, Reacted
  <2>4. (a * c) \div scale <= Richest * a
    BY <1>1, <2>1, Reacted
  <2>5. (d * c) \div scale <= Richest * d
    BY <1>1, <2>1, Reacted
  <2> QED BY <1>2, <2>2, <2>3, <2>4, <2>5
<1>4. r \in Nat /\ r <= m
  BY <1>1, <1>2
<1>5. z \in Nat /\ z <= Ratio * c /\ Ratio * c \in Int /\ (2 + Ratio) * c = 2 * c + Ratio * c
  <2>1. p <= c /\ p \in Int /\ c \in Int /\ Ratio \in Nat
    BY <1>1, <1>3
  <2>2. Ratio * p \in Nat
    BY <1>3
  <2>3. Ratio * p <= Ratio * c /\ Ratio * c \in Int
    BY <2>1, Monotone
  <2> QED BY <1>1, <2>2, <2>3
<1> HIDE DEF z
<1>6. /\ Reaction(tank, scale, "chlorine", i) = -(c + z + q)
      /\ Reaction(tank, scale, "ammonia", i) = -p
      /\ Reaction(tank, scale, "demand", i) = -q
      /\ Reaction(tank, scale, "chloramine", i) = z - r
  BY DEF Reaction, FreeDecay, c, p, q, r, z
<1>7. -((2 + Ratio) * c) <= -(c + z + q)
  <2> DEFINE e == Ratio * c
  <2>1. e \in Int /\ z <= e /\ (2 + Ratio) * c = 2 * c + e /\ q <= c
    BY <1>1, <1>3, <1>5
  <2> HIDE DEF e
  <2> QED BY <1>1, <1>3, <1>5, <2>1
<1>8. -m <= z - r /\ -(c + z + q) <= 0 /\ -p <= 0 /\ -q <= 0
  BY <1>1, <1>3, <1>4, <1>5
<1>9. -(Richest * a) <= -p /\ -(Richest * d) <= -q
  <2>1. Richest * a \in Int /\ Richest * d \in Int
    BY <1>1
  <2> QED BY <1>3, <2>1
<1> QED BY <1>6, <1>7, <1>8, <1>9 DEF c, a, d, m

(* After a short step a zone still holds what it can hold: of a reagent because     *)
(* transport averages and reactions use up no more than there is, of acidity       *)
(* because the buffer only takes from what moves, and of heat because the wall     *)
(* draws towards the ambient.                                                 *)
LEMMA SolvedWithin ==
  ASSUME TankOK, NEW b \in Streams, NEW lo \in Nat, NEW hi \in Nat,
         TankWithin(lo, hi), BoundaryWithin(b, lo, hi), NEW s \in Species, NEW i \in Zone,
         NEW cut \in Nat, Den <= cut
  PROVE  Within(lo, hi, s, Solved(b, cut)[s][i], cut * scale)
<1> DEFINE M == MixingMatrix(tank["temperature"])
           c == tank[s]
           y == c[i]
           l == Lower(lo, s)
           h == Upper(hi, s)
           L == l * scale
           H == h * scale
           moved == Transport(b, M, s, c, scale, i)
           T == Throughput
<1>1. /\ scale \in Nat /\ y \in Int /\ moved \in Int /\ T \in Nat
      /\ l \in Nat /\ h \in Nat /\ L \in Nat /\ H \in Nat
      /\ \A n \in Zone : c[n] \in Int
  <2>1. \A n \in Zone : c[n] \in Int
    BY DEF TankOK
  <2>2. moved \in Int
    BY TankTransport
  <2>3. l \in Nat /\ h \in Nat /\ T \in Nat /\ scale \in Nat
    BY LimitTypes DEF TankOK
  <2>4. L \in Nat /\ H \in Nat
    BY <2>3
  <2> QED BY <2>1, <2>2, <2>3, <2>4
<1>2. /\ L <= y /\ -(T * (y - L)) <= moved
      /\ s # "chloramine" => y <= H /\ moved <= T * (H - y)
  <2>1. \A n \in Zone : L <= c[n] /\ (s # "chloramine" => c[n] <= H)
    BY DEF TankWithin, Within
  <2>2. \A k \in Stream : l <= b.carries[k][s] /\ (s # "chloramine" => b.carries[k][s] <= h)
    <3>1. l * 1 = l /\ h * 1 = h
      BY <1>1
    <3> QED BY <3>1 DEF BoundaryWithin, Within
  <2> HIDE DEF c, l, h
  <2>3. /\ \A v \in Int :
             (\A k \in Stream : v <= b.carries[k][s]) /\ (\A n \in Zone : v * scale <= c[n])
               => -(T * (c[i] - v * scale)) <= moved
        /\ \A v \in Int :
             (\A k \in Stream : b.carries[k][s] <= v) /\ (\A n \in Zone : c[n] <= v * scale)
               => moved <= T * (v * scale - c[i])
    BY <1>1, TransportWithin
  <2>4. l \in Int /\ h \in Int
    BY <1>1
  <2>5. -(T * (c[i] - l * scale)) <= moved
    BY <2>1, <2>2, <2>3, <2>4
  <2>6. s # "chloramine" => moved <= T * (h * scale - c[i])
    BY <2>1, <2>2, <2>3, <2>4
  <2> QED BY <2>1, <2>5, <2>6
<1>3. l * (cut * scale) = cut * L /\ h * (cut * scale) = cut * H
  BY <1>1
<1>4. Solved(b, cut)[s][i] = cut * y + Derivative(b, M, tank, scale, s, i)
  BY DEF Solved
<1>5. /\ s \in Reagent     => Derivative(b, M, tank, scale, s, i) = moved + Reaction(tank, scale, s, i)
      /\ s = "acidity"     => Derivative(b, M, tank, scale, s, i) = Buffered(moved)
      /\ s = "temperature" => Derivative(b, M, tank, scale, s, i) = moved - Cooling(b, tank, scale, i)
  BY DEF Derivative, Reagent
<1> HIDE DEF M, c, l, h, L, H, moved, T
<1>6. SUFFICES /\ cut * L <= Solved(b, cut)[s][i]
               /\ s # "chloramine" => Solved(b, cut)[s][i] <= cut * H
  BY <1>3 DEF Within, l, h
<1>7. ASSUME NEW R \in Nat, T + R <= cut, NEW r \in Int, Solved(b, cut)[s][i] = cut * y + (moved + r),
             -(R * (y - L)) <= r, s # "chloramine" => r <= R * (H - y)
      PROVE  /\ cut * L <= Solved(b, cut)[s][i]
             /\ s # "chloramine" => Solved(b, cut)[s][i] <= cut * H
  <2> HIDE DEF y
  <2>1. cut * y \in Int /\ cut * y + (moved + r) = cut * y + moved + r
    BY <1>1, <1>7
  <2>2. cut * L <= cut * y + moved + r
    BY <1>1, <1>2, <1>7, ShortStep
  <2>3. s # "chloramine" => cut * y + moved + r <= cut * H
    BY <1>1, <1>2, <1>7, ShortStep
  <2> QED BY <1>7, <2>1, <2>2, <2>3
<1>8. CASE s = "temperature"
  <2> DEFINE x == b.ambient * scale
             r == HeatLoss * (x - y)
  <2>1. x \in Int /\ L <= x /\ x <= H
    <3>1. b.ambient \in Int /\ l <= b.ambient /\ b.ambient <= h
      BY <1>8, FlowFacts DEF BoundaryWithin, Lower, Upper, l, h
    <3>2. scale * l <= scale * b.ambient /\ scale * b.ambient <= scale * h
      BY <1>1, <3>1, Monotone
    <3>3. scale * l = L /\ scale * h = H /\ scale * b.ambient = x /\ x \in Int
      BY <1>1, <3>1 DEF L, H
    <3> QED BY <3>2, <3>3
  <2>2. Cooling(b, tank, scale, i) = HeatLoss * (y - x)
    BY <1>8 DEF Cooling, c
  <2> HIDE DEF x, y
  <2>3. HeatLoss * (y - x) = -r /\ HeatLoss * (y - x) \in Int /\ r \in Int
    BY <1>1, <2>1
  <2>4. -(HeatLoss * (y - L)) <= r /\ r <= HeatLoss * (H - y)
    BY <1>1, <1>2, <1>8, <2>1, Drawn
  <2> HIDE DEF r
  <2>5. Solved(b, cut)[s][i] = cut * y + (moved + r)
    BY <1>1, <1>4, <1>5, <1>8, <2>2, <2>3
  <2> QED BY <1>7, <2>3, <2>4, <2>5, LimitTypes DEF T
<1>9. CASE s = "acidity"
  <2> DEFINE q == Buffered(moved)
             u == T * (y - L)
             v == T * (H - y)
  <2>1. u \in Nat /\ v \in Nat /\ -u <= moved /\ moved <= v
    BY <1>1, <1>2, <1>9
  <2> HIDE DEF u, v
  <2>2. BufferWeight * (-u) <= moved /\ moved <= BufferWeight * v
    <3>1. u * 1 <= u * BufferWeight /\ v * 1 <= v * BufferWeight
      BY <2>1, Monotone
    <3>2. u * 1 = u /\ v * 1 = v /\ u * BufferWeight \in Int /\ v * BufferWeight \in Int
          /\ BufferWeight * (-u) = -(u * BufferWeight) /\ BufferWeight * v = v * BufferWeight
      BY <2>1
    <3> QED BY <1>1, <2>1, <3>1, <3>2
  <2>3. q \in Int /\ -u <= q /\ q <= v
    <3>1. -u \in Int /\ v \in Int /\ BufferWeight \in Nat \ {0}
      BY <2>1
    <3>2. /\ moved \div BufferWeight \in Int
          /\ \A a \in Int : BufferWeight * a <= moved => a <= moved \div BufferWeight
          /\ \A a \in Int : moved <= BufferWeight * a => moved \div BufferWeight <= a
      BY <1>1, <3>1, Floor
    <3> QED BY <2>2, <3>1, <3>2 DEF Buffered
  <2> HIDE DEF q, y
  <2>4. Solved(b, cut)[s][i] = cut * y + q
    BY <1>4, <1>5, <1>9 DEF q
  <2>5. -(T * (y - L)) <= q /\ q <= T * (H - y)
    BY <2>3 DEF u, v
  <2>6. T + 0 <= cut /\ -(0 * (y - L)) <= 0 /\ 0 <= 0 * (H - y) /\ 0 \in Nat
    BY <1>1, LimitTypes DEF T
  <2>7. cut * L <= cut * y + q + 0 /\ cut * y + q + 0 <= cut * H
    <3>1. cut * L <= cut * y + q + 0
      BY <1>1, <1>2, <2>3, <2>5, <2>6, ShortStep
    <3>2. cut * y + q + 0 <= cut * H
      BY <1>1, <1>2, <1>9, <2>3, <2>5, <2>6, ShortStep
    <3> QED BY <3>1, <3>2
  <2>8. cut * y \in Int /\ cut * y + q + 0 = cut * y + q
    BY <1>1, <2>3
  <2> QED BY <2>4, <2>7, <2>8
<1>10. CASE s \in Reagent
  <2> DEFINE r == Reaction(tank, scale, s, i)
  <2>1. r \in Int
    BY <1>10, ReactionFacts
  <2>2. Solved(b, cut)[s][i] = cut * y + (moved + r)
    BY <1>4, <1>5, <1>10
  <2>3. L = 0 /\ y \in Nat /\ y - L = y /\ y = tank[s][i]
    <3>1. l = 0
      BY <1>10 DEF l, Lower, Reagent
    <3>2. L = 0
      BY <1>1, <3>1 DEF L
    <3> QED BY <1>1, <1>2, <3>2 DEF c
  <2>4. \A R \in Nat : s # "chloramine" => 0 <= R * (H - y)
    <3> HIDE DEF y
    <3>1. s # "chloramine" => H - y \in Nat
      BY <1>1, <1>2
    <3> DEFINE z == H - y
    <3>2. s # "chloramine" => z \in Nat
      BY <3>1
    <3> HIDE DEF z
    <3>3. \A R \in Nat : s # "chloramine" => 0 <= R * z
      BY <3>2
    <3> QED BY <3>3 DEF z
  <2>5. CASE s = "chlorine"
    <3>a. 2 + Ratio \in Nat /\ T + (2 + Ratio) <= cut
      BY <1>1, LimitTypes DEF T
    <3>b. -((2 + Ratio) * y) <= r /\ r <= 0
      BY SMTT(30), <2>3, <2>5, ReactionWithin
    <3>1. -((2 + Ratio) * (y - L)) <= r /\ r <= 0 /\ 2 + Ratio \in Nat /\ T + (2 + Ratio) <= cut
      BY Zenon, <2>3, <3>a, <3>b
    <3>2. r <= (2 + Ratio) * (H - y)
      <4> DEFINE w == 2 + Ratio
                 v == H - y
                 z == w * v
      <4>0. w \in Nat /\ v \in Int
        BY <1>1, <1>2, <3>1
      <4> HIDE DEF w, v
      <4>1. 0 <= z /\ z \in Int
        <5>1. \A R \in Nat : 0 <= R * v
          BY <2>4, <2>5 DEF v
        <5> QED BY <4>0, <5>1
      <4> USE DEF w, v
      <4> HIDE DEF z
      <4>2. r <= z
        BY <2>1, <3>1, <4>1
      <4> QED BY <4>2 DEF z
    <3> DEFINE R == 2 + Ratio
    <3> HIDE DEF r, y
    <3>3. R \in Nat /\ T + R <= cut /\ -(R * (y - L)) <= r /\ r <= R * (H - y)
      BY <3>1, <3>2
    <3> HIDE DEF R
    <3> QED BY <1>7, <2>1, <2>2, <3>3
  <2>6. CASE s \in {"ammonia", "demand"}
    <3>1. -(Richest * (y - L)) <= r /\ r <= 0 /\ Richest \in Nat /\ T + Richest <= cut
      BY <1>1, <2>3, <2>6, ReactionWithin, LimitTypes DEF T
    <3>2. r <= Richest * (H - y)
      <4> DEFINE z == Richest * (H - y)
      <4>1. 0 <= z /\ z \in Int
        BY <1>1, <2>4, <2>6, <3>1
      <4> HIDE DEF z
      <4>2. r <= z
        BY <2>1, <3>1, <4>1
      <4> QED BY <4>2 DEF z
    <3> HIDE DEF r, y
    <3> QED BY <1>7, <2>1, <2>2, <3>1, <3>2
  <2>7. CASE s = "chloramine"
    <3>1. -(1 * (y - L)) <= r
      <4>1. -y <= r
        BY <2>3, <2>7, ReactionWithin
      <4> QED BY <2>3, <4>1
    <3>2. T + 1 <= cut /\ 1 \in Nat
      BY <1>1, LimitTypes DEF T
    <3> HIDE DEF r, y
    <3> QED BY <1>7, <2>1, <2>2, <2>7, <3>1, <3>2
  <2> QED BY <1>10, <2>5, <2>6, <2>7 DEF Reagent
<1> QED BY <1>8, <1>9, <1>10 DEF Species

(* So the bounds have nothing to enforce.                                       *)
LEMMA BoundedUnchanged ==
  ASSUME NEW t \in [Species -> [Zone -> Int]], NEW d \in Nat, NEW lo \in Nat, NEW hi \in 0 .. 100,
         \A s \in Species : \A i \in Zone : Within(lo, hi, s, t[s][i], d)
  PROVE  Bounded(t, d) = t
<1> DEFINE top(s, i) == CASE s = "acidity"     -> TopAcidity * d
                          [] s = "temperature" -> 100 * d
                          [] OTHER             -> t[s][i]
           put(s, i) == CASE t[s][i] < 0   -> 0
                          [] t[s][i] > top(s, i) /\ t[s][i] >= 0 -> top(s, i)
                          [] OTHER         -> t[s][i]
<1>1. ASSUME NEW s \in Species, NEW i \in Zone PROVE put(s, i) = t[s][i]
  <2> DEFINE v == t[s][i]
             L == Lower(lo, s) * d
             H == Upper(hi, s) * d
             A == TopAcidity * d
             C == 100 * d
  <2>1. v \in Int /\ L \in Nat /\ H \in Int /\ A \in Int /\ C \in Int
    BY LimitTypes
  <2>2. L <= v /\ (s # "chloramine" => v <= H)
    BY DEF Within
  <2>3. s = "acidity" => H = A
    BY DEF Upper
  <2>4. s = "temperature" => H <= C
    <3>1. hi * d <= 100 * d
      <4>1. d * hi <= d * 100 /\ d * hi = hi * d /\ d * 100 = 100 * d
        BY Monotone
      <4> QED BY <4>1
    <3> QED BY <3>1 DEF Upper
  <2>5. top(s, i) = CASE s = "acidity" -> A [] s = "temperature" -> C [] OTHER -> v
    OBVIOUS
  <2> HIDE DEF L, H, A, C, top, v
  <2>6. top(s, i) \in Int /\ 0 <= v /\ v <= top(s, i)
    BY <2>1, <2>2, <2>3, <2>4, <2>5
  <2> QED BY <2>1, <2>6 DEF v
<1>2. Bounded(t, d) = [s \in Species |-> [i \in Zone |-> put(s, i)]]
  BY DEF Bounded
<1> HIDE DEF put
<1> QED BY <1>1, <1>2

LEMMA CarriesWithin ==
  ASSUME NEW a \in Level, NEW c \in Level, NEW lo \in Nat, NEW hi \in Nat,
         \A k \in DOMAIN Site : lo <= Site[k] /\ Site[k] <= hi,
         NEW k \in Stream, NEW s \in Species
  PROVE  Within(lo, hi, s, Carries(a, c)[k][s], 1)
<1> DEFINE v == Carries(a, c)[k][s]
<1>1. v \in Nat /\ (s = "chloramine" => v = 0)
  BY CarriesFacts
<1>2. Lower(lo, s) * 1 = Lower(lo, s) /\ Upper(hi, s) * 1 = Upper(hi, s)
  BY LimitTypes
<1>3. AcidStrength * a <= TopAcidity /\ 1 <= TopAcidity /\ AcidStrength * a \in Nat
  <2>1. AcidStrength * a <= AcidStrength * TopLevel /\ AcidStrength * TopLevel \in Int
        /\ AcidStrength * a \in Int
    BY Monotone DEF Level
  <2>2. AcidStrength * TopLevel <= TopAcidity /\ 1 <= TopAcidity
    BY StepAssumption
  <2> QED BY <2>1, <2>2 DEF Level
<1>4. StockStrength * c <= Richest /\ StockStrength * c \in Int
  <2>1. StockStrength * c <= StockStrength * TopLevel /\ StockStrength * TopLevel \in Int
        /\ StockStrength * c \in Int
    BY Monotone DEF Level
  <2> QED BY <2>1 DEF Richest
<1>5. Richest \in Nat
  BY LimitTypes
<1>6. CASE s = "temperature"
  BY <1>2, <1>6 DEF Carries, Within, Lower, Upper
<1>7. CASE s = "acidity"
  BY <1>1, <1>2, <1>3, <1>7 DEF Carries, Within, Lower, Upper
<1>8. CASE s = "chlorine"
  BY <1>1, <1>2, <1>4, <1>5, <1>8 DEF Carries, Within, Lower, Upper
<1>9. CASE s \in {"ammonia", "demand"}
  BY <1>1, <1>2, <1>9 DEF Carries, Within, Lower, Upper
<1>10. CASE s = "chloramine"
  BY <1>1, <1>2, <1>10 DEF Within, Lower
<1> QED BY <1>6, <1>7, <1>8, <1>9, <1>10 DEF Species, Reagent

-----------------------------------------------------------------------------
(* The invariant behind StaysPhysical: every species within what the streams and    *)
(* the fill bring, in every zone and in every stream.                         *)
Physical(lo, hi) ==
  ~clipped /\ TankWithin(lo, hi) /\ BoundaryWithin(boundary, lo, hi)

LEMMA StepReactorPhysical ==
  ASSUME TankOK, clipped \in BOOLEAN, NEW lo \in Nat, NEW hi \in 0 .. 100, NEW b \in Streams,
         ~clipped, TankWithin(lo, hi), BoundaryWithin(b, lo, hi), StepReactor(b)
  PROVE  ~clipped' /\ TankWithin(lo, hi)'
<1>1. CASE UNCHANGED <<tank, scale, ledger, clipped>>
  BY <1>1 DEF TankWithin
<1>2. ASSUME NEW cut \in Cut,
             tank' = Bounded(Solved(b, cut), cut * scale),
             clipped' = (clipped \/ tank' # Solved(b, cut)),
             scale' = cut * scale
      PROVE  ~clipped' /\ TankWithin(lo, hi)'
  <2>a. cut \in Nat /\ Den <= cut
    BY CutFacts
  <2>1. cut * scale \in Nat /\ Solved(b, cut) \in [Species -> [Zone -> Int]] /\ hi \in Nat
    BY <2>a, SolvedFacts DEF TankOK
  <2>2. \A s \in Species : \A i \in Zone : Within(lo, hi, s, Solved(b, cut)[s][i], cut * scale)
    BY <2>a, <2>1, SolvedWithin
  <2>3. Bounded(Solved(b, cut), cut * scale) = Solved(b, cut)
    <3> DEFINE t == Solved(b, cut)
               d == cut * scale
    <3>1. t \in [Species -> [Zone -> Int]] /\ d \in Nat
          /\ \A s \in Species : \A i \in Zone : Within(lo, hi, s, t[s][i], d)
      BY <2>1, <2>2
    <3> HIDE DEF t, d
    <3>2. Bounded(t, d) = t
      BY <3>1, BoundedUnchanged
    <3> QED BY <3>2 DEF t, d
  <2>4. ~clipped' /\ tank' = Solved(b, cut)
    BY <1>2, <2>3
  <2> QED BY <1>2, <2>2, <2>4 DEF TankWithin
<1> QED BY <1>1, <1>2 DEF StepReactor

LEMMA AdvancePhysical ==
  ASSUME WorkerInv, NEW lo \in Nat, NEW hi \in 0 .. 100,
         \A k \in DOMAIN Site : lo <= Site[k] /\ Site[k] <= hi,
         Physical(lo, hi), NEW c \in Control, NEW dt \in {0, 1}, Advance(c, dt)
  PROVE  Physical(lo, hi)'
<1> DEFINE x == c.numeric["acid-concentration"]
           y == c.numeric["chlorine-concentration"]
           mixed == [boundary EXCEPT !.carries = Carries(x, y)]
<1>1. x \in Level /\ y \in Level
  BY DEF Control, NumericId
<1>2. hi \in Nat /\ boundary \in Streams
  BY DEF WorkerInv
<1> HIDE DEF x, y
<1>3. \A b \in Streams : b.ambient = boundary.ambient /\ b.carries = Carries(x, y)
                          => BoundaryWithin(b, lo, hi)
  BY <1>1, <1>2, CarriesWithin DEF BoundaryWithin, Physical
<1>4. CASE boundary' = mixed /\ UNCHANGED <<tank, scale, clipped>>
  <2>1. mixed \in Streams
    BY <1>1, <1>2, StreamsChange DEF WorkerInv
  <2>2. mixed.ambient = boundary.ambient /\ mixed.carries = Carries(x, y)
    <3> DEFINE m == Carries(x, y)
    <3> HIDE DEF m
    <3>1. [boundary EXCEPT !.carries = m].ambient = boundary.ambient
          /\ [boundary EXCEPT !.carries = m].carries = m
      BY <1>2 DEF Streams
    <3> QED BY <3>1 DEF m
  <2>3. BoundaryWithin(mixed, lo, hi)
    BY <1>3, <2>1, <2>2
  <2> HIDE DEF mixed
  <2> QED BY <1>4, <2>3 DEF Physical, TankWithin
<1>5. ASSUME NEW slow \in SUBSET Stream,
             setpoint' = SetActuators(c),
             boundary' = [mixed EXCEPT !.flow = Delivered(setpoint', slow)],
             StepReactor(boundary')
      PROVE  Physical(lo, hi)'
  <2> DEFINE set == SetActuators(c)
             f == Delivered(set, slow)
             b == [mixed EXCEPT !.flow = f]
  <2>1. set \in [Stream -> Level]
    BY SetActuatorsType
  <2> HIDE DEF set
  <2>2. f \in [Stream -> Level]
    BY <2>1 DEF Delivered, WorkerInv, Streams
  <2> HIDE DEF f
  <2>3. b \in Streams
    BY <1>1, <1>2, <2>2, StreamsChange
  <2>4. b.ambient = boundary.ambient /\ b.carries = Carries(x, y)
    <3> DEFINE m == Carries(x, y)
               d == [boundary EXCEPT !.carries = m]
    <3> HIDE DEF m
    <3>1. d.ambient = boundary.ambient /\ d.carries = m /\ d \in [{"flow", "carries", "ambient"} -> {d.flow, d.carries, d.ambient}]
      BY <1>2 DEF Streams
    <3> HIDE DEF d
    <3>2. [d EXCEPT !.flow = f].ambient = d.ambient /\ [d EXCEPT !.flow = f].carries = d.carries
      BY <3>1
    <3> QED BY <3>1, <3>2 DEF d, m
  <2> HIDE DEF mixed
  <2>5. boundary' = b
    BY <1>5 DEF f, set
  <2> HIDE DEF b
  <2>6. StepReactor(b) /\ BoundaryWithin(b, lo, hi)
    BY <1>3, <1>5, <2>3, <2>4, <2>5
  <2>7. ~clipped' /\ TankWithin(lo, hi)'
    BY <2>3, <2>6, StepReactorPhysical DEF WorkerInv, Physical
  <2> QED BY <2>5, <2>6, <2>7 DEF Physical
<1>6. \/ boundary' = mixed /\ UNCHANGED <<tank, scale, elapsed, setpoint, ledger, clipped>>
      \/ /\ setpoint' = SetActuators(c)
         /\ \/ boundary' = mixed /\ UNCHANGED <<tank, scale, elapsed, ledger, clipped>>
            \/ \E slow \in SUBSET Stream : \E flow \in {Delivered(setpoint', slow)} :
                 /\ boundary' = [mixed EXCEPT !.flow = flow]
                 /\ StepReactor(boundary')
  BY DEF Advance, x, y
<1> QED BY <1>4, <1>5, <1>6

LEMMA PhysicalKeeps ==
  ASSUME NEW lo \in Nat, NEW hi \in 0 .. 100,
         \A k \in DOMAIN Site : lo <= Site[k] /\ Site[k] <= hi
  PROVE  /\ Init => Physical(lo, hi)
         /\ RunInv /\ Physical(lo, hi) /\ [Next]_vars => Physical(lo, hi)'
<1>1. Init => Physical(lo, hi)
  <2> SUFFICES ASSUME Init PROVE Physical(lo, hi)
    OBVIOUS
  <2>1. \A s \in Species : Fill[s] \in Int /\ Within(lo, hi, s, Fill[s], 1)
    <3> TAKE s \in Species
    <3>1. Lower(lo, s) * 1 = Lower(lo, s) /\ Upper(hi, s) * 1 = Upper(hi, s) /\ Richest \in Nat
      <4>1. hi \in Nat
        OBVIOUS
      <4> QED BY <4>1, LimitTypes
    <3>2. lo <= Site["tank"] /\ Site["tank"] <= hi /\ Site["tank"] \in Int
      OBVIOUS
    <3>3. 1 <= TopAcidity /\ 2 <= Richest
      BY StepAssumption DEF Richest
    <3> QED BY <3>1, <3>2, <3>3 DEF Fill, Within, Lower, Upper, Species, Reagent
  <2>2. TankWithin(lo, hi)
    BY <2>1 DEF Init, TankWithin
  <2>3. BoundaryWithin(boundary, lo, hi)
    <3>1. 1 \in Level /\ hi \in Nat
      BY DEF Level
    <3>2. boundary.carries = Carries(1, 1) /\ boundary.ambient = Site["ambient"]
      BY DEF Init
    <3>3. \A k \in Stream : \A s \in Species : Within(lo, hi, s, Carries(1, 1)[k][s], 1)
      BY <3>1, CarriesWithin
    <3> QED BY <3>2, <3>3 DEF BoundaryWithin
  <2> QED BY <2>2, <2>3 DEF Init, Physical
<1>2. RunInv /\ Physical(lo, hi) /\ [Next]_vars => Physical(lo, hi)'
  <2> SUFFICES ASSUME RunInv, Physical(lo, hi), [Next]_vars PROVE Physical(lo, hi)'
    OBVIOUS
  <2>1. ASSUME NEW op \in OperatorState, NEW dt \in {0, 1}, TickOnce(op, dt)
        PROVE  Physical(lo, hi)'
    <3>1. Evaluate(op) \in Control
      BY ControlTypes
    <3>2. CASE Advance(Evaluate(op), dt)
      BY <3>1, <3>2, AdvancePhysical DEF RunInv
    <3>3. CASE UNCHANGED workerVars
      BY <3>3 DEF workerVars, Physical, TankWithin
    <3> QED BY <2>1, <3>2, <3>3 DEF TickOnce, Succeed, Raise
  <2>2. CASE Tick
    BY <2>1, <2>2 DEF Tick, RunInv
  <2>3. CASE Write
    <3>1. PICK o \in Orders : TickOnce(Ordered(o[1], o[2]), 0)
      BY <2>3 DEF Write
    <3>2. Ordered(o[1], o[2]) \in OperatorState
      BY ControlTypes DEF Ordered, RunInv
    <3> QED BY <2>1, <3>1, <3>2
  <2>4. CASE FirstView
    BY <2>1, <2>4 DEF FirstView, RunInv
  <2>5. CASE UNCHANGED vars
    BY <2>5 DEF vars, workerVars, Physical, TankWithin
  <2> QED BY <2>2, <2>3, <2>4, <2>5 DEF Next
<1> QED BY <1>1, <1>2

(* THE STATE STAYS PHYSICAL BY ITSELF.  With a step that is short against the       *)
(* fastest change, the bounds are never enforced, and no zone is ever warmer or     *)
(* colder than all that feeds, fills or surrounds the tank.                    *)
THEOREM NothingIsClipped == Spec => []StaysPhysical
<1> DEFINE D == {"tank", "inlet", "dose", "ambient"}
<1>1. PICK coldest \in D : \A k \in D : Site[coldest] <= Site[k]
  <2>1. \A k \in D : Site[k] \in Int
    OBVIOUS
  <2> QED BY <2>1
<1>2. PICK hottest \in D : \A k \in D : Site[k] <= Site[hottest]
  <2>1. \A k \in D : Site[k] \in Int
    OBVIOUS
  <2> QED BY <2>1
<1> DEFINE lo == Site[coldest]
           hi == Site[hottest]
<1>3. lo \in Nat /\ hi \in 0 .. 100 /\ DOMAIN Site = D
  OBVIOUS
<1>4. \A k \in DOMAIN Site : lo <= Site[k] /\ Site[k] <= hi
  BY <1>1, <1>2, <1>3
<1>5. Physical(lo, hi) => StaysPhysical
  <2>1. "temperature" \in Species
    BY DEF Species
  <2>2. TankWithin(lo, hi) => \A i \in Zone : /\ lo * scale <= tank["temperature"][i]
                                             /\ tank["temperature"][i] <= hi * scale
    <3> HIDE DEF lo, hi
    <3> QED BY <2>1 DEF TankWithin, Within, Lower, Upper
  <2> QED BY <1>3, <2>2 DEF Physical, StaysPhysical
<1> HIDE DEF lo, hi
<1>6. Init => Physical(lo, hi)
  BY <1>3, <1>4, PhysicalKeeps
<1>7. RunInv /\ Physical(lo, hi) /\ [Next]_vars => Physical(lo, hi)'
  BY <1>3, <1>4, PhysicalKeeps
<1> QED BY <1>5, <1>6, <1>7, Invariance, PTL DEF Spec
=============================================================================
