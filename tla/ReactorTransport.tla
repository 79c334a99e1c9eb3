--------------------------- MODULE ReactorTransport ---------------------------
(***************************************************************************)
(* How water and what is dissolved in it move between the zones of the tank   *)
(* (core/transport.py and core/spatial.py).  A matrix maps <<i, j>> to the    *)
(* rate at which zone i takes from zone j.  Rates are whole numbers of one    *)
(* unit, which stands for the coefficients the code computes from geometry,   *)
(* impeller and viscosity.                                                   *)
(***************************************************************************)
EXTENDS Integers

CONSTANTS
  Zones,       \* n_zones
  MixRate,     \* the exchange between neighbours that the impeller causes
  DesignFlow,  \* flow_rate of the configuration, 0 in batch mode
  Stratified   \* enable_thermal_stratification

ASSUME TransportAssumption ==
  /\ Zones \in Nat /\ Zones >= 2
  /\ MixRate \in Nat /\ MixRate % 2 = 0
  /\ DesignFlow \in Nat /\ Stratified \in BOOLEAN

Zone == 0 .. Zones - 1
Last == Zones - 1

(* The sum of a function of the zones, from the first to the last.             *)
ZoneSum(f) ==
  LET upTo[n \in 0 .. Zones] == IF n = 0 THEN 0 ELSE upTo[n - 1] + f[n - 1]
  IN  upTo[Zones]

(* The diagonal that conserves mass: minus the sum of the row's others.      *)
WithDiagonal(rate) ==
  [c \in Zone \X Zone |->
     IF c[1] # c[2] THEN rate[c]
     ELSE -ZoneSum([j \in Zone |-> IF j = c[1] THEN 0 ELSE rate[<<c[1], j>>]])]

(* _build_exchange_matrix: tridiagonal, and the design flow leaves from the   *)
(* last zone.                                                                *)
ExchangeMatrix ==
  LET tridiagonal == [c \in Zone \X Zone |-> IF c[1] - c[2] \in {-1, 1} THEN MixRate ELSE 0]
  IN  [WithDiagonal(tridiagonal) EXCEPT ![<<Last, Last>>] = @ - DesignFlow]

(* The two checks that refuse to build a tank.                               *)
MassBalanced ==
  \A i \in Zone : ZoneSum([j \in Zone |-> ExchangeMatrix[<<i, j>>]])
                    = IF i = Last THEN -DesignFlow ELSE 0

-----------------------------------------------------------------------------
(* calculate_water_density, above the 4 degrees at which water is densest:    *)
(* the warmer the lighter.                                                   *)
Denser(s, t) == s < t

(* is_stratification_stable between i and i + 1.  In a tank whose design flow  *)
(* is 0 the Richardson number is infinite; otherwise a velocity of 0.1 mm/s   *)
(* makes any rise of density from i to i + 1 exceed the critical number.      *)
Stable(temperature, i) ==
  DesignFlow = 0 \/ Denser(temperature[i + 1], temperature[i])

(* calculate_mixing_suppression, with its factor of one half.                *)
Suppressed(temperature, i) == Stratified /\ Stable(temperature, i)

(* Mutant: the diagonal is left as it was built.                             *)
MixingMatrixOldDiagonal(temperature) ==
  [c \in Zone \X Zone |->
     LET i == IF c[1] < c[2] THEN c[1] ELSE c[2] IN
     IF c[1] - c[2] \in {-1, 1} /\ Suppressed(temperature, i)
     THEN ExchangeMatrix[c] \div 2 ELSE ExchangeMatrix[c]]

(* The matrix of one evaluation: off the diagonal the exchange is suppressed  *)
(* where the water is layered; then the whole diagonal is computed again,     *)
(* without the outflow, which the through-flow of the dynamics replaces.      *)
MixingMatrix(temperature) ==
  WithDiagonal(
    [c \in Zone \X Zone |->
       LET i == IF c[1] < c[2] THEN c[1] ELSE c[2] IN
       IF c[1] - c[2] \in {-1, 1} /\ Suppressed(temperature, i)
       THEN ExchangeMatrix[c] \div 2 ELSE ExchangeMatrix[c]])
=============================================================================
