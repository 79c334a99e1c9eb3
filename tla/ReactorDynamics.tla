--------------------------- MODULE ReactorDynamics ---------------------------
(***************************************************************************)
(* The right-hand side of the tank's equations (core/reactor_dynamics.py).    *)
(* A quantity is a whole number over scale, so that sums are exact.  Acidity  *)
(* stands for pH, which moves against it.  Rate constants are whole numbers   *)
(* of one unit and do not depend on pH and temperature, as the code's do.     *)
(***************************************************************************)
EXTENDS ReactorTransport

CONSTANTS
  Ratio,       \* CL2_PER_N_MASS, in the unit ammonia is counted in
  BufferWeight,\* how much the carbonate system resists a change of acidity
  HeatLoss     \* heat_loss_coefficient, 0 for an adiabatic tank

ASSUME DynamicsAssumption ==
  {Ratio, BufferWeight} \subseteq Nat \ {0} /\ HeatLoss \in Nat

Reagent == {"chlorine", "ammonia", "chloramine", "demand"}
Species == Reagent \cup {"acidity", "temperature"}
Stream  == {"inlet", "acid", "chlorine"}

StreamSum(f(_)) == f("inlet") + f("acid") + f("chlorine")

(* A boundary gives each stream a flow, what it carries, and the ambient.     *)
TotalFlow(boundary) == StreamSum(LAMBDA k : boundary.flow[k])

(* Q_per_V times the difference between the mixed influent and zone 0; with   *)
(* no flow at all the influent is zone 0 itself.                             *)
Inflow(boundary, s, own, scale) ==
  StreamSum(LAMBDA k : boundary.flow[k] * boundary.carries[k][s]) * scale
    - TotalFlow(boundary) * own

(* Mutant: the difference is taken the wrong way round.                      *)
AdvectionReversed(boundary, s, c, scale, i) ==
  IF i = 0 THEN Inflow(boundary, s, c[0], scale)
  ELSE TotalFlow(boundary) * (c[i] - c[i - 1])

(* Through-flow: zone i receives from zone i - 1 and passes on its own.       *)
Advection(boundary, s, c, scale, i) ==
  IF i = 0 THEN Inflow(boundary, s, c[0], scale)
  ELSE TotalFlow(boundary) * (c[i - 1] - c[i])

Mixing(matrix, c, i) == ZoneSum([j \in Zone |-> matrix[<<i, j>>] * c[j]])

Transport(boundary, matrix, s, c, scale, i) ==
  Advection(boundary, s, c, scale, i) + Mixing(matrix, c, i)

-----------------------------------------------------------------------------
(* The four reactions in one zone.  Two of them are products of what reacts,  *)
(* rounded down.                                                             *)
FreeDecay(tank, i)         == tank["chlorine"][i]
AmmoniaConsumed(tank, scale, i) == (tank["chlorine"][i] * tank["ammonia"][i]) \div scale
DemandConsumed(tank, scale, i)  == (tank["chlorine"][i] * tank["demand"][i]) \div scale
ChloramineDecay(tank, i)   == tank["chloramine"][i] \div 2

Reaction(tank, scale, s, i) ==
  LET fromAmmonia == Ratio * AmmoniaConsumed(tank, scale, i) IN
  CASE s = "chlorine"   -> -(FreeDecay(tank, i) + fromAmmonia + DemandConsumed(tank, scale, i))
    [] s = "ammonia"    -> -AmmoniaConsumed(tank, scale, i)
    [] s = "demand"     -> -DemandConsumed(tank, scale, i)
    [] s = "chloramine" -> fromAmmonia - ChloramineDecay(tank, i)
    [] OTHER            -> 0

(* What leaves through the wall.                                             *)
Cooling(boundary, tank, scale, i) ==
  HeatLoss * (tank["temperature"][i] - boundary.ambient * scale)

(* buffering_capacity, as a weight: the carbonate system takes up most of it.  *)
Buffered(moved) == moved \div BufferWeight

(* calculate_derivatives: the change of s in zone i, in the unit of rates,    *)
(* with the matrix of this evaluation.                                       *)
Derivative(boundary, matrix, tank, scale, s, i) ==
  LET moved == Transport(boundary, matrix, s, tank[s], scale, i)
  IN  CASE s \in Reagent     -> moved + Reaction(tank, scale, s, i)
        [] s = "acidity"     -> Buffered(moved)
        [] s = "temperature" -> moved - Cooling(boundary, tank, scale, i)
=============================================================================
