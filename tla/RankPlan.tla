------------------------------- MODULE RankPlan -------------------------------
(***************************************************************************)
(* The planner that gives every quantization unit (a layer or a group of   *)
(* layers with shared input) its factor rank, under an exact bit budget.   *)
(*                                                                         *)
(* A unit of rank r costs Charged + Scales + r * PerRank bits: PerRank is  *)
(* out + in + 16, Scales the row and column scales, Charged the outliers,  *)
(* bias and patch that count against the budget.  Utilities, sensitivities *)
(* and error curves are floating-point data that only decide which unit is *)
(* served first: here any unit that may be served may be the first.        *)
(* Fractions are percentages.                                              *)
(***************************************************************************)
EXTENDS Integers, FiniteSets

CONSTANTS
    NumUnits,    \* units of the model, in plan order
    PerRank,     \* bits of one rank, per unit
    Scales,      \* bits of the row and column scales, per unit
    Charged,     \* charged side bits, per unit
    Elements,    \* weights, per unit
    Maximum,     \* _maximum_factor_rank, per unit: aligned
    Multiple,    \* bounds.multiple
    Policies,    \* the policies a run may be planned with, see Policy
    Multiplied,  \* units that match a layer_budget_multipliers pattern
    Multiplier,  \* its multiplier, a percentage
    AtMaximum    \* units that match a maximum_rank_layer_patterns pattern

Units == 1 .. NumUnits

\* bpw: target_bpw; floor, ceiling: floor_ and ceiling_fraction_of_uniform;
\* protected: units held at their baseline rank; trust: rank_trust_fraction,
\* 100 when unused; above: retry.allow_above_allocator_cap.
Policy ==
    [strategy : {"uniform", "utility", "sensitivity", "reconstruction"},
     bpw : Nat, floor : Nat, ceiling : Nat, protected : SUBSET Units, trust : 0 .. 100,
     above : BOOLEAN]

Down(n) == (n \div Multiple) * Multiple

ASSUME PlanAssumption ==
    /\ NumUnits \in Nat \ {0}
    /\ PerRank \in [Units -> Nat \ {0}]
    /\ Scales \in [Units -> Nat]
    /\ Charged \in [Units -> Nat]
    /\ Elements \in [Units -> Nat]
    /\ Multiple \in Nat \ {0}
    /\ Maximum \in [Units -> Nat] /\ \A u \in Units : Down(Maximum[u]) = Maximum[u]
    /\ Policies \subseteq Policy
    /\ Multiplied \subseteq Units /\ AtMaximum \subseteq Units
    /\ Multiplier \in Nat

VARIABLES
    policy,   \* the allocation configuration
    phase,    \* where the planner is
    base,     \* base_ranks: what the unit's own share of the target funds
    ranks,    \* the ranks planned so far
    floors,   \* lower bounds of the ranks
    caps,     \* upper bounds of the ranks
    goals,    \* targets of the sensitivity strategy
    spent,    \* the planner's running count of bits
    limit     \* the budget it is working under

planVars == <<policy, phase, base, ranks, floors, caps, goals, spent, limit>>

None == [u \in Units |-> 0]
NoPolicy == [strategy |-> "none"]

Max2(a, b) == IF a >= b THEN a ELSE b
Min2(a, b) == IF a <= b THEN a ELSE b
Up(n) == ((n + Multiple - 1) \div Multiple) * Multiple

\* n / d rounded to an integer; a tie may go either way.
Nearest(n, d) == {k \in 0 .. n : 2 * (n - k * d) \in -d .. d}

SumOver(f) ==
    LET sum[n \in 0 .. NumUnits] == IF n = 0 THEN 0 ELSE sum[n - 1] + f[n]
    IN  sum[NumUnits]

\* factor_bit_cost, and budget_cost with the side bits.
FactorBits(u, r) == Scales[u] + r * PerRank[u]
BudgetCost(u, r) == Charged[u] + FactorBits(u, r)
Marginal(u) == Multiple * PerRank[u]
Funded(u) == (Elements[u] * policy.bpw) \div 100
Target == (SumOver(Elements) * policy.bpw) \div 100
PlanCost(r) == SumOver([u \in Units |-> BudgetCost(u, r[u])])

\* The share of the budget that goes with the rank, as the sensitivity
\* strategy counts it.
RankUnits(r) == SumOver([u \in Units |-> r[u] * PerRank[u]])

RankRange == UNION {0 .. Maximum[u] : u \in Units}
Aligned(u) == {r \in 0 .. Maximum[u] : r % Multiple = 0}

PlanInit ==
    /\ policy \in Policies
    /\ phase = "base"
    /\ base = None /\ ranks = None /\ floors = None /\ caps = None /\ goals = None
    /\ spent = 0 /\ limit = 0

-----------------------------------------------------------------------------
\* b is the largest aligned rank that unit u's own share of the target funds.
FundedRank(u, b) ==
    /\ b \in Aligned(u) \ {0}
    /\ BudgetCost(u, b) <= Funded(u)
    /\ \A r \in Aligned(u) : r > b => BudgetCost(u, r) > Funded(u)

FloorRank(b) == Max2(Multiple, Down((b * policy.floor) \div 100))
CapRank(u, b) == Min2(Maximum[u], Max2(Multiple, Down((b * policy.ceiling) \div 100)))

\* Base ranks, bounds, and the cheapest plan, which must be affordable.
PlanBase ==
    /\ phase = "base"
    /\ \E b \in [Units -> RankRange] :
        /\ \A u \in Units : FundedRank(u, b[u])
        /\ base' = b
        /\ caps' = [u \in Units |->
                IF policy.strategy = "uniform" THEN b[u] ELSE CapRank(u, b[u])]
        /\ floors' = [u \in Units |->
                IF policy.strategy = "uniform" THEN b[u] ELSE FloorRank(b[u])]
        /\ ranks' = [u \in Units |-> Min2(floors'[u], caps'[u])]
        /\ spent' = PlanCost(ranks')
        /\ phase' = IF spent' > Target THEN "refused" ELSE "bounded"
    /\ limit' = Target
    /\ UNCHANGED <<policy, goals>>

\* The target cannot fund the smallest aligned factors of some unit.
Unfundable ==
    /\ phase = "base"
    /\ \E u \in Units : \A b \in Aligned(u) : ~ FundedRank(u, b)
    /\ phase' = "refused"
    /\ UNCHANGED <<policy, base, ranks, floors, caps, goals, spent, limit>>

StartGreedy ==
    /\ phase = "bounded"
    /\ policy.strategy \in {"uniform", "utility"}
    /\ phase' = "grow"
    /\ UNCHANGED <<policy, base, ranks, floors, caps, goals, spent, limit>>

\* A rank unit goes to one of the units that can still pay for it.
Grow(u) ==
    /\ phase = "grow"
    /\ ranks[u] + Multiple <= caps[u]
    /\ spent + Marginal(u) <= limit
    /\ ranks' = [ranks EXCEPT ![u] = @ + Multiple]
    /\ spent' = spent + Marginal(u)
    /\ UNCHANGED <<policy, phase, base, floors, caps, goals, limit>>

Grown ==
    /\ phase = "grow"
    /\ \A u \in Units :
        ranks[u] + Multiple > caps[u] \/ spent + Marginal(u) > limit
    /\ phase' = IF policy.strategy = "reconstruction"
                THEN IF policy.trust < 100 THEN "project" ELSE "decided"
                ELSE "planned budget"
    /\ UNCHANGED <<policy, base, ranks, floors, caps, goals, spent, limit>>

-----------------------------------------------------------------------------
(***************************************************************************)
(* Sensitivity with a utility profile: every unit gets a goal, the plan is *)
(* cut back to what the base ranks cost, and grown towards the goals.      *)
(***************************************************************************)
StartSensitivity ==
    /\ phase = "bounded"
    /\ policy.strategy = "sensitivity"
    /\ \E g \in [Units -> RankRange] :
        /\ goals' = g
        /\ ranks' = [u \in Units |-> Min2(caps[u], Max2(ranks[u], Down(g[u])))]
    /\ limit' = RankUnits(base)
    /\ phase' = "trim"
    /\ UNCHANGED <<policy, base, floors, caps, spent>>

Trim(u) ==
    /\ phase = "trim"
    /\ RankUnits(ranks) > limit
    /\ ranks[u] - Multiple >= floors[u]
    /\ ranks' = [ranks EXCEPT ![u] = @ - Multiple]
    /\ UNCHANGED <<policy, phase, base, floors, caps, goals, spent, limit>>

\* Broken form of Trimmed: the plan is cut back only once.
TrimmedAnyway ==
    /\ phase = "trim"
    /\ phase' = "grow to goals"
    /\ UNCHANGED <<policy, base, ranks, floors, caps, goals, spent, limit>>

Trimmed ==
    /\ phase = "trim"
    /\ RankUnits(ranks) > limit => \A u \in Units : ranks[u] - Multiple < floors[u]
    /\ phase' = "grow to goals"
    /\ UNCHANGED <<policy, base, ranks, floors, caps, goals, spent, limit>>

GrowToGoal(u) ==
    /\ phase = "grow to goals"
    /\ ranks[u] + Multiple <= caps[u]
    /\ ranks[u] < goals[u]
    /\ RankUnits(ranks) + Marginal(u) <= limit
    /\ ranks' = [ranks EXCEPT ![u] = @ + Multiple]
    /\ UNCHANGED <<policy, phase, base, floors, caps, goals, spent, limit>>

GoalsReached ==
    /\ phase = "grow to goals"
    /\ \A u \in Units :
        \/ ranks[u] + Multiple > caps[u]
        \/ ranks[u] >= goals[u]
        \/ RankUnits(ranks) + Marginal(u) > limit
    /\ spent' = PlanCost(ranks)
    /\ limit' = Target
    /\ phase' = "planned budget"
    /\ UNCHANGED <<policy, base, ranks, floors, caps, goals>>

-----------------------------------------------------------------------------
(***************************************************************************)
(* Reconstruction-aware: ranks grow from calibrated floors, protected      *)
(* units from their baseline, and may then be projected towards the ranks  *)
(* of a reference run.  The planner takes the result as decisions.         *)
(***************************************************************************)
ReconstructionFloor(u) ==
    Up((base[u] * (IF u \in policy.protected THEN Max2(policy.floor, 100) ELSE policy.floor)
        + 99) \div 100)
ReconstructionCap(u) == Min2(Down((base[u] * policy.ceiling) \div 100), Maximum[u])

StartReconstruction ==
    /\ phase = "bounded"
    /\ policy.strategy = "reconstruction"
    /\ floors' = [u \in Units |-> ReconstructionFloor(u)]
    /\ caps' = [u \in Units |-> ReconstructionCap(u)]
    /\ ranks' = floors'
    /\ spent' = PlanCost(floors')
    /\ phase' = IF spent' > Target \/ \E u \in Units : floors'[u] > caps'[u]
                THEN "refused" ELSE "grow"
    /\ UNCHANGED <<policy, base, goals, limit>>

\* The ranks of a reference run with the same side bits, and the budget it
\* leaves: not above the target, and not below what the reference ranks cost.
\* Every rank goes trust percent of the way from the reference.
Project ==
    /\ phase = "project"
    /\ \E ref \in [Units -> RankRange] :
        /\ \A u \in Units : ref[u] \in Aligned(u) /\ ref[u] >= Up((base[u] * policy.floor + 99) \div 100) /\ ref[u] <= caps[u]
        /\ PlanCost(ref) <= Target
        /\ \E t \in {PlanCost(ref), Target} : limit' = t
        /\ floors' = [u \in Units |-> Min2(floors[u], ref[u])]
        /\ \E k \in [Units -> RankRange] :
            /\ \A u \in Units :
                k[u] \in Nearest(100 * ref[u] + policy.trust * (ranks[u] - ref[u]), 100 * Multiple)
            /\ ranks' = [u \in Units |-> Min2(caps[u], Max2(floors'[u], k[u] * Multiple))]
    /\ spent' = PlanCost(ranks')
    /\ phase' = "trust"
    /\ UNCHANGED <<policy, base, caps, goals>>

TrustTrim(u) ==
    /\ phase = "trust"
    /\ spent > limit
    /\ ranks[u] - Multiple >= floors[u]
    /\ ranks' = [ranks EXCEPT ![u] = @ - Multiple]
    /\ spent' = spent - Marginal(u)
    /\ UNCHANGED <<policy, phase, base, floors, caps, goals, limit>>

\* The projection fails when no unit may give up a rank.
Trusted ==
    /\ phase = "trust"
    /\ spent > limit => \A u \in Units : ranks[u] - Multiple < floors[u]
    /\ phase' = IF spent > limit THEN "cannot project" ELSE "decided"
    /\ UNCHANGED <<policy, base, ranks, floors, caps, goals, spent, limit>>

\* _build_grouped_quantization_plan takes the decisions under its own bounds.
TakeDecisions ==
    /\ phase = "decided"
    /\ caps' = [u \in Units |-> CapRank(u, base[u])]
    /\ spent' = PlanCost(ranks)
    /\ limit' = Target
    /\ phase' = IF spent' <= Target /\ \A u \in Units : ranks[u] \in Multiple .. caps'[u]
                THEN "planned budget" ELSE "refused"
    /\ UNCHANGED <<policy, base, ranks, floors, goals>>

-----------------------------------------------------------------------------
\* r is the largest aligned rank the multiplied factor budget of unit u pays for.
PromotedRank(u, r) ==
    /\ r \in ranks[u] .. Max2(ranks[u], Maximum[u])
    /\ (r - ranks[u]) % Multiple = 0
    /\ r > ranks[u] => FactorBits(u, r) <= (FactorBits(u, ranks[u]) * Multiplier) \div 100
    /\ r + Multiple <= Maximum[u] =>
            FactorBits(u, r + Multiple) > (FactorBits(u, ranks[u]) * Multiplier) \div 100

\* What the retries of a unit may raise its rank to.
HardRankCap(u, cap) == IF policy.above THEN Maximum[u] ELSE cap

\* Additive promotions, after the planner has asserted that it kept the budget.
\* The plan is the ranks and the caps; the rest is not looked at again.
Promote ==
    /\ phase = "planned budget"
    /\ \E p \in [Units -> RankRange] :
        /\ \A u \in Multiplied : PromotedRank(u, p[u])
        /\ \A u \in Units \ Multiplied : p[u] = ranks[u]
        /\ ranks' = [u \in Units |-> IF u \in AtMaximum THEN Maximum[u] ELSE p[u]]
        /\ caps' = [u \in Units |->
                IF u \in AtMaximum THEN Maximum[u] ELSE HardRankCap(u, Max2(caps[u], p[u]))]
    /\ spent' = PlanCost(ranks')
    /\ phase' = IF spent > Target THEN "assertion failed" ELSE "planned"
    /\ policy' = NoPolicy /\ base' = None /\ floors' = None /\ goals' = None /\ limit' = 0

Plan ==
    \/ PlanBase \/ Unfundable \/ StartGreedy \/ Grown
    \/ StartSensitivity \/ Trimmed \/ GoalsReached
    \/ StartReconstruction \/ Project \/ Trusted \/ TakeDecisions
    \/ Promote
    \/ \E u \in Units : Grow(u) \/ Trim(u) \/ GrowToGoal(u) \/ TrustTrim(u)

PlanSpec == PlanInit /\ [][Plan]_planVars

-----------------------------------------------------------------------------
\* The plan never costs more than the target when the additive promotions
\* begin, whatever the strategy, and its running count is what the ranks cost;
\* no unit leaves its bounds on the way; and cutting back never ends above the
\* budget, so neither the planner's own assertion nor the projection onto a
\* reference run fails.
PlanFits ==
    /\ phase \notin {"assertion failed", "cannot project"}
    /\ phase \in {"grow", "trust", "planned budget", "planned"} => spent = PlanCost(ranks)
    /\ phase \in {"grow", "planned budget"} => PlanCost(ranks) <= Target
    /\ phase \in {"grow", "trim", "grow to goals", "trust"} =>
            \A u \in Units : ranks[u] \in Min2(floors[u], caps[u]) .. caps[u]
=============================================================================
