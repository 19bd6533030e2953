---------------------------- MODULE RankPlan_proofs ----------------------------
(***************************************************************************)
(* The planner keeps its bit budget and never fails to cut a plan back,    *)
(* for any number of units, any sizes, policies and utilities.             *)
(*                                                                         *)
(* A plan costs a sum over the units.  What is needed of such sums (that   *)
(* they are integers, grow with their terms, add up, scale, and change by  *)
(* what one term changes) is proved from a least number of units for which *)
(* it would be false.                                                      *)
(*                                                                         *)
(* The invariant, PlanInv: ranks, floors and caps are multiples of         *)
(* Multiple, the ranks are within their bounds, and there is a plan to     *)
(* fall back on that the budget pays for: the cheapest plan, the base      *)
(* ranks, or the ranks of the reference run.  A unit that cannot give up a *)
(* rank any more is at its floor, because both are multiples: when no unit *)
(* can, the plan costs no more than the one to fall back on.               *)
(***************************************************************************)
EXTENDS RankPlan, WellFoundedInduction, TLAPS

LEMMA LeastOf ==
    ASSUME NEW S \in SUBSET Nat, S # {}
    PROVE  \E x \in S : \A y \in S : x <= y
<1>1. PICK x \in S : \A y \in S : ~ (<<y, x>> \in OpToRel(<, Nat))
  BY NatLessThanWellFounded, WFMin, Zenon
<1>2. \A y \in S : ~ (y < x)
  BY <1>1, Zenon DEF OpToRel
<1> QED BY <1>2

-----------------------------------------------------------------------------
\* s adds up f, as far as m.
AddsUp(s, f, m) ==
    s = [n \in 0 .. m |-> IF n = 0 THEN 0 ELSE s[n - 1] + f[n]]

SumTo(f) == CHOOSE s : AddsUp(s, f, NumUnits)

Addable(f, m) == \E s : AddsUp(s, f, m)

LEMMA AddOne ==
    ASSUME NEW f, NEW m \in Nat, Addable(f, m) PROVE Addable(f, m + 1)
<1>1. PICK s : AddsUp(s, f, m)
  BY DEF Addable
<1> DEFINE t == [n \in 0 .. m + 1 |-> IF n = m + 1 THEN s[m] + f[m + 1] ELSE s[n]]
<1>2. \A n \in 0 .. m : s[n] = IF n = 0 THEN 0 ELSE s[n - 1] + f[n]
  BY <1>1 DEF AddsUp
<1>3. ASSUME NEW n \in 0 .. m + 1
      PROVE  t[n] = IF n = 0 THEN 0 ELSE t[n - 1] + f[n]
  <2>1. CASE n = m + 1
    BY <2>1
  <2>2. CASE n # m + 1
    <3>1. n \in 0 .. m /\ (n # 0 => n - 1 \in 0 .. m)
      BY <2>2
    <3>2. t[n] = s[n] /\ (n # 0 => t[n - 1] = s[n - 1])
      BY <3>1
    <3> QED BY <1>2, <3>1, <3>2
  <2> QED BY <2>1, <2>2
<1>4. t = [n \in 0 .. m + 1 |-> IF n = 0 THEN 0 ELSE t[n - 1] + f[n]]
  <2>1. t = [n \in 0 .. m + 1 |-> t[n]]
    OBVIOUS
  <2> HIDE DEF t
  <2> QED BY <1>3, <2>1
<1> QED BY <1>4 DEF AddsUp, Addable

LEMMA AllAddable == ASSUME NEW f, NEW m \in Nat PROVE Addable(f, m)
<1> SUFFICES ASSUME ~Addable(f, m) PROVE FALSE
  OBVIOUS
<1> DEFINE S == {n \in Nat : ~Addable(f, n)}
<1>1. PICK x \in S : \A y \in S : x <= y
  <2>1. S \in SUBSET Nat /\ S # {}
    OBVIOUS
  <2> QED BY <2>1, LeastOf
<1>2. Addable(f, 0)
  <2>1. [n \in 0 .. 0 |-> 0] = [n \in 0 .. 0 |-> IF n = 0 THEN 0 ELSE [k \in 0 .. 0 |-> 0][n - 1] + f[n]]
    OBVIOUS
  <2> QED BY <2>1 DEF AddsUp, Addable
<1>3. x \in Nat /\ ~Addable(f, x) /\ x # 0
  BY <1>2
<1>4. x - 1 \in Nat /\ x - 1 \notin S /\ (x - 1) + 1 = x
  BY <1>1, <1>3
<1>5. Addable(f, x - 1)
  BY <1>4
<1>6. Addable(f, (x - 1) + 1)
  BY <1>4, <1>5, AddOne
<1> QED BY <1>3, <1>4, <1>6

LEMMA SumToAdds == ASSUME NEW f PROVE AddsUp(SumTo(f), f, NumUnits)
<1>1. NumUnits \in Nat
  BY PlanAssumption
<1>2. \E s : AddsUp(s, f, NumUnits)
  BY <1>1, AllAddable DEF Addable
<1> QED BY <1>2 DEF SumTo

LEMMA SumIsSumTo == ASSUME NEW f PROVE SumOver(f) = SumTo(f)[NumUnits]
BY DEF SumOver, SumTo, AddsUp
-----------------------------------------------------------------------------
IntSeq == [0 .. NumUnits -> Int]

LEMMA UnitFacts ==
    /\ NumUnits \in Nat /\ NumUnits \in 0 .. NumUnits /\ 0 \in 0 .. NumUnits
    /\ \A n \in 0 .. NumUnits : n # 0 => n \in Units /\ n - 1 \in 0 .. NumUnits
    /\ Units \subseteq 0 .. NumUnits
BY PlanAssumption DEF Units

LEMMA SumToSteps ==
    ASSUME NEW f \in [Units -> Int]
    PROVE  /\ SumTo(f) \in IntSeq
           /\ SumTo(f)[0] = 0
           /\ \A n \in 1 .. NumUnits : SumTo(f)[n] = SumTo(f)[n - 1] + f[n]
<1>1. PICK s : s = SumTo(f)
  OBVIOUS
<1>2. s = [n \in 0 .. NumUnits |-> IF n = 0 THEN 0 ELSE s[n - 1] + f[n]]
  BY <1>1, SumToAdds DEF AddsUp
<1>3. \A n \in 0 .. NumUnits : s[n] = IF n = 0 THEN 0 ELSE s[n - 1] + f[n]
  BY <1>2
<1>4. \A n \in 0 .. NumUnits : s[n] \in Int
  <2> SUFFICES ASSUME NEW m \in 0 .. NumUnits, s[m] \notin Int PROVE FALSE
    OBVIOUS
  <2> DEFINE S == {n \in 0 .. NumUnits : s[n] \notin Int}
  <2>1. PICK x \in S : \A y \in S : x <= y
    <3>1. S \in SUBSET Nat /\ S # {}
      BY UnitFacts
    <3> QED BY <3>1, LeastOf
  <2>2. x \in 0 .. NumUnits /\ s[x] \notin Int
    OBVIOUS
  <2>3. x # 0
    BY <1>3, <2>2
  <2>4. x - 1 \in 0 .. NumUnits /\ x \in Units
    BY <2>2, <2>3, UnitFacts
  <2>5. s[x - 1] \in Int
    BY <2>1, <2>2, <2>4, UnitFacts
  <2> QED BY <1>3, <2>2, <2>3, <2>4, <2>5
<1>5. s \in IntSeq
  BY <1>2, <1>4 DEF IntSeq
<1>6. s[0] = 0 /\ \A n \in 1 .. NumUnits : s[n] = s[n - 1] + f[n]
  BY <1>3, UnitFacts DEF Units
<1> QED BY <1>1, <1>5, <1>6

LEMMA At ==
    ASSUME NEW s \in IntSeq, NEW n \in 1 .. NumUnits
    PROVE  s[n] \in Int /\ s[n - 1] \in Int
BY UnitFacts DEF IntSeq, Units

\* What starts lower and grows less ends lower.
LEMMA Slower ==
    ASSUME NEW s \in IntSeq, NEW t \in IntSeq, s[0] <= t[0],
           \A n \in 1 .. NumUnits : s[n] - s[n - 1] <= t[n] - t[n - 1]
    PROVE  s[NumUnits] <= t[NumUnits]
<1> SUFFICES ASSUME ~(s[NumUnits] <= t[NumUnits]) PROVE FALSE
  OBVIOUS
<1> DEFINE S == {n \in 0 .. NumUnits : ~(s[n] <= t[n])}
<1>1. PICK x \in S : \A y \in S : x <= y
  <2>1. S \in SUBSET Nat /\ S # {}
    BY UnitFacts
  <2> QED BY <2>1, LeastOf
<1>2. x \in 0 .. NumUnits /\ ~(s[x] <= t[x]) /\ x # 0
  OBVIOUS
<1>3. x - 1 \in 0 .. NumUnits /\ x \in 1 .. NumUnits
  BY <1>2, UnitFacts DEF Units
<1>4. s[x - 1] <= t[x - 1]
  BY <1>1, <1>2, <1>3, UnitFacts
<1>5. s[x] \in Int /\ s[x - 1] \in Int /\ t[x] \in Int /\ t[x - 1] \in Int
  BY <1>2, <1>3 DEF IntSeq
<1> QED BY <1>2, <1>3, <1>4, <1>5

LEMMA SumType == ASSUME NEW f \in [Units -> Int] PROVE SumOver(f) \in Int
BY SumToSteps, SumIsSumTo, UnitFacts DEF IntSeq

LEMMA SumGrows ==
    ASSUME NEW f \in [Units -> Int], NEW g \in [Units -> Int], \A u \in Units : f[u] <= g[u]
    PROVE  SumOver(f) <= SumOver(g)
<1>1. PICK s \in IntSeq : s = SumTo(f)
  BY SumToSteps
<1>2. PICK t \in IntSeq : t = SumTo(g)
  BY SumToSteps
<1>3. /\ s[0] = 0 /\ \A n \in 1 .. NumUnits : s[n] = s[n - 1] + f[n]
      /\ t[0] = 0 /\ \A n \in 1 .. NumUnits : t[n] = t[n - 1] + g[n]
  BY <1>1, <1>2, SumToSteps
<1>4. ASSUME NEW n \in 1 .. NumUnits PROVE s[n] - s[n - 1] <= t[n] - t[n - 1]
  <2>1. /\ s[n] \in Int /\ s[n - 1] \in Int /\ t[n] \in Int /\ t[n - 1] \in Int
        /\ f[n] \in Int /\ g[n] \in Int /\ f[n] <= g[n]
    BY UnitFacts DEF IntSeq, Units
  <2> QED BY <1>3, <2>1
<1>5. s[NumUnits] <= t[NumUnits]
  BY <1>3, <1>4, Slower
<1> QED BY <1>1, <1>2, <1>5, SumIsSumTo

\* Two sums at once.
LEMMA SumAdds ==
    ASSUME NEW f \in [Units -> Int], NEW g \in [Units -> Int], NEW h \in [Units -> Int],
           \A u \in Units : h[u] = f[u] + g[u]
    PROVE  SumOver(h) = SumOver(f) + SumOver(g)
<1>1. PICK s \in IntSeq : s = SumTo(f)
  BY SumToSteps
<1>2. PICK t \in IntSeq : t = SumTo(g)
  BY SumToSteps
<1>3. PICK r \in IntSeq : r = SumTo(h)
  BY SumToSteps
<1>4. /\ s[0] = 0 /\ \A n \in 1 .. NumUnits : s[n] = s[n - 1] + f[n]
      /\ t[0] = 0 /\ \A n \in 1 .. NumUnits : t[n] = t[n - 1] + g[n]
      /\ r[0] = 0 /\ \A n \in 1 .. NumUnits : r[n] = r[n - 1] + h[n]
  BY <1>1, <1>2, <1>3, SumToSteps
<1> DEFINE both == [n \in 0 .. NumUnits |-> s[n] + t[n]]
<1>a. both \in IntSeq
  BY DEF IntSeq
<1>5. PICK q \in IntSeq : q = both
  BY <1>a, Zenon
<1>6. q[0] = 0
  BY <1>4, <1>5, UnitFacts
<1>7. ASSUME NEW n \in 1 .. NumUnits PROVE q[n] - q[n - 1] = r[n] - r[n - 1]
  <2>1. /\ s[n] \in Int /\ s[n - 1] \in Int /\ t[n] \in Int /\ t[n - 1] \in Int
        /\ r[n] \in Int /\ r[n - 1] \in Int /\ f[n] \in Int /\ g[n] \in Int /\ h[n] \in Int
        /\ h[n] = f[n] + g[n]
    BY At DEF Units
  <2>2. q[n] = s[n] + t[n] /\ q[n - 1] = s[n - 1] + t[n - 1]
    BY <1>5, UnitFacts DEF Units
  <2>3. s[n] = s[n - 1] + f[n] /\ t[n] = t[n - 1] + g[n] /\ r[n] = r[n - 1] + h[n]
    BY <1>4
  <2> QED BY <2>1, <2>2, <2>3
<1>8. \A n \in 0 .. NumUnits : q[n] \in Int /\ r[n] \in Int
  BY DEF IntSeq
<1>9. \A n \in 1 .. NumUnits : q[n] - q[n - 1] <= r[n] - r[n - 1] /\ r[n] - r[n - 1] <= q[n] - q[n - 1]
  BY <1>7, <1>8, UnitFacts DEF Units
<1>10. q[NumUnits] <= r[NumUnits] /\ r[NumUnits] <= q[NumUnits]
  BY <1>4, <1>6, <1>9, Slower
<1>11. q[NumUnits] = r[NumUnits]
  BY <1>8, <1>10, UnitFacts
<1>12. q[NumUnits] = s[NumUnits] + t[NumUnits]
  BY <1>5, UnitFacts
<1> QED BY <1>1, <1>2, <1>3, <1>11, <1>12, SumIsSumTo

LEMMA SumScales ==
    ASSUME NEW f \in [Units -> Int], NEW c \in Int, NEW h \in [Units -> Int],
           \A u \in Units : h[u] = f[u] * c
    PROVE  SumOver(h) = SumOver(f) * c
<1>1. PICK s \in IntSeq : s = SumTo(f)
  BY SumToSteps
<1>2. PICK r \in IntSeq : r = SumTo(h)
  BY SumToSteps
<1>3. /\ s[0] = 0 /\ \A n \in 1 .. NumUnits : s[n] = s[n - 1] + f[n]
      /\ r[0] = 0 /\ \A n \in 1 .. NumUnits : r[n] = r[n - 1] + h[n]
  BY <1>1, <1>2, SumToSteps
<1> DEFINE scaled == [n \in 0 .. NumUnits |-> s[n] * c]
<1>a. scaled \in IntSeq
  BY DEF IntSeq
<1>4. PICK q \in IntSeq : q = scaled
  BY <1>a, Zenon
<1>5. q[0] = 0
  BY <1>3, <1>4, UnitFacts
<1>6. ASSUME NEW n \in 1 .. NumUnits PROVE q[n] - q[n - 1] = r[n] - r[n - 1]
  <2>1. /\ s[n] \in Int /\ s[n - 1] \in Int /\ r[n] \in Int /\ r[n - 1] \in Int
        /\ f[n] \in Int /\ h[n] \in Int /\ h[n] = f[n] * c
    BY At DEF Units
  <2>2. q[n] = s[n] * c /\ q[n - 1] = s[n - 1] * c
    BY <1>4, UnitFacts DEF Units
  <2>3. s[n] = s[n - 1] + f[n] /\ r[n] = r[n - 1] + h[n]
    BY <1>3
  <2>4. (s[n - 1] + f[n]) * c = s[n - 1] * c + f[n] * c
    BY <2>1
  <2>5. s[n - 1] * c \in Int /\ f[n] * c \in Int
    BY <2>1
  <2>6. q[n] - q[n - 1] = f[n] * c
    BY <2>2, <2>3, <2>4, <2>5
  <2> QED BY <2>1, <2>3, <2>6
<1>7. \A n \in 0 .. NumUnits : q[n] \in Int /\ r[n] \in Int
  BY DEF IntSeq
<1>8. \A n \in 1 .. NumUnits : q[n] - q[n - 1] <= r[n] - r[n - 1] /\ r[n] - r[n - 1] <= q[n] - q[n - 1]
  BY <1>6, <1>7, UnitFacts DEF Units
<1>9. q[NumUnits] <= r[NumUnits] /\ r[NumUnits] <= q[NumUnits]
  BY <1>3, <1>5, <1>8, Slower
<1>10. q[NumUnits] = r[NumUnits]
  BY <1>7, <1>9, UnitFacts
<1>11. q[NumUnits] = s[NumUnits] * c
  BY <1>4, UnitFacts
<1> QED BY <1>1, <1>2, <1>10, <1>11, SumIsSumTo

LEMMA SumOfOne ==
    ASSUME NEW u \in Units, NEW d \in Int
    PROVE  SumOver([v \in Units |-> IF v = u THEN d ELSE 0]) = d
<1> DEFINE f == [v \in Units |-> IF v = u THEN d ELSE 0]
<1>0. f \in [Units -> Int]
  OBVIOUS
<1>1. PICK s \in IntSeq : s = SumTo(f)
  BY <1>0, SumToSteps
<1>2. s[0] = 0 /\ \A n \in 1 .. NumUnits : s[n] = s[n - 1] + f[n]
  BY <1>0, <1>1, SumToSteps
<1> DEFINE step == [n \in 0 .. NumUnits |-> IF n < u THEN 0 ELSE d]
<1>a. step \in IntSeq
  BY DEF IntSeq
<1>3. PICK q \in IntSeq : q = step
  BY <1>a, Zenon
<1>4. u \in 1 .. NumUnits
  BY DEF Units
<1>5. q[0] = 0 /\ q[NumUnits] = d
  BY <1>3, <1>4, UnitFacts
<1>6. ASSUME NEW n \in 1 .. NumUnits PROVE q[n] - q[n - 1] = s[n] - s[n - 1]
  <2>1. s[n] \in Int /\ s[n - 1] \in Int
    BY UnitFacts DEF IntSeq, Units
  <2>2. s[n] - s[n - 1] = f[n] /\ f[n] = IF n = u THEN d ELSE 0
    BY <1>2, <2>1 DEF Units
  <2>3. q[n] = (IF n < u THEN 0 ELSE d) /\ q[n - 1] = (IF n - 1 < u THEN 0 ELSE d)
    BY <1>3, UnitFacts DEF Units
  <2>4. n \in Int /\ u \in Int
    BY <1>4
  <2> QED BY <2>2, <2>3, <2>4
<1>7. \A n \in 0 .. NumUnits : q[n] \in Int /\ s[n] \in Int
  BY DEF IntSeq
<1>8. \A n \in 1 .. NumUnits : q[n] - q[n - 1] <= s[n] - s[n - 1] /\ s[n] - s[n - 1] <= q[n] - q[n - 1]
  BY <1>6, <1>7, UnitFacts DEF Units
<1>9. q[NumUnits] <= s[NumUnits] /\ s[NumUnits] <= q[NumUnits]
  BY <1>2, <1>5, <1>8, Slower
<1>10. q[NumUnits] = s[NumUnits]
  BY <1>7, <1>9, UnitFacts
<1> QED BY <1>0, <1>1, <1>5, <1>10, SumIsSumTo

\* One part of a sum changes.
LEMMA SumChanges ==
    ASSUME NEW f \in [Units -> Int], NEW h \in [Units -> Int], NEW u \in Units, NEW d \in Int,
           h[u] = f[u] + d, \A v \in Units : v # u => h[v] = f[v]
    PROVE  SumOver(h) = SumOver(f) + d
<1> DEFINE only == [v \in Units |-> IF v = u THEN d ELSE 0]
<1>a. only \in [Units -> Int]
  OBVIOUS
<1>1. PICK g \in [Units -> Int] : g = only
  BY <1>a, Zenon
<1>2. ASSUME NEW v \in Units PROVE h[v] = f[v] + g[v]
  BY <1>1
<1>3. SumOver(h) = SumOver(f) + SumOver(g)
  BY <1>2, SumAdds
<1> QED BY <1>1, <1>3, SumOfOne
-----------------------------------------------------------------------------
(***************************************************************************)
(* Ranks: they are multiples of Multiple, and what they cost.              *)
(***************************************************************************)
LEMMA Times ==
    ASSUME NEW x \in Int, NEW y \in Int, NEW m \in Nat, x <= y
    PROVE  x * m \in Int /\ y * m \in Int /\ x * m <= y * m
<1>1. (y - x) \in Nat
  OBVIOUS
<1>2. (y - x) * m \in Nat /\ (y - x) * m = y * m - x * m
  BY <1>1
<1> QED BY <1>2

IsAligned(n) == \E k \in Int : n = k * Multiple

LEMMA MultipleFact == Multiple \in Nat /\ Multiple > 0 /\ Multiple \in Int
BY PlanAssumption

LEMMA AlignedFact ==
    ASSUME NEW n \in Int
    PROVE  /\ Down(n) \in Int /\ Up(n) \in Int
           /\ IsAligned(Down(n)) /\ IsAligned(Up(n))
<1>1. n \div Multiple \in Int /\ (n + Multiple - 1) \div Multiple \in Int
  BY MultipleFact
<1>2. ASSUME NEW k \in Int PROVE k * Multiple \in Int
  BY MultipleFact
<1> QED BY <1>1, <1>2 DEF Down, Up, IsAligned

LEMMA AlignedRank ==
    ASSUME NEW u \in Units, NEW r \in Aligned(u)
    PROVE  r \in Int /\ IsAligned(r)
<1>1. r \in Int /\ r % Multiple = 0
  BY PlanAssumption DEF Aligned
<1>2. r = Multiple * (r \div Multiple) + (r % Multiple) /\ r \div Multiple \in Int
  BY <1>1, MultipleFact
<1>3. r = (r \div Multiple) * Multiple
  BY <1>1, <1>2, MultipleFact
<1> QED BY <1>1, <1>2, <1>3 DEF IsAligned

LEMMA MaximumFact ==
    ASSUME NEW u \in Units PROVE Maximum[u] \in Int /\ IsAligned(Maximum[u])
<1>1. Maximum[u] \in Int /\ Down(Maximum[u]) = Maximum[u]
  BY PlanAssumption
<1> QED BY <1>1, AlignedFact

LEMMA MultipleAligned == IsAligned(Multiple)
<1>1. Multiple = 1 * Multiple
  BY MultipleFact
<1> QED BY <1>1 DEF IsAligned

\* A rank that cannot be cut back to its floor is not above it.
LEMMA NotAbove ==
    ASSUME NEW r \in Int, NEW f \in Int, IsAligned(r), IsAligned(f), r - Multiple < f
    PROVE  r <= f
<1>1. PICK a \in Int : r = a * Multiple
  BY DEF IsAligned
<1>2. PICK b \in Int : f = b * Multiple
  BY DEF IsAligned
<1>3. SUFFICES ASSUME ~(a <= b) PROVE FALSE
  BY <1>1, <1>2, Times, MultipleFact
<1>4. b <= a - 1 /\ a - 1 \in Int
  BY <1>3
<1>5. b * Multiple <= (a - 1) * Multiple
  BY <1>4, Times, MultipleFact
<1>6. (a - 1) * Multiple = a * Multiple - Multiple
  BY MultipleFact
<1> QED BY <1>1, <1>2, <1>5, <1>6, MultipleFact

LEMMA AlignedSteps ==
    ASSUME NEW r \in Int, IsAligned(r)
    PROVE  /\ r + Multiple \in Int /\ IsAligned(r + Multiple)
           /\ r - Multiple \in Int /\ IsAligned(r - Multiple)
<1>1. PICK k \in Int : r = k * Multiple
  BY DEF IsAligned
<1>2. r + Multiple = (k + 1) * Multiple /\ r - Multiple = (k - 1) * Multiple
  BY <1>1, MultipleFact
<1>3. k + 1 \in Int /\ k - 1 \in Int
  OBVIOUS
<1> QED BY <1>2, <1>3, MultipleFact DEF IsAligned

LEMMA Between ==
    ASSUME NEW a \in Int, NEW b \in Int
    PROVE  /\ Max2(a, b) \in Int /\ Max2(a, b) >= a /\ Max2(a, b) >= b
           /\ Max2(a, b) = a \/ Max2(a, b) = b
           /\ Min2(a, b) \in Int /\ Min2(a, b) <= a /\ Min2(a, b) <= b
           /\ Min2(a, b) = a \/ Min2(a, b) = b
BY DEF Max2, Min2

Ranks == [Units -> Int]

AllAligned(r) == \A u \in Units : IsAligned(r[u])

-----------------------------------------------------------------------------
LEMMA BitFacts ==
    ASSUME NEW u \in Units
    PROVE  /\ PerRank[u] \in Nat /\ PerRank[u] \in Int /\ Scales[u] \in Int
           /\ Charged[u] \in Int /\ Elements[u] \in Int
BY PlanAssumption

Costs(r) == [u \in Units |-> BudgetCost(u, r[u])]
UnitBits(r) == [u \in Units |-> r[u] * PerRank[u]]
Fixed == [u \in Units |-> Charged[u] + Scales[u]]

LEMMA CostIs ==
    ASSUME NEW r \in Ranks, NEW u \in Units
    PROVE  /\ Costs(r)[u] = Charged[u] + (Scales[u] + r[u] * PerRank[u])
           /\ r[u] * PerRank[u] \in Int /\ Costs(r)[u] \in Int /\ Fixed[u] \in Int
           /\ Costs(r)[u] = Fixed[u] + UnitBits(r)[u]
           /\ UnitBits(r)[u] = r[u] * PerRank[u]
<1>1. r[u] \in Int
  BY DEF Ranks
<1>2. r[u] * PerRank[u] \in Int
  BY <1>1, BitFacts
<1> QED BY <1>2, BitFacts DEF Costs, BudgetCost, FactorBits, Fixed, UnitBits

LEMMA CostTypes ==
    ASSUME NEW r \in Ranks
    PROVE  /\ Costs(r) \in [Units -> Int] /\ UnitBits(r) \in [Units -> Int]
           /\ Fixed \in [Units -> Int]
           /\ PlanCost(r) = SumOver(Costs(r)) /\ RankUnits(r) = SumOver(UnitBits(r))
           /\ PlanCost(r) \in Int /\ RankUnits(r) \in Int
<1>1. \A u \in Units : Costs(r)[u] \in Int /\ UnitBits(r)[u] \in Int /\ Fixed[u] \in Int
  BY CostIs
<1>2. /\ Costs(r) \in [Units -> Int] /\ UnitBits(r) \in [Units -> Int]
      /\ Fixed \in [Units -> Int]
  BY <1>1 DEF Costs, UnitBits, Fixed
<1>3. PlanCost(r) = SumOver(Costs(r)) /\ RankUnits(r) = SumOver(UnitBits(r))
  BY DEF PlanCost, RankUnits, Costs, UnitBits
<1> QED BY <1>2, <1>3, SumType

LEMMA CostSplits ==
    ASSUME NEW r \in Ranks
    PROVE  PlanCost(r) = SumOver(Fixed) + RankUnits(r) /\ SumOver(Fixed) \in Int
BY CostTypes, CostIs, SumAdds, SumType

\* A plan of lower ranks is cheaper.
LEMMA CostGrows ==
    ASSUME NEW r \in Ranks, NEW q \in Ranks, \A u \in Units : r[u] <= q[u]
    PROVE  PlanCost(r) <= PlanCost(q)
<1>1. ASSUME NEW u \in Units PROVE Costs(r)[u] <= Costs(q)[u]
  <2>1. r[u] * PerRank[u] <= q[u] * PerRank[u]
    BY Times, BitFacts DEF Ranks
  <2> QED BY <2>1, CostIs, BitFacts
<1> QED BY <1>1, CostTypes, SumGrows

\* What a step of one unit adds is its marginal cost.
LEMMA CostChanges ==
    ASSUME NEW r \in Ranks, NEW q \in Ranks, NEW u \in Units, NEW d \in Int,
           q[u] = r[u] + d, \A v \in Units : v # u => q[v] = r[v]
    PROVE  /\ RankUnits(q) = RankUnits(r) + d * PerRank[u]
           /\ PlanCost(q) = PlanCost(r) + d * PerRank[u]
           /\ d * PerRank[u] \in Int
<1>1. r[u] \in Int /\ d * PerRank[u] \in Int
  BY BitFacts DEF Ranks
<1>2. (r[u] + d) * PerRank[u] = r[u] * PerRank[u] + d * PerRank[u]
  BY <1>1, BitFacts
<1>3. UnitBits(q)[u] = UnitBits(r)[u] + d * PerRank[u]
  BY <1>2, CostIs
<1>4. \A v \in Units : v # u => UnitBits(q)[v] = UnitBits(r)[v]
  BY CostIs
<1>5. RankUnits(q) = RankUnits(r) + d * PerRank[u]
  BY <1>1, <1>3, <1>4, CostTypes, SumChanges
<1>6. RankUnits(q) \in Int /\ RankUnits(r) \in Int
  BY CostTypes
<1> QED BY <1>1, <1>5, <1>6, CostSplits

LEMMA CostFollowsUnits ==
    ASSUME NEW r \in Ranks, NEW q \in Ranks, RankUnits(r) <= RankUnits(q)
    PROVE  PlanCost(r) <= PlanCost(q)
BY CostSplits, CostTypes

LEMMA PolicyFacts ==
    ASSUME NEW p \in Policies
    PROVE  /\ p.bpw \in Nat /\ p.floor \in Nat /\ p.ceiling \in Nat /\ p.trust \in Nat
           /\ p.strategy \in {"uniform", "utility", "sensitivity", "reconstruction"}
BY PlanAssumption DEF Policy

LEMMA Share ==
    ASSUME NEW x \in Int
    PROVE  x \div 100 \in Int /\ 100 * (x \div 100) <= x /\ x < 100 * (x \div 100) + 100
OBVIOUS

\* The shares of the units, each rounded down, are within the target.
LEMMA SharesFit ==
    ASSUME policy \in Policies, NEW f \in [Units -> Int],
           \A u \in Units : f[u] <= Funded(u)
    PROVE  SumOver(f) <= Target /\ Target \in Int
<1> DEFINE bits == [u \in Units |-> Elements[u] * policy.bpw]
           parts == [u \in Units |-> 100 * f[u]]
<1>0. policy.bpw \in Nat /\ policy.bpw \in Int
  BY PolicyFacts
<1>1. Elements \in [Units -> Int] /\ bits \in [Units -> Int] /\ parts \in [Units -> Int]
  BY <1>0, PlanAssumption
<1>2. ASSUME NEW u \in Units PROVE parts[u] <= bits[u]
  <2>1. Elements[u] * policy.bpw \in Int /\ f[u] \in Int
    BY <1>0, BitFacts
  <2>2. f[u] <= (Elements[u] * policy.bpw) \div 100
    BY DEF Funded
  <2>3. 100 * ((Elements[u] * policy.bpw) \div 100) <= Elements[u] * policy.bpw
        /\ (Elements[u] * policy.bpw) \div 100 \in Int
    BY <2>1, Share
  <2>4. 100 * f[u] <= Elements[u] * policy.bpw
    BY <2>1, <2>2, <2>3
  <2> QED BY <2>4
<1>3. SumOver(parts) <= SumOver(bits)
  BY <1>1, <1>2, SumGrows
<1>4. SumOver(bits) = SumOver(Elements) * policy.bpw
  BY <1>0, <1>1, SumScales
<1>5. SumOver(parts) = SumOver(f) * 100
  BY <1>1, SumScales
<1>6. SumOver(f) \in Int /\ SumOver(Elements) \in Int /\ SumOver(Elements) * policy.bpw \in Int
  BY <1>0, <1>1, SumType
<1>7. SumOver(f) * 100 <= SumOver(Elements) * policy.bpw
  BY <1>3, <1>4, <1>5
<1> HIDE DEF bits, parts
<1>8. PICK t \in Int : t = SumOver(Elements) * policy.bpw
  BY <1>6
<1>9. Target = t \div 100
  BY <1>8 DEF Target
<1> QED BY <1>6, <1>7, <1>8, <1>9, Share
-----------------------------------------------------------------------------
(***************************************************************************)
(* The planner.  Cutting back ends within the budget because a unit that   *)
(* cannot be cut further is at its floor or below: ranks, floors and caps  *)
(* are multiples of Multiple.  Then the plan costs no more than the one    *)
(* the planner began with, or the reference it is projected onto.          *)
(***************************************************************************)
Planning ==
    {"bounded", "grow", "trim", "grow to goals", "project", "trust", "decided"}

\* The lower one of two ranks, for each unit.
Lower(f, c) == [u \in Units |-> Min2(f[u], c[u])]

Lowest == Lower(floors, caps)

PlanTypes ==
    /\ phase # "planned" => policy \in Policies
    /\ base \in Ranks /\ ranks \in Ranks /\ floors \in Ranks /\ caps \in Ranks
    /\ spent \in Int /\ limit \in Int

WholeRanks == AllAligned(ranks) /\ AllAligned(floors) /\ AllAligned(caps)

InBounds == \A u \in Units : Lowest[u] <= ranks[u] /\ ranks[u] <= caps[u]

Affordable ==
    /\ phase \notin {"assertion failed", "cannot project"}
    /\ phase \in {"bounded", "trim", "grow to goals"} => PlanCost(base) <= Target
    /\ phase \in {"bounded", "trim"} => PlanCost(Lowest) <= Target
    /\ phase = "bounded" => ranks = Lowest
    /\ phase \in {"bounded", "grow"} => limit = Target
    /\ phase \in {"trim", "grow to goals"} => limit = RankUnits(base)
    /\ phase \in {"bounded", "grow", "trust", "planned budget", "planned"} =>
            spent = PlanCost(ranks)
    /\ phase \in {"grow", "grow to goals", "planned budget"} => PlanCost(ranks) <= Target
    /\ phase = "trust" => PlanCost(floors) <= limit

PlanInv ==
    /\ PlanTypes /\ Affordable
    /\ phase \in Planning => WholeRanks /\ InBounds

LEMMA TargetType == ASSUME policy \in Policies PROVE Target \in Int
<1>1. Elements \in [Units -> Int] /\ policy.bpw \in Int
  BY PolicyFacts, PlanAssumption
<1>2. SumOver(Elements) * policy.bpw \in Int
  BY <1>1, SumType
<1>3. PICK t \in Int : t = SumOver(Elements) * policy.bpw
  BY <1>2
<1> QED BY <1>3, Share DEF Target

LEMMA SameTarget == ASSUME policy' = policy PROVE Target' = Target
BY DEF Target

LEMMA RankRangeFact == RankRange \subseteq Int
BY PlanAssumption DEF RankRange

LEMMA LowerFact ==
    ASSUME NEW f \in Ranks, NEW c \in Ranks
    PROVE  /\ Lower(f, c) \in Ranks
           /\ \A u \in Units :
                /\ Lower(f, c)[u] <= f[u] /\ Lower(f, c)[u] <= c[u]
                /\ Lower(f, c)[u] = f[u] \/ Lower(f, c)[u] = c[u]
<1>1. ASSUME NEW u \in Units
      PROVE  /\ Lower(f, c)[u] \in Int
             /\ Lower(f, c)[u] <= f[u] /\ Lower(f, c)[u] <= c[u]
             /\ Lower(f, c)[u] = f[u] \/ Lower(f, c)[u] = c[u]
  <2>1. f[u] \in Int /\ c[u] \in Int
    BY DEF Ranks
  <2>2. Lower(f, c)[u] = Min2(f[u], c[u])
    BY DEF Lower
  <2> QED BY <2>1, <2>2, Between
<1>2. Lower(f, c) \in Ranks
  BY <1>1 DEF Ranks, Lower
<1> QED BY <1>1, <1>2

LEMMA InitPlan == PlanInit => PlanInv
<1> SUFFICES ASSUME PlanInit PROVE PlanInv
  OBVIOUS
<1>1. None \in Ranks
  BY DEF None, Ranks
<1>2. PlanTypes
  BY <1>1 DEF PlanInit, PlanTypes
<1> QED BY <1>2 DEF PlanInit, PlanInv, Affordable, Planning

\* Nothing but the phase changes.
OnlyPhase(to) == phase' = to /\ UNCHANGED <<policy, base, ranks, floors, caps, spent, limit>>

LEMMA PhaseStep ==
    ASSUME PlanInv,
           \/ phase = "base" /\ OnlyPhase("refused")
           \/ phase = "bounded" /\ OnlyPhase("grow")
           \/ phase = "grow" /\ \E to \in {"project", "decided", "planned budget"} : OnlyPhase(to)
           \/ phase = "trust" /\ OnlyPhase("decided")
    PROVE  PlanInv'
<1>0. policy' = policy /\ base' = base /\ ranks' = ranks /\ floors' = floors /\ caps' = caps
      /\ spent' = spent /\ limit' = limit
  BY DEF OnlyPhase
<1>1. Target' = Target /\ Lowest' = Lowest
  BY <1>0, SameTarget DEF Lowest
<1>2. phase' \in {"refused", "grow", "project", "decided", "planned budget"} /\ phase # "planned"
      /\ (phase' = "grow" => phase = "bounded") /\ (phase' = "planned budget" => phase = "grow")
      /\ (phase' \in Planning => phase \in Planning)
  BY DEF OnlyPhase, Planning
<1>3. PlanTypes'
  BY <1>0, <1>2 DEF PlanInv, PlanTypes
<1>4. Affordable'
  BY <1>0, <1>1, <1>2 DEF PlanInv, Affordable
<1>5. phase' \in Planning => WholeRanks' /\ InBounds'
  BY <1>0, <1>1, <1>2 DEF PlanInv, WholeRanks, InBounds, AllAligned
<1> QED BY <1>3, <1>4, <1>5 DEF PlanInv

-----------------------------------------------------------------------------
\* The floors and caps that follow from a base rank.
LEMMA BoundFacts ==
    ASSUME policy \in Policies, NEW u \in Units, NEW b \in Int, IsAligned(b)
    PROVE  /\ CapRank(u, b) \in Int /\ IsAligned(CapRank(u, b))
           /\ FloorRank(b) \in Int /\ IsAligned(FloorRank(b))
<1> DEFINE up == (b * policy.ceiling) \div 100
           low == (b * policy.floor) \div 100
<1>1. policy.ceiling \in Int /\ policy.floor \in Int
  BY PolicyFacts
<1>2. up \in Int /\ low \in Int
  BY <1>1
<1> HIDE DEF up, low
<1>3. /\ Down(up) \in Int /\ IsAligned(Down(up)) /\ Down(low) \in Int /\ IsAligned(Down(low))
      /\ Multiple \in Int /\ IsAligned(Multiple)
      /\ Maximum[u] \in Int /\ IsAligned(Maximum[u])
  BY <1>2, AlignedFact, MultipleFact, MultipleAligned, MaximumFact
<1>4. /\ Max2(Multiple, Down(up)) \in Int /\ IsAligned(Max2(Multiple, Down(up)))
      /\ Max2(Multiple, Down(low)) \in Int /\ IsAligned(Max2(Multiple, Down(low)))
  BY <1>3, Between
<1>5. /\ Min2(Maximum[u], Max2(Multiple, Down(up))) \in Int
      /\ IsAligned(Min2(Maximum[u], Max2(Multiple, Down(up))))
  BY <1>3, <1>4, Between
<1> QED BY <1>4, <1>5 DEF CapRank, FloorRank, up, low

LEMMA PlanBase_ == ASSUME PlanInv, PlanBase PROVE PlanInv'
<1>0. /\ phase = "base" /\ policy \in Policies /\ policy' = policy /\ limit' = Target
      /\ spent' = PlanCost(ranks')
      /\ phase' = IF spent' > Target THEN "refused" ELSE "bounded"
  BY DEF PlanBase, PlanInv, PlanTypes
<1>1. PICK b \in [Units -> RankRange] :
        /\ \A u \in Units : FundedRank(u, b[u])
        /\ base' = b
        /\ caps' = [u \in Units |->
                IF policy.strategy = "uniform" THEN b[u] ELSE CapRank(u, b[u])]
        /\ floors' = [u \in Units |->
                IF policy.strategy = "uniform" THEN b[u] ELSE FloorRank(b[u])]
        /\ ranks' = [u \in Units |-> Min2(floors'[u], caps'[u])]
  BY DEF PlanBase
<1>2. ASSUME NEW u \in Units
      PROVE  /\ b[u] \in Int /\ IsAligned(b[u]) /\ BudgetCost(u, b[u]) <= Funded(u)
             /\ caps'[u] \in Int /\ IsAligned(caps'[u])
             /\ floors'[u] \in Int /\ IsAligned(floors'[u])
  <2>1. b[u] \in Aligned(u) /\ BudgetCost(u, b[u]) <= Funded(u)
    BY <1>1 DEF FundedRank
  <2>2. b[u] \in Int /\ IsAligned(b[u])
    BY <2>1, AlignedRank
  <2>3. /\ CapRank(u, b[u]) \in Int /\ IsAligned(CapRank(u, b[u]))
        /\ FloorRank(b[u]) \in Int /\ IsAligned(FloorRank(b[u]))
    BY <1>0, <2>2, BoundFacts
  <2>4. caps'[u] \in {b[u], CapRank(u, b[u])} /\ floors'[u] \in {b[u], FloorRank(b[u])}
    BY <1>1
  <2> QED BY <2>1, <2>2, <2>3, <2>4
<1>3. base' \in Ranks /\ caps' \in Ranks /\ floors' \in Ranks
  BY <1>1, <1>2 DEF Ranks
<1>4. ranks' = Lowest'
  BY <1>1 DEF Lowest, Lower
<1>5. /\ Lowest' \in Ranks
      /\ \A u \in Units : Lowest'[u] <= floors'[u] /\ Lowest'[u] <= caps'[u]
      /\ \A u \in Units : Lowest'[u] = floors'[u] \/ Lowest'[u] = caps'[u]
  BY <1>3, LowerFact DEF Lowest
<1>6. PlanCost(b) <= Target /\ Target \in Int
  <2>1. b \in Ranks
    BY <1>1, <1>3
  <2>2. \A u \in Units : Costs(b)[u] <= Funded(u)
    BY <1>2 DEF Costs
  <2> QED BY <1>0, <2>1, <2>2, CostTypes, SharesFit
<1>7. Target' = Target
  BY <1>0, SameTarget
<1>8. spent' \in Int
  BY <1>0, <1>4, <1>5, CostTypes
<1>9. PlanTypes'
  BY <1>0, <1>3, <1>4, <1>5, <1>6, <1>8 DEF PlanTypes
<1>10. WholeRanks' /\ InBounds'
  <2>1. \A u \in Units : IsAligned(ranks'[u]) /\ IsAligned(floors'[u]) /\ IsAligned(caps'[u])
    BY <1>2, <1>4, <1>5
  <2>2. \A u \in Units : Lowest'[u] <= ranks'[u] /\ ranks'[u] <= caps'[u]
    BY <1>4, <1>5 DEF Ranks
  <2> QED BY <2>1, <2>2 DEF WholeRanks, InBounds, AllAligned
<1>11. Affordable'
  <2>1. CASE phase' = "bounded"
    <3>1. ~(spent' > Target)
      BY <1>0, <2>1
    <3>2. spent' <= Target
      BY <1>6, <1>8, <3>1
    <3> QED BY <1>0, <1>1, <1>4, <1>6, <1>7, <2>1, <3>2 DEF Affordable
  <2>2. CASE phase' = "refused"
    BY <2>2 DEF Affordable
  <2> QED BY <1>0, <2>1, <2>2
<1> QED BY <1>9, <1>10, <1>11 DEF PlanInv
-----------------------------------------------------------------------------
LEMMA TypesHold ==
    ASSUME PlanInv
    PROVE  /\ base \in Ranks /\ ranks \in Ranks /\ floors \in Ranks /\ caps \in Ranks
           /\ spent \in Int /\ limit \in Int
           /\ phase # "planned" => policy \in Policies
           /\ \A u \in Units : ranks[u] \in Int /\ floors[u] \in Int /\ caps[u] \in Int
           /\ Lowest \in Ranks
           /\ \A u \in Units : Lowest[u] \in Int
BY LowerFact DEF PlanInv, PlanTypes, Ranks, Lowest

\* The rank of one unit, a step up or down.
LEMMA RankStep ==
    ASSUME PlanInv, NEW u \in Units, NEW d \in {Multiple, -Multiple},
           ranks' = [ranks EXCEPT ![u] = @ + d]
    PROVE  /\ ranks' \in Ranks
           /\ ranks'[u] = ranks[u] + d /\ \A v \in Units : v # u => ranks'[v] = ranks[v]
           /\ RankUnits(ranks') = RankUnits(ranks) + d * PerRank[u]
           /\ PlanCost(ranks') = PlanCost(ranks) + d * PerRank[u]
           /\ d * PerRank[u] \in Int
           /\ AllAligned(ranks) => AllAligned(ranks')
<1>1. d \in Int /\ ranks \in Ranks
  BY MultipleFact, TypesHold
<1>2. ranks' \in Ranks /\ ranks'[u] = ranks[u] + d
  BY <1>1 DEF Ranks
<1>3. \A v \in Units : v # u => ranks'[v] = ranks[v]
  BY <1>1 DEF Ranks
<1>4. AllAligned(ranks) => AllAligned(ranks')
  <2>1. ASSUME AllAligned(ranks), NEW v \in Units PROVE IsAligned(ranks'[v])
    <3>1. CASE v = u
      <4>1. IsAligned(ranks[u]) /\ ranks[u] \in Int
        BY <1>1, <2>1 DEF AllAligned, Ranks
      <4>2. IsAligned(ranks[u] + Multiple) /\ IsAligned(ranks[u] - Multiple)
        BY <4>1, AlignedSteps
      <4>3. ranks[u] + d = ranks[u] + Multiple \/ ranks[u] + d = ranks[u] - Multiple
        BY <4>1, MultipleFact
      <4> QED BY <1>2, <3>1, <4>2, <4>3
    <3>2. CASE v # u
      BY <1>3, <2>1, <3>2 DEF AllAligned
    <3> QED BY <3>1, <3>2
  <2> QED BY <2>1 DEF AllAligned
<1>5. \A r, q \in Ranks : q[u] = r[u] + d /\ (\A v \in Units : v # u => q[v] = r[v]) =>
        /\ RankUnits(q) = RankUnits(r) + d * PerRank[u]
        /\ PlanCost(q) = PlanCost(r) + d * PerRank[u]
        /\ d * PerRank[u] \in Int
  BY <1>1, CostChanges
<1> QED BY <1>1, <1>2, <1>3, <1>4, <1>5

LEMMA MarginalFact ==
    ASSUME NEW u \in Units
    PROVE  /\ Marginal(u) = Multiple * PerRank[u] /\ Marginal(u) \in Int
           /\ (-Multiple) * PerRank[u] = -Marginal(u)
<1>1. PerRank[u] \in Int /\ Multiple \in Int
  BY BitFacts, MultipleFact
<1>2. \A x, y \in Int : x * y \in Int /\ (-x) * y = -(x * y)
  OBVIOUS
<1> QED BY <1>1, <1>2 DEF Marginal

\* Within bounds, where only ranks have changed.
LEMMA StaysInBounds ==
    ASSUME PlanInv, phase \in Planning, NEW u \in Units,
           floors' = floors, caps' = caps,
           \A v \in Units : v # u => ranks'[v] = ranks[v],
           Lowest[u] <= ranks'[u], ranks'[u] <= caps[u], AllAligned(ranks')
    PROVE  WholeRanks' /\ InBounds'
<1>1. Lowest' = Lowest
  BY DEF Lowest
<1>2. ASSUME NEW v \in Units PROVE Lowest[v] <= ranks'[v] /\ ranks'[v] <= caps[v]
  BY DEF PlanInv, InBounds
<1> QED BY <1>1, <1>2 DEF PlanInv, WholeRanks, InBounds, AllAligned

LEMMA Grow_ == ASSUME PlanInv, NEW u \in Units, Grow(u) PROVE PlanInv'
<1>1. /\ phase = "grow" /\ ranks[u] + Multiple <= caps[u]
      /\ spent + Marginal(u) <= limit
      /\ ranks' = [ranks EXCEPT ![u] = @ + Multiple] /\ spent' = spent + Marginal(u)
      /\ policy' = policy /\ phase' = "grow" /\ base' = base /\ floors' = floors
      /\ caps' = caps /\ limit' = limit
  BY DEF Grow
<1>2. /\ ranks' \in Ranks /\ ranks'[u] = ranks[u] + Multiple
      /\ \A v \in Units : v # u => ranks'[v] = ranks[v]
      /\ PlanCost(ranks') = PlanCost(ranks) + Multiple * PerRank[u]
      /\ AllAligned(ranks) => AllAligned(ranks')
  BY <1>1, RankStep
<1>3. /\ limit = Target /\ spent = PlanCost(ranks) /\ WholeRanks /\ InBounds
      /\ phase \in Planning
  BY <1>1 DEF PlanInv, Affordable, Planning
<1>4. spent' = PlanCost(ranks') /\ spent' <= limit /\ spent' \in Int
  BY <1>1, <1>2, <1>3, MarginalFact, TypesHold
<1>5. PlanTypes'
  BY <1>1, <1>2, <1>4, TypesHold DEF PlanTypes
<1>6. Affordable'
  BY <1>1, <1>3, <1>4, SameTarget DEF Affordable
<1>7. Lowest[u] <= ranks'[u] /\ ranks'[u] <= caps[u]
  <2>1. Lowest[u] <= ranks[u] /\ ranks[u] \in Int /\ Lowest[u] \in Int
    BY <1>3, TypesHold DEF InBounds
  <2> QED BY <1>1, <1>2, <2>1, MultipleFact
<1>8. WholeRanks' /\ InBounds'
  BY <1>1, <1>2, <1>3, <1>7, StaysInBounds DEF WholeRanks
<1> QED BY <1>5, <1>6, <1>8 DEF PlanInv

-----------------------------------------------------------------------------
LEMMA StartSensitivity_ == ASSUME PlanInv, StartSensitivity PROVE PlanInv'
<1>1. PICK g \in [Units -> RankRange] :
        ranks' = [u \in Units |-> Min2(caps[u], Max2(ranks[u], Down(g[u])))]
  BY DEF StartSensitivity
<1>2. /\ phase = "bounded" /\ phase' = "trim" /\ limit' = RankUnits(base)
      /\ policy' = policy /\ base' = base /\ floors' = floors /\ caps' = caps
      /\ spent' = spent
  BY DEF StartSensitivity
<1>3. /\ PlanCost(base) <= Target /\ PlanCost(Lowest) <= Target /\ WholeRanks /\ InBounds
  BY <1>2 DEF PlanInv, Affordable, Planning
<1>4. ASSUME NEW u \in Units
      PROVE  /\ ranks'[u] \in Int /\ IsAligned(ranks'[u])
             /\ Lowest[u] <= ranks'[u] /\ ranks'[u] <= caps[u]
  <2>1. g[u] \in Int /\ ranks[u] \in Int /\ caps[u] \in Int /\ Lowest[u] \in Int
    BY TypesHold, RankRangeFact
  <2>2. Down(g[u]) \in Int /\ IsAligned(Down(g[u]))
    BY <2>1, AlignedFact
  <2>3. IsAligned(ranks[u]) /\ IsAligned(caps[u]) /\ Lowest[u] <= ranks[u] /\ ranks[u] <= caps[u]
    BY <1>3 DEF WholeRanks, AllAligned, InBounds
  <2>4. PICK m \in Int : m = Max2(ranks[u], Down(g[u]))
    BY <2>1, <2>2, Between
  <2>5. IsAligned(m) /\ ranks[u] <= m
    BY <2>1, <2>2, <2>3, <2>4, Between
  <2>6. ranks'[u] = Min2(caps[u], m)
    BY <1>1, <2>4
  <2>7. ranks'[u] \in {caps[u], m} /\ ranks'[u] <= caps[u]
    BY <2>1, <2>6, Between
  <2> QED BY <2>1, <2>3, <2>5, <2>7
<1>5. ranks' \in Ranks
  BY <1>1, <1>4 DEF Ranks
<1>6. limit' \in Int
  BY <1>2, CostTypes, TypesHold
<1>7. PlanTypes'
  BY <1>2, <1>5, <1>6, TypesHold DEF PlanTypes
<1>8. Lowest' = Lowest /\ Target' = Target
  BY <1>2, SameTarget DEF Lowest
<1>9. Affordable'
  BY <1>2, <1>3, <1>8 DEF Affordable
<1>10. WholeRanks' /\ InBounds'
  BY <1>2, <1>3, <1>4, <1>8 DEF WholeRanks, AllAligned, InBounds
<1> QED BY <1>7, <1>9, <1>10 DEF PlanInv

LEMMA Trim_ == ASSUME PlanInv, NEW u \in Units, Trim(u) PROVE PlanInv'
<1>1. /\ phase = "trim" /\ phase' = "trim" /\ ranks[u] - Multiple >= floors[u]
      /\ ranks' = [ranks EXCEPT ![u] = @ - Multiple]
      /\ policy' = policy /\ base' = base /\ floors' = floors /\ caps' = caps
      /\ spent' = spent /\ limit' = limit
  BY DEF Trim
<1>2. ranks[u] - Multiple = ranks[u] + (-Multiple) /\ -Multiple \in {Multiple, -Multiple}
  BY MultipleFact, TypesHold
<1>3. ranks' = [ranks EXCEPT ![u] = @ + (-Multiple)]
  BY <1>1, <1>2
<1>4. /\ ranks' \in Ranks /\ ranks'[u] = ranks[u] + (-Multiple)
      /\ \A v \in Units : v # u => ranks'[v] = ranks[v]
      /\ AllAligned(ranks) => AllAligned(ranks')
  BY <1>2, <1>3, RankStep
<1>5. /\ PlanCost(base) <= Target /\ PlanCost(Lowest) <= Target /\ limit = RankUnits(base)
      /\ WholeRanks /\ InBounds /\ phase \in Planning
  BY <1>1 DEF PlanInv, Affordable, Planning
<1>6. PlanTypes'
  BY <1>1, <1>4, TypesHold DEF PlanTypes
<1>7. Lowest' = Lowest /\ Target' = Target
  BY <1>1, SameTarget DEF Lowest
<1>8. Affordable'
  BY <1>1, <1>5, <1>7 DEF Affordable
<1>9. Lowest[u] <= ranks'[u] /\ ranks'[u] <= caps[u]
  <2>1. Lowest[u] <= floors[u]
    BY TypesHold, LowerFact DEF Lowest
  <2>2. ranks[u] <= caps[u]
    BY <1>5 DEF InBounds
  <2>3. ranks[u] \in Int /\ floors[u] \in Int /\ caps[u] \in Int /\ Lowest[u] \in Int
    BY TypesHold
  <2> QED BY <1>1, <1>2, <1>4, <2>1, <2>2, <2>3, MultipleFact
<1>10. WholeRanks' /\ InBounds'
  BY <1>1, <1>4, <1>5, <1>9, StaysInBounds DEF WholeRanks
<1> QED BY <1>6, <1>8, <1>10 DEF PlanInv

\* Units that cannot be cut back further are at their lowest.
LEMMA AtLowest ==
    ASSUME PlanInv, phase \in Planning, \A u \in Units : ranks[u] - Multiple < floors[u]
    PROVE  /\ \A u \in Units : ranks[u] <= floors[u]
           /\ \A u \in Units : ranks[u] <= Lowest[u]
<1>1. ASSUME NEW u \in Units PROVE ranks[u] <= floors[u] /\ ranks[u] <= Lowest[u]
  <2>1. IsAligned(ranks[u]) /\ IsAligned(floors[u]) /\ ranks[u] <= caps[u]
    BY DEF PlanInv, WholeRanks, AllAligned, InBounds
  <2>2. ranks[u] \in Int /\ floors[u] \in Int
    BY TypesHold
  <2>3. ranks[u] <= floors[u]
    BY <2>1, <2>2, NotAbove
  <2>4. Lowest[u] = floors[u] \/ Lowest[u] = caps[u]
    BY TypesHold, LowerFact DEF Lowest
  <2> QED BY <2>1, <2>3, <2>4
<1> QED BY <1>1

LEMMA Trimmed_ == ASSUME PlanInv, Trimmed PROVE PlanInv'
<1>1. /\ phase = "trim" /\ phase' = "grow to goals"
      /\ RankUnits(ranks) > limit => \A u \in Units : ranks[u] - Multiple < floors[u]
      /\ policy' = policy /\ base' = base /\ ranks' = ranks /\ floors' = floors
      /\ caps' = caps /\ spent' = spent /\ limit' = limit
  BY DEF Trimmed
<1>2. /\ PlanCost(base) <= Target /\ PlanCost(Lowest) <= Target /\ limit = RankUnits(base)
      /\ WholeRanks /\ InBounds /\ phase \in Planning
  BY <1>1 DEF PlanInv, Affordable, Planning
<1>3. /\ PlanCost(ranks) \in Int /\ PlanCost(base) \in Int /\ PlanCost(Lowest) \in Int
      /\ RankUnits(ranks) \in Int /\ RankUnits(base) \in Int
  BY TypesHold, CostTypes
<1>4. Target \in Int
  BY <1>1, TypesHold, TargetType
<1>5. PlanCost(ranks) <= Target
  <2>1. CASE RankUnits(ranks) > limit
    <3>1. \A u \in Units : ranks[u] <= Lowest[u]
      BY <1>1, <1>2, <2>1, AtLowest
    <3>2. PlanCost(ranks) <= PlanCost(Lowest)
      BY <3>1, TypesHold, CostGrows
    <3> QED BY <1>2, <1>3, <1>4, <3>2
  <2>2. CASE ~(RankUnits(ranks) > limit)
    <3>1. RankUnits(ranks) <= RankUnits(base)
      BY <1>2, <1>3, <2>2
    <3>2. PlanCost(ranks) <= PlanCost(base)
      BY <3>1, TypesHold, CostFollowsUnits
    <3> QED BY <1>2, <1>3, <1>4, <3>2
  <2> QED BY <2>1, <2>2
<1>6. PlanTypes'
  BY <1>1, TypesHold DEF PlanTypes
<1>7. Lowest' = Lowest /\ Target' = Target
  BY <1>1, SameTarget DEF Lowest
<1>8. Affordable'
  BY <1>1, <1>2, <1>5, <1>7 DEF Affordable
<1>9. WholeRanks' /\ InBounds'
  BY <1>1, <1>2, <1>7 DEF WholeRanks, AllAligned, InBounds
<1> QED BY <1>6, <1>8, <1>9 DEF PlanInv

LEMMA GrowToGoal_ == ASSUME PlanInv, NEW u \in Units, GrowToGoal(u) PROVE PlanInv'
<1>1. /\ phase = "grow to goals" /\ phase' = phase /\ ranks[u] + Multiple <= caps[u]
      /\ RankUnits(ranks) + Marginal(u) <= limit
      /\ ranks' = [ranks EXCEPT ![u] = @ + Multiple]
      /\ policy' = policy /\ base' = base /\ floors' = floors /\ caps' = caps
      /\ spent' = spent /\ limit' = limit
  BY DEF GrowToGoal
<1>2. /\ ranks' \in Ranks /\ ranks'[u] = ranks[u] + Multiple
      /\ \A v \in Units : v # u => ranks'[v] = ranks[v]
      /\ RankUnits(ranks') = RankUnits(ranks) + Multiple * PerRank[u]
      /\ AllAligned(ranks) => AllAligned(ranks')
  BY <1>1, RankStep
<1>3. /\ PlanCost(base) <= Target /\ limit = RankUnits(base)
      /\ WholeRanks /\ InBounds /\ phase \in Planning
  BY <1>1 DEF PlanInv, Affordable, Planning
<1>4. RankUnits(ranks') <= RankUnits(base)
  BY <1>1, <1>2, <1>3, MarginalFact
<1>5. PICK r \in Ranks : r = ranks'
  BY <1>2
<1>6. PlanCost(r) <= PlanCost(base)
  BY <1>4, <1>5, TypesHold, CostFollowsUnits
<1>7. PlanCost(r) <= Target
  <2>1. Target \in Int /\ PlanCost(r) \in Int /\ PlanCost(base) \in Int
    BY <1>1, TypesHold, CostTypes, TargetType
  <2> QED BY <1>3, <1>6, <2>1
<1>8. PlanTypes'
  BY <1>1, <1>2, TypesHold DEF PlanTypes
<1>9. Affordable'
  BY <1>1, <1>3, <1>5, <1>7, SameTarget DEF Affordable
<1>10. Lowest[u] <= ranks'[u] /\ ranks'[u] <= caps[u]
  <2>1. Lowest[u] <= ranks[u] /\ ranks[u] \in Int /\ Lowest[u] \in Int
    BY <1>3, TypesHold DEF InBounds
  <2>2. ranks'[u] = ranks[u] + Multiple /\ ranks[u] + Multiple <= caps[u]
    BY <1>1, <1>2
  <2>3. Lowest[u] <= ranks[u] + Multiple
    BY <2>1, MultipleFact
  <2> QED BY <2>2, <2>3
<1>11. WholeRanks' /\ InBounds'
  BY <1>1, <1>2, <1>3, <1>10, StaysInBounds DEF WholeRanks
<1> QED BY <1>8, <1>9, <1>11 DEF PlanInv

LEMMA GoalsReached_ == ASSUME PlanInv, GoalsReached PROVE PlanInv'
<1>1. /\ phase = "grow to goals" /\ phase' = "planned budget" /\ spent' = PlanCost(ranks)
      /\ limit' = Target /\ policy' = policy /\ base' = base /\ ranks' = ranks
      /\ floors' = floors /\ caps' = caps
  BY DEF GoalsReached
<1>2. PlanCost(ranks) <= Target
  BY <1>1 DEF PlanInv, Affordable
<1>3. spent' \in Int /\ limit' \in Int
  BY <1>1, TypesHold, CostTypes, TargetType
<1>4. PlanTypes'
  BY <1>1, <1>3, TypesHold DEF PlanTypes
<1>5. Affordable'
  BY <1>1, <1>2, SameTarget DEF Affordable
<1> QED BY <1>1, <1>4, <1>5 DEF PlanInv, Planning
-----------------------------------------------------------------------------
LEMMA ReconstructionBounds ==
    ASSUME policy \in Policies, base \in Ranks, NEW u \in Units
    PROVE  /\ ReconstructionFloor(u) \in Int /\ IsAligned(ReconstructionFloor(u))
           /\ ReconstructionCap(u) \in Int /\ IsAligned(ReconstructionCap(u))
<1>1. base[u] \in Int /\ policy.floor \in Int /\ policy.ceiling \in Int
  BY PolicyFacts DEF Ranks
<1>2. PICK share \in Int :
        share = IF u \in policy.protected THEN Max2(policy.floor, 100) ELSE policy.floor
  BY <1>1, Between
<1>3. (base[u] * share + 99) \div 100 \in Int /\ (base[u] * policy.ceiling) \div 100 \in Int
  BY <1>1, <1>2
<1>4. PICK f, c \in Int : f = (base[u] * share + 99) \div 100
                          /\ c = (base[u] * policy.ceiling) \div 100
  BY <1>3
<1>5. ReconstructionFloor(u) = Up(f) /\ ReconstructionCap(u) = Min2(Down(c), Maximum[u])
  BY <1>2, <1>4 DEF ReconstructionFloor, ReconstructionCap
<1>6. /\ Up(f) \in Int /\ IsAligned(Up(f)) /\ Down(c) \in Int /\ IsAligned(Down(c))
      /\ Maximum[u] \in Int /\ IsAligned(Maximum[u])
  BY <1>4, AlignedFact, MaximumFact
<1>7. /\ Min2(Down(c), Maximum[u]) \in Int
      /\ Min2(Down(c), Maximum[u]) = Down(c) \/ Min2(Down(c), Maximum[u]) = Maximum[u]
  BY <1>6, Between
<1>8. IsAligned(Min2(Down(c), Maximum[u]))
  BY <1>6, <1>7
<1> QED BY <1>5, <1>6, <1>7, <1>8

LEMMA StartReconstruction_ == ASSUME PlanInv, StartReconstruction PROVE PlanInv'
<1>1. /\ phase = "bounded" /\ policy' = policy /\ base' = base /\ limit' = limit
      /\ floors' = [u \in Units |-> ReconstructionFloor(u)]
      /\ caps' = [u \in Units |-> ReconstructionCap(u)]
      /\ ranks' = floors' /\ spent' = PlanCost(floors')
      /\ phase' = IF spent' > Target \/ \E u \in Units : floors'[u] > caps'[u]
                  THEN "refused" ELSE "grow"
  BY DEF StartReconstruction
<1>2. policy \in Policies /\ base \in Ranks
  BY <1>1, TypesHold
<1>3. ASSUME NEW u \in Units
      PROVE  /\ floors'[u] \in Int /\ IsAligned(floors'[u])
             /\ caps'[u] \in Int /\ IsAligned(caps'[u])
  BY <1>1, <1>2, ReconstructionBounds
<1>4. floors' \in Ranks /\ caps' \in Ranks /\ ranks' \in Ranks
  BY <1>1, <1>3 DEF Ranks
<1>5. spent' \in Int /\ limit' \in Int /\ Target \in Int
  BY <1>1, <1>2, <1>4, CostTypes, TargetType, TypesHold
<1>6. PlanTypes'
  BY <1>1, <1>2, <1>4, <1>5 DEF PlanTypes
<1>7. Target' = Target /\ limit = Target
  BY <1>1, SameTarget DEF PlanInv, Affordable
<1>8. CASE phase' = "refused"
  BY <1>6, <1>8 DEF PlanInv, Affordable, Planning
<1>9. CASE phase' = "grow"
  <2>1. ~(spent' > Target) /\ \A u \in Units : ~(floors'[u] > caps'[u])
    BY <1>1, <1>9
  <2>2. spent' <= Target
    BY <1>5, <2>1
  <2>3. Affordable'
    BY <1>1, <1>7, <1>9, <2>2 DEF Affordable
  <2>4. ASSUME NEW u \in Units PROVE Lowest'[u] <= ranks'[u] /\ ranks'[u] <= caps'[u]
    <3>1. floors'[u] <= caps'[u] /\ ranks'[u] = floors'[u]
      BY <1>1, <1>3, <2>1
    <3>2. Lowest'[u] <= floors'[u]
      BY <1>4, LowerFact DEF Lowest
    <3> QED BY <3>1, <3>2
  <2>5. WholeRanks' /\ InBounds'
    BY <1>1, <1>3, <2>4 DEF WholeRanks, AllAligned, InBounds
  <2> QED BY <1>6, <2>3, <2>5 DEF PlanInv
<1> QED BY <1>1, <1>8, <1>9

LEMMA WithinBounds ==
    ASSUME NEW f \in Int, NEW c \in Int, NEW k \in Int, IsAligned(f), IsAligned(c)
    PROVE  /\ Min2(c, Max2(f, k * Multiple)) \in Int
           /\ IsAligned(Min2(c, Max2(f, k * Multiple)))
           /\ Min2(c, Max2(f, k * Multiple)) <= c
           /\ f <= c => f <= Min2(c, Max2(f, k * Multiple))
<1>1. PICK m \in Int : m = k * Multiple
  BY MultipleFact
<1>2. IsAligned(m)
  BY <1>1 DEF IsAligned
<1>3. PICK h \in Int : h = Max2(f, m)
  BY Between
<1>4. IsAligned(h) /\ f <= h
  BY <1>2, <1>3, Between
<1>5. PICK r \in Int : r = Min2(c, h)
  BY Between
<1>6. r <= c /\ (r = c \/ r = h)
  BY <1>5, Between
<1>7. IsAligned(r) /\ (f <= c => f <= r)
  BY <1>4, <1>6
<1>8. Min2(c, Max2(f, k * Multiple)) = r
  BY <1>1, <1>3, <1>5
<1> HIDE DEF IsAligned
<1> QED BY <1>6, <1>7, <1>8

LEMMA Project_ == ASSUME PlanInv, Project PROVE PlanInv'
<1>1. /\ phase = "project" /\ phase' = "trust" /\ spent' = PlanCost(ranks')
      /\ policy' = policy /\ base' = base /\ caps' = caps
  BY DEF Project
<1>2. PICK ref \in [Units -> RankRange] :
        /\ \A u \in Units : ref[u] \in Aligned(u) /\ ref[u] <= caps[u]
        /\ PlanCost(ref) <= Target
        /\ limit' \in {PlanCost(ref), Target}
        /\ floors' = [u \in Units |-> Min2(floors[u], ref[u])]
        /\ \E k \in [Units -> RankRange] :
             ranks' = [u \in Units |-> Min2(caps[u], Max2(floors'[u], k[u] * Multiple))]
  BY DEF Project
<1>3. PICK k \in [Units -> RankRange] :
        ranks' = [u \in Units |-> Min2(caps[u], Max2(floors'[u], k[u] * Multiple))]
  BY <1>2
<1>4. phase \in Planning /\ WholeRanks
  BY <1>1 DEF PlanInv, Planning
<1>5. ASSUME NEW u \in Units
      PROVE  /\ ref[u] \in Int /\ floors'[u] \in Int /\ IsAligned(floors'[u])
             /\ floors'[u] <= ref[u] /\ floors'[u] <= caps[u]
  <2>1. ref[u] \in Int /\ IsAligned(ref[u]) /\ ref[u] <= caps[u]
    BY <1>2, AlignedRank
  <2>2. floors[u] \in Int /\ IsAligned(floors[u]) /\ caps[u] \in Int
    BY <1>4, TypesHold DEF WholeRanks, AllAligned
  <2>3. floors'[u] = Min2(floors[u], ref[u])
    BY <1>2
  <2>4. /\ floors'[u] \in Int /\ floors'[u] <= ref[u]
        /\ floors'[u] = floors[u] \/ floors'[u] = ref[u]
    BY <2>1, <2>2, <2>3, Between
  <2> QED BY <2>1, <2>2, <2>4
<1>6. ASSUME NEW u \in Units
      PROVE  /\ ranks'[u] \in Int /\ IsAligned(ranks'[u])
             /\ ranks'[u] <= caps[u] /\ floors'[u] <= ranks'[u]
  <2>1. caps[u] \in Int /\ IsAligned(caps[u]) /\ k[u] \in Int
    BY <1>4, TypesHold, RankRangeFact DEF WholeRanks, AllAligned
  <2>2. ranks'[u] = Min2(caps[u], Max2(floors'[u], k[u] * Multiple))
    BY <1>3
  <2>3. PICK f \in Int : f = floors'[u]
    BY <1>5
  <2>4. IsAligned(f) /\ f <= caps[u]
    BY <1>5, <2>3
  <2>5. PICK c, n \in Int : c = caps[u] /\ n = k[u]
    BY <2>1
  <2>6. ranks'[u] = Min2(c, Max2(f, n * Multiple)) /\ IsAligned(c) /\ f <= c
    BY <2>1, <2>2, <2>3, <2>4, <2>5
  <2>7. /\ ranks'[u] \in Int /\ IsAligned(ranks'[u])
        /\ ranks'[u] <= c /\ f <= ranks'[u]
    BY <2>4, <2>6, WithinBounds
  <2> QED BY <2>3, <2>5, <2>7
<1>7. floors' \in Ranks /\ ranks' \in Ranks /\ ref \in Ranks
  BY <1>2, <1>3, <1>5, <1>6 DEF Ranks
<1>8. PICK f \in Ranks : f = floors'
  BY <1>7
<1>9. PlanCost(f) <= PlanCost(ref)
  BY <1>5, <1>7, <1>8, CostGrows
<1>10. /\ PlanCost(f) \in Int /\ PlanCost(ref) \in Int /\ Target \in Int
       /\ spent' \in Int
  BY <1>1, <1>7, CostTypes, TargetType, TypesHold
<1>11. limit' \in Int /\ PlanCost(f) <= limit'
  BY <1>2, <1>9, <1>10
<1>12. PlanTypes'
  BY <1>1, <1>7, <1>10, <1>11, TypesHold DEF PlanTypes
<1>13. Affordable'
  BY <1>1, <1>8, <1>11 DEF Affordable
<1>14. ASSUME NEW u \in Units PROVE Lowest'[u] <= ranks'[u]
  <2>1. caps' \in Ranks
    BY <1>1, TypesHold
  <2>2. Lowest'[u] <= floors'[u] /\ Lowest'[u] \in Int
    BY <1>7, <2>1, LowerFact DEF Lowest, Ranks
  <2> QED BY <1>5, <1>6, <2>2
<1>15. WholeRanks' /\ InBounds'
  BY <1>1, <1>4, <1>5, <1>6, <1>14 DEF WholeRanks, AllAligned, InBounds
<1> QED BY <1>12, <1>13, <1>15 DEF PlanInv

LEMMA TrustTrim_ == ASSUME PlanInv, NEW u \in Units, TrustTrim(u) PROVE PlanInv'
<1>1. /\ phase = "trust" /\ phase' = "trust" /\ ranks[u] - Multiple >= floors[u]
      /\ ranks' = [ranks EXCEPT ![u] = @ - Multiple] /\ spent' = spent - Marginal(u)
      /\ policy' = policy /\ base' = base /\ floors' = floors /\ caps' = caps
      /\ limit' = limit
  BY DEF TrustTrim
<1>2. ranks[u] - Multiple = ranks[u] + (-Multiple) /\ -Multiple \in {Multiple, -Multiple}
  BY MultipleFact, TypesHold
<1>3. ranks' = [ranks EXCEPT ![u] = @ + (-Multiple)]
  BY <1>1, <1>2
<1>4. /\ ranks' \in Ranks /\ ranks'[u] = ranks[u] + (-Multiple)
      /\ \A v \in Units : v # u => ranks'[v] = ranks[v]
      /\ AllAligned(ranks) => AllAligned(ranks')
      /\ PlanCost(ranks') = PlanCost(ranks) + (-Multiple) * PerRank[u]
  BY <1>2, <1>3, RankStep
<1>5. /\ spent = PlanCost(ranks) /\ PlanCost(floors) <= limit
      /\ WholeRanks /\ InBounds /\ phase \in Planning
  BY <1>1 DEF PlanInv, Affordable, Planning
<1>6. spent' = PlanCost(ranks') /\ spent' \in Int
  BY <1>1, <1>4, <1>5, MarginalFact, TypesHold
<1>7. PlanTypes'
  BY <1>1, <1>4, <1>6, TypesHold DEF PlanTypes
<1>8. Affordable'
  BY <1>1, <1>5, <1>6 DEF Affordable
<1>9. Lowest[u] <= ranks'[u] /\ ranks'[u] <= caps[u]
  <2>1. Lowest[u] <= floors[u]
    BY TypesHold, LowerFact DEF Lowest
  <2>2. ranks[u] <= caps[u]
    BY <1>5 DEF InBounds
  <2>3. ranks[u] \in Int /\ floors[u] \in Int /\ caps[u] \in Int /\ Lowest[u] \in Int
    BY TypesHold
  <2> QED BY <1>1, <1>2, <1>4, <2>1, <2>2, <2>3, MultipleFact
<1>10. WholeRanks' /\ InBounds'
  BY <1>1, <1>4, <1>5, <1>9, StaysInBounds DEF WholeRanks
<1> QED BY <1>7, <1>8, <1>10 DEF PlanInv

\* The projection onto the reference run does not fail.
LEMMA Trusted_ == ASSUME PlanInv, Trusted PROVE PlanInv'
<1>1. /\ phase = "trust"
      /\ spent > limit => \A u \in Units : ranks[u] - Multiple < floors[u]
      /\ phase' = IF spent > limit THEN "cannot project" ELSE "decided"
      /\ UNCHANGED <<policy, base, ranks, floors, caps, spent, limit>>
  BY DEF Trusted
<1>2. /\ spent = PlanCost(ranks) /\ PlanCost(floors) <= limit /\ phase \in Planning
  BY <1>1 DEF PlanInv, Affordable, Planning
<1>3. ~(spent > limit)
  <2> SUFFICES ASSUME spent > limit PROVE FALSE
    OBVIOUS
  <2>1. \A u \in Units : ranks[u] <= floors[u]
    BY <1>1, <1>2, AtLowest
  <2>2. PlanCost(ranks) <= PlanCost(floors)
    BY <2>1, TypesHold, CostGrows
  <2>3. PlanCost(ranks) \in Int /\ PlanCost(floors) \in Int /\ limit \in Int
    BY TypesHold, CostTypes
  <2> QED BY <1>2, <2>2, <2>3
<1>4. OnlyPhase("decided")
  BY <1>1, <1>3 DEF OnlyPhase
<1> QED BY <1>1, <1>4, PhaseStep

-----------------------------------------------------------------------------
LEMMA CapType ==
    ASSUME policy \in Policies, NEW u \in Units, NEW b \in Int PROVE CapRank(u, b) \in Int
<1>1. policy.ceiling \in Int /\ Multiple \in Int /\ Maximum[u] \in Int
  BY PolicyFacts, MultipleFact, MaximumFact
<1>2. (b * policy.ceiling) \div 100 \in Int
  BY <1>1
<1>3. PICK up \in Int : up = (b * policy.ceiling) \div 100
  BY <1>2
<1>4. Down(up) \in Int
  BY <1>3, AlignedFact
<1>5. Max2(Multiple, Down(up)) \in Int
  BY <1>1, <1>4, Between
<1>6. Min2(Maximum[u], Max2(Multiple, Down(up))) \in Int
  BY <1>1, <1>5, Between
<1> QED BY <1>3, <1>6 DEF CapRank

LEMMA TakeDecisions_ == ASSUME PlanInv, TakeDecisions PROVE PlanInv'
<1>1. /\ phase = "decided" /\ caps' = [u \in Units |-> CapRank(u, base[u])]
      /\ spent' = PlanCost(ranks) /\ limit' = Target
      /\ phase' \in {"planned budget", "refused"}
      /\ phase' = "planned budget" => spent' <= Target
      /\ policy' = policy /\ base' = base /\ ranks' = ranks /\ floors' = floors
  BY DEF TakeDecisions
<1>2. policy \in Policies /\ base \in Ranks /\ ranks \in Ranks
  BY <1>1, TypesHold
<1>3. \A u \in Units : CapRank(u, base[u]) \in Int
  BY <1>2, CapType DEF Ranks
<1>4. caps' \in Ranks
  BY <1>1, <1>3 DEF Ranks
<1>5. spent' \in Int /\ limit' \in Int
  BY <1>1, <1>2, CostTypes, TargetType
<1>6. PlanTypes'
  BY <1>1, <1>4, <1>5, TypesHold DEF PlanTypes
<1>7. Target' = Target
  BY <1>1, SameTarget
<1>8. Affordable'
  BY <1>1, <1>7 DEF Affordable
<1> QED BY <1>1, <1>6, <1>8 DEF PlanInv, Planning

LEMMA Promote_ == ASSUME PlanInv, Promote PROVE PlanInv'
<1>1. /\ phase = "planned budget" /\ spent' = PlanCost(ranks')
      /\ phase' = IF spent > Target THEN "assertion failed" ELSE "planned"
      /\ base' = None /\ floors' = None /\ limit' = 0
  BY DEF Promote
<1>2. PICK p \in [Units -> RankRange] :
        /\ ranks' = [u \in Units |-> IF u \in AtMaximum THEN Maximum[u] ELSE p[u]]
        /\ caps' = [u \in Units |->
                IF u \in AtMaximum THEN Maximum[u] ELSE HardRankCap(u, Max2(caps[u], p[u]))]
  BY DEF Promote
<1>3. ASSUME NEW u \in Units PROVE ranks'[u] \in Int /\ caps'[u] \in Int
  <2>1. Maximum[u] \in Int /\ p[u] \in Int /\ caps[u] \in Int
    BY MaximumFact, RankRangeFact, TypesHold
  <2>2. Max2(caps[u], p[u]) \in Int
    BY <2>1, Between
  <2>3. HardRankCap(u, Max2(caps[u], p[u])) \in Int
    BY <2>1, <2>2 DEF HardRankCap
  <2>4. /\ ranks'[u] \in {Maximum[u], p[u]}
        /\ caps'[u] \in {Maximum[u], HardRankCap(u, Max2(caps[u], p[u]))}
    BY <1>2
  <2> QED BY <2>1, <2>3, <2>4
<1>4. ranks' \in Ranks /\ caps' \in Ranks /\ None \in Ranks
  BY <1>2, <1>3 DEF Ranks, None
<1>5. spent = PlanCost(ranks) /\ PlanCost(ranks) <= Target
  BY <1>1 DEF PlanInv, Affordable
<1>6. phase' = "planned"
  <2>1. Target \in Int /\ PlanCost(ranks) \in Int
    BY <1>1, TypesHold, TargetType, CostTypes
  <2>2. ~(spent > Target)
    BY <1>5, <2>1
  <2> QED BY <1>1, <2>2
<1>7. spent' \in Int
  BY <1>1, <1>4, CostTypes
<1>8. base' \in Ranks /\ floors' \in Ranks /\ limit' \in Int
  <2>1. base' = None /\ floors' = None /\ limit' = 0 /\ None \in Ranks
    BY <1>4 DEF Promote
  <2>2. limit' \in Int
    BY <2>1
  <2> QED BY <2>1, <2>2, Zenon
<1>9. PlanTypes'
  BY <1>4, <1>6, <1>7, <1>8 DEF PlanTypes
<1>10. Affordable'
  BY <1>1, <1>6 DEF Affordable
<1> QED BY <1>6, <1>9, <1>10 DEF PlanInv, Planning

LEMMA AnyPlanStep == ASSUME PlanInv, [Plan]_planVars PROVE PlanInv'
<1>1. CASE PlanBase
  BY <1>1, PlanBase_
<1>2. CASE Unfundable
  <2>1. phase = "base" /\ OnlyPhase("refused")
    BY <1>2 DEF Unfundable, OnlyPhase
  <2> QED BY <2>1, PhaseStep
<1>3. CASE StartGreedy
  <2>1. phase = "bounded" /\ OnlyPhase("grow")
    BY <1>3 DEF StartGreedy, OnlyPhase
  <2> QED BY <2>1, PhaseStep
<1>4. CASE Grown
  <2>1. phase = "grow" /\ \E to \in {"project", "decided", "planned budget"} : OnlyPhase(to)
    BY <1>4 DEF Grown, OnlyPhase
  <2> QED BY <2>1, PhaseStep
<1>5. CASE StartSensitivity
  BY <1>5, StartSensitivity_
<1>6. CASE Trimmed
  BY <1>6, Trimmed_
<1>7. CASE GoalsReached
  BY <1>7, GoalsReached_
<1>8. CASE StartReconstruction
  BY <1>8, StartReconstruction_
<1>9. CASE Project
  BY <1>9, Project_
<1>10. CASE Trusted
  BY <1>10, Trusted_
<1>11. CASE TakeDecisions
  BY <1>11, TakeDecisions_
<1>12. CASE Promote
  BY <1>12, Promote_
<1>13. ASSUME NEW u \in Units, Grow(u) \/ Trim(u) \/ GrowToGoal(u) \/ TrustTrim(u)
       PROVE PlanInv'
  BY <1>13, Grow_, Trim_, GrowToGoal_, TrustTrim_
<1>14. CASE UNCHANGED planVars
  <2>1. /\ policy' = policy /\ phase' = phase /\ base' = base /\ ranks' = ranks
        /\ floors' = floors /\ caps' = caps /\ spent' = spent /\ limit' = limit
    BY <1>14 DEF planVars
  <2>2. Target' = Target /\ Lowest' = Lowest
    BY <2>1, SameTarget DEF Lowest
  <2>3. PlanTypes'
    BY <2>1 DEF PlanInv, PlanTypes
  <2>4. Affordable'
    BY <2>1, <2>2 DEF PlanInv, Affordable
  <2> QED BY <2>1, <2>2, <2>3, <2>4 DEF PlanInv, WholeRanks, InBounds, AllAligned
<1> QED
  BY <1>1, <1>2, <1>3, <1>4, <1>5, <1>6, <1>7, <1>8, <1>9, <1>10, <1>11, <1>12,
     <1>13, <1>14 DEF Plan

LEMMA InvFits == PlanInv => PlanFits
<1> SUFFICES ASSUME PlanInv PROVE PlanFits
  OBVIOUS
<1>1. /\ phase \notin {"assertion failed", "cannot project"}
      /\ phase \in {"grow", "trust", "planned budget", "planned"} => spent = PlanCost(ranks)
      /\ phase \in {"grow", "planned budget"} => PlanCost(ranks) <= Target
  BY DEF PlanInv, Affordable
<1>2. ASSUME phase \in {"grow", "trim", "grow to goals", "trust"}, NEW u \in Units
      PROVE  ranks[u] \in Min2(floors[u], caps[u]) .. caps[u]
  <2>1. Lowest[u] <= ranks[u] /\ ranks[u] <= caps[u]
    BY <1>2 DEF PlanInv, Planning, InBounds
  <2>2. Lowest[u] = Min2(floors[u], caps[u])
    BY DEF Lowest, Lower
  <2>3. ranks[u] \in Int /\ caps[u] \in Int /\ Lowest[u] \in Int
    BY TypesHold
  <2> QED BY <2>1, <2>2, <2>3
<1> QED BY <1>1, <1>2 DEF PlanFits

\* Whatever the strategy and the units, the plan the planner ends with costs
\* no more than the target, and cutting back never fails.
THEOREM PlanKeepsBudget == PlanSpec => []PlanFits
<1>1. PlanInit => PlanInv
  BY InitPlan
<1>2. PlanInv /\ [Plan]_planVars => PlanInv'
  BY AnyPlanStep
<1>3. PlanInv => PlanFits
  BY InvFits
<1> QED BY <1>1, <1>2, <1>3, PTL DEF PlanSpec
=============================================================================
