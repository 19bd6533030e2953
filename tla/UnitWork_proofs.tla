--------------------------- MODULE UnitWork_proofs ---------------------------
(***************************************************************************)
(* The work on the units: the retries under one budget, the tuning with    *)
(* its checkpoint, and the composition, which implements both and the      *)
(* planner, so that what is proved of each alone holds of all of them.     *)
(* Last, what only the whole has: a run that was interrupted anywhere      *)
(* commits what one would have committed that was not.                     *)
(***************************************************************************)
EXTENDS MCUnitWork, RankPlan_proofs

-----------------------------------------------------------------------------
(***************************************************************************)
(* The retries of a run keep its one budget of extra bits, for any number  *)
(* of units, any costs, scores and plans, and any number of deaths.        *)
(*                                                                         *)
(* The invariant: the plan is fixed and typed before a process begins with *)
(* the units; and every attempt that was made, the next one, and the one   *)
(* that was accepted fit into what the committed units leave.              *)
(***************************************************************************)

bothVars == <<planVars, retryVars>>

RetryNext ==
    \/ Plan /\ UNCHANGED retryVars
    \/ (Factorize \/ Die) /\ UNCHANGED planVars

AnAttempt == [rank : Int, outliers : Int, score : Int]

\* The bits of attempt a on unit u, on top of the committed ones, fit.
Fits(u, a) == total + Extra(u, a) <= ExtraBudget

RetryInv ==
    /\ pc \in {"down", "unit", "attempt", "decide", "accepted", "done"}
    /\ pc # "down" \/ committed # <<>> => phase = "planned"
    /\ committed \in Seq([rank : Int, outliers : Int, extra : Int])
    /\ total \in Int /\ total <= ExtraBudget
    /\ pc # "down" => retrySpent = total
    /\ attempts \in Seq(AnAttempt)
    /\ attempts # <<>> => pc \in {"attempt", "decide", "accepted"}
    /\ pc \in {"attempt", "decide", "accepted"} => current \in Units
    /\ \A n \in DOMAIN attempts : Fits(current, attempts[n])
    /\ pc = "decide" => attempts # <<>>
    /\ pc = "attempt" => next \in AnAttempt /\ Fits(current, next)
    /\ pc = "accepted" => accepted \in AnAttempt /\ Fits(current, accepted)

IInv == PlanInv /\ RetryInv

-----------------------------------------------------------------------------
LEMMA Typed ==
    ASSUME PlanInv PROVE ranks \in [Units -> Int] /\ caps \in [Units -> Int]
BY DEF PlanInv, PlanTypes, Ranks

LEMMA RetryInit_ == PlanInit /\ RetryInit => IInv
BY InitPlan, PlanAssumption, RetryAssumption
   DEF PlanInit, RetryInit, IInv, RetryInv, None, Fits

\* The extra bits are linear in the rank and the outlier columns.
LEMMA ExtraFact ==
    ASSUME ranks \in [Units -> Int], NEW u \in Units, NEW a \in AnAttempt
    PROVE  Extra(u, a) \in Int
BY PlanAssumption, RetryAssumption DEF Extra, AnAttempt

LEMMA ExtraOfRetry ==
    ASSUME ranks \in [Units -> Int], NEW u \in Units,
           NEW a \in AnAttempt, NEW b \in AnAttempt
    PROVE  Extra(u, b) = Extra(u, a)
              + (b.rank - a.rank) * PerRank[u] + (b.outliers - a.outliers) * OutlierBits[u]
<1> DEFINE x == PerRank[u]  y == OutlierBits[u]
           p == a.rank q == b.rank r == a.outliers s == b.outliers
           m == ranks[u] n == Outliers[u]
<1>1. /\ x \in Int /\ y \in Int /\ p \in Int /\ q \in Int /\ r \in Int /\ s \in Int
      /\ m \in Int /\ n \in Int
  BY PlanAssumption, RetryAssumption DEF AnAttempt
<1>2. (q - m) * x + (s - n) * y
        = (p - m) * x + (r - n) * y + (q - p) * x + (s - r) * y
  <2> HIDE DEF x, y, p, q, r, s, m, n
  <2> QED BY <1>1, SMTT(30)
<1> QED BY <1>2 DEF Extra

-----------------------------------------------------------------------------
(***************************************************************************)
(* The planner has ended when the units begin.                             *)
(***************************************************************************)

LEMMA PlanStep_ ==
    ASSUME IInv, Plan, UNCHANGED retryVars
    PROVE  IInv'
<1>1. PlanInv'
  BY AnyPlanStep DEF IInv
<1>2. phase # "planned"
  BY DEF Plan, PlanBase, Unfundable, StartGreedy, Grown, StartSensitivity, Trimmed,
         GoalsReached, StartReconstruction, Project, Trusted, TakeDecisions, Promote,
         Grow, Trim, GrowToGoal, TrustTrim
<1>3. RetryInv'
  BY <1>2 DEF IInv, RetryInv, retryVars, current, Fits
<1> QED BY <1>1, <1>3 DEF IInv

-----------------------------------------------------------------------------
(***************************************************************************)
(* The attempts.                                                           *)
(***************************************************************************)

\* The next attempt is a higher rank or more columns, whose price was compared
\* with what the budget has left behind the latest one.
LEMMA TryAgainFits ==
    ASSUME IInv, TryAgain
    PROVE  Retry \in AnAttempt /\ Fits(current, Retry)
<1>1. /\ ranks \in [Units -> Int] /\ caps \in [Units -> Int] /\ current \in Units
      /\ Latest \in AnAttempt /\ Fits(current, Latest) /\ retrySpent = total /\ total \in Int
  BY Typed DEF TryAgain, IInv, RetryInv, Latest
<1>2. Retry \in AnAttempt
  <2> DEFINE more == (Latest.rank * (100 + Increase) + 99) \div 100
  <2>1. Latest.rank \in Int /\ Latest.outliers \in Int /\ Latest.score \in Int /\ caps[current] \in Int
    BY <1>1 DEF AnAttempt
  <2>2. OutlierIncrement \in Int /\ OutlierCap[current] \in Int /\ Increase \in Int
    BY RetryAssumption, <1>1
  <2>3. more \in Int
    BY <2>1, <2>2
  <2> HIDE DEF more
  <2>4. Up(more) \in Int
    BY <2>3, AlignedFact
  <2>5. Proposed(current, Latest.rank) \in Int
    BY <2>1, <2>4, Between DEF Proposed, more
  <2>6. Min2(Latest.outliers + OutlierIncrement, OutlierCap[current]) \in Int
    <3>1. Latest.outliers + OutlierIncrement \in Int
      BY <2>1, <2>2
    <3> QED BY <3>1, <2>2, Between
  <2>7. RaisedRank \in AnAttempt /\ RaisedOutliers \in AnAttempt
    BY <1>1, <2>5, <2>6 DEF RaisedRank, RaisedOutliers, AnAttempt
  <2> QED BY <2>7 DEF Retry
<1>3. Extra(current, Retry) = Extra(current, Latest) + RetryCost
  <2> DEFINE x == (Retry.rank - Latest.rank) * PerRank[current]
             y == (Retry.outliers - Latest.outliers) * OutlierBits[current]
  <2>1. Extra(current, Retry) = Extra(current, Latest) + x + y
    BY <1>1, <1>2, ExtraOfRetry
  <2>2. x \in Int /\ y \in Int /\ Extra(current, Latest) \in Int
    BY <1>1, <1>2, ExtraFact, PlanAssumption, RetryAssumption DEF AnAttempt
  <2>3. RetryCost = x + y
    BY DEF RetryCost
  <2> HIDE DEF x, y
  <2> QED BY <2>1, <2>2, <2>3
<1>4. Extra(current, Retry) \in Int /\ Extra(current, Latest) \in Int
  BY <1>1, <1>2, ExtraFact
<1>5. RetryCost <= ExtraBudget - total - Extra(current, Latest)
  <2>1. RetryCost <= Available(current, Latest)
    BY DEF TryAgain, Retried
  <2>2. ExtraBudget - total - Extra(current, Latest) >= 0
    BY <1>1, <1>4, RetryAssumption DEF Fits
  <2>3. Available(current, Latest) = ExtraBudget - total - Extra(current, Latest)
    BY <1>1, <1>4, <2>2, RetryAssumption DEF Available, Max2
  <2> QED BY <2>1, <2>3
<1>6. total + Extra(current, Retry) <= ExtraBudget
  <2> DEFINE e == Extra(current, Latest)  f == Extra(current, Retry)
  <2>1. f = e + RetryCost /\ e \in Int /\ f \in Int /\ RetryCost <= ExtraBudget - total - e
    BY <1>3, <1>4, <1>5
  <2>2. RetryCost \in Int
    BY <1>1, <1>2, PlanAssumption, RetryAssumption DEF RetryCost, AnAttempt
  <2> HIDE DEF e, f
  <2>3. total + f <= ExtraBudget
    BY <2>1, <2>2, <1>1, RetryAssumption
  <2> QED BY <2>3 DEF f
<1> QED BY <1>2, <1>6 DEF Fits

\* The plan itself takes nothing from the extra bits.
LEMMA FirstFits ==
    ASSUME IInv, BeginUnit
    PROVE  next' \in AnAttempt /\ total + Extra(current, next') <= ExtraBudget
<1>1. /\ ranks \in [Units -> Int] /\ current \in Units /\ total \in Int /\ total <= ExtraBudget
  BY Typed DEF BeginUnit, IInv, RetryInv
<1>2. next' = [rank |-> ranks[current], outliers |-> Outliers[current], score |-> 0]
  BY DEF BeginUnit
<1>3. ranks[current] \in Int /\ Outliers[current] \in Int /\ PerRank[current] \in Int
      /\ OutlierBits[current] \in Int
  BY <1>1, PlanAssumption, RetryAssumption
<1>4. Extra(current, next') = 0
  BY <1>2, <1>3 DEF Extra
<1>5. next' \in AnAttempt
  BY <1>2, <1>3 DEF AnAttempt
<1> QED BY <1>1, <1>4, <1>5

LEMMA RetryStep_ ==
    ASSUME IInv, Factorize \/ Die, UNCHANGED planVars
    PROVE  IInv'
<1>1. PlanInv'
  BY AnyPlanStep DEF IInv
<1>2. RetryInv'
  <2>1. CASE StartRun
    BY <2>1 DEF StartRun, IInv, RetryInv, planVars, current, Fits
  <2>2. CASE BeginUnit
    <3>1. current' = current
      BY <2>2 DEF BeginUnit, current
    <3>2. (Fits(current, next))'
      BY <2>2, <3>1, FirstFits DEF BeginUnit, Fits, planVars, Extra
    <3> QED BY <2>2, <3>1, <3>2, FirstFits DEF BeginUnit, IInv, RetryInv, planVars
  <2>3. CASE Attempt
    <3>1. PICK s \in Scores : attempts' = Append(attempts, [next EXCEPT !.score = s])
      BY <2>3 DEF Attempt
    <3> DEFINE a == [next EXCEPT !.score = s]
    <3>2. next \in AnAttempt /\ Fits(current, next) /\ s \in Int
      BY <2>3, RetryAssumption DEF Attempt, IInv, RetryInv
    <3>3. a \in AnAttempt /\ a.rank = next.rank /\ a.outliers = next.outliers
      BY <3>2 DEF AnAttempt
    <3>4. Fits(current, a)
      BY <3>2, <3>3 DEF Fits, Extra
    <3> HIDE DEF a
    <3>5. attempts' \in Seq(AnAttempt) /\ attempts' # <<>>
      BY <3>1, <3>3 DEF IInv, RetryInv, a
    <3>6. \A n \in DOMAIN attempts' : Fits(current, attempts'[n])
      BY <3>1, <3>3, <3>4 DEF IInv, RetryInv, a
    <3>7. /\ current' = current /\ total' = total /\ ranks' = ranks
          /\ committed' = committed /\ phase' = phase /\ retrySpent' = retrySpent
          /\ pc = "attempt" /\ pc' = "decide"
      BY <2>3 DEF Attempt, current, planVars
    <3>8. \A n \in DOMAIN attempts' : (Fits(current, attempts[n]))'
      BY <3>6, <3>7 DEF Fits, Extra
    <3> QED BY <3>5, <3>7, <3>8 DEF IInv, RetryInv
  <2>4. CASE TryAgain
    <3>1. /\ current' = current /\ total' = total /\ ranks' = ranks /\ attempts' = attempts
          /\ committed' = committed /\ phase' = phase /\ retrySpent' = retrySpent
          /\ pc = "decide" /\ pc' = "attempt" /\ next' = Retry
      BY <2>4 DEF TryAgain, current, planVars
    <3>2. next' \in AnAttempt /\ Fits(current, next')
      BY <2>4, <3>1, TryAgainFits
    <3>3. (Fits(current, next))'
      BY <3>1, <3>2 DEF Fits, Extra
    <3>4. \A n \in DOMAIN attempts : (Fits(current, attempts[n]))'
      BY <3>1 DEF Fits, Extra, IInv, RetryInv
    <3> QED BY <3>1, <3>2, <3>3, <3>4 DEF IInv, RetryInv
  <2>5. CASE AcceptBest
    <3>1. /\ current' = current /\ total' = total /\ ranks' = ranks /\ attempts' = attempts
          /\ committed' = committed /\ phase' = phase /\ retrySpent' = retrySpent
          /\ pc = "decide" /\ pc' = "accepted"
      BY <2>5 DEF AcceptBest, current, planVars
    <3>2. PICK n \in DOMAIN attempts : accepted' = attempts[n]
      BY <2>5 DEF AcceptBest
    <3>3. accepted' \in AnAttempt /\ Fits(current, accepted')
      BY <3>2 DEF IInv, RetryInv
    <3>4. (Fits(current, accepted))' /\ \A m \in DOMAIN attempts : (Fits(current, attempts[m]))'
      BY <3>1, <3>3 DEF Fits, Extra, IInv, RetryInv
    <3> QED BY <3>1, <3>3, <3>4 DEF IInv, RetryInv
  <2>6. CASE Commit
    <3> DEFINE extra == Max2(0, Extra(current, accepted))
    <3>1. /\ ranks \in [Units -> Int] /\ current \in Units /\ accepted \in AnAttempt
          /\ Fits(current, accepted) /\ total \in Int /\ total <= ExtraBudget /\ retrySpent = total
      BY <2>6, Typed DEF Commit, IInv, RetryInv
    <3>2. Extra(current, accepted) \in Int
      BY <3>1, ExtraFact
    <3>3. extra \in Int /\ total + extra <= ExtraBudget
      BY <3>1, <3>2, RetryAssumption DEF Fits, Max2
    <3>4. /\ total' = total + extra /\ retrySpent' = retrySpent + extra
          /\ committed' = Append(committed,
                [rank |-> accepted.rank, outliers |-> accepted.outliers, extra |-> extra])
          /\ attempts' = <<>> /\ pc' = "unit" /\ phase' = phase /\ pc = "accepted"
      BY <2>6 DEF Commit, planVars
    <3> HIDE DEF extra
    <3>5. committed' \in Seq([rank : Int, outliers : Int, extra : Int])
      BY <3>1, <3>3, <3>4 DEF IInv, RetryInv, AnAttempt
    <3>6. attempts' \in Seq(AnAttempt) /\ DOMAIN attempts' = {}
      BY <3>4
    <3>7. total' \in Int /\ total' <= ExtraBudget /\ retrySpent' = total'
      BY <3>1, <3>3, <3>4
    <3> QED BY <3>4, <3>5, <3>6, <3>7 DEF IInv, RetryInv
  <2>7. CASE AllCommitted
    BY <2>7 DEF AllCommitted, IInv, RetryInv, planVars, current, Fits
  <2>8. CASE Die
    BY <2>8 DEF Die, Forget, IInv, RetryInv, planVars, current
  <2> QED BY <2>1, <2>2, <2>3, <2>4, <2>5, <2>6, <2>7, <2>8 DEF Factorize
<1> QED BY <1>1, <1>2 DEF IInv

LEMMA AnyRetryStep ==
    ASSUME IInv, [RetryNext]_bothVars
    PROVE  IInv'
<1>1. CASE UNCHANGED bothVars
  <2>1. PlanInv'
    BY <1>1, AnyPlanStep DEF bothVars, IInv
  <2>2. RetryInv'
    BY <1>1 DEF bothVars, planVars, retryVars, IInv, RetryInv, current, Fits, Extra
  <2> QED BY <2>1, <2>2 DEF IInv
<1> QED BY <1>1, PlanStep_, RetryStep_ DEF RetryNext

-----------------------------------------------------------------------------
\* For all plans and costs: retries keep the run's one budget of extra bits.
THEOREM RetriesKeepBudget == RetrySpec => []RetriesWithinBudget
<1>1. PlanInit /\ RetryInit => IInv
  BY RetryInit_
<1>2. IInv /\ [RetryNext]_bothVars => IInv'
  BY AnyRetryStep
<1>3. IInv => RetriesWithinBudget
  BY DEF IInv, RetryInv, RetriesWithinBudget, Fits
<1> QED BY <1>1, <1>2, <1>3, PTL DEF RetrySpec, RetryNext, bothVars

-----------------------------------------------------------------------------
(***************************************************************************)
(* No death leaves a checkpoint that a later process cannot read, for any  *)
(* layers, epochs and number of processes.                                 *)
(*                                                                         *)
(* The invariant follows the order of a save and of a clear: the new       *)
(* generation is there and whole before the pointer names it, it is the    *)
(* one that the sweep spares, and the pointer is gone before a clear       *)
(* touches the generations.                                                *)
(***************************************************************************)

TuningInv ==
    /\ PointerIsReadable
    /\ tpc \in {"point", "sweep"} => New \in generations
    /\ tpc = "sweep" => pointer = [layer |-> tuning, generation |-> New]
    /\ tpc = "clearing" => pointer = NoPointer

TuningNext ==
    \/ TuningStep \/ BeginClear \/ TuningDie
    \/ \E l \in Layers : BeginFresh(l) \/ Resume(l)

LEMMA NewIsWhole == New.whole /\ New.layer = tuning /\ ~ Part(New).whole
BY DEF New, Part

LEMMA TuningInit_ == TuningInit => TuningInv
BY DEF TuningInit, TuningInv, PointerIsReadable

LEMMA TuningStep_ ==
    ASSUME TuningInv, TuningNext
    PROVE  TuningInv'
<1>1. CASE \E l \in Layers : BeginFresh(l)
  BY <1>1 DEF BeginFresh, Going, directory, TuningInv, PointerIsReadable
<1>2. CASE \E l \in Layers : Resume(l)
  <2>1. PICK l \in Layers : Resume(l)
    BY <1>2
  <2>2. pointer.generation \in generations
    BY <2>1 DEF Resume, IsFor, TuningInv, PointerIsReadable
  <2>3. tpc' = "epoch"
    BY <2>1, <2>2 DEF Resume, Going
  <2> QED BY <2>1, <2>3 DEF Resume, directory, TuningInv, PointerIsReadable
<1>3. CASE Epoch
  BY <1>3 DEF Epoch, Going, directory, TuningInv, PointerIsReadable
<1>4. CASE Tuned
  BY <1>4 DEF Tuned, Going, directory, TuningInv, PointerIsReadable
<1>5. CASE MakeTemporary
  BY <1>5 DEF MakeTemporary, Going, TuningInv, PointerIsReadable
<1>6. CASE Publish
  <2>1. New' = New
    BY <1>6 DEF Publish, New
  <2>2. /\ generations' = (generations \ {Part(New)}) \cup {New} /\ pointer' = pointer
        /\ tpc' = "point"
    BY <1>6 DEF Publish, Going
  <2>3. pointer # NoPointer => pointer.generation # Part(New)
    BY NewIsWhole DEF TuningInv, PointerIsReadable
  <2> QED BY <2>1, <2>2, <2>3 DEF TuningInv, PointerIsReadable
<1>7. CASE WritePointer
  <2>1. New' = New
    BY <1>7 DEF WritePointer, New
  <2>2. /\ generations' = generations /\ New \in generations /\ tuning' = tuning
        /\ pointer' = [layer |-> tuning, generation |-> New] /\ tpc' = "sweep"
    BY <1>7 DEF WritePointer, Going, TuningInv
  <2>3. pointer'.generation = New /\ pointer'.layer = tuning
    BY <2>2
  <2> QED BY <2>1, <2>2, <2>3, NewIsWhole DEF TuningInv, PointerIsReadable
<1>8. CASE Sweep
  <2>1. New' = New /\ tuning' = tuning /\ pointer' = pointer /\ tpc' = tpc /\ tpc = "sweep"
    BY <1>8 DEF Sweep, New
  <2>2. New \in generations' /\ New \in generations
    BY <1>8 DEF Sweep, RemoveInactive, TuningInv
  <2>3. pointer = [layer |-> tuning, generation |-> New]
    BY <1>8 DEF Sweep, TuningInv
  <2>4. pointer.generation = New /\ pointer.layer = tuning
    BY <2>3
  <2> QED BY <2>1, <2>2, <2>3, <2>4, NewIsWhole DEF TuningInv, PointerIsReadable
<1>9. CASE Swept
  BY <1>9 DEF Swept, Going, directory, TuningInv, PointerIsReadable
<1>10. CASE UnlinkPointer
  BY <1>10 DEF UnlinkPointer, Going, TuningInv, PointerIsReadable
<1>11. CASE ClearOne
  BY <1>11 DEF ClearOne, TuningInv, PointerIsReadable
<1>12. CASE Cleared
  BY <1>12 DEF Cleared, Going, directory, TuningInv, PointerIsReadable
<1>13. CASE BeginClear
  BY <1>13 DEF BeginClear, Going, directory, TuningInv, PointerIsReadable
<1>14. CASE TuningDie
  <2>1. pointer' = pointer /\ tpc' = "idle" /\ generations \ {Part(New)} \subseteq generations'
    BY <1>14 DEF TuningDie, Going
  <2>2. pointer # NoPointer => pointer.generation # Part(New)
    BY NewIsWhole DEF TuningInv, PointerIsReadable
  <2> QED BY <2>1, <2>2 DEF TuningInv, PointerIsReadable
<1> QED
  BY <1>1, <1>2, <1>3, <1>4, <1>5, <1>6, <1>7, <1>8, <1>9, <1>10, <1>11, <1>12, <1>13, <1>14
     DEF TuningNext, TuningStep

LEMMA TuningStutter == TuningInv /\ UNCHANGED tuningVars => TuningInv'
BY DEF tuningVars, directory, TuningInv, PointerIsReadable, New

\* Whatever layers are tuned in whatever order, and wherever a process dies, the
\* checkpoint that the next one finds can be read.
THEOREM CheckpointIsReadable == TuningSpec => []PointerIsReadable
<1>1. TuningInv /\ [TuningNext]_tuningVars => TuningInv'
  BY TuningStep_, TuningStutter
<1>2. TuningInv => PointerIsReadable
  BY DEF TuningInv
<1> QED BY TuningInit_, <1>1, <1>2, PTL DEF TuningSpec, TuningNext

(***************************************************************************)
(* Between two epochs the losses of the layer are those of its checkpoint, *)
(* if it has one: they come from it when the tuning begins, and a save     *)
(* ends with a checkpoint that holds them.                                 *)
(***************************************************************************)
Continues ==
    tpc = "epoch" /\ ~ stopped /\ IsFor(pointer, tuning) =>
        losses = pointer.generation.losses

LEMMA Continues_ ==
    ASSUME TuningInv, Continues, [TuningNext]_tuningVars
    PROVE  Continues'
<1> USE DEF Going
<1>1. CASE \E l \in Layers : BeginFresh(l)
  BY <1>1 DEF BeginFresh, directory, Continues, IsFor
<1>2. CASE \E l \in Layers : Resume(l)
  BY <1>2 DEF Resume, directory, Continues
<1>3. CASE Epoch
  BY <1>3 DEF Epoch, Continues
<1>4. CASE Swept
  <2>1. /\ tpc = "sweep" /\ pointer' = pointer /\ losses' = losses
    BY <1>4 DEF Swept, directory
  <2>2. pointer = [layer |-> tuning, generation |-> New]
    BY <2>1 DEF TuningInv
  <2>3. pointer.generation.losses = losses
    BY <2>2 DEF New
  <2> QED BY <2>1, <2>3 DEF Continues
<1>5. CASE UNCHANGED tuningVars
  BY <1>5 DEF tuningVars, directory, Continues, IsFor
<1>6. CASE \/ Tuned \/ MakeTemporary \/ Publish \/ WritePointer \/ Sweep \/ UnlinkPointer
           \/ ClearOne \/ Cleared \/ BeginClear \/ TuningDie
  <2>1. tpc' # "epoch"
    BY <1>6 DEF Tuned, MakeTemporary, Publish, WritePointer, Sweep, UnlinkPointer, ClearOne,
                Cleared, BeginClear, TuningDie
  <2> QED BY <2>1 DEF Continues
<1> QED
  BY <1>1, <1>2, <1>3, <1>4, <1>5, <1>6 DEF TuningNext, TuningStep

\* No epoch that a checkpoint of the layer holds is trained again, and none is
\* left out, whatever layers are tuned and wherever a process dies.
THEOREM CheckpointIsContinued == TuningSpec => EpochsContinue
<1>1. TuningInit => Continues
  BY DEF TuningInit, Continues
<1>2. Continues => (Epoch /\ IsFor(pointer, tuning) => losses = pointer.generation.losses)
  BY DEF Continues, Epoch
<1>3. TuningInv /\ [TuningNext]_tuningVars => TuningInv'
  BY TuningStep_, TuningStutter
<1>4. TuningInv /\ Continues /\ [TuningNext]_tuningVars => Continues'
  BY Continues_
<1> QED
  BY TuningInit_, <1>1, <1>2, <1>3, <1>4, PTL DEF TuningSpec, TuningNext, EpochsContinue

-----------------------------------------------------------------------------
\* The composition.
\* Every step is a step of the planner or of the attempts, or none of theirs.
LEMMA StepOfRetries ==
    ASSUME [Next]_vars
    PROVE  [RetryNext]_bothVars
<1>1. CASE PlanStep
  BY <1>1 DEF PlanStep, RetryNext
<1>2. CASE FactorStep
  BY <1>2 DEF FactorStep, Factorize, RetryNext
<1>3. CASE BeginTuning \/ TuneStep \/ Stopped \/ UNCHANGED vars
  BY <1>3 DEF BeginTuning, TuneStep, Stopped, vars, bothVars
<1>4. CASE CommitUnit
  BY <1>4 DEF CommitUnit, Factorize, RetryNext
<1>5. CASE DieAnywhere
  BY <1>5 DEF DieAnywhere, RetryNext
<1> QED BY <1>1, <1>2, <1>3, <1>4, <1>5 DEF Next

\* Every step is a step of the checkpointed tuning, or none of its own.
LEMMA StepOfTuning ==
    ASSUME [Next]_vars
    PROVE  [TuningNext]_tuningVars
<1>1. CASE PlanStep \/ FactorStep \/ Stopped \/ UNCHANGED vars
  BY <1>1 DEF PlanStep, FactorStep, Stopped, vars
<1>2. CASE BeginTuning
  BY <1>2 DEF BeginTuning, TuningNext
<1>3. CASE TuneStep
  BY <1>3 DEF TuneStep, TuningNext
<1>4. CASE CommitUnit
  BY <1>4 DEF CommitUnit, TuningNext
<1>5. CASE DieAnywhere
  BY <1>5 DEF DieAnywhere, TuningNext
<1> QED BY <1>1, <1>2, <1>3, <1>4, <1>5 DEF Next

\* The composition implements the planner.
THEOREM ImplementsPlan == Spec => PlanSpec
<1>1. Init => PlanInit
  BY DEF Init
<1>2. [Next]_vars => [Plan]_planVars
  BY StepOfRetries DEF RetryNext, bothVars
<1> QED BY <1>1, <1>2, PTL DEF Spec, PlanSpec

\* The composition implements the retries under one budget.
THEOREM ImplementsRetries == Spec => RetrySpec
<1>1. Init => PlanInit /\ RetryInit
  BY DEF Init
<1> QED BY <1>1, StepOfRetries, PTL DEF Spec, RetrySpec, RetryNext, bothVars

\* The composition implements the checkpointed tuning.
THEOREM ImplementsTuning == Spec => TuningSpec
<1>1. Init => TuningInit
  BY DEF Init
<1> QED BY <1>1, StepOfTuning, PTL DEF Spec, TuningSpec, TuningNext

\* However planning, attempts, tuning and deaths interleave, the plan costs no
\* more than the target, the retries of a run keep its budget of extra bits,
\* a checkpoint can always be read, and tuning goes on from it.
THEOREM BudgetAndCheckpointKept ==
    Spec => [](PlanFits /\ RetriesWithinBudget /\ PointerIsReadable) /\ EpochsContinue
BY ImplementsPlan, ImplementsRetries, ImplementsTuning,
   PlanKeepsBudget, RetriesKeepBudget, CheckpointIsReadable, CheckpointIsContinued, PTL

-----------------------------------------------------------------------------
(***************************************************************************)
(* The attempts of a unit are a chain: the first is the planned one, each  *)
(* other one follows the one before, and every score is the one measured.  *)
(* A process that is started again goes along the same chain, because what *)
(* was measured stays; so where it ends it has the attempts of a run that  *)
(* was never interrupted.                                                  *)
(***************************************************************************)

Bits == ExtraBudget - total

\* Attempts s are on unit u, with these bits left: the first is the planned one, each
\* other one follows the one before.
Chained(u, s, bits) ==
    /\ Len(s) <= MaximumAttempts
    /\ Len(s) >= 1 => s[1] = Scored(u, First(u), 1)
    /\ \A n \in 2 .. Len(s) :
        /\ Follows(u, s[n - 1], bits)
        /\ s[n] = Scored(u, Following(u, s[n - 1]), n)

\* There is none behind the last one.
Ended(u, s, bits) == Len(s) = MaximumAttempts \/ ~ Follows(u, s[Len(s)], bits)

LEMMA RunIsUnique ==
    ASSUME NEW u, NEW bits, NEW s \in Seq(AnAttempt), s # <<>>,
           Chained(u, s, bits), Ended(u, s, bits)
    PROVE  AttemptsFrom(u, First(u), bits) = s
<1> DEFINE N == MaximumAttempts
           first == First(u)
           Step(run, n) ==
               IF n = 1 THEN <<Scored(u, first, 1)>>
               ELSE IF Len(run[n - 1]) = n - 1 /\ Follows(u, run[n - 1][Len(run[n - 1])], bits)
               THEN Append(run[n - 1], Scored(u, Following(u, run[n - 1][Len(run[n - 1])]), n))
               ELSE run[n - 1]
           Is(run) == run = [n \in 1 .. N |-> Step(run, n)]
           T(n) == IF n <= Len(s) THEN SubSeq(s, 1, n) ELSE s
           made == [n \in 1 .. N |-> T(n)]
           the == CHOOSE run : Is(run)
<1>0. N \in Nat /\ N >= 1 /\ Len(s) \in Nat /\ Len(s) >= 1 /\ Len(s) <= N
  BY RetryAssumption DEF Chained
<1>1. AttemptsFrom(u, first, bits) = the[N]
  BY DEF AttemptsFrom
<1>2. ASSUME NEW n \in 1 .. N, n <= Len(s)
      PROVE  Len(T(n)) = n /\ T(n) \in Seq(AnAttempt) /\ \A m \in 1 .. n : T(n)[m] = s[m]
  BY <1>0, <1>2
<1>3. T(1) = <<Scored(u, first, 1)>>
  <2>1. s[1] = Scored(u, first, 1)
    BY <1>0 DEF Chained
  <2>2. 1 \in 1 .. N /\ 1 <= Len(s)
    BY <1>0
  <2>3. Len(T(1)) = 1 /\ T(1) \in Seq(AnAttempt) /\ T(1)[1] = s[1]
    BY <1>2, <2>2
  <2>4. ASSUME NEW t \in Seq(AnAttempt), Len(t) = 1 PROVE t = <<t[1]>>
    BY <2>4
  <2> QED BY <2>1, <2>3, <2>4
<1>4. ASSUME NEW run, NEW n \in 2 .. N, run[n - 1] = T(n - 1)
      PROVE  Step(run, n) = T(n)
  <2>1. n - 1 \in 1 .. N /\ n # 1
    BY <1>0
  <2>2. CASE n <= Len(s)
    <3>1. Len(T(n - 1)) = n - 1 /\ T(n - 1)[n - 1] = s[n - 1]
      BY <1>0, <1>2, <2>1, <2>2
    <3>2. Follows(u, s[n - 1], bits) /\ s[n] = Scored(u, Following(u, s[n - 1]), n)
      BY <2>2, <1>0 DEF Chained
    <3>3. Step(run, n) = Append(T(n - 1), s[n])
      BY <1>4, <2>1, <3>1, <3>2
    <3>4. Append(T(n - 1), s[n]) = SubSeq(s, 1, n)
      BY <1>0, <2>1, <2>2
    <3> QED BY <2>2, <3>3, <3>4
  <2>3. CASE n = Len(s) + 1
    <3>1. T(n - 1) = s
      BY <1>0, <2>3
    <3>2. ~ Follows(u, s[Len(s)], bits)
      BY <1>0, <2>3 DEF Ended
    <3>3. Step(run, n) = s
      BY <1>4, <2>1, <3>1, <3>2
    <3> QED BY <3>3, <2>3, <1>0
  <2>4. CASE n > Len(s) + 1
    <3>1. T(n - 1) = s /\ T(n) = s /\ Len(s) # n - 1
      BY <1>0, <2>4
    <3> QED BY <1>4, <2>1, <3>1
  <2> QED BY <1>0, <2>2, <2>3, <2>4
<1> HIDE DEF T, Step
<1>5. Is(made)
  <2>1. ASSUME NEW n \in 1 .. N PROVE made[n] = Step(made, n)
    <3>1. CASE n = 1
      BY <3>1, <1>3 DEF Step
    <3>2. CASE n # 1
      <4>1. n \in 2 .. N /\ n - 1 \in 1 .. N
        BY <3>2, <1>0
      <4>2. made[n - 1] = T(n - 1)
        BY <4>1
      <4> QED BY <4>1, <4>2, <1>4
    <3> QED BY <3>1, <3>2
  <2> QED BY <2>1
<1>6. Is(the)
  <2>1. \E run : Is(run)
    BY <1>5
  <2> QED BY <2>1
<1> HIDE DEF the
<1>7. \A n \in 1 .. N : the[n] = T(n)
  <2> SUFFICES ASSUME NEW k \in 1 .. N, the[k] # T(k) PROVE FALSE
    OBVIOUS
  <2> DEFINE S == {n \in 1 .. N : the[n] # T(n)}
  <2>1. S \in SUBSET Nat /\ S # {}
    BY <1>0
  <2> HIDE DEF S
  <2>2. PICK n \in S : \A m \in S : n <= m
    BY <2>1, LeastOf
  <2>3. n \in 1 .. N /\ the[n] # T(n)
    BY <2>2 DEF S
  <2>4. the[n] = Step(the, n)
    BY <1>6, <2>3
  <2>5. n # 1
    BY <2>3, <2>4, <1>3 DEF Step
  <2>6. n \in 2 .. N /\ n - 1 \in 1 .. N /\ ~(n <= n - 1)
    BY <2>3, <2>5, <1>0
  <2>7. the[n - 1] = T(n - 1)
    BY <2>2, <2>6 DEF S
  <2> QED BY <1>4, <2>3, <2>4, <2>6, <2>7
<1>8. T(N) = s
  BY <1>0 DEF T
<1> QED BY <1>0, <1>1, <1>7, <1>8

\* An attempt and the one that follows it.
LEMMA FollowingFacts ==
    ASSUME PlanInv, NEW u \in Units, NEW a \in AnAttempt, a.outliers <= OutlierCap[u]
    PROVE  /\ Following(u, a) \in AnAttempt
           /\ Following(u, a).outliers <= OutlierCap[u]
           /\ Following(u, a) # a <=>
                Following(u, a).rank > a.rank \/ Following(u, a).outliers > a.outliers
<1> DEFINE more == (a.rank * (100 + Increase) + 99) \div 100
           higher == Proposed(u, a.rank)
           wider == Min2(a.outliers + OutlierIncrement, OutlierCap[u])
<1>1. /\ a.rank \in Int /\ a.outliers \in Int /\ a.score \in Int /\ caps[u] \in Int
      /\ OutlierIncrement \in Nat /\ OutlierCap[u] \in Int /\ Increase \in Int
  BY Typed, RetryAssumption DEF AnAttempt
<1>2. more \in Int
  BY <1>1
<1> HIDE DEF more
<1>3. Up(more) \in Int
  BY <1>2, AlignedFact
<1>4. higher \in Int
  BY <1>1, <1>3, Between DEF Proposed, more
<1>5. wider \in Int /\ wider <= OutlierCap[u] /\ wider >= a.outliers
  BY <1>1 DEF Min2
<1>6. PICK h \in Int : h = higher
  BY <1>4
<1>7. PICK w \in Int : w = wider
  BY <1>5
<1>8. Following(u, a) = IF h > a.rank THEN [a EXCEPT !.rank = h] ELSE [a EXCEPT !.outliers = w]
  BY <1>6, <1>7 DEF Following
<1>9. w <= OutlierCap[u] /\ w >= a.outliers
  BY <1>5, <1>7
<1>10. CASE h > a.rank
  BY <1>1, <1>8, <1>10 DEF AnAttempt
<1>11. CASE ~ (h > a.rank)
  <2>1. a = [rank |-> a.rank, outliers |-> a.outliers, score |-> a.score]
    BY DEF AnAttempt
  <2>2. Following(u, a) = [rank |-> a.rank, outliers |-> w, score |-> a.score]
    BY <1>8, <1>11, <2>1
  <2>3. Following(u, a) # a <=> w # a.outliers
    BY <2>1, <2>2
  <2> QED BY <1>1, <1>9, <2>2, <2>3 DEF AnAttempt
<1> QED BY <1>10, <1>11

\* Retry is what follows the latest attempt.
LEMMA RetryIsFollowing ==
    ASSUME Latest \in AnAttempt
    PROVE  Retry = Following(current, Latest)
BY DEF Retry, RaisedRank, RaisedOutliers, Following, AnAttempt

\* What another attempt costs, and what is left for it, are counted from the
\* plan or from the latest attempt, with the same result.
LEMMA RetriedIsFollowed ==
    ASSUME PlanInv, current \in Units, Latest \in AnAttempt, Fits(current, Latest),
           Latest.outliers <= OutlierCap[current], retrySpent = total, total \in Int,
           total <= ExtraBudget, Len(attempts) \in Nat
    PROVE  Retried <=> Len(attempts) < MaximumAttempts /\ Follows(current, Latest, Bits)
<1>1. /\ Retry = Following(current, Latest) /\ Retry \in AnAttempt
      /\ Retry # Latest <=> Retry.rank > Latest.rank \/ Retry.outliers > Latest.outliers
  BY RetryIsFollowing, FollowingFacts
<1>2. ExtraBudget \in Int
  BY RetryAssumption
<1>3. /\ Extra(current, Retry) \in Int /\ Extra(current, Latest) \in Int
      /\ ranks \in [Units -> Int]
  BY <1>1, Typed, ExtraFact
<1>4. RetryCost \in Int /\ Extra(current, Retry) = Extra(current, Latest) + RetryCost
  <2> DEFINE x == (Retry.rank - Latest.rank) * PerRank[current]
             y == (Retry.outliers - Latest.outliers) * OutlierBits[current]
  <2>1. Extra(current, Retry) = Extra(current, Latest) + x + y
    BY <1>1, <1>3, ExtraOfRetry
  <2>2. x \in Int /\ y \in Int
    <3>1. /\ Retry.rank - Latest.rank \in Int /\ Retry.outliers - Latest.outliers \in Int
          /\ PerRank[current] \in Int /\ OutlierBits[current] \in Int
      BY <1>1, PlanAssumption, RetryAssumption DEF AnAttempt
    <3> QED BY <3>1
  <2>3. RetryCost = x + y
    BY DEF RetryCost
  <2> HIDE DEF x, y
  <2> QED BY <1>3, <2>1, <2>2, <2>3
<1>5. PICK e \in Int, f \in Int, c \in Int :
        e = Extra(current, Latest) /\ f = Extra(current, Retry) /\ c = RetryCost
  BY <1>3, <1>4
<1>6. f = e + c /\ total + e <= ExtraBudget
  BY <1>4, <1>5 DEF Fits
<1>7. Available(current, Latest) = ExtraBudget - total - e
  BY <1>2, <1>5, <1>6 DEF Available, Max2
<1>8. RetryCost <= Available(current, Latest) <=> total + f <= ExtraBudget
  BY <1>2, <1>5, <1>6, <1>7
<1>9. Max2(0, f) <= Max2(Bits, 0) <=> total + f <= ExtraBudget
  <2>1. Bits \in Int /\ Bits = ExtraBudget - total /\ Bits >= 0
    BY <1>2 DEF Bits
  <2>2. Max2(Bits, 0) = Bits
    BY <2>1 DEF Max2
  <2>3. Max2(0, f) <= Bits <=> f <= Bits
    BY <2>1 DEF Max2
  <2> QED BY <2>1, <2>2, <2>3, <1>2
<1>10. RetryCost <= Available(current, Latest) <=> Max2(0, Extra(current, Retry)) <= Max2(Bits, 0)
  BY <1>5, <1>8, <1>9
<1> QED BY <1>1, <1>10 DEF Retried, MayRetry, Follows

AttemptInv ==
    /\ measured \in [Units -> [1 .. MaximumAttempts -> Int]]
    /\ pc \in {"attempt", "decide", "accepted"} =>
        /\ Chained(current, attempts, Bits)
        /\ \A n \in DOMAIN attempts : attempts[n].outliers <= OutlierCap[current]
    /\ pc = "attempt" =>
        /\ Len(attempts) < MaximumAttempts
        /\ attempts = <<>> => next = First(current)
        /\ attempts # <<>> => next = Following(current, Latest) /\ Follows(current, Latest, Bits)
    /\ pc = "accepted" =>
        /\ attempts # <<>>
        /\ Ended(current, attempts, Bits)
        /\ IsBest(accepted, attempts)

LEMMA AttemptInit == RetryInit => AttemptInv
BY RetryAssumption DEF RetryInit, AttemptInv, NotMeasured, Unknown

LEMMA FirstTyped ==
    ASSUME PlanInv, NEW u \in Units
    PROVE  First(u) \in AnAttempt /\ First(u).outliers <= OutlierCap[u]
BY Typed, RetryAssumption DEF First, AnAttempt

LEMMA LatestFacts ==
    ASSUME IInv, AttemptInv, pc \in {"attempt", "decide", "accepted"}, attempts # <<>>
    PROVE  /\ Latest \in AnAttempt /\ Fits(current, Latest)
           /\ Latest.outliers <= OutlierCap[current]
           /\ Len(attempts) \in Nat /\ Len(attempts) >= 1
<1>1. attempts \in Seq(AnAttempt) /\ Len(attempts) \in DOMAIN attempts
  BY DEF IInv, RetryInv
<1> QED BY <1>1 DEF IInv, RetryInv, AttemptInv, Latest

\* An attempt is the next link of the chain, and draws no score that was drawn.
LEMMA AttemptStep ==
    ASSUME IInv, AttemptInv, Attempt, UNCHANGED planVars
    PROVE  AttemptInv'
<1>0. PICK k \in Int : k = Len(attempts) + 1
  BY DEF IInv, RetryInv
<1>1. /\ pc = "attempt" /\ pc' = "decide" /\ current' = current /\ Bits' = Bits
      /\ ranks' = ranks /\ caps' = caps
  BY DEF Attempt, planVars, current, Bits
<1>2. PICK s \in Scores : /\ measured[current][k] \in {Unknown, s}
                          /\ measured' = [measured EXCEPT ![current][k] = s]
                          /\ attempts' = Append(attempts, [next EXCEPT !.score = s])
  BY <1>0 DEF Attempt
<1>3. /\ current \in Units /\ next \in AnAttempt /\ s \in Int /\ s # Unknown
      /\ attempts \in Seq(AnAttempt) /\ Len(attempts) \in Nat
      /\ measured \in [Units -> [1 .. MaximumAttempts -> Int]]
      /\ MaximumAttempts \in Nat /\ Len(attempts) < MaximumAttempts
  BY <1>1, RetryAssumption DEF IInv, RetryInv, AttemptInv, Unknown
<1>4. k \in 1 .. MaximumAttempts
  BY <1>0, <1>3
<1>5. /\ measured' \in [Units -> [1 .. MaximumAttempts -> Int]]
      /\ measured'[current][k] = s
      /\ \A n \in 1 .. MaximumAttempts : n # k => measured'[current][n] = measured[current][n]
  BY <1>2, <1>3, <1>4
<1> DEFINE a == [next EXCEPT !.score = s]
<1>6. /\ Len(attempts') = k /\ attempts'[k] = a
      /\ \A n \in 1 .. Len(attempts) : attempts'[n] = attempts[n]
  BY <1>0, <1>2, <1>3
<1>7. a \in AnAttempt /\ a.outliers = next.outliers
  BY <1>3 DEF AnAttempt
<1>8. ASSUME NEW b PROVE (Scored(current, b, k))' = [b EXCEPT !.score = s]
  BY <1>1, <1>5 DEF Scored
<1>9. ASSUME NEW b, NEW n \in 1 .. Len(attempts)
      PROVE (Scored(current, b, n))' = Scored(current, b, n)
  <2>1. n \in 1 .. MaximumAttempts /\ n # k
    BY <1>0, <1>3
  <2> QED BY <1>1, <1>5, <2>1 DEF Scored
<1>10. /\ \A b : (Following(current, b))' = Following(current, b)
       /\ \A b, c : (Follows(current, b, c))' <=> Follows(current, b, c)
       /\ (First(current))' = First(current)
  BY <1>1 DEF Following, Follows, First, Proposed, Extra
<1>11. next.outliers <= OutlierCap[current]
  <2>1. CASE attempts = <<>>
    BY <1>1, <1>3, <2>1, FirstTyped DEF AttemptInv, IInv
  <2>2. CASE attempts # <<>>
    BY <1>1, <1>3, <2>2, LatestFacts, FollowingFacts DEF AttemptInv, IInv
  <2> QED BY <2>1, <2>2
<1>12. \A n \in DOMAIN attempts' : attempts'[n].outliers <= OutlierCap[current]
  <2>1. DOMAIN attempts' = 1 .. k /\ DOMAIN attempts = 1 .. Len(attempts)
    BY <1>0, <1>2, <1>3
  <2>2. \A n \in 1 .. Len(attempts) : attempts[n].outliers <= OutlierCap[current]
    BY <1>1, <2>1 DEF AttemptInv
  <2>3. \A n \in 1 .. k : n = k \/ n \in 1 .. Len(attempts)
    BY <1>0, <1>3
  <2> QED BY <1>6, <1>7, <1>11, <2>1, <2>2, <2>3
<1>13. /\ Len(attempts) <= MaximumAttempts
       /\ Len(attempts) >= 1 => attempts[1] = Scored(current, First(current), 1)
       /\ \A n \in 2 .. Len(attempts) :
            /\ Follows(current, attempts[n - 1], Bits)
            /\ attempts[n] = Scored(current, Following(current, attempts[n - 1]), n)
  BY <1>1 DEF AttemptInv, Chained
<1>14. attempts'[1] = (Scored(current, First(current), 1))'
  <2>1. CASE k = 1
    <3>1. attempts = <<>>
      BY <1>0, <1>3, <2>1
    <3>2. next = First(current)
      BY <1>1, <3>1 DEF AttemptInv
    <3> QED BY <1>1, <1>5, <1>6, <1>10, <2>1, <3>2 DEF Scored
  <2>2. CASE k # 1
    <3>1. 1 \in 1 .. Len(attempts)
      BY <1>0, <1>3, <2>2
    <3>2. attempts'[1] = Scored(current, First(current), 1)
      BY <1>6, <1>13, <3>1
    <3>3. 1 \in 1 .. MaximumAttempts /\ 1 # k
      BY <1>3, <1>4, <2>2
    <3> QED BY <1>1, <1>5, <1>10, <3>2, <3>3 DEF Scored
  <2> QED BY <2>1, <2>2
<1>15. ASSUME NEW n \in 2 .. k
       PROVE  /\ (Follows(current, attempts[n - 1], Bits))'
              /\ attempts'[n] = (Scored(current, Following(current, attempts[n - 1]), n))'
  <2>1. n - 1 \in 1 .. Len(attempts)
    BY <1>0, <1>3
  <2>2. PICK b : b = attempts[n - 1]
    OBVIOUS
  <2>3. attempts'[n - 1] = b
    BY <1>6, <2>1, <2>2
  <2>4. /\ (Follows(current, attempts[n - 1], Bits))' <=> Follows(current, b, Bits)
        /\ (Following(current, attempts[n - 1]))' = Following(current, b)
    BY <1>1, <2>3 DEF Following, Follows, First, Proposed, Extra
  <2>5. CASE n = k
    <3>1. attempts # <<>> /\ b = Latest
      BY <1>0, <1>3, <2>1, <2>2, <2>5 DEF Latest
    <3>2. next = Following(current, b) /\ Follows(current, b, Bits)
      BY <1>1, <3>1 DEF AttemptInv
    <3> QED BY <1>1, <1>5, <1>6, <2>4, <2>5, <3>2 DEF Scored
  <2>6. CASE n # k
    <3>1. n \in 1 .. Len(attempts) /\ n \in 2 .. Len(attempts) /\ n \in 1 .. MaximumAttempts
      BY <1>0, <1>3, <1>4, <2>6
    <3>2. attempts'[n] = Scored(current, Following(current, b), n) /\ Follows(current, b, Bits)
      BY <1>6, <1>13, <2>2, <3>1
    <3> QED BY <1>1, <1>5, <2>4, <2>6, <3>1, <3>2 DEF Scored
  <2> QED BY <2>5, <2>6
<1>16. (Chained(current, attempts, Bits))'
  BY <1>0, <1>3, <1>4, <1>6, <1>14, <1>15 DEF Chained
<1> QED BY <1>1, <1>5, <1>12, <1>16 DEF AttemptInv

\* Steps that leave the attempts on the unit as they are.
LEMMA AttemptsStay ==
    ASSUME AttemptInv, UNCHANGED <<measured, attempts, committed, total, ranks, caps>>,
           pc \in {"attempt", "decide", "accepted"}
    PROVE  /\ (Chained(current, attempts, Bits))'
           /\ (\A n \in DOMAIN attempts : attempts[n].outliers <= OutlierCap[current])'
           /\ \A b : Follows(current, b, Bits) <=> (Follows(current, b, Bits))'
           /\ measured' \in [Units -> [1 .. MaximumAttempts -> Int]]
<1>1. current' = current /\ Bits' = Bits
  BY DEF current, Bits
<1>2. /\ (Chained(current, attempts, Bits))' <=> Chained(current, attempts, Bits)
      /\ \A b : Follows(current, b, Bits) <=> (Follows(current, b, Bits))'
  BY <1>1 DEF Chained, Follows, Following, First, Proposed, Extra, Scored
<1> QED BY <1>1, <1>2 DEF AttemptInv

LEMMA TryAgainStep ==
    ASSUME IInv, AttemptInv, TryAgain, UNCHANGED planVars
    PROVE  AttemptInv'
<1>1. /\ pc = "decide" /\ pc' = "attempt" /\ attempts' = attempts /\ next' = Retry /\ Retried
      /\ UNCHANGED <<measured, attempts, committed, total, ranks, caps>>
  BY DEF TryAgain, planVars
<1>2. attempts # <<>> /\ attempts \in Seq(AnAttempt)
  BY <1>1 DEF IInv, RetryInv
<1>3. Len(attempts) < MaximumAttempts /\ Follows(current, Latest, Bits)
      /\ Retry = Following(current, Latest)
  BY <1>1, <1>2, LatestFacts, RetriedIsFollowed, RetryIsFollowing DEF IInv, RetryInv
<1>4. /\ current' = current /\ Latest' = Latest
      /\ (Following(current, Latest))' = Following(current, Latest)
      /\ (Follows(current, Latest, Bits))' <=> Follows(current, Latest, Bits)
  BY <1>1 DEF current, Latest, Bits, Following, Follows, Proposed, Extra
<1> QED BY <1>1, <1>2, <1>3, <1>4, AttemptsStay DEF AttemptInv

LEMMA AcceptStep ==
    ASSUME IInv, AttemptInv, AcceptBest, UNCHANGED planVars
    PROVE  AttemptInv'
<1>1. /\ pc = "decide" /\ pc' = "accepted" /\ attempts' = attempts /\ ~ Retried
      /\ UNCHANGED <<measured, attempts, committed, total, ranks, caps>>
      /\ \E n \in DOMAIN attempts : accepted' = attempts[n] /\ IsBest(attempts[n], attempts)
  BY DEF AcceptBest, planVars
<1>2. attempts # <<>> /\ attempts \in Seq(AnAttempt)
  BY <1>1 DEF IInv, RetryInv
<1>3. ~ (Len(attempts) < MaximumAttempts /\ Follows(current, Latest, Bits))
  BY <1>1, <1>2, LatestFacts, RetriedIsFollowed DEF IInv, RetryInv
<1>4. Ended(current, attempts, Bits)
  <2>1. Len(attempts) <= MaximumAttempts /\ Len(attempts) \in Nat /\ MaximumAttempts \in Nat
    BY <1>1, <1>2, RetryAssumption DEF AttemptInv, Chained
  <2> QED BY <1>3, <2>1 DEF Ended, Latest
<1>5. (Ended(current, attempts, Bits))'
  <2>1. current' = current /\ Bits' = Bits
    BY <1>1 DEF current, Bits
  <2> QED BY <1>1, <1>4, <2>1 DEF Ended, Follows, Following, Proposed, Extra
<1>6. (IsBest(accepted, attempts))'
  BY <1>1 DEF IsBest
<1> QED BY <1>1, <1>2, <1>5, <1>6, AttemptsStay DEF AttemptInv

LEMMA AttemptInductive ==
    ASSUME IInv, AttemptInv, [RetryNext]_bothVars
    PROVE  AttemptInv'
<1>1. CASE Plan /\ UNCHANGED retryVars
  <2>1. phase # "planned"
    BY <1>1 DEF Plan, PlanBase, Unfundable, StartGreedy, Grown, StartSensitivity, Trimmed,
         GoalsReached, StartReconstruction, Project, Trusted, TakeDecisions, Promote,
         Grow, Trim, GrowToGoal, TrustTrim
  <2>2. pc = "down" /\ pc' = "down" /\ measured' = measured
    BY <1>1, <2>1 DEF IInv, RetryInv, retryVars
  <2> QED BY <2>2 DEF AttemptInv
<1>2. ASSUME StartRun \/ AllCommitted \/ Die PROVE AttemptInv'
  <2>1. pc' \in {"unit", "done", "down"} /\ measured' = measured
    BY <1>2 DEF StartRun, AllCommitted, Die, Forget
  <2> QED BY <2>1 DEF AttemptInv
<1>3. ASSUME BeginUnit, UNCHANGED planVars PROVE AttemptInv'
  <2>1. /\ pc' = "attempt" /\ measured' = measured /\ attempts' = <<>>
        /\ next' = [rank |-> ranks[current], outliers |-> Outliers[current], score |-> 0]
        /\ MaximumAttempts \in Nat /\ MaximumAttempts >= 1
    BY <1>3, RetryAssumption DEF BeginUnit
  <2>2. next' = (First(current))'
    BY <1>3, <2>1 DEF BeginUnit, First, current, planVars
  <2>3. (Chained(current, attempts, Bits))' /\ DOMAIN attempts' = {} /\ Len(attempts') = 0
    BY <2>1 DEF Chained
  <2> QED BY <2>1, <2>2, <2>3 DEF AttemptInv
<1>4. ASSUME Commit PROVE AttemptInv'
  <2>1. pc' = "unit" /\ measured' = [measured EXCEPT ![current] = NotMeasured]
    BY <1>4 DEF Commit
  <2>2. NotMeasured \in [1 .. MaximumAttempts -> Int]
    BY DEF NotMeasured, Unknown
  <2>3. measured' \in [Units -> [1 .. MaximumAttempts -> Int]]
    BY <2>1, <2>2 DEF AttemptInv
  <2> QED BY <2>1, <2>3 DEF AttemptInv
<1>5. CASE UNCHANGED bothVars
  <2>1. /\ pc' = pc /\ next' = next /\ accepted' = accepted
        /\ UNCHANGED <<measured, attempts, committed, total, ranks, caps>>
    BY <1>5 DEF bothVars, planVars, retryVars
  <2>2. /\ current' = current /\ Latest' = Latest
        /\ \A b : (Following(current, b))' = Following(current, b)
        /\ (First(current))' = First(current)
        /\ (IsBest(accepted, attempts))' <=> IsBest(accepted, attempts)
    BY <2>1 DEF current, Latest, Following, First, Proposed, IsBest
  <2>3. CASE pc \in {"attempt", "decide", "accepted"}
    <3>1. /\ (Following(current, Latest))' = Following(current, Latest)
          /\ (Follows(current, Latest, Bits))' <=> Follows(current, Latest, Bits)
          /\ (Ended(current, attempts, Bits))' <=> Ended(current, attempts, Bits)
      BY <2>1, <2>2 DEF Ended, Bits, Following, Follows, Proposed, Extra
    <3> QED BY <2>1, <2>2, <2>3, <3>1, AttemptsStay DEF AttemptInv
  <2>4. CASE pc \notin {"attempt", "decide", "accepted"}
    BY <2>1, <2>4 DEF AttemptInv
  <2> QED BY <2>3, <2>4
<1> QED
  BY <1>1, <1>2, <1>3, <1>4, <1>5, AttemptStep, TryAgainStep, AcceptStep DEF RetryNext, Factorize

-----------------------------------------------------------------------------
(***************************************************************************)
(* The durable sum is the sum of the committed extra bits.                 *)
(***************************************************************************)

Spent == [u \in Units |-> IF u <= Len(committed) THEN committed[u].extra ELSE 0]

SumInv == Len(committed) <= NumUnits /\ total = SumOver(Spent)

Committed == [rank : Int, outliers : Int, extra : Int]

LEMMA ElementOfSeq ==
    ASSUME NEW S, NEW s \in Seq(S), NEW n \in 1 .. Len(s) PROVE s[n] \in S
OBVIOUS

LEMMA ExtrasTyped ==
    ASSUME NEW s \in Seq(Committed)
    PROVE  [u \in Units |-> IF u <= Len(s) THEN s[u].extra ELSE 0] \in [Units -> Int]
<1>1. ASSUME NEW u \in Units, u <= Len(s) PROVE s[u].extra \in Int
  <2>1. u \in 1 .. Len(s)
    BY <1>1, PlanAssumption DEF Units
  <2>2. s[u] \in Committed
    BY <2>1, ElementOfSeq
  <2> QED BY <2>2 DEF Committed
<1>2. ASSUME NEW u \in Units
      PROVE  (IF u <= Len(s) THEN s[u].extra ELSE 0) \in Int
  BY <1>1
<1> QED BY <1>2

LEMMA SpentTyped ==
    ASSUME IInv
    PROVE  Spent \in [Units -> Int] /\ committed \in Seq(Committed)
<1>1. committed \in Seq(Committed)
  BY DEF IInv, RetryInv, Committed
<1> QED BY <1>1, ExtrasTyped DEF Spent

LEMMA SumInit ==
    ASSUME RetryInit PROVE SumInv
<1>1. committed = <<>> /\ total = 0 /\ NumUnits \in Nat /\ 1 \in Units
  BY PlanAssumption DEF RetryInit, Units
<1>2. Spent = [u \in Units |-> IF u = 1 THEN 0 ELSE 0]
  BY <1>1, PlanAssumption DEF Spent, Units
<1>3. SumOver(Spent) = 0
  BY <1>1, <1>2, SumOfOne
<1> QED BY <1>1, <1>3 DEF SumInv

\* A commit adds the extra bits of one unit.
LEMMA CommitAdds ==
    ASSUME IInv, SumInv, Commit, UNCHANGED planVars
    PROVE  SumInv'
<1> DEFINE extra == Max2(0, Extra(current, accepted))
<1>1. /\ ranks \in [Units -> Int] /\ current \in Units /\ accepted \in AnAttempt
  BY Typed DEF Commit, IInv, RetryInv
<1>2. extra \in Int
  <2>1. PICK x \in Int : x = Extra(current, accepted)
    BY <1>1, ExtraFact
  <2> QED BY <2>1, Between
<1>3. PICK e \in Int : e = extra
  BY <1>2
<1>4. PICK c : c = [rank |-> accepted.rank, outliers |-> accepted.outliers, extra |-> e]
  OBVIOUS
<1>5. committed' = Append(committed, c) /\ total' = total + e /\ c.extra = e
  BY <1>3, <1>4 DEF Commit
<1>6. PICK k \in Nat : k = Len(committed)
  BY SpentTyped
<1>7. /\ Len(committed') = k + 1 /\ committed'[k + 1] = c
      /\ \A n \in 1 .. k : committed'[n] = committed[n]
  BY <1>5, <1>6, SpentTyped
<1>8. current = k + 1 /\ current \in 1 .. NumUnits
  BY <1>1, <1>6 DEF current, Units
<1>9. IInv'
  <2>1. Factorize
    BY DEF Factorize
  <2> QED BY <2>1, RetryStep_
<1>10. Spent \in [Units -> Int] /\ Spent' \in [Units -> Int]
  <2>1. committed' \in Seq(Committed)
    BY <1>9 DEF IInv, RetryInv, Committed
  <2> QED BY <2>1, SpentTyped, ExtrasTyped DEF Spent
<1>11. Spent'[current] = Spent[current] + e
  <2>1. Spent'[current] = c.extra /\ Spent[current] = 0
    BY <1>1, <1>6, <1>7, <1>8 DEF Spent
  <2> QED BY <1>5, <2>1
<1>12. ASSUME NEW v \in Units, v # current PROVE Spent'[v] = Spent[v]
  <2>1. v \in 1 .. NumUnits
    BY DEF Units
  <2>2. v <= k + 1 <=> v \in 1 .. k
    BY <1>8, <1>12, <2>1
  <2>3. v <= k <=> v \in 1 .. k
    BY <2>1
  <2> QED BY <1>6, <1>7, <2>2, <2>3 DEF Spent
<1>13. SumOver(Spent') = SumOver(Spent) + e
  BY <1>1, <1>10, <1>11, <1>12, SumChanges
<1> QED BY <1>5, <1>7, <1>8, <1>13, PlanAssumption DEF SumInv

LEMMA SumInductive ==
    ASSUME IInv, SumInv, [RetryNext]_bothVars
    PROVE  SumInv'
<1>1. CASE Commit /\ UNCHANGED planVars
  BY <1>1, CommitAdds
<1>2. CASE ~ Commit \/ UNCHANGED bothVars \/ UNCHANGED retryVars
  <2>1. committed' = committed /\ total' = total
    BY <1>2 DEF RetryNext, Factorize, StartRun, BeginUnit, Attempt, TryAgain, AcceptBest,
         AllCommitted, Die, Forget, bothVars, retryVars
  <2> QED BY <2>1 DEF SumInv, Spent
<1> QED BY <1>1, <1>2 DEF RetryNext, bothVars

-----------------------------------------------------------------------------
(***************************************************************************)
(* The losses of the layer that is tuned, and those in a checkpoint of the *)
(* current layer, are a beginning of the same curve.  Tuning ends when the *)
(* curve does, or behind its first loss that is not finite.                *)
(***************************************************************************)

Tuning == {"epoch", "save", "publish", "point", "sweep", "tuned"}

\* Losses s are the first ones of curve c, all finite.
Finite(c, s) ==
    /\ s \in Seq(Int)
    /\ Len(s) \in 1 .. Epochs + 1
    /\ \A n \in 1 .. Len(s) : s[n] \in Losses /\ c[n - 1] = s[n]

\* The same, and one more that is not.
Diverged(c, s) ==
    \E t : /\ Finite(c, t) /\ Len(t) <= Epochs
           /\ s = Append(t, NotFinite)
           /\ c[Len(t)] = NotFinite

TunedInv ==
    /\ curve \in [Units -> [0 .. Epochs -> Int]]
    /\ pc \in {"down", "attempt", "decide", "done"} => tpc = "idle"
    /\ pc = "unit" => tpc \notin Tuning
    /\ tpc \in Tuning => tuning = current
    /\ tpc \in Tuning /\ ~ stopped => Finite(curve[current], losses)
    /\ tpc \in Tuning /\ stopped => Diverged(curve[current], losses)
    /\ tpc \in {"save", "publish", "point", "sweep"} => ~ stopped
    /\ tpc = "tuned" => stopped \/ Len(losses) > Epochs
    /\ pointer # NoPointer =>
        /\ pointer.layer \in 1 .. current
        /\ pointer.layer = current => Finite(curve[current], pointer.generation.losses)

LEMMA TunedInit == RetryInit /\ TuningInit => TunedInv
<1> SUFFICES ASSUME RetryInit, TuningInit PROVE TunedInv
  OBVIOUS
<1>1. NotDrawn \in [0 .. Epochs -> Int]
  BY DEF NotDrawn, Undrawn
<1>2. curve \in [Units -> [0 .. Epochs -> Int]]
  BY <1>1, UnitAssumption DEF TuningInit
<1> QED BY <1>2 DEF RetryInit, TuningInit, TunedInv, Tuning

\* What was drawn stays.
LEMMA FiniteKept ==
    ASSUME NEW c, NEW d, NEW s, Finite(c, s), \A e \in 0 .. Epochs : c[e] # Undrawn => d[e] = c[e]
    PROVE  Finite(d, s)
<1>1. Epochs \in Nat /\ Losses \subseteq Nat /\ Len(s) \in Nat
  BY TuningAssumption DEF Finite
<1>2. ASSUME NEW n \in 1 .. Len(s) PROVE d[n - 1] = s[n]
  <2>1. s[n] \in Losses /\ c[n - 1] = s[n] /\ n - 1 \in 0 .. Epochs
    BY <1>1 DEF Finite
  <2>2. s[n] # Undrawn
    BY <1>1, <2>1 DEF Undrawn
  <2> QED BY <2>1, <2>2
<1> QED BY <1>2 DEF Finite

LEMMA DrawFacts ==
    ASSUME curve \in [Units -> [0 .. Epochs -> Int]], NEW l \in Units, NEW e \in 0 .. Epochs,
           NEW x \in Int, Draw(l, e, x)
    PROVE  /\ curve' \in [Units -> [0 .. Epochs -> Int]]
           /\ curve'[l][e] = x
           /\ \A d \in 0 .. Epochs : curve[l][d] # Undrawn => curve'[l][d] = curve[l][d]
           /\ \A k \in Units : k # l => curve'[k] = curve[k]
BY DEF Draw

LEMMA CurrentType ==
    ASSUME IInv PROVE current \in Nat /\ current >= 1 /\ current \in 1 .. current
BY DEF IInv, RetryInv, current

\* Steps that leave the tuning alone.
LEMMA TunedStays ==
    ASSUME IInv, TunedInv, UNCHANGED <<tuningVars, committed>>,
           pc' \in {"down", "attempt", "decide", "done"} => tpc = "idle",
           pc' = "unit" => tpc \notin Tuning
    PROVE  TunedInv'
<1>1. /\ curve' = curve /\ tpc' = tpc /\ tuning' = tuning /\ losses' = losses
      /\ stopped' = stopped /\ pointer' = pointer /\ current' = current
  BY DEF tuningVars, directory, current
<1> QED BY <1>1 DEF TunedInv

LEMMA TunedFactor ==
    ASSUME IInv, TunedInv, FactorStep
    PROVE  TunedInv'
<1>1. UNCHANGED <<tuningVars, committed>>
  BY DEF FactorStep, StartRun, BeginUnit, Attempt, TryAgain, AcceptBest, AllCommitted
<1>2. \/ pc = "down" /\ pc' = "unit"
      \/ pc = "unit" /\ pc' \in {"attempt", "done"} /\ tpc = "idle"
      \/ pc \in {"attempt", "decide"} /\ pc' \in {"attempt", "decide", "accepted"}
  BY DEF FactorStep, StartRun, BeginUnit, Attempt, TryAgain, AcceptBest, AllCommitted
<1>3. /\ pc' \in {"down", "attempt", "decide", "done"} => tpc = "idle"
      /\ pc' = "unit" => tpc \notin Tuning
  BY <1>2 DEF TunedInv, Tuning
<1> QED BY <1>1, <1>3, TunedStays

LEMMA TunedBegin ==
    ASSUME IInv, TunedInv, BeginTuning
    PROVE  TunedInv'
<1>1. /\ pc = "accepted" /\ pc' = "accepted" /\ current' = current /\ current \in Units
      /\ BeginFresh(current) \/ Resume(current)
  BY UnitAssumption DEF BeginTuning, retryVars, current
<1>2. CASE BeginFresh(current)
  <2>1. PICK x \in Losses : Draw(current, 0, x) /\ losses' = <<x>>
    BY <1>2 DEF BeginFresh
  <2>2. x \in Int /\ 0 \in 0 .. Epochs /\ Epochs \in Nat
    BY TuningAssumption
  <2>3. curve' \in [Units -> [0 .. Epochs -> Int]] /\ curve'[current][0] = x
    BY <1>1, <2>1, <2>2, DrawFacts DEF TunedInv
  <2>4. Finite(curve'[current], <<x>>)
    BY <2>2, <2>3 DEF Finite
  <2>5. /\ tpc' = "epoch" /\ tuning' = current /\ stopped' = FALSE /\ pointer' = pointer
        /\ pointer # NoPointer => pointer.layer # current
    BY <1>2 DEF BeginFresh, Going, directory, IsFor
  <2> QED BY <1>1, <2>1, <2>3, <2>4, <2>5 DEF TunedInv, Tuning
<1>3. CASE Resume(current)
  <2>1. /\ tuning' = current /\ stopped' = FALSE /\ pointer' = pointer /\ curve' = curve
        /\ pointer # NoPointer /\ pointer.layer = current
        /\ \/ tpc' = "epoch" /\ losses' = pointer.generation.losses
           \/ tpc' = "unreadable"
    BY <1>3 DEF Resume, Going, directory, IsFor
  <2> QED BY <1>1, <2>1 DEF TunedInv, Tuning
<1> QED BY <1>1, <1>2, <1>3

LEMMA TunedEpoch ==
    ASSUME IInv, TunedInv, Epoch, UNCHANGED <<pc, committed>>
    PROVE  TunedInv'
<1>1. /\ tpc = "epoch" /\ ~ stopped /\ Len(losses) <= Epochs
      /\ pointer' = pointer /\ tuning' = tuning /\ current' = current /\ pc' = pc
  BY DEF Epoch, directory, current
<1>2. PICK x \in Losses \cup {NotFinite} :
        /\ Draw(tuning, Len(losses), x)
        /\ losses' = Append(losses, x)
        /\ stopped' = (x = NotFinite)
        /\ tpc' = IF x = NotFinite THEN "epoch" ELSE "save"
  BY DEF Epoch, Going
<1>3. tuning = current /\ Finite(curve[current], losses)
  BY <1>1 DEF TunedInv, Tuning
<1>4. PICK s : s = losses
  OBVIOUS
<1>5. /\ s \in Seq(Int) /\ Len(s) \in 1 .. Epochs + 1 /\ Len(s) <= Epochs /\ Len(s) \in 0 .. Epochs
      /\ Epochs \in Nat /\ Losses \subseteq Nat /\ x \in Int
  <2>1. s \in Seq(Int) /\ Len(s) \in 1 .. Epochs + 1 /\ Len(s) <= Epochs
    BY <1>1, <1>3, <1>4 DEF Finite
  <2>2. Epochs \in Nat /\ Losses \subseteq Nat
    BY TuningAssumption
  <2>3. x \in Int
    BY <2>2 DEF NotFinite
  <2> QED BY <2>1, <2>2, <2>3
<1>6. pc = "accepted" /\ current \in Units
  BY <1>1 DEF TunedInv, Tuning, IInv, RetryInv
<1>7. /\ curve' \in [Units -> [0 .. Epochs -> Int]]
      /\ curve'[current][Len(s)] = x
      /\ \A d \in 0 .. Epochs : curve[current][d] # Undrawn => curve'[current][d] = curve[current][d]
  BY <1>2, <1>3, <1>4, <1>5, <1>6, DrawFacts DEF TunedInv
<1>8. Finite(curve'[current], s)
  BY <1>3, <1>4, <1>7, FiniteKept
<1>9. pointer # NoPointer =>
        /\ pointer.layer \in 1 .. current
        /\ pointer.layer = current => Finite(curve'[current], pointer.generation.losses)
  BY <1>7, FiniteKept DEF TunedInv
<1>10. CASE x = NotFinite
  <2>1. Diverged(curve'[current], Append(s, NotFinite))
    BY <1>5, <1>7, <1>8, <1>10 DEF Diverged
  <2> QED BY <1>1, <1>2, <1>3, <1>4, <1>6, <1>7, <1>9, <1>10, <2>1 DEF TunedInv, Tuning
<1>11. CASE x # NotFinite
  <2>1. x \in Losses
    BY <1>2, <1>11
  <2>2. PICK t : t = Append(s, x)
    OBVIOUS
  <2>3. t \in Seq(Int) /\ Len(t) = Len(s) + 1 /\ t[Len(s) + 1] = x
        /\ \A n \in 1 .. Len(s) : t[n] = s[n]
    BY <1>5, <2>2
  <2>4. ASSUME NEW n \in 1 .. Len(t) PROVE t[n] \in Losses /\ curve'[current][n - 1] = t[n]
    <3>1. CASE n \in 1 .. Len(s)
      BY <1>8, <2>3, <3>1 DEF Finite
    <3>2. CASE n = Len(s) + 1
      <4>1. n - 1 = Len(s)
        BY <1>5, <3>2
      <4> QED BY <1>7, <2>1, <2>3, <3>2, <4>1
    <3> QED BY <1>5, <2>3, <3>1, <3>2
  <2>5. Finite(curve'[current], t)
    BY <1>5, <2>3, <2>4 DEF Finite
  <2> QED BY <1>1, <1>2, <1>3, <1>4, <1>6, <1>7, <1>9, <1>11, <2>2, <2>5 DEF TunedInv, Tuning
<1> QED BY <1>10, <1>11

\* The other steps of tuning compute nothing.
LEMMA TunedStep ==
    ASSUME IInv, TunedInv, TuneStep
    PROVE  TunedInv'
<1>1. pc' = pc /\ committed' = committed /\ current' = current
  BY DEF TuneStep, retryVars, current
<1>2. CASE Epoch
  BY <1>1, <1>2, TunedEpoch
<1>3. CASE \/ Tuned \/ MakeTemporary \/ Publish \/ WritePointer \/ Sweep \/ Swept
           \/ UnlinkPointer \/ ClearOne \/ Cleared
  <2>1. curve' = curve /\ tuning' = tuning /\ losses' = losses /\ stopped' = stopped
    BY <1>3 DEF Tuned, MakeTemporary, Publish, WritePointer, Sweep, Swept,
                UnlinkPointer, ClearOne, Cleared
  <2>2. \/ /\ tpc \in {"epoch", "save", "publish", "sweep"} /\ tpc' \in Tuning /\ pointer' = pointer
           /\ tpc' \in {"save", "publish", "point", "sweep"} => tpc # "epoch"
           /\ tpc' = "tuned" => stopped \/ Len(losses) > Epochs
        \/ WritePointer
        \/ /\ tpc \in {"clear", "clearing"} /\ tpc' \notin Tuning
           /\ pointer' = pointer \/ pointer' = NoPointer
    BY <1>3 DEF Tuned, MakeTemporary, Publish, Sweep, Swept, UnlinkPointer, ClearOne, Cleared,
                Going, Tuning, directory
  <2>3. CASE /\ tpc \in {"epoch", "save", "publish", "sweep"} /\ tpc' \in Tuning /\ pointer' = pointer
             /\ tpc' \in {"save", "publish", "point", "sweep"} => tpc # "epoch"
             /\ tpc' = "tuned" => stopped \/ Len(losses) > Epochs
    BY <1>1, <2>1, <2>3 DEF TunedInv, Tuning
  <2>4. CASE WritePointer
    <3>1. tpc = "point" /\ tpc' = "sweep" /\ pointer' = [layer |-> tuning, generation |-> New]
      BY <2>4 DEF WritePointer, Going
    <3>2. pointer'.layer = tuning /\ pointer'.generation.losses = losses
      BY <3>1 DEF New
    <3> QED BY <1>1, <2>1, <3>1, <3>2, CurrentType DEF TunedInv, Tuning
  <2>5. CASE /\ tpc \in {"clear", "clearing"} /\ tpc' \notin Tuning
             /\ pointer' = pointer \/ pointer' = NoPointer
    BY <1>1, <2>1, <2>5 DEF TunedInv, Tuning
  <2> QED BY <2>2, <2>3, <2>4, <2>5
<1> QED BY <1>2, <1>3 DEF TuneStep, TuningStep

LEMMA TunedInductive ==
    ASSUME IInv, TunedInv, [Next]_vars
    PROVE  TunedInv'
<1>1. CASE PlanStep \/ Stopped \/ UNCHANGED vars
  <2>1. UNCHANGED <<tuningVars, committed>> /\ pc' = pc
    BY <1>1 DEF PlanStep, Stopped, vars, retryVars
  <2> QED BY <2>1, TunedStays DEF TunedInv
<1>2. CASE CommitUnit
  <2>1. /\ tpc = "tuned" /\ tpc' = "clear" /\ pc' = "unit" /\ pointer' = pointer
        /\ curve' = [curve EXCEPT ![tuning] = NotDrawn]
    BY <1>2 DEF CommitUnit, Commit, BeginClear, Going, directory
  <2>2. current' = current + 1 /\ current \in Nat
    <3>1. PICK c : committed' = Append(committed, c)
      BY <1>2 DEF CommitUnit, Commit
    <3>2. committed \in Seq(Committed)
      BY SpentTyped
    <3>3. Len(committed') = Len(committed) + 1 /\ Len(committed) \in Nat
      BY <3>1, <3>2
    <3> QED BY <3>3 DEF current
  <2>3. NotDrawn \in [0 .. Epochs -> Int]
    BY DEF NotDrawn, Undrawn
  <2>4. curve' \in [Units -> [0 .. Epochs -> Int]]
    BY <2>1, <2>3 DEF TunedInv
  <2>5. pointer' # NoPointer => pointer'.layer \in 1 .. current' /\ pointer'.layer # current'
    <3>1. pointer # NoPointer => pointer.layer \in 1 .. current
      BY DEF TunedInv
    <3> QED BY <2>1, <2>2, <3>1
  <2> QED BY <2>1, <2>4, <2>5 DEF TunedInv, Tuning
<1>3. CASE DieAnywhere
  <2>1. /\ tpc' = "idle" /\ pc' = "down" /\ pointer' = pointer /\ curve' = curve
        /\ current' = current
    BY <1>3 DEF DieAnywhere, Die, Forget, TuningDie, Going, current
  <2> QED BY <2>1 DEF TunedInv, Tuning
<1> QED BY <1>1, <1>2, <1>3, TunedFactor, TunedBegin, TunedStep DEF Next

\* A list of losses that is as long as the first ones of the curve.
LEMMA LossesAre ==
    ASSUME NEW l, NEW s, Finite(curve[l], s)
    PROVE  LossesUpTo(l, Len(s) - 1) = s
<1>1. s \in Seq(Int) /\ Len(s) \in Nat /\ \A n \in 1 .. Len(s) : s[n] = curve[l][n - 1]
  BY TuningAssumption DEF Finite
<1>2. LossesUpTo(l, Len(s) - 1) = [n \in 1 .. Len(s) |-> curve[l][n - 1]]
  BY <1>1 DEF LossesUpTo
<1>3. s = [n \in 1 .. Len(s) |-> s[n]]
  BY <1>1
<1> QED BY <1>1, <1>2, <1>3

\* Losses are numbers, and none of them is the one that is not finite.
LEMMA FiniteCurve ==
    ASSUME NEW c, NEW s, Finite(c, s), NEW e \in Nat, e < Len(s)
    PROVE  c[e] # NotFinite
<1>1. e + 1 \in 1 .. Len(s) /\ (e + 1) - 1 = e
  BY TuningAssumption DEF Finite
<1>2. s[e + 1] \in Losses /\ c[(e + 1) - 1] = s[e + 1]
  BY <1>1 DEF Finite
<1> QED BY <1>1, <1>2, TuningAssumption DEF NotFinite

\* What was tuned to its end has all the losses there are.
LEMMA TunedToItsEnd ==
    ASSUME IInv, TunedInv, tpc = "tuned"
    PROVE  /\ losses = LossesUpTo(current, LastEpoch(current))
           /\ Outcome.best = Best(LossesUpTo(current, LastFinite(current)))
<1> DEFINE l == current  c == curve[current]
<1>0. Epochs \in Nat
  BY TuningAssumption
<1>1. CASE stopped
  <2>1. PICK t : /\ Finite(c, t) /\ Len(t) <= Epochs
                 /\ losses = Append(t, NotFinite) /\ c[Len(t)] = NotFinite
    BY <1>1 DEF TunedInv, Tuning, Diverged
  <2>2. t \in Seq(Int) /\ Len(t) \in 0 .. Epochs /\ Len(t) >= 1
    BY <1>0, <2>1 DEF Finite
  <2>3. Len(t) \in Ends(l)
    BY <2>1, <2>2 DEF Ends
  <2>4. \A d \in Ends(l) : Len(t) <= d /\ d \in Nat
    <3> SUFFICES ASSUME NEW d \in Ends(l), ~ (Len(t) <= d) PROVE FALSE
      BY <1>0 DEF Ends
    <3>1. d \in Nat /\ d < Len(t) /\ c[d] = NotFinite
      BY <1>0, <2>2 DEF Ends
    <3> QED BY <2>1, <3>1, FiniteCurve
  <2>5. LastEpoch(l) = Len(t)
    <3> DEFINE P(e) == e \in Ends(l) /\ \A d \in Ends(l) : e <= d
    <3>1. P(Len(t))
      BY <2>3, <2>4
    <3>2. \A e : P(e) => e = Len(t)
      BY <2>2, <2>3, <2>4
    <3>3. LastEpoch(l) = CHOOSE e \in Ends(l) : \A d \in Ends(l) : e <= d
      BY <2>3 DEF LastEpoch
    <3> QED BY <3>1, <3>2, <3>3
  <2>6. LastFinite(l) = Len(t) - 1
    BY <2>3, <2>5 DEF LastFinite
  <2>7. LossesUpTo(l, Len(t) - 1) = t
    BY <2>1, LossesAre
  <2>8. LossesUpTo(l, Len(t)) = losses
    <3>1. /\ losses \in Seq(Int) /\ Len(losses) = Len(t) + 1 /\ losses[Len(t) + 1] = NotFinite
          /\ \A n \in 1 .. Len(t) : losses[n] = t[n]
      BY <2>1, <2>2 DEF NotFinite
    <3>2. ASSUME NEW n \in 1 .. Len(t) + 1 PROVE losses[n] = c[n - 1]
      <4>1. CASE n \in 1 .. Len(t)
        BY <2>1, <3>1, <4>1 DEF Finite
      <4>2. CASE n = Len(t) + 1
        <5>1. n - 1 = Len(t)
          BY <2>2, <4>2
        <5> QED BY <2>1, <3>1, <4>2, <5>1
      <4> QED BY <2>2, <4>1, <4>2
    <3>3. losses = [n \in 1 .. Len(t) + 1 |-> losses[n]]
      BY <3>1
    <3> QED BY <3>2, <3>3 DEF LossesUpTo
  <2>9. SubSeq(losses, 1, Len(losses) - 1) = t
    BY <2>1, <2>2 DEF NotFinite
  <2> QED BY <1>1, <2>5, <2>6, <2>7, <2>8, <2>9 DEF Outcome
<1>2. CASE ~ stopped
  <2>1. Finite(c, losses) /\ Len(losses) > Epochs
    BY <1>2 DEF TunedInv, Tuning
  <2>2. Len(losses) = Epochs + 1
    BY <1>0, <2>1 DEF Finite
  <2>3. Ends(l) = {}
    <3> SUFFICES ASSUME NEW d \in Ends(l) PROVE FALSE
      OBVIOUS
    <3>1. d \in Nat /\ d < Len(losses) /\ c[d] = NotFinite
      BY <1>0, <2>2 DEF Ends
    <3> QED BY <2>1, <3>1, FiniteCurve
  <2>4. LastEpoch(l) = Epochs /\ LastFinite(l) = Epochs
    BY <2>3 DEF LastEpoch, LastFinite
  <2>5. LossesUpTo(l, Len(losses) - 1) = losses
    BY <2>1, LossesAre
  <2>6. Len(losses) - 1 = Epochs
    BY <1>0, <2>2
  <2> QED BY <1>2, <2>4, <2>5, <2>6 DEF Outcome
<1> QED BY <1>1, <1>2

LEMMA CommitIsUninterrupted ==
    ASSUME IInv, AttemptInv, SumInv, TunedInv, CommitUnit
    PROVE  /\ IsBest(accepted, AttemptsFrom(current, First(current), ExtraBudget - total))
           /\ losses = LossesUpTo(current, LastEpoch(current))
           /\ Outcome.best = Best(LossesUpTo(current, LastFinite(current)))
           /\ total' = SumOver([u \in Units |->
                        IF u <= Len(committed') THEN committed'[u].extra ELSE 0])
<1>1. pc = "accepted" /\ tpc = "tuned"
  BY DEF CommitUnit, Commit, BeginClear
<1>2. AttemptsFrom(current, First(current), Bits) = attempts
  <2>1. attempts \in Seq(AnAttempt)
    BY DEF IInv, RetryInv
  <2>2. attempts # <<>> /\ Chained(current, attempts, Bits) /\ Ended(current, attempts, Bits)
    BY <1>1 DEF AttemptInv
  <2> QED BY <2>1, <2>2, RunIsUnique
<1>3. IsBest(accepted, attempts)
  BY <1>1 DEF AttemptInv
<1>4. SumInv'
  BY CommitAdds DEF CommitUnit
<1>5. total' = SumOver([u \in Units |->
                        IF u <= Len(committed') THEN committed'[u].extra ELSE 0])
  BY <1>4 DEF SumInv, Spent
<1> QED BY <1>1, <1>2, <1>3, <1>5, TunedToItsEnd DEF Bits

UninterruptedInv == IInv /\ AttemptInv /\ SumInv /\ TunedInv

\* Wherever a process dies, in attempts, tuning, saves or clears, what is committed
\* for a unit is what one process would have committed that never died.
THEOREM RestartsChangeNothing == Spec => CommitsAsUninterrupted
<1>1. Init => UninterruptedInv
  BY RetryInit_, AttemptInit, SumInit, TunedInit DEF Init, UninterruptedInv
<1>2. UninterruptedInv /\ [Next]_vars => UninterruptedInv'
  <2> SUFFICES ASSUME UninterruptedInv, [Next]_vars PROVE UninterruptedInv'
    OBVIOUS
  <2>1. [RetryNext]_bothVars
    BY StepOfRetries
  <2>2. IInv'
    BY <2>1, AnyRetryStep DEF UninterruptedInv
  <2> QED BY <2>1, <2>2, AttemptInductive, SumInductive, TunedInductive DEF UninterruptedInv
<1>3. UninterruptedInv /\ [Next]_vars =>
        (CommitUnit =>
            /\ IsBest(accepted, AttemptsFrom(current, First(current), ExtraBudget - total))
            /\ losses = LossesUpTo(current, LastEpoch(current))
            /\ Outcome.best = Best(LossesUpTo(current, LastFinite(current)))
            /\ total' = SumOver([u \in Units |->
                        IF u <= Len(committed') THEN committed'[u].extra ELSE 0]))
  BY CommitIsUninterrupted DEF UninterruptedInv
<1> QED BY <1>1, <1>2, <1>3, PTL DEF Spec, CommitsAsUninterrupted
=============================================================================
