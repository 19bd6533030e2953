----------------------------- MODULE RetryBudget -----------------------------
(***************************************************************************)
(* Factorization attempts of the planned units, one after another, under   *)
(* one budget of extra bits for the whole run.  An attempt that misses its *)
(* error threshold is repeated with a higher rank, or at the rank cap with *)
(* more outlier columns, as long as the budget pays for it; the best       *)
(* attempt is accepted.  The process can die at any point, and the next    *)
(* one adds up what the committed units have spent.                        *)
(*                                                                         *)
(* An attempt is abstracted to its score: its error over the threshold, so *)
(* 1 is good enough.  A lower score is a lower weighted error, as it is    *)
(* when the weighted threshold is the one that is set.                     *)
(***************************************************************************)
EXTENDS RankPlan, Sequences

CONSTANTS
    ExtraBudget,       \* floor(target * extra_bit_budget_fraction)
    MaximumAttempts,   \* retry.maximum_attempts
    Increase,          \* rank_increase_fraction, a percentage
    Outliers,          \* planned outlier columns, per unit
    OutlierIncrement,  \* outlier_count_increment_at_rank_cap
    OutlierCap,        \* in_features, per unit
    OutlierBits,       \* bits of one outlier column, per unit
    Scores,            \* what an attempt may score
    MaxDeaths          \* bound: how often the process may die

ASSUME RetryAssumption ==
    /\ ExtraBudget \in Nat
    /\ MaximumAttempts \in Nat \ {0}
    /\ Increase \in Nat
    /\ Outliers \in [Units -> Nat]
    /\ OutlierIncrement \in Nat
    /\ OutlierCap \in [Units -> Nat] /\ \A u \in Units : Outliers[u] <= OutlierCap[u]
    /\ OutlierBits \in [Units -> Nat]
    /\ Scores \subseteq Nat
    /\ MaxDeaths \in Nat

VARIABLES
    committed,   \* durable: results of the units 1, 2, ..., in plan order
    total,       \* durable: the extra bits of these results, added up
    measured,    \* the scores seen so far: an attempt repeated scores the same
    pc,          \* where the process is; "down" when there is none
    retrySpent,  \* budget.retry_bits_spent
    attempts,    \* the attempts on the current unit
    next,        \* rank and outlier count of the next attempt
    accepted,    \* the accepted attempt
    deaths       \* how often a process has died

retryVars == <<committed, total, measured, pc, retrySpent, attempts, next, accepted, deaths>>

NoAttempt == [rank |-> 0, outliers |-> 0, score |-> 0]
Unknown == -1
NotMeasured == [n \in 1 .. MaximumAttempts |-> Unknown]
current == Len(committed) + 1

RetryInit ==
    /\ committed = <<>> /\ total = 0
    /\ measured = [u \in Units |-> NotMeasured]
    /\ pc = "down"
    /\ retrySpent = 0
    /\ attempts = <<>> /\ next = NoAttempt /\ accepted = NoAttempt
    /\ deaths = 0

-----------------------------------------------------------------------------
\* Bits of attempt a on unit u beyond the planned ones.
Extra(u, a) ==
    (a.rank - ranks[u]) * PerRank[u] + (a.outliers - Outliers[u]) * OutlierBits[u]

\* Broken form of Available: what earlier units have spent is forgotten.
AvailableToOne(u, a) == Max2(0, ExtraBudget - Extra(u, a))

\* Bits that are left when attempt a has been made.
Available(u, a) == Max2(0, ExtraBudget - retrySpent - Extra(u, a))

Proposed(u, rank) == Min2(Up((rank * (100 + Increase) + 99) \div 100), caps[u])

Latest == attempts[Len(attempts)]
MayRetry == Latest.score > 1 /\ Len(attempts) < MaximumAttempts

\* The first of the attempts with the lowest score.
IsBest(a, s) ==
    \E n \in DOMAIN s :
        /\ a = s[n]
        /\ \A m \in DOMAIN s : s[m].score >= a.score
        /\ \A m \in 1 .. n - 1 : s[m].score > a.score

\* Resume: the budget is rebuilt from the committed units.
StartRun ==
    /\ pc = "down"
    /\ phase = "planned"
    /\ pc' = "unit"
    /\ retrySpent' = total
    /\ UNCHANGED <<committed, total, measured, attempts, next, accepted, deaths>>

BeginUnit ==
    /\ pc = "unit"
    /\ current \in Units
    /\ attempts' = <<>>
    /\ next' = [rank |-> ranks[current], outliers |-> Outliers[current], score |-> 0]
    /\ pc' = "attempt"
    /\ UNCHANGED <<committed, total, measured, retrySpent, accepted, deaths>>

\* Outliers, ADMM, scale fit and metric of one attempt.
Attempt ==
    /\ pc = "attempt"
    /\ LET n == Len(attempts) + 1
       IN  \E s \in Scores :
            /\ measured[current][n] \in {Unknown, s}
            /\ measured' = [measured EXCEPT ![current][n] = s]
            /\ attempts' = Append(attempts, [next EXCEPT !.score = s])
    /\ pc' = "decide"
    /\ UNCHANGED <<committed, total, retrySpent, next, accepted, deaths>>

RaisedRank == [Latest EXCEPT !.rank = Proposed(current, Latest.rank)]
RaisedOutliers ==
    [Latest EXCEPT !.outliers = Min2(@ + OutlierIncrement, OutlierCap[current])]

\* What another attempt costs: a rank, or outlier columns at the rank cap.
Retry ==
    IF RaisedRank.rank > Latest.rank THEN RaisedRank ELSE RaisedOutliers
RetryCost ==
    (Retry.rank - Latest.rank) * PerRank[current]
        + (Retry.outliers - Latest.outliers) * OutlierBits[current]
Retried ==
    /\ MayRetry
    /\ Retry.rank > Latest.rank \/ Retry.outliers > Latest.outliers
    /\ RetryCost <= Available(current, Latest)

TryAgain ==
    /\ pc = "decide"
    /\ Retried
    /\ next' = Retry
    /\ pc' = "attempt"
    /\ UNCHANGED <<committed, total, measured, retrySpent, attempts, accepted, deaths>>

AcceptBest ==
    /\ pc = "decide"
    /\ ~ Retried
    /\ \E n \in DOMAIN attempts : accepted' = attempts[n] /\ IsBest(attempts[n], attempts)
    /\ pc' = "accepted"
    /\ UNCHANGED <<committed, total, measured, retrySpent, attempts, next, deaths>>

\* commit_layer with its extra bits, which the next process adds up.  The
\* scores of the unit are not needed again.
Commit ==
    /\ pc = "accepted"
    /\ LET extra == Max2(0, Extra(current, accepted))
       IN  /\ committed' = Append(committed, [rank |-> accepted.rank,
                    outliers |-> accepted.outliers, extra |-> extra])
           /\ total' = total + extra
           /\ retrySpent' = retrySpent + extra
    /\ measured' = [measured EXCEPT ![current] = NotMeasured]
    /\ attempts' = <<>> /\ next' = NoAttempt /\ accepted' = NoAttempt
    /\ pc' = "unit"
    /\ UNCHANGED deaths

Forget ==
    /\ pc' = "down"
    /\ retrySpent' = 0
    /\ attempts' = <<>> /\ next' = NoAttempt /\ accepted' = NoAttempt
    /\ UNCHANGED <<committed, total, measured>>

Die ==
    /\ pc \notin {"down", "done"}
    /\ deaths < MaxDeaths
    /\ deaths' = deaths + 1
    /\ Forget

AllCommitted ==
    /\ pc = "unit"
    /\ current \notin Units
    /\ pc' = "done"
    /\ UNCHANGED <<committed, total, measured, retrySpent, attempts, next, accepted, deaths>>

Factorize ==
    StartRun \/ BeginUnit \/ Attempt \/ TryAgain \/ AcceptBest \/ Commit \/ AllCommitted

RetrySpec ==
    /\ PlanInit /\ RetryInit
    /\ [][\/ Plan /\ UNCHANGED retryVars
          \/ (Factorize \/ Die) /\ UNCHANGED planVars]_<<planVars, retryVars>>

-----------------------------------------------------------------------------
\* The retries of all units together never cost more than the run's one budget
\* of extra bits, however they are spread over the units, with rank and outlier
\* retries mixed, and however often the process dies between two commits: what
\* is committed, and what the attempts under way would add to it.
RetriesWithinBudget ==
    /\ total <= ExtraBudget
    /\ \A n \in DOMAIN attempts : total + Extra(current, attempts[n]) <= ExtraBudget
    /\ pc # "down" => retrySpent = total
=============================================================================
