------------------------------ MODULE MCUnitWork ------------------------------
(***************************************************************************)
(* UnitWork for TLC, two units, and what an uninterrupted run would accept *)
(* and hand on, computed from the scores and losses alone.                 *)
(***************************************************************************)
EXTENDS UnitWork

PerRankBits == <<4, 3>>
ScaleBits == <<5, 4>>
ChargedBits == <<2, 0>>
UnitElements == <<50, 25>>
MaximumRanks == <<8, 6>>
PlannedOutliers == <<1, 0>>
OutlierCaps == <<2, 1>>
OutlierColumn == <<6, 3>>

Uniform == [strategy |-> "uniform", bpw |-> 60, floor |-> 100, ceiling |-> 100,
            protected |-> {}, trust |-> 100, above |-> TRUE]
TooPoor == [Uniform EXCEPT !.bpw = 20]
Utility == [Uniform EXCEPT !.strategy = "utility", !.floor = 50, !.ceiling = 200,
            !.above = FALSE]
FloorTooHigh == [Utility EXCEPT !.floor = 250, !.ceiling = 250]
Sensitive == [Utility EXCEPT !.strategy = "sensitivity"]
FloorAboveBase == [Sensitive EXCEPT !.floor = 150]
Reconstructed == [Utility EXCEPT !.strategy = "reconstruction", !.protected = {2}]
Trusting == [Reconstructed EXCEPT !.trust = 50]

AllPolicies ==
    {Uniform, TooPoor, Utility, FloorTooHigh, Sensitive, FloorAboveBase,
     Reconstructed, Trusting}

-----------------------------------------------------------------------------
Scored(u, a, n) == [a EXCEPT !.score = measured[u][n]]

\* The attempt after attempt a on unit u.
Following(u, a) ==
    IF Proposed(u, a.rank) > a.rank
    THEN [a EXCEPT !.rank = Proposed(u, a.rank)]
    ELSE [a EXCEPT !.outliers = Min2(@ + OutlierIncrement, OutlierCap[u])]

\* Is there one, when the unit may have these bits?
Follows(u, a, bits) ==
    /\ a.score > 1
    /\ Following(u, a) # a
    /\ Max2(0, Extra(u, Following(u, a))) <= Max2(bits, 0)

\* The attempts on unit u that start with attempt a, when bits are left for it.
AttemptsFrom(u, first, bits) ==
    LET run[n \in 1 .. MaximumAttempts] ==
            IF n = 1 THEN <<Scored(u, first, 1)>>
            ELSE IF Len(run[n - 1]) = n - 1 /\ Follows(u, run[n - 1][Len(run[n - 1])], bits)
            THEN Append(run[n - 1], Scored(u, Following(u, run[n - 1][Len(run[n - 1])]), n))
            ELSE run[n - 1]
    IN  run[MaximumAttempts]

First(u) == [rank |-> ranks[u], outliers |-> Outliers[u], score |-> 0]

\* The epochs of layer l whose loss is not finite: the first of them is its last.
Ends(l) == {e \in 0 .. Epochs : curve[l][e] = NotFinite}
LastEpoch(l) ==
    IF Ends(l) = {} THEN Epochs ELSE CHOOSE e \in Ends(l) : \A d \in Ends(l) : e <= d
LastFinite(l) == IF Ends(l) = {} THEN Epochs ELSE LastEpoch(l) - 1
LossesUpTo(l, last) == [n \in 1 .. last + 1 |-> curve[l][n - 1]]

\* However often a unit was begun again, by however many processes, it commits
\* the attempt and hands on the tuned state that one process would have reached
\* that never died, and the durable sum is the sum of the committed results.
CommitsAsUninterrupted ==
    [][CommitUnit =>
        /\ IsBest(accepted, AttemptsFrom(current, First(current), ExtraBudget - total))
        /\ losses = LossesUpTo(current, LastEpoch(current))
        /\ Outcome.best = Best(LossesUpTo(current, LastFinite(current)))
        /\ total' = SumOver([u \in Units |->
                        IF u <= Len(committed') THEN committed'[u].extra ELSE 0])]_vars
=============================================================================
