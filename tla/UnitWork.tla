------------------------------- MODULE UnitWork -------------------------------
(***************************************************************************)
(* The work on the units of a run, composed: the plan (RankPlan), for each *)
(* unit its factorization attempts (RetryBudget) and then the tuning of    *)
(* the accepted factors with epoch checkpoints (TuningCheckpoint), the     *)
(* commit, and the removal of the checkpoint.  A commit is one step here;  *)
(* ResidentRun has the artifact and its journal line apart.                *)
(***************************************************************************)
EXTENDS RetryBudget, TuningCheckpoint

ASSUME UnitAssumption == Layers = Units /\ MaxStarts = MaxDeaths + 1

vars == <<planVars, retryVars, tuningVars>>

Init == PlanInit /\ RetryInit /\ TuningInit

PlanStep == Plan /\ UNCHANGED <<retryVars, tuningVars>>

\* The next unit waits until the checkpoint of the last one is cleared.
FactorStep ==
    /\ StartRun \/ (BeginUnit /\ tpc = "idle") \/ Attempt \/ TryAgain \/ AcceptBest
       \/ (AllCommitted /\ tpc = "idle")
    /\ UNCHANGED <<planVars, tuningVars>>

BeginTuning ==
    /\ pc = "accepted"
    /\ \E l \in Layers \cap {current} : BeginFresh(l) \/ Resume(l)
    /\ UNCHANGED <<planVars, retryVars>>

TuneStep == TuningStep /\ UNCHANGED <<planVars, retryVars>>

\* commit_layer and its journal line; then clear_tuning_checkpoint begins.
CommitUnit ==
    /\ Commit
    /\ BeginClear
    /\ UNCHANGED planVars

DieAnywhere ==
    /\ Die /\ TuningDie
    /\ UNCHANGED planVars

Stopped ==
    /\ pc = "done" \/ tpc = "unreadable"
       \/ phase \in {"refused", "assertion failed", "cannot project"}
    /\ UNCHANGED vars

Next ==
    \/ PlanStep \/ FactorStep \/ BeginTuning \/ TuneStep \/ CommitUnit
    \/ DieAnywhere \/ Stopped

(***************************************************************************)
(* One sequential program that goes on until it ends or dies, and is       *)
(* started again.                                                          *)
(***************************************************************************)
Fairness == WF_vars(PlanStep \/ FactorStep \/ BeginTuning \/ TuneStep \/ CommitUnit)

Spec == Init /\ [][Next]_vars /\ Fairness

-----------------------------------------------------------------------------
\* Every run that could be planned commits all its units, however it dies: a
\* resumed epoch or attempt never leads back to where the last process was.
EveryUnitCommits == <>(pc = "done" \/ phase \in {"refused", "assertion failed", "cannot project"})
=============================================================================
