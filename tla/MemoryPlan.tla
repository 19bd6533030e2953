------------------------------ MODULE MemoryPlan ------------------------------
(***************************************************************************)
(* The memory plan of a run and its revisions.  A program reads the active *)
(* plan, or builds the first one; inside quantization the batches are      *)
(* measured and a revision with the measured ones is published; after a    *)
(* CUDA out-of-memory error the caller of the quantization publishes a     *)
(* lower one and quantizes again.  The caller and the quantization have a  *)
(* plan each.                                                              *)
(*                                                                         *)
(* A plan is what its revisions change: the physical batch of each stage,  *)
(* the activation cache, and the stages that were measured (its warnings). *)
(* The artifact that holds a plan and active-memory-plan.json, which names *)
(* it, are one step: an artifact nobody names has no effect.  Of           *)
(* memory-plan-revisions.jsonl only its readability is kept.  A first plan *)
(* that the host has no room for (RES001) is refused before anything has   *)
(* changed: that program has not been started here.                        *)
(***************************************************************************)
EXTENDS Integers

CONSTANTS
    Callers,     \* programs that quantize the run
    Stages,      \* stages with a physical batch: block_forward, tuning, ...
    Probed,      \* those whose batch is measured: block_forward, tuning
    Unknown,     \* the stage of an error that does not say where it happened
    Admitted,    \* the batch that the first plan admits for each stage
    Configured,  \* the batch in the configuration
    Largest,     \* the largest batch of any stage
    Rooms,       \* what the host may have: the batch that fits for each stage
    MaxRetries   \* runtime.memory_policy.maximum_stage_retries

ASSUME PlanAssumption ==
    /\ Unknown \notin Stages /\ Probed \subseteq Stages
    /\ Largest \in Nat
    /\ {Admitted, Configured} \subseteq [Stages -> 1 .. Largest]
    /\ Rooms # {} /\ Rooms \subseteq [Stages -> Nat]
    /\ MaxRetries \in Nat

NoPlan == [revision |-> 0]

VARIABLES
    room,          \* what the host has
    activePlan,    \* the plan active-memory-plan.json names
    revisionLog,   \* memory-plan-revisions.jsonl: "whole" or "torn"
    plan,          \* the plan of execute_resident_workflow
    used,          \* the plan of the quantization it called
    retries,       \* memory_retries
    reported,      \* nanoquant_operation of an out-of-memory error: its stage
    mpc            \* where the program is with its plan

planDisk == <<activePlan, revisionLog>>
planVars == <<room, planDisk, plan, used, retries, reported, mpc>>

PlanInit ==
    /\ room \in Rooms
    /\ activePlan = NoPlan /\ revisionLog = "whole"
    /\ plan = [p \in Callers |-> NoPlan]
    /\ used = [p \in Callers |-> NoPlan]
    /\ retries = [p \in Callers |-> 0]
    /\ reported = [p \in Callers |-> Unknown]
    /\ mpc = [p \in Callers |-> "idle"]

Planning(p, step) == mpc' = [mpc EXCEPT ![p] = step]

Batches == [Stages -> 1 .. Largest]

Min2(a, b) == IF a < b THEN a ELSE b

\* build_resident_memory_plan: a viable batch for each stage, and the cache.
FirstPlan == [revision |-> 1, batch |-> Admitted, cached |-> TRUE, measured |-> {}]

\* _resolve_workflow_memory_plan.
ResolvePlan(p) ==
    /\ mpc[p] = "idle"
    /\ LET found == IF activePlan = NoPlan THEN FirstPlan ELSE activePlan
       IN  /\ plan' = [plan EXCEPT ![p] = found]
           /\ activePlan' = found
    /\ Planning(p, "resolved")
    /\ UNCHANGED <<room, revisionLog, used, retries, reported>>

\* Every program that is stopped, or has quantized, forgets its plans.
ForgetPlan(p) ==
    /\ plan' = [plan EXCEPT ![p] = NoPlan]
    /\ used' = [used EXCEPT ![p] = NoPlan]
    /\ retries' = [retries EXCEPT ![p] = 0]
    /\ reported' = [reported EXCEPT ![p] = Unknown]
    /\ Planning(p, "idle")
    /\ UNCHANGED <<room, planDisk>>

\* The session that opens reads the record of a plan that was revised, and
\* raises when a line of the journal cannot be read.
Explicable(p) == plan[p].revision = 1 \/ revisionLog = "whole"

BeginAttempt(p) ==
    /\ mpc[p] = "resolved"
    /\ Explicable(p)
    /\ used' = [used EXCEPT ![p] = plan[p]]
    /\ Planning(p, "prefix")
    /\ UNCHANGED <<room, planDisk, plan, retries, reported>>

-----------------------------------------------------------------------------
(***************************************************************************)
(* Throughput: representative blocks are run with some batches before the  *)
(* activation cache is filled; one that runs out of memory is left out,    *)
(* and when the baseline does the program fails.                           *)
(***************************************************************************)
Baseline(pl, s) == Min2(pl.batch[s], Configured[s])
Unmeasured(pl) == Probed \ pl.measured

\* throughput_batch_candidates: the batch, its halves, and the baseline.
Candidates(pl, s) ==
    {b \in 1 .. pl.batch[s] : b = Baseline(pl, s) \/ \E n \in 0 .. b : b = pl.batch[s] \div 2 ^ n}

Fits(s, b) == b <= room[s]

CaptureFits(p) ==
    /\ mpc[p] = "prefix"
    /\ Planning(p, "probe")
    /\ UNCHANGED <<room, planDisk, plan, used, retries, reported>>

ProbeFails(p) ==
    /\ mpc[p] = "probe"
    /\ \E s \in Unmeasured(used[p]) : ~Fits(s, Baseline(used[p], s))

NothingToMeasure(p) ==
    /\ mpc[p] = "probe"
    /\ Unmeasured(used[p]) = {}
    /\ Planning(p, "work")
    /\ UNCHANGED <<room, planDisk, plan, used, retries, reported>>

\* Measured batches: in each stage that was not measured one that fits.
Measured(pl, batch) ==
    \A s \in Stages :
        IF s \in Unmeasured(pl) THEN batch[s] \in Candidates(pl, s) /\ Fits(s, batch[s])
        ELSE batch[s] = pl.batch[s]

\* Broken form of PublishMeasured: it is used, and not published.
UseMeasured(p) ==
    /\ mpc[p] = "probe"
    /\ Unmeasured(used[p]) # {}
    /\ \A s \in Unmeasured(used[p]) : Fits(s, Baseline(used[p], s))
    /\ \E batch \in Batches : Measured(used[p], batch) /\ used' = [used EXCEPT ![p] =
            [@ EXCEPT !.revision = @ + 1, !.batch = batch, !.measured = Probed]]
    /\ Planning(p, "work")
    /\ UNCHANGED <<room, planDisk, plan, retries, reported>>

\* revise_resident_memory_plan_for_throughput, of the plan of the request: the
\* caller keeps the plan it has.
PublishMeasured(p) ==
    /\ mpc[p] = "probe"
    /\ Unmeasured(used[p]) # {}
    /\ \A s \in Unmeasured(used[p]) : Fits(s, Baseline(used[p], s))
    /\ \E batch \in Batches :
        /\ Measured(used[p], batch)
        /\ activePlan' = [used[p] EXCEPT !.revision = @ + 1, !.batch = batch,
                                         !.measured = Probed]
    /\ used' = [used EXCEPT ![p] = activePlan']
    /\ Planning(p, "log measured")
    /\ UNCHANGED <<room, revisionLog, plan, retries, reported>>

-----------------------------------------------------------------------------
(***************************************************************************)
(* The work of the quantization, and an out-of-memory error in it.         *)
(***************************************************************************)
Overflows(pl, s) == pl.batch[s] + (IF pl.cached THEN 1 ELSE 0) > room[s]

PlanSuffices(p) ==
    /\ mpc[p] = "work"
    /\ \A s \in Stages : ~Overflows(used[p], s)

\* A capture of the prefix, or the work, runs out of memory in stage s, and the
\* error may not name it.
RunsOut(p, s) ==
    \/ mpc[p] = "prefix" /\ s \in Probed /\ ~Fits(s, used[p].batch[s])
    \/ mpc[p] = "work" /\ Overflows(used[p], s)

MayRevise(p) == retries[p] < MaxRetries

AwaitRevision(p, s) ==
    /\ RunsOut(p, s) /\ MayRevise(p)
    /\ \E r \in {s, Unknown} : reported' = [reported EXCEPT ![p] = r]
    /\ Planning(p, "revise")
    /\ UNCHANGED <<room, planDisk, plan, used, retries>>

\* revise_memory_plan_after_oom: half the batches of the stage, or of all of
\* them, or less if that does not fit the envelope; then no cache; then nothing.
Reducible(pl, r) == {s \in Stages : pl.batch[s] > 1 /\ r \in {s, Unknown}}
Exhausted(p) == mpc[p] = "revise" /\ Reducible(plan[p], reported[p]) = {} /\ ~plan[p].cached

Lowered(pl, r, lower) ==
    LET stages == Reducible(pl, r)
    IN  /\ lower.revision = pl.revision + 1
        /\ lower.measured = pl.measured
        /\ lower.cached = (pl.cached /\ stages # {})
        /\ \A s \in Stages :
            IF s \in stages THEN lower.batch[s] <= pl.batch[s] \div 2
            ELSE lower.batch[s] = pl.batch[s]

\* select_stage_execution_plan samples what the host has again: even the least
\* batch of a stage to be lowered may not fit it now (RES001).
Refusable(p) == mpc[p] = "revise" /\ Reducible(plan[p], reported[p]) # {}

\* revise_resident_memory_plan_after_oom, of the plan of the caller.
ReviseAfterOom(p) ==
    /\ mpc[p] = "revise"
    /\ ~Exhausted(p)
    /\ \E batch \in Batches, cached \in BOOLEAN :
        LET lower == [plan[p] EXCEPT !.revision = @ + 1, !.batch = batch, !.cached = cached]
        IN  /\ Lowered(plan[p], reported[p], lower)
            /\ plan' = [plan EXCEPT ![p] = lower]
            /\ activePlan' = lower
    /\ Planning(p, "log lowered")
    /\ UNCHANGED <<room, revisionLog, used, retries, reported>>

\* The record of a published revision is appended; the program goes on.
LogRevision(p) ==
    /\ mpc[p] \in {"log measured", "log lowered"}
    /\ IF mpc[p] = "log measured"
       THEN /\ Planning(p, "work")
            /\ UNCHANGED <<used, retries, reported>>
       ELSE /\ Planning(p, "resolved")
            /\ used' = [used EXCEPT ![p] = NoPlan]
            /\ retries' = [retries EXCEPT ![p] = @ + 1]
            /\ reported' = [reported EXCEPT ![p] = Unknown]
    /\ UNCHANGED <<room, planDisk, plan>>

\* The append is cut short, and the program with it.
TearRevision(p) ==
    /\ mpc[p] \in {"log measured", "log lowered"}
    /\ revisionLog' = "torn"
    /\ plan' = [plan EXCEPT ![p] = NoPlan]
    /\ used' = [used EXCEPT ![p] = NoPlan]
    /\ retries' = [retries EXCEPT ![p] = 0]
    /\ reported' = [reported EXCEPT ![p] = Unknown]
    /\ Planning(p, "idle")
    /\ UNCHANGED <<room, activePlan>>
=============================================================================
