--------------------------- MODULE ResidentWorkflow ---------------------------
(***************************************************************************)
(* A compression run from its start to COMPLETED: the memory plan is       *)
(* resolved, the run is quantized under it, with a lower plan when the     *)
(* device runs out of memory, then distilled (GlobalDistillation), and the *)
(* manifest says what came of it.  Programs may be started on the run at   *)
(* any time, stop with an error or die anywhere, and be started again.     *)
(*                                                                         *)
(* What quantization makes is ResidentRun's subject; here it is checked    *)
(* again by each program that is started.  On one host the device lease is *)
(* taken before the run lease, and the run lease is never contended.       *)
(* Reading the manifest and writing it are two steps where the device      *)
(* lease is between them, and one at the end of a program.                 *)
(***************************************************************************)
EXTENDS MemoryPlan, GlobalDistillation

CONSTANT MaxStops  \* bound: programs that die, raise in distillation or are refused a plan

ASSUME WorkflowAssumption == Callers = Programs /\ MaxStops \in Nat

VARIABLES
    manifest,    \* manifest.json: the status and the tuning results it names
    stops,       \* programs that died or raised
    overlapped   \* two programs were running at the same time

workflowVars == <<manifest, stops, overlapped>>
vars == <<planVars, distillationVars, workflowVars>>

Status(s) == [status |-> s, artifacts |-> {}]

Init ==
    /\ PlanInit /\ DistillationInit
    /\ manifest = Status("CREATED")
    /\ stops = 0
    /\ overlapped = FALSE

Running(p) == mpc[p] # "idle" \/ dpc[p] # "idle"

\* What every program that is stopped leaves.
StopProgram(p) == ForgetPlan(p) /\ StartOver(p)

\* execute_complete_compression: a run that is COMPLETED is only loaded.
Start(p) ==
    /\ ~Running(p)
    /\ manifest.status # "COMPLETED"
    /\ ResolvePlan(p)
    /\ overlapped' = (overlapped \/ \E q \in Programs \ {p} : Running(q))
    /\ UNCHANGED <<distillationVars, manifest, stops>>

\* run_resident_quantization: the device lease; the manifest is read.
OpenSession(p) ==
    /\ mpc[p] = "resolved" /\ dpc[p] = "idle"
    /\ IF manifest.status = "COMPLETED"
       THEN StopProgram(p)
       ELSE BeginQuantizing(p) /\ UNCHANGED planVars
    /\ UNCHANGED workflowVars

\* _start_resident_manifest, and the records of the revisions of the plan.
StartManifest(p) ==
    /\ mpc[p] = "resolved" /\ dpc[p] = "quantizing"
    /\ manifest' = Status("RUNNING")
    /\ IF Explicable(p)
       THEN BeginAttempt(p) /\ UNCHANGED distillationVars
       ELSE StopProgram(p)
    /\ UNCHANGED <<stops, overlapped>>

MeasureBatches(p) ==
    /\ CaptureFits(p) \/ NothingToMeasure(p) \/ PublishMeasured(p)
    /\ UNCHANGED <<distillationVars, workflowVars>>

\* An error in quantization that no lower plan is built for.
FailQuantization(p) ==
    /\ ProbeFails(p) \/ (~MayRevise(p) /\ \E s \in Stages : RunsOut(p, s))
    /\ manifest' = Status("FAILED")
    /\ StopProgram(p)
    /\ UNCHANGED <<stops, overlapped>>

\* The session ends FAILED; then the error is handled by the caller.
OutOfMemory(p) ==
    /\ \E s \in Stages : AwaitRevision(p, s)
    /\ manifest' = Status("FAILED")
    /\ StartOver(p)
    /\ UNCHANGED <<stops, overlapped>>

RevisePlan(p) ==
    /\ IF Exhausted(p)
       THEN StopProgram(p)
       ELSE ReviseAfterOom(p) /\ UNCHANGED distillationVars
    /\ UNCHANGED workflowVars

\* RES001 leaves execute_resident_workflow; the session has ended FAILED before.
RefuseRevision(p) ==
    /\ Refusable(p) /\ stops < MaxStops
    /\ StopProgram(p)
    /\ stops' = stops + 1
    /\ UNCHANGED <<manifest, overlapped>>

RecordRevision(p) == LogRevision(p) /\ UNCHANGED <<distillationVars, workflowVars>>

\* The run is RUNNING until it is distilled: defer_run_completion.
FinishQuantization(p) ==
    /\ PlanSuffices(p)
    /\ manifest' = Status("RUNNING")
    /\ ForgetPlan(p)
    /\ EndQuantizing(p)
    /\ UNCHANGED <<stops, overlapped>>

DistillFurther(p) == DistillStep(p) /\ UNCHANGED <<planVars, workflowVars>>

\* The table of infrastructure/runs.py; a change it does not allow raises.
Allowed(from, to) ==
    \/ from = "CREATED" /\ to \in {"RUNNING", "INTERRUPTED"}
    \/ from = "RUNNING" /\ to \in {"COMPLETED", "FAILED", "INTERRUPTED"}
    \/ from = "INTERRUPTED" /\ to \in {"RUNNING", "FAILED"}
    \/ from = "FAILED" /\ to = "RUNNING"

Transition(to, named) ==
    manifest' = IF Allowed(manifest.status, to)
                THEN [status |-> to, artifacts |-> manifest.artifacts \cup named]
                ELSE manifest

HandleError(p) ==
    /\ dpc[p] = "failed"
    /\ \E to \in {"FAILED", "INTERRUPTED"} : Transition(to, {})
    /\ StopProgram(p)
    /\ UNCHANGED <<stops, overlapped>>

\* Broken form of Complete: the primary result is named, not the last one.
CompleteWithPrimary(p) ==
    /\ dpc[p] = "done"
    /\ Transition("COMPLETED", {pointer[1]})
    /\ StopProgram(p)
    /\ UNCHANGED <<stops, overlapped>>

Complete(p) ==
    /\ dpc[p] = "done"
    /\ Transition("COMPLETED", {source[p]})
    /\ StopProgram(p)
    /\ UNCHANGED <<stops, overlapped>>

-----------------------------------------------------------------------------
Step(p) ==
    \/ Start(p) \/ OpenSession(p) \/ StartManifest(p) \/ MeasureBatches(p)
    \/ FailQuantization(p) \/ OutOfMemory(p) \/ RevisePlan(p) \/ RecordRevision(p)
    \/ FinishQuantization(p) \/ DistillFurther(p) \/ HandleError(p) \/ Complete(p)

Die(p) ==
    /\ Running(p) /\ stops < MaxStops
    /\ StopProgram(p)
    /\ stops' = stops + 1
    /\ UNCHANGED <<manifest, overlapped>>

\* ... in the middle of a line of memory-plan-revisions.jsonl.
DieRecording(p) ==
    /\ stops < MaxStops
    /\ TearRevision(p) /\ StartOver(p)
    /\ stops' = stops + 1
    /\ UNCHANGED <<manifest, overlapped>>

RaiseInDistillation(p) ==
    /\ stops < MaxStops
    /\ Raise(p)
    /\ stops' = stops + 1
    /\ UNCHANGED <<planVars, manifest, overlapped>>

\* Nobody starts a program on a run that is COMPLETED.
Stopped ==
    /\ manifest.status = "COMPLETED" /\ \A p \in Programs : ~Running(p)
    /\ UNCHANGED vars

Next ==
    \/ Stopped
    \/ \E p \in Programs :
        Step(p) \/ RefuseRevision(p) \/ Die(p) \/ DieRecording(p) \/ RaiseInDistillation(p)

(***************************************************************************)
(* A program goes on until it ends, and is started again as long as the    *)
(* run is not COMPLETED: by its user, not by the code.                     *)
(***************************************************************************)
Fairness == \A p \in Programs : WF_vars(Step(p))

Spec == Init /\ [][Next]_vars /\ Fairness

-----------------------------------------------------------------------------
(***************************************************************************)
(* Properties                                                              *)
(***************************************************************************)
\* A run that one program at a time worked on, and that is COMPLETED, has its
\* last result active and named by the manifest: load_completed_resident_workflow
\* raises for any other (resident_workflow.py:803).
CompletedHasItsTuning ==
    manifest.status = "COMPLETED" /\ ~overlapped =>
        active = pointer[Last] /\ active # NoResult /\ active \in manifest.artifacts

\* A program works with the plan that is published: after a measurement, an
\* out-of-memory error and the two plans of the caller and the quantization, what
\* the next program would read is what this one ran with.
UsesPublishedPlan ==
    \A p \in Programs : mpc[p] = "work" /\ ~overlapped => activePlan = used[p]

\* The plan revised after an out-of-memory error is lower than the one that ran
\* out (Docs/34-adaptive-memory-planning-and-execution.md:433).
LowerAfterOom ==
    [][\A p \in Programs : ReviseAfterOom(p) =>
        \A s \in Stages : plan'[p].batch[s] <= used[p].batch[s]]_vars

\* The device has room for the configured batches, which is what is measured
\* first: a run on another one cannot get past the measurement.
Feasible == \A s \in Stages : room[s] >= Configured[s]

\* Wherever programs die, raise or are refused a lower plan, the run is
\* completed: what a stage left half done is never in the way of the next
\* program.  Except where the line of a revision was torn: no program gets past it.
EventuallyCompletes ==
    Feasible => <>(manifest.status = "COMPLETED" \/ revisionLog = "torn")
=============================================================================
