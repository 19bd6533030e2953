# NanoQuant in TLA+

NanoQuant compresses the weights of a decoder language model block by block, into binary
factors, in runs that take hours or days on one device. What makes such a program correct
is less its arithmetic than what it does with its files: a run is killed and started again,
two programs are started on the same run, the same device or the same registry, an artifact
is half written or damaged, a collector runs beside a writer. This directory models that
part, checks it with TLC on small instances and proves the central invariants with TLAPS for
all instances.

Paths below are relative to `src/src/nanoquant` of the repository unless they begin with
`Docs/` or `README.md`.

## 1. Inventory

| Component | Code | State | Operations | Hard behaviours | Here |
|---|---|---|---|---|---|
| Resident quantization | `resident_quantization.py`, `infrastructure/commits.py`, `infrastructure/progress_journal.py`, `application/assembly.py` | committed artifacts, `journal.jsonl`, the manifest's status; in memory the committed blocks, the prior records of a partial block, the boundary stream, the bit budget | start, discover, restore, quantize or reuse a unit, commit unit / generation / block, append to the journal, retire a generation, write the report, finish | death between any two durable steps or inside a line; damage; a second identity in the same directory | `ResidentRun` |
| Artifact store | `infrastructure/artifacts.py`, `infrastructure/io_utils.py` | object directories named by content, staging directories with a lease file, quarantine, validation cache | begin_write, commit, import_validated, validate, remove_artifact, cleanup_abandoned | no lock at all: two writers of one content, readers, retirement, crashes | `ArtifactStore` |
| Garbage collection | `infrastructure/artifact_gc.py` | a plan (list of ids) | list, mark, age test, delete file by file | runs beside writers; the plan grows old | `ArtifactStore` |
| Device lease | `infrastructure/device_lease.py` | a directory with `owner.json` | acquire (two attempts), wait, close | mkdir and owner are two steps; takeover of a dead owner's lease | `DeviceLease` |
| Run lease | `infrastructure/runs.py` | a lease file | acquire with takeover, release | file and owner are two steps; takeover on the owner's host only | `RunLease` |
| Run session, event stream | `infrastructure/run_session.py`, `infrastructure/events.py`, `resident_workflow.py` | `manifest.json`, `events.jsonl`, the open file's buffer | open, mend the stream's end, emit, move the status, flush, close, release; deferred completion by the workflow | torn lines, partial writes, events that cannot be encoded, a manifest read before the lease | `RunSession`; the workflow's transitions in `ResidentWorkflow` |
| Run registry | `infrastructure/run_registry.py` | `registry.jsonl`, its lock file | register, rebuild; list, select | lock takeover by age, timeouts, torn appends, a stale read before the lock | `RunRegistry` |
| Tuning checkpoint | `infrastructure/tuning_checkpoint.py`, `application/tuning.py` | generation directories, `active.json` | save, load the active one, clear, remove the others; the epochs of a layer | death between the rename, the pointer and the removal; a checkpoint that outlives its layer | `TuningCheckpoint`, `UnitWork` |
| Calibration and its checkpoint | `resident_calibration.py`, `infrastructure/calibration_checkpoint.py`, `application/calibration*.py` | statistics; `state.safetensors` and `manifest.json` | collect, batch-size fallback; save, load (used by tests only) | two files replaced one after the other | not modelled |
| Global distillation | `global_distillation.py`, `final_norm_calibration.py`, `infrastructure/global_tuning.py`, `infrastructure/distillation_*.py` | per stage a teacher-cache journal, a checkpoint and a result pointer; `global-tuning.json` | look up, cache an epoch, train, save, commit, name, activate; calibrate | two pointers and a result that is never the same twice; a second program on the same run | `GlobalDistillation`, `ResidentWorkflow` |
| Evaluation and its cache | `quality_evaluation.py`, `infrastructure/evaluation_cache.py`, `application/evaluation*.py` | an index of artifacts, its lock | look up, commit, publish | lock takeover by age | planned |
| Retries and budget | `application/retry_loop.py`, `domain/planning.py` | attempts, budget | decide, accept, commit | bits of earlier units, of this one and of a dead process in different places | `RetryBudget`, `UnitWork` |
| Rank planning | `application/planning.py`, `domain/planning.py` | none | build a plan by one of four strategies, project it, promote | rounding of floors and caps, trimming below a floor | `RankPlan`, `UnitWork` |
| Resource planning, OOM fallback | `infrastructure/resource_planning.py`, `domain/resources.py`, `application/runtime_fallback.py` | `active-memory-plan.json`, `memory-plan-revisions.jsonl`; the caller's and the quantization's plan | resolve, measure, publish, lower, log | two copies of a plan, a torn journal line, a baseline that does not fit | `MemoryPlan`, `ResidentWorkflow` |
| Activation store | `infrastructure/activation_store.py` | memory-mapped files and descriptors | begin, write, commit, read, remove, clean up | a generation that was not committed | planned |
| Publication, atomic workspaces | `infrastructure/publication.py`, `infrastructure/io_utils.py` | links, `publication.json`, backups | publish, replace | death between links and record, between backup and destination | planned |
| Teacher datasets and traces | `teacher_dataset.py`, `infrastructure/teacher_trace_generation.py`, `infrastructure/llamacpp_teacher_generation.py` | attempt journal | prepare, complete, append | torn line, identity of the journal | planned |
| Hugging Face upload | `infrastructure/huggingface_upload.py` | a receipt | validate, upload, record | a retry after an upload that was not recorded | planned (the service is external) |
| Experiment workflows | `*_workflow.py` | none of their own | sequences of the parts above | — | not modelled |
| Export, runtime, numerical core | `runtime/`, `domain/`, `infrastructure/*export.py` | tensors | conversions and kernels | floating point | not modelled |
| Configuration, CLI, readers, reports | `config/`, `cli/`, `infrastructure/hf_*.py`, `application/report.py` | none | parsing, reading, rendering | — | not modelled |

Components interact through files only. A workflow opens a **run session**, which takes the
**run lease**, mends and owns `events.jsonl` and, for a run outside the root, enters the
**registry**. Inside it takes the **device lease**, and **resident quantization** commits
artifacts to the run's own **artifact store** (`<output>/artifacts`), names them in the
journal and retires generations; the **collector** runs from another process at any time.
Inside, every unit of the **rank plan** is factorized under the run's **retry budget**, then
tuned with an epoch **checkpoint**, then committed. A workflow resolves a **memory plan**
before it quantizes and lowers it when the device runs out of memory. With distillation it
ends its session with the status `running`, runs the stages, each under the device lease,
and completes the manifest later, when it no longer holds any lease.

What each part must keep: a run is resumable at a block boundary from every point it can die
at and ends with what an uninterrupted one would have (resident quantization); a visible
object is whole, and what is referred to stays (store, collector); one owner at a time, and
a dead one never keeps the others out (leases, registry lock); what was reported is still
in the stream, in order (session); a registered run is found (registry); a plan fits its target, the
retries their budget, and a unit commits what one process would have (unit work); a stage's
result is made once, from the stage before, and a completed run has the last one (workflow).

## 2. Modules

| Module | Models | Extends |
|---|---|---|
| `ResidentRun` | one run directory and the processes that work on it, one after the other | — |
| `QuantizationProgress` | the abstract promise: per identity, blocks become durable one at a time and in order, each from the outputs of the one before; then the run completes | — |
| `MCResidentRun` | the refinement mapping from `ResidentRun` to it | `ResidentRun` |
| `ArtifactStore`, `MCArtifactStore` | store, writers, importers, retirement, cleanup and collector | — |
| `DeviceLease`, `MCDeviceLease` | the lease directory and `wait_for_device_lease` | — |
| `RunLease`, `MCRunLease` | the lease file of a run | — |
| `RunSession`, `MCRunSession` | a session, its stream and its manifest | `RunLease` |
| `RunRegistry`, `MCRunRegistry` | registry, lock and rebuild | — |
| `RankPlan` | the planner of ranks under an exact bit budget, all strategies | — |
| `RetryBudget` | factorization attempts of one unit after another under one budget | `RankPlan` |
| `TuningCheckpoint` | the epochs of tuning and their checkpoint directory | — |
| `UnitWork`, `MCUnitWork` | the three composed: plan, attempts, tuning, commit, clear | `RetryBudget`, `TuningCheckpoint` |
| `MemoryPlan` | the active memory plan, its measurement and its revisions | — |
| `GlobalDistillation` | the stages of distillation and the calibration, by several programs | — |
| `ResidentWorkflow`, `MCResidentWorkflow` | a compression run from start to COMPLETED | `MemoryPlan`, `GlobalDistillation` |
| `ResidentRun_proofs`, `ArtifactStore_proofs`, `DeviceLease_proofs`, `RunRegistry_proofs`, `RankPlan_proofs` | the theorems of one component | its module |
| `RunSession_proofs` | the theorems of the run lease and of the session on it | `RunSession` |
| `UnitWork_proofs` | the theorems of retries, tuning checkpoint and their composition | `MCUnitWork`, `RankPlan_proofs` |
| `ResidentWorkflow_proofs` | the theorems of distillation and of the workflow around it | `ResidentWorkflow` |

Conventions. One action is one call on the file system, or one durable step of a handler with
everything it does in memory; a death may come between any two. Operators that say *Broken
form of X* are variants of a definition with a plausible mistake in it; nothing uses them but
the mutation checks, which put them in X's place and expect the property to fail. A bound on
deaths, faults, calls or time is a constant named `Max...`. Each concurrent module has one
variable that says nothing to the code and remembers that a *known* hazard of it has occurred
(`overlapped`, `raced`, `late`, `aged`, `dropped`): the code really takes these steps, and the
properties say what holds until, or apart from, exactly that. Section 6 lists these hazards.

**ResidentRun.** Data is abstracted to provenance: an activation stream is the sequence of
blocks that was applied, an artifact is named by what its bytes depend on. `Start`,
`Discover`, `RetireOld`, `LoadBoundary`, `PickBlock`, `ReuseUnit`/`CommitUnit`,
`JournalUnit`, `CommitActivations`, `CommitBlock`, `JournalBlock`, `RetirePrevious`,
`Advance`, `WriteReport` and `Finish` are the steps of `_run_resident_quantization` in their
order; `Die` and `DieInAppend` may come anywhere, `Rot` damages an artifact while no process
runs. Discovery is modelled as the code does it: the readable prefix of the journal, the
valid records of it, the scan for orphans, and the merge. Assumed: damage changes a file's
size, time or hash, so that a fresh process' validation sees it; a retirement is one step
(its steps are in `ArtifactStore`); one process at a time works on the directory, which is
what the run lease is for.

**ArtifactStore.** `BeginWrite`, `WriteLease`, `Stage`, `Check`, `Publish`, `Remember` are
`begin_write` and `commit` call by call; `BeginImport` joins them at `Stage`; `Retire` and
`Remove` are `remove_artifact`; `GcList`, `GcMark`, `GcOpen`, `GcUnlink`,
`GcRemoveDirectory`, `GcEnd` the collector. Marking reads the references of an object
that is there in part as if it were whole. The validation cache is left out: it is advisory.

**DeviceLease.** One action per call of `acquire_device_lease` and `close`; `Ask` is the
waiting loop. A write goes to the file that was opened, wherever its directory is by then
(`writing`). The Windows mutex is not modelled.

**RunLease.** One action per call of `RunLease.acquire`; process ids are visible on the same
host only. **RunSession** uses its actions as its own lease steps (and `UsesTheLease` checks
that this is all it does to it). The stream is a sequence of chunks, three to a line, so that
a write may stop inside the text or before the newline; what a failed write leaves stays in
the file's buffer in front of the next line, as in Python's buffered files.

**RunRegistry.** Lines are sequences of half records, the last one still open. The lock is
looked at, judged stale and unlinked in separate steps, and the five-second timeout may
strike whenever a lock is found busy. `files` holds every file that was the registry:
`OpenToRead`, `OpenToAppend` and `Rebuild` open the last one, and the read or write that
follows goes to that file, although `Replace` may have put another in its place (on Windows,
where an open file cannot be replaced, less can happen than here). `dropped` and `taken`
say nothing to the code. A run counts as registered when its record is found or written.

**RankPlan.** A unit of rank r costs its charged side bits, its scales and r times a constant;
utilities, sensitivities and error curves are floating-point data that decide only which unit
is served first, so any may be. A strategy is a sequence of phases (`PlanBase`, growing,
`Trim`, `Project`, `TrustTrim`, `TakeDecisions`), and `Promote` applies the additive promotions
after the code's own assertion. Simplified: the product codebook's cost is not covered, the
reference run of the trust region has the same side bits, fractions are percentages.

**RetryBudget.** An attempt is its score, the error over the threshold; ties of the score are
ties of the weighted error. `Available` subtracts the run's spent bits and those of the
attempt from the one budget, `Retry` raises the rank and, at its cap, the outlier columns,
`Commit` adds the accepted attempt's extra bits, and `StartRun` is the sum that a resume makes
of the committed units. Low-rank patches are not counted.

**TuningCheckpoint.** A state is the list of its losses, since parameters and optimizer are a
function of the layer and the epochs trained; a loss is drawn when first computed and stays.
`MakeTemporary`, `Publish`, `WritePointer`, `Sweep` are `save_tuning_checkpoint`; an `rmtree`
removes a part of a directory first; `BeginClear`, `UnlinkPointer`, `ClearOne`, `Cleared` are
`clear_tuning_checkpoint`. Early stopping by patience and the legacy modes are left out; the
best state is restored, as in the recipe.

**UnitWork.** A commit and its journal line are one step here (they are two in
`ResidentRun`). A death between the last unit's commit and its clear leaves a checkpoint that
nothing reads again.

**MemoryPlan.** A plan is what its revisions change: batches, the activation cache, the stages
that were measured. `plan` is the caller's, `used` the quantization's. The plan's artifact and
the pointer to it are one step, since an artifact nobody names has no effect; its journal line
is another. A lower plan may be refused, since what the host has is sampled again (`RES001`,
`Refusable`); a first plan that is refused changes nothing, and such a start is left out. The
admission of each stage is not computed: what it admits is the constant `Admitted`. An error
while the model is loaded is not modelled.

**GlobalDistillation.** A result is named by its stage, the result it was made from, and the
number of its commit (the wall time in it makes every commit another artifact). The device
lease is held by one program at a time: `DeviceLease` says when that is so. Runs on the CPU,
which take no lease, are not modelled, nor is `replace_existing_global_tuning`.

**ResidentWorkflow.** What quantization makes is `ResidentRun`'s subject; here a program that
is started again only passes through it. The run lease is left out, because the device lease
is taken first and keeps a second program away from it. Where the device lease lies between
reading the manifest and writing it they are two steps, at the end of a program one.

## 3. Runs

| Run | Bounds | Shows |
|---|---|---|
| `ResidentRun_resume` | 2 blocks of 2 units, 2 identities, rolling retention, 2 deaths, 1 damaged artifact | every state is resumable at a block boundary (`AlwaysResumable`), discovery is the intact store (`DiscoveryIsScan`), nothing committed is done again (`NeverRequantized`), the cursor announces the next work (`CursorIsNextWork`), the budget is exact, at most two generations are kept; each identity does what an uninterrupted run does (`RunsLikeUninterrupted`, the steps of `QuantizationProgress`) and the run completes |
| `ResidentRun_loadable` | 2 blocks, 1 death | *violated*: a completed run does not load (finding 1) |
| `ArtifactStore_writers` | 2 processes, 3 contents, one made by both and imported, 2 deaths | visible objects are whole, whoever dies where; nothing deadlocks |
| `ArtifactStore_sweep` | 1 writer with 2 contents, one of which may be imported, a collector run twice, 4 ticks, minimum age 4, 1 death | the collector takes nothing in flight or in use but what it cannot notice, and nothing by halves |
| `DeviceLease_wait` | 3 programs, 2 turns each, 1 death | `SerialExclusion`, `RefusedByTheLiving`, `WaitEnds` |
| `DeviceLease_exclusion` | 2 programs | *violated*: two programs hold the device (finding 2) |
| `RunLease_hosts` | 4 programs on 2 hosts, 3 faults | `SoleOwner`, `OwnRecord`, `StaleIsTaken` |
| `RunSession_stream` | 2 programs, 2 sessions, 2 deaths, 2 failures | complete lines are records with growing numbers, reported events stay, completion has its event, no session leaves its lease |
| `RunRegistry_calls` | 3 programs, 3 calls, 1 fault | a registered run is lost in three ways only, the third only after a lock was taken from a program at work (`RegistrationsSurvive`); every call ends, whatever lock was left (`CallsEnd`) |
| `UnitWork_commits` | 2 units, 8 policies over all strategies, 3 attempts, 2 epochs, 1 death | plans fit (`PlanFits`), retries stay in one budget, the checkpoint can be read, epochs continue, every unit commits what a process that never died would have (`CommitsAsUninterrupted`), and all are committed |
| `ResidentWorkflow_programs` | 2 programs, 2 stages of 2 epochs and a calibration, 4 hosts, 1 memory retry, 1 death or error | results form a chain (`ResultsDescend`) that nothing replaces (`StagesAreKept`), epochs are kept, the published plan is used, a completed run has its last result, the run completes |
| `ResidentWorkflow_lower` | 1 program, 1 host | *violated*: the "lower" plan is larger than the one that ran out (finding 3) |

Why the bounds are enough. Two blocks give a first and a last one, and on a resume a
generation that is neither the newest nor missing; two units let a death fall between units of a
block; two deaths give a death in a recovery, two identities a directory used twice. In the
store a block result and its generation give a reference; one content of two makers gives the
race of two commits; four ticks with a minimum age of four give objects on both sides of it
(with an age of two TLC loses evidence within these bounds).
Three programs are what a takeover race needs: the dead owner and two that take over. Two
sessions give a stream that is torn, mended, continued and torn again. Two hosts separate
"dead" from "cannot be seen". Two units make the second live on what the first left of the
budget and beside its checkpoint; three attempts and a rank cap reach rank and outlier retries
in one unit; the eight policies reach every strategy and refusal of the planner. Two programs
and three stages put a program at any stage beside one at any other; the four hosts have room
for all of a plan, for the configured batches only, and for less in either stage. Widths do
not matter here: the code's integers are unbounded.

Type invariants: those of `ResidentRun`, `DeviceLease`, `RunLease` and `RunRegistry` are
proved (the first is in a run, too); the inductive invariants of section 5 contain the others.

In `ArtifactStore_sweep` a batch takes at most one tick from its first file to the file that
names it, a scan at most one, and the minimum age is four, more than two batches and a
scan: this is the documented condition for running the collector beside a writer
(`README.md`, and the default of 24 hours at `artifact_gc.py:122`), not a property of the
code, and the hypothesis of the theorems about the collector.

`CHECK_DEADLOCK FALSE` is given where the bounded system may stop: all programs have had
their turns or are dead.

## 4. Fairness

`ResidentRun`: weak fairness of the process' next step (one sequential thread) and of a
start while none runs: the launchers and the operator start a run that is not completed
again. Deaths are bounded and not fair. `DeviceLease`: each program's calls go on, a
waiting program asks again (the loop of `wait_for_device_lease`), a holder closes. Nothing
makes a program die. Weak fairness suffices because turns are bounded: the others run out.
`RunLease`: a run is started again, a started program goes on; releasing is not fair, a
session may last for ever. `RunRegistry`: calls go on; a program that looks at the lock
again and again times out at last (strong fairness of `GivesUp`, the check against the
monotonic clock). `UnitWork`: one sequential program goes on, and is started again when it
died. `ResidentWorkflow`: each program goes on, and its user starts another one while the run
is not COMPLETED; deaths, errors, refusals of a lower plan and the tearing of a line are
bounded and not fair.

## 5. Proofs

All proofs hold for every value of the constants, under the named assumptions of the
modules (`RunAssumption`, `StoreAssumption`, `LeaseAssumption`, `RunLeaseAssumption`,
`SessionAssumption`, `RegistryAssumption`, `PlanAssumption`, `RetryAssumption`,
`TuningAssumption`, `UnitAssumption`, `DistillationAssumption`, `WorkflowAssumption`). They say
what kind of thing a constant is, and three say more: `PlanAssumption` has the maximum rank of
a unit a multiple of the rank multiple, as `planning.py` floors it; `RetryAssumption` has the
outliers of a plan within their cap, as it cuts them to the number of columns; `StoreAssumption`
has an object consist of at least one file.

Every safety invariant and action property of a passing run is a theorem of the specification
the run checks, some under a hypothesis that their entry names.

* `ResidentRun_proofs`, in three layers. `JournalInv`: `TypeCorrect`, `JournalBehindArtifacts`
  (the journal never runs ahead of the artifacts), `DiscoveryScansStore` (what a process
  discovers is exactly the intact results of its identity, whatever a crash did to the
  journal). `JournalNeverAhead` alone is not inductive: a retirement removes artifacts and a
  journal step names the one committed last, so `JournalInv` adds that the journal holds
  results only, which retention never removes, and that the artifact that waits for its line
  is published by then. `DiscoveryIsScan` follows without another induction.
  `ResumedInv` adds what a process knows: every result that is there and whole was found when
  it started or made by it since, and it has charged its budget for these and no other. This
  gives `BudgetIsExact`, `ResultsAreReused` (`NeverRequantized`) and `CursorIsHonest`
  (`CursorIsNextWork`).
  `RunInv` adds the order on disk (`Core`), as long as nothing was damaged: of each identity
  the first k blocks are done, each from the outputs of the one before, the generation behind
  the last is there, and rolling retention leaves at most one other; the list of the process
  is these blocks, and where it is says what it has made of the next. This gives
  `EveryCrashIsResumable`, `RetentionIsBounded` and the refinement, `RunImplementsProgress`:
  per identity, every step is a step of `QuantizationProgress` or a stutter, so a run that is
  cut short anywhere commits what an uninterrupted one commits. The chain of streams is a
  sequence defined without recursion, so that the induction is over steps alone.
* `ArtifactStore_proofs`: `VisibleObjectsAreWhole` (in a store without a collector: one that
  dies inside an object leaves a part, section 6), `DeletionIsComplete` (a sweep that is not
  cut short leaves no parts), `CommittedIsThere` (what a process has committed is there when it
  refers to it), `EvidenceIsKept` (what a run's files lead to is there until it is retired).
  The last two assume that the minimum age is more than two batches (and a scan): the
  argument is about ages. What nobody names yet was staged in the same batch, or is another
  writer's, which may have published the same content from a batch begun earlier, so its
  files are at most two batches old; what becomes named during a scan was no older then, and
  is older by a scan at most when the plan is made. A sweep therefore takes neither.
  `LeadsTo` states what a set of references leads to as a least closed set, and
  `ReachIsLeast` and its neighbours stand in for an induction along references.
* `DeviceLease_proofs`: `TypeCorrect`, `NoTwoHolders` (`SerialExclusion`),
  `OnlyTheLivingRefuse` (`RefusedByTheLiving`). `TypeInv` adds what the tokens are at each
  step. `SerialInv`, inductive while no two calls have overlapped, says that a holder's
  record is the one in the directory and that nobody holds the device while a program is
  inside a call that may remove or replace the directory. A refusal needs two facts more: a
  living owner in the record holds the device or is giving it up, and whoever tries a second
  time finds no directory in its way.
* `RunSession_proofs`. The lease: `LeaseTypeCorrect`, `OneOwner` (`SoleOwner`),
  `OwnRecordStays` (`OwnRecord`). `TakeoverInv`, inductive while no two takeovers have raced,
  is about the creator of the file: a program between creation and release is its creator,
  and the file a program is about to unlink was created by a dead one. `SessionsUseTheLease`
  is the refinement that carries these to the sessions. The session: `SessionInv` says for
  every place a session can be at how it stands with the lease and what its buffer holds; it
  gives `OneWriter` (`SoleWriter`), `NoLeaseIsLeft` and `CompletionIsInTheStream`. `StoryInv`
  adds the stream: what is in the file is regular (each chunk continues its line or begins
  one), numbers rise, every reported event is in it, and file and buffer together are whole
  lines under the writer's numbers, so that wherever a write is torn the file holds a
  beginning of them. It gives `StreamIsWhole` and `ReportedIsNeverLost`, while nothing is
  written but under the lease.
* `RunRegistry_proofs`: `RegistryTypeCorrect`, `RegistrationsAreKept`
  (`RegistrationsSurvive`). `RegistryInv` says nothing about the lock, which a program may lose
  while it works: records are kept because lines are only added behind the others and a
  replacement writes back all that was seen; what is lost is what the model's `dropped` names.
  `LockInv` adds the lock: until one is taken from a program at work, whoever is at work is
  its owner, so that nobody replaces the file that another one has open, and `dropped` need
  not name what is written to a replaced one.
* `RankPlan_proofs`: `PlanKeepsBudget` (`PlanFits`: a plan that is not refused costs at most
  its budget, and cutting back never fails). `PlanInv`: ranks, floors and caps are multiples
  of the rank multiple, the ranks are within their bounds, and there is a plan to fall back
  on that the budget pays for. A unit that cannot give up a rank is at its floor, because
  both are multiples; when none can, the plan costs no more than the one to fall back on. The
  facts about sums over the units (`SumType`, `SumGrows`, `SumAdds`, ...) are inductions over
  data; they are proved from the least number of units for which they would be false, which
  needs no induction theorem with an operator parameter.
* `UnitWork_proofs`: `RetriesKeepBudget` (`RetriesWithinBudget`). The budget alone is not
  inductive: what is committed next is the accepted attempt, and an attempt is started on the
  word of a decision. `RetryInv` therefore says of every attempt made, of the next one and of
  the accepted one that its extra bits fit beside what is committed. `TryAgainFits` is the
  heart: the available bits are cut off at zero twice, and a retry still cannot pass the
  budget. `CheckpointIsReadable` (`PointerIsReadable`): the new generation is whole before the
  pointer names it, it is what the sweep spares, and the pointer is gone before a clear touches
  the generations. `CheckpointIsContinued` (`EpochsContinue`): between two epochs the losses of
  a layer are those of its checkpoint. `ImplementsPlan`, `ImplementsRetries`, `ImplementsTuning`
  (every step of the composition is a step or a stutter of each part), and from them
  `BudgetAndCheckpointKept`.
  `RestartsChangeNothing` (`CommitsAsUninterrupted`) is about the whole: the attempts of a unit
  are a chain in which each follows from the scores measured before it (`AttemptInv`), and the
  losses of the layer and of its checkpoint are beginnings of one curve (`TunedInv`); a
  process that is started again continues both, so where it ends it has what an
  uninterrupted one has. `RunIsUnique` shows that the chain is the value of the recursive
  function `AttemptsFrom`, again by a least counterexample; `RetriedIsFollowed` that what the
  code compares, the price of a retry with what the latest attempt leaves, is what the
  chain counts from the plan.
* `ResidentWorkflow_proofs`. Distillation: `KeepsStages`, `KeepsDescent`, `KeepsEpochs`. The
  inductive invariant says which stages are made, what the device's holder knows of its stage
  (nobody else can have named it since it looked), where a program's source comes from, and
  that the epochs it trains are not fewer than those in the checkpoint. A program that does not
  hold the device is disturbed by no pointer of its stage, but may find it made when it looks.
  `ImplementsDistillation`, and from it `DistillationIsKept`: memory plan, manifest, errors and
  deaths add nothing that distillation alone could not meet. The workflow: `CompletedRunsLoad`
  (`CompletedHasItsTuning`) and `WorksWithPublishedPlan` (`UsesPublishedPlan`), from
  `WorkflowInv`. While no two programs overlap, `Alone` holds: one works at a time, it has
  the published plan unless it is lowering it and ends with the last result, and once the run
  is COMPLETED nobody works and its last result is in the manifest.

Model-checked only: liveness (`EventuallyCompletes` in both workflows, `EveryUnitCommits`,
`WaitEnds`, `StaleIsTaken`, `CallsEnd`), which needs fairness and ENABLED. The three
runs that expect a violation check what a document promises and the code does not do.

## 6. Where code and documents disagree

Shown by runs:

1. `ResidentRun_loadable`. A block whose process died between its commit and its journal
   line is found by the scan, and nothing ever writes the line; the run completes, and
   `load_completed_resident_quantization` then refuses it. ADR 0002 (line 43) promises an
   artifact equivalent to an uninterrupted control.
2. `DeviceLease_exclusion`. A lease looked at between `mkdir` and the owner file counts as a
   dead program's and is renamed away: two programs hold the device.
3. `ResidentWorkflow_lower`. After an out-of-memory error the workflow revises the plan it
   called the quantization with, not the one the quantization published for its measured
   batches: the revision number is used twice, and the new batch may be larger than the one
   that ran out. `Docs/34-adaptive-memory-planning-and-execution.md` (line 433) says "create
   and persist exactly one lower-memory plan revision".

Met in the models, and left out of the properties by name (no run is spent on them):

* a line appended behind a torn one is invisible to the journal's and the registry's readers
  (`progress_journal.py:71`, `run_registry.py:224`; `dropped`);
* a resume retires generations although the successor has no journal line
  (`resident_quantization.py:5287`);
* a damaged block below a good one is quantized again from the last block's outputs
  (`resident_quantization.py:5304`), and a damaged generation that is committed again keeps
  its bytes (`artifacts.py:84`): the model's `DamagedStream`;
* a repeated commit or an import keeps old times, so the collector may take what has just
  been made; a plan deletes by id what was committed after it (`aged`);
* a collector that dies inside an object leaves a part on which later commits fail; the
  second of two writers of one content raises; `cleanup_abandoned` (called by tests only)
  never sees a staging directory without a lease and takes one whose lease is being written;
* two takeovers of a dead owner's run lease (`raced`), and a lease file that was never
  written, which refuses every start;
* an event that cannot be encoded takes a sequence number and writes no line, and
  `read_event_prefix` stops at the gap for good (`events.py:595`);
* a second program on the same run activates the primary result again after the first one
  wrote COMPLETED; stopped there, `load_completed_resident_workflow` raises for good
  (`resident_workflow.py:803`), and its failure marks a run FAILED that the other one then
  cannot complete (`overlapped`);
* a torn line of `memory-plan-revisions.jsonl` makes every later start under a revised plan
  raise (`resource_planning.py:582`), and a baseline batch that does not fit is an admission
  error that lowers no plan, on every start (`resident_quantization.py:1348`; `Feasible`);
* a waiting program may end with an error no loop catches when its directory was renamed
  away (`device_lease.py:221`);
* a file whose last flush failed is written to after the lease was released (`late`);
* the manifest is read before the lease is taken, and a deferred completion is written
  without it (`run_session.py:75`, `resident_workflow.py:830`);
* `rebuild_registry` replaces the registry by what it read before it had the lock
  (`dropped`), and two programs may work under the registry's lock at a time; then a record
  may be written to a file that was replaced since it was opened (`run_registry.py:222`,
  `taken`).

## 7. Not modelled, and why

Numbers: factorization, tuning, calibration statistics, codebooks and kernels are
floating-point computations; a unit's result is a model value, an attempt its score, an epoch
its loss. They are most of the code, with the numbered experiments and probes under `tools/`,
so the modelled lines are a small share of all lines. Wording of logs, reports and
consoles. Configuration and command line: an identity (the hashes of configuration, model
and plan) is a model value. Process ids are never reused. The file system is atomic in
rename, mkdir, unlink and exclusive creation, and loses nothing it has accepted: power
failures (fsync) are not modelled, deaths of processes are. Runs on the CPU, which take no
device lease. The calibration checkpoint, which only tests call.

## 8. Plan

What is left, the most important behaviour first:

1. `EvaluationCache`: the index under its lock, taken over by age; `RunRegistry`'s lock in a
   module of its own, if the two turn out to be one.
2. `Publication` and `AtomicWorkspace`; the activation store's generations.
3. Teacher datasets: the attempt journal that truncates a torn line; the upload's receipt.
4. The batch-size fallbacks of calibration (`application/runtime_fallback.py`).
5. Pure algorithms: packing and unpacking over bounded inputs.
6. Proofs: for each property that holds `~overlapped`, `~raced` or `~late` as a hypothesis,
   what still holds without it; and the invariants of the modules above.
