-------------------------- MODULE GlobalDistillation --------------------------
(***************************************************************************)
(* The model-level distillation of a quantized run: one or two stages of   *)
(* top-k distillation (the primary and the mass-floor correction) and the  *)
(* calibration of the final norm.  Each stage starts from the result of    *)
(* the one before it, and what it makes is named twice, by a pointer of    *)
(* the stage and by global-tuning.json, the active result.                 *)
(*                                                                         *)
(* Programs of one run share the files.  Quantization and a stage of       *)
(* distillation hold the device lease (on CUDA); the calibration holds     *)
(* nothing.  A program that stops loses what it holds and starts over:     *)
(* quantization, which only checks what is there, then every stage.        *)
(***************************************************************************)
EXTENDS Integers

CONSTANTS
    Programs,    \* programs that are started on the run
    Nobody,      \* the holder of a device that is free
    Distilled,   \* stages of distillation: 1, or 2 with the correction
    Calibrated,  \* is the final norm calibrated
    Epochs       \* epochs of a stage

ASSUME DistillationAssumption ==
    /\ Nobody \notin Programs
    /\ Distilled \in {1, 2} /\ Calibrated \in BOOLEAN /\ Epochs \in Nat

Last == Distilled + (IF Calibrated THEN 1 ELSE 0)
Stage == 1 .. Last

\* A result names its stage, the result it was made from, and a number: that of
\* the commit that made it, since the time it took is in it.  Calibration only
\* depends on what it is made from, and its number is 0.
NoResult == [stage |-> 0]
Result(k, n, from) == [stage |-> k, number |-> n, source |-> from]
NoCheckpoint == [epochs |-> 0, source |-> NoResult]

VARIABLES
    pointer,     \* <namespace>-result.json of each stage
    active,      \* global-tuning.json
    cache,       \* the epochs in the teacher-cache journal of each stage
    checkpoint,  \* the training checkpoint of each stage
    committed,   \* results of distillation committed so far
    device,      \* the holder of the device lease
    stage,       \* the stage a program is in
    source,      \* the result of its stage before: initializer_global_tuning
    epochs,      \* epochs its student has been trained
    made,        \* the result it is about to name
    dpc          \* where the program is

distillationDisk == <<pointer, active, cache, checkpoint, committed>>
distillationVars == <<distillationDisk, device, stage, source, epochs, made, dpc>>

DistillationInit ==
    /\ pointer = [k \in Stage |-> NoResult]
    /\ active = NoResult
    /\ cache = [k \in Stage |-> 0]
    /\ checkpoint = [k \in Stage |-> NoCheckpoint]
    /\ committed = 0
    /\ device = Nobody
    /\ stage = [p \in Programs |-> 1]
    /\ source = [p \in Programs |-> NoResult]
    /\ epochs = [p \in Programs |-> 0]
    /\ made = [p \in Programs |-> NoResult]
    /\ dpc = [p \in Programs |-> "idle"]

Goto(p, step) == dpc' = [dpc EXCEPT ![p] = step]

Locals == <<stage, source, epochs, made>>

TakeDevice(p) == device = Nobody /\ device' = p
FreeDevice(p) == device' = IF device = p THEN Nobody ELSE device

BeginQuantizing(p) ==
    /\ dpc[p] = "idle"
    /\ TakeDevice(p)
    /\ Goto(p, "quantizing")
    /\ UNCHANGED <<distillationDisk, Locals>>

EndQuantizing(p) ==
    /\ dpc[p] = "quantizing"
    /\ FreeDevice(p)
    /\ Goto(p, "next")
    /\ UNCHANGED <<distillationDisk, Locals>>

\* A program that dies, or whose error was handled, starts from nothing.
StartOver(p) ==
    /\ FreeDevice(p)
    /\ Goto(p, "idle")
    /\ stage' = [stage EXCEPT ![p] = 1]
    /\ source' = [source EXCEPT ![p] = NoResult]
    /\ epochs' = [epochs EXCEPT ![p] = 0]
    /\ made' = [made EXCEPT ![p] = NoResult]
    /\ UNCHANGED distillationDisk

\* An error in a stage.
Raise(p) ==
    /\ dpc[p] \notin {"idle", "quantizing", "done", "failed"}
    /\ FreeDevice(p)
    /\ Goto(p, "failed")
    /\ UNCHANGED <<distillationDisk, Locals>>

-----------------------------------------------------------------------------
(***************************************************************************)
(* A stage of distillation.  Its protocol names its initializer, so that a *)
(* result of another one does not match.                                   *)
(***************************************************************************)
\* Broken form of Distill: the lease is not awaited.
DistillUnleased(p) ==
    /\ dpc[p] = "next" /\ stage[p] <= Distilled
    /\ Goto(p, "look")
    /\ UNCHANGED <<distillationDisk, device, Locals>>

Distill(p) ==
    /\ dpc[p] = "next" /\ stage[p] <= Distilled
    /\ TakeDevice(p)
    /\ Goto(p, "look")
    /\ UNCHANGED <<distillationDisk, Locals>>

\* What the stage finds: its own result, the result it starts from, or neither.
Lookup(p, found, startsFrom) ==
    /\ dpc[p] = "look"
    /\ IF found
       THEN IF pointer[stage[p]].source = source[p]
            THEN /\ made' = [made EXCEPT ![p] = pointer[stage[p]]]
                 /\ Goto(p, "activate")
                 /\ UNCHANGED device
            ELSE Goto(p, "failed") /\ FreeDevice(p) /\ UNCHANGED made
       ELSE IF startsFrom
            THEN Goto(p, "cache") /\ UNCHANGED <<device, made>>
            ELSE Goto(p, "failed") /\ FreeDevice(p) /\ UNCHANGED made
    /\ UNCHANGED <<distillationDisk, stage, source, epochs>>

\* Broken form of Look: the pointer of the stage is not read.
LookAtActive(p) == Lookup(p, FALSE, active = source[p])

Look(p) == Lookup(p, pointer[stage[p]] # NoResult, active = source[p])

CacheEpoch(p) ==
    /\ dpc[p] = "cache"
    /\ cache[stage[p]] < Epochs
    /\ cache' = [cache EXCEPT ![stage[p]] = @ + 1]
    /\ UNCHANGED <<pointer, active, checkpoint, committed, device, Locals, dpc>>

\* Broken form of Saved: training starts from the first epoch.
SavedNothing(k, from) == 0

\* A checkpoint of another initializer is not one.
Saved(k, from) == IF checkpoint[k].source = from THEN checkpoint[k].epochs ELSE 0

LoadCheckpoint(p) ==
    /\ dpc[p] = "cache"
    /\ cache[stage[p]] = Epochs
    /\ epochs' = [epochs EXCEPT ![p] = Saved(stage[p], source[p])]
    /\ Goto(p, "train")
    /\ UNCHANGED <<distillationDisk, device, stage, source, made>>

TrainEpoch(p) ==
    /\ dpc[p] = "train"
    /\ epochs[p] < Epochs
    /\ epochs' = [epochs EXCEPT ![p] = @ + 1]
    /\ Goto(p, "save")
    /\ UNCHANGED <<distillationDisk, device, stage, source, made>>

\* The checkpoint sink: the artifact, then the file that names it.
SaveCheckpoint(p) ==
    /\ dpc[p] = "save"
    /\ checkpoint' = [checkpoint EXCEPT
            ![stage[p]] = [epochs |-> epochs[p], source |-> source[p]]]
    /\ Goto(p, "train")
    /\ UNCHANGED <<pointer, active, cache, committed, device, Locals>>

CommitResult(p) ==
    /\ dpc[p] = "train"
    /\ epochs[p] = Epochs
    /\ committed' = committed + 1
    /\ made' = [made EXCEPT ![p] = Result(stage[p], committed', source[p])]
    /\ Goto(p, "point")
    /\ UNCHANGED <<pointer, active, cache, checkpoint, device, stage, source, epochs>>

\* Broken form of PointStage: the result is activated, and the stage forgotten.
ActivateOnly(p) ==
    /\ dpc[p] = "point"
    /\ active' = made[p]
    /\ Goto(p, "activate")
    /\ UNCHANGED <<pointer, cache, checkpoint, committed, device, Locals>>

PointStage(p) ==
    /\ dpc[p] = "point"
    /\ pointer' = [pointer EXCEPT ![stage[p]] = made[p]]
    /\ Goto(p, "activate")
    /\ UNCHANGED <<active, cache, checkpoint, committed, device, Locals>>

\* activate_global_tuning; the stage is over, and its lease is let go.
Activate(p) ==
    /\ dpc[p] = "activate"
    /\ active' = made[p]
    /\ source' = [source EXCEPT ![p] = made[p]]
    /\ stage' = [stage EXCEPT ![p] = IF @ < Last THEN @ + 1 ELSE @]
    /\ epochs' = [epochs EXCEPT ![p] = 0]
    /\ Goto(p, IF stage[p] < Last THEN "next" ELSE "done")
    /\ FreeDevice(p)
    /\ UNCHANGED <<pointer, cache, checkpoint, committed, made>>

\* calibrate_global_tuning_final_norm: a result that is there is compared by its
\* protocol, which names the initializer of what it was made from, and not that.
Calibrate(p) ==
    /\ dpc[p] = "next" /\ stage[p] > Distilled
    /\ LET there == pointer[stage[p]]
       IN  IF there = NoResult
           THEN /\ made' = [made EXCEPT ![p] = Result(stage[p], 0, source[p])]
                /\ Goto(p, "point")
           ELSE IF there.source.source = source[p].source
                THEN made' = [made EXCEPT ![p] = there] /\ Goto(p, "activate")
                ELSE Goto(p, "failed") /\ UNCHANGED made
    /\ UNCHANGED <<distillationDisk, device, stage, source, epochs>>

-----------------------------------------------------------------------------
DistillStep(p) ==
    \/ Distill(p) \/ Look(p) \/ CacheEpoch(p) \/ LoadCheckpoint(p)
    \/ TrainEpoch(p) \/ SaveCheckpoint(p) \/ CommitResult(p)
    \/ PointStage(p) \/ Activate(p) \/ Calibrate(p)

DistillationNext ==
    \E p \in Programs :
        BeginQuantizing(p) \/ EndQuantizing(p) \/ StartOver(p) \/ Raise(p) \/ DistillStep(p)

DistillationSpec == DistillationInit /\ [][DistillationNext]_distillationVars

-----------------------------------------------------------------------------
(***************************************************************************)
(* Properties                                                              *)
(***************************************************************************)
\* What a stage made is never replaced: later stages were made from it, and
\* their protocols name it.  The time of training is in a result, so a stage
\* that is run again, by a program that was restarted or beside another one,
\* would make a second one (global_distillation.py, the order of the lease, the
\* lookup and the two pointers).
StagesAreKept ==
    [][\A k \in Stage : pointer[k] # NoResult => pointer'[k] = pointer[k]]_pointer

\* What the stages made is a chain: the stages up to some one are made, each
\* from the result of the one before, and the active result is one of them.
ResultsDescend ==
    /\ \A k \in Stage : pointer[k] # NoResult =>
        /\ pointer[k].stage = k
        /\ IF k = 1 THEN pointer[k].source = NoResult
           ELSE pointer[k - 1] # NoResult /\ pointer[k].source = pointer[k - 1]
    /\ active # NoResult => \E k \in Stage : active = pointer[k]

\* The epochs in the checkpoint of a stage are not lost to a restart, nor to
\* another program that trains the same stage.
EpochsAreKept ==
    [][\A k \in Stage : checkpoint'[k].epochs >= checkpoint[k].epochs]_checkpoint
=============================================================================
