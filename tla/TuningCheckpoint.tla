--------------------------- MODULE TuningCheckpoint ---------------------------
(***************************************************************************)
(* Epoch checkpoints of factorized tuning (state/tuning-checkpoint of a    *)
(* run), and the tuning loop that writes and resumes from them.  There is  *)
(* one checkpoint for the whole run: a generation directory that holds the *)
(* state, and a pointer, active.json, that names it and the layer it       *)
(* belongs to.  Every step that changes the directory is an action, and    *)
(* the process can die between any two.                                    *)
(*                                                                         *)
(* Parameters, gradients and the optimizer are functions of the layer and  *)
(* of the epochs that were trained (seeds are derived, orders replayed),   *)
(* so a state is the list of its losses.  Best-state restoration is on, as *)
(* in the recipe; the loss before the first epoch is finite.               *)
(***************************************************************************)
EXTENDS Integers, Sequences, FiniteSets

CONSTANTS
    Layers,     \* layers and groups that are tuned
    NoLayer,
    Epochs,     \* epochs of a layer
    Losses,     \* what a finite loss may be
    MaxStarts   \* bound: processes that may tune

ASSUME TuningAssumption ==
    /\ NoLayer \notin Layers
    /\ Epochs \in Nat
    /\ Losses # {} /\ Losses \subseteq Nat
    /\ MaxStarts \in Nat \ {0}

NotFinite == -1
Undrawn == -2
NoPointer == [pointer |-> "none"]

VARIABLES
    pointer,      \* active.json: layer and generation, or NoPointer
    generations,  \* directories: layer, losses, the process that made them, and
                  \* whether they are whole; a ".tuning-checkpoint-" is not
    curve,        \* the losses of a layer by epoch, drawn when first computed
    tpc,          \* where the tuning is
    tuning,       \* the layer being tuned
    losses,       \* epoch_losses
    stopped,      \* stopped_early
    starts        \* how many processes there have been

directory == <<pointer, generations>>
tuningVars == <<directory, curve, tpc, tuning, losses, stopped, starts>>

NotDrawn == [e \in 0 .. Epochs |-> Undrawn]

TuningInit ==
    /\ pointer = NoPointer /\ generations = {}
    /\ curve = [l \in Layers |-> NotDrawn]
    /\ tpc = "idle" /\ tuning = NoLayer /\ losses = <<>> /\ stopped = FALSE
    /\ starts = 1

MinLoss(s) == CHOOSE x \in {s[n] : n \in DOMAIN s} : \A n \in DOMAIN s : x <= s[n]

\* best_epoch: the first epoch with the lowest loss, -1 for the entry state.
Best(s) ==
    CHOOSE e \in -1 .. Len(s) - 2 :
        /\ s[e + 2] = MinLoss(s)
        /\ \A d \in -1 .. e - 1 : s[d + 2] > MinLoss(s)

\* What tuning hands on: the losses, and the epoch whose state is restored.
Outcome == [losses |-> losses,
            best |-> Best(IF stopped THEN SubSeq(losses, 1, Len(losses) - 1) ELSE losses)]

Going(step) == tpc' = step
Draw(l, e, x) ==
    /\ curve[l][e] \in {Undrawn, x}
    /\ curve' = [curve EXCEPT ![l][e] = x]

-----------------------------------------------------------------------------
(***************************************************************************)
(* active_tuning_checkpoint, and the entry of tune.                        *)
(***************************************************************************)

\* Broken form of IsFor: a checkpoint is taken for the layer at hand.
IsForAny(p, l) == p # NoPointer

\* Does the pointer name a checkpoint of layer l?
IsFor(p, l) == p # NoPointer /\ p.layer = l

\* Broken form of BeginFresh: the checkpoint is not looked at.
BeginAlwaysFresh(l) ==
    /\ tpc = "idle"
    /\ \E x \in Losses : Draw(l, 0, x) /\ losses' = <<x>>
    /\ tuning' = l
    /\ stopped' = FALSE
    /\ Going("epoch")
    /\ UNCHANGED <<directory, starts>>

\* No checkpoint of this layer: the entry state is evaluated.
BeginFresh(l) ==
    /\ tpc = "idle"
    /\ ~ IsFor(pointer, l)
    /\ \E x \in Losses : Draw(l, 0, x) /\ losses' = <<x>>
    /\ tuning' = l
    /\ stopped' = FALSE
    /\ Going("epoch")
    /\ UNCHANGED <<directory, starts>>

\* A generation that is not there or not whole raises; see "unreadable".
Resume(l) ==
    /\ tpc = "idle"
    /\ IsFor(pointer, l)
    /\ tuning' = l
    /\ stopped' = FALSE
    /\ IF \E g \in generations : g = pointer.generation
       THEN losses' = pointer.generation.losses /\ Going("epoch")
       ELSE losses' = <<>> /\ Going("unreadable")
    /\ UNCHANGED <<directory, curve, starts>>

\* One epoch.  A loss that is not finite ends the tuning with the best state
\* so far, and nothing is saved for it.
Epoch ==
    /\ tpc = "epoch"
    /\ ~ stopped
    /\ Len(losses) <= Epochs
    /\ \E x \in Losses \cup {NotFinite} :
        /\ Draw(tuning, Len(losses), x)
        /\ losses' = Append(losses, x)
        /\ stopped' = (x = NotFinite)
        /\ Going(IF x = NotFinite THEN "epoch" ELSE "save")
    /\ UNCHANGED <<directory, tuning, starts>>

\* The best state is restored and the layer can be frozen.
Tuned ==
    /\ tpc = "epoch"
    /\ stopped \/ Len(losses) > Epochs
    /\ Going("tuned")
    /\ UNCHANGED <<directory, curve, tuning, losses, stopped, starts>>

-----------------------------------------------------------------------------
(***************************************************************************)
(* save_tuning_checkpoint.                                                 *)
(***************************************************************************)
New == [layer |-> tuning, losses |-> losses, start |-> starts, whole |-> TRUE]
Part(g) == [g EXCEPT !.whole = FALSE]

MakeTemporary ==
    /\ tpc = "save"
    /\ generations' = generations \cup {Part(New)}
    /\ Going("publish")
    /\ UNCHANGED <<pointer, curve, tuning, losses, stopped, starts>>

\* Broken form of Publish: the pointer comes first.
PublishLater ==
    /\ tpc = "publish"
    /\ pointer' = [layer |-> tuning, generation |-> New]
    /\ Going("point")
    /\ UNCHANGED <<generations, curve, tuning, losses, stopped, starts>>

\* The complete temporary directory is renamed.
Publish ==
    /\ tpc = "publish"
    /\ generations' = (generations \ {Part(New)}) \cup {New}
    /\ Going("point")
    /\ UNCHANGED <<pointer, curve, tuning, losses, stopped, starts>>

\* _write_pointer: a temporary file replaces active.json.
WritePointer ==
    /\ tpc = "point"
    /\ pointer' = [layer |-> tuning, generation |-> New]
    /\ Going("sweep")
    /\ UNCHANGED <<generations, curve, tuning, losses, stopped, starts>>

\* Broken form of RemoveInactive: the active generation is not spared.
RemoveAny(active) ==
    \E g \in generations :
        \/ generations' = (generations \ {g}) \cup {Part(g)}
        \/ generations' = generations \ {g}

\* _remove_inactive_generations: an rmtree at a time, in no given order, each
\* of which removes a part of the directory first.
RemoveInactive(active) ==
    \E g \in generations \ active :
        \/ generations' = (generations \ {g}) \cup {Part(g)}
        \/ generations' = generations \ {g}

Sweep ==
    /\ tpc = "sweep"
    /\ RemoveInactive({New})
    /\ UNCHANGED <<pointer, curve, tpc, tuning, losses, stopped, starts>>

Swept ==
    /\ tpc = "sweep"
    /\ generations \subseteq {New}
    /\ Going("epoch")
    /\ UNCHANGED <<directory, curve, tuning, losses, stopped, starts>>

-----------------------------------------------------------------------------
(***************************************************************************)
(* clear_tuning_checkpoint, once the layer is committed and journalled.    *)
(***************************************************************************)
BeginClear ==
    /\ tpc = "tuned"
    /\ Going("clear")
    /\ curve' = [curve EXCEPT ![tuning] = NotDrawn]
    /\ tuning' = NoLayer /\ losses' = <<>> /\ stopped' = FALSE
    /\ UNCHANGED <<directory, starts>>

UnlinkPointer ==
    /\ tpc = "clear"
    /\ pointer' = NoPointer
    /\ Going("clearing")
    /\ UNCHANGED <<generations, curve, tuning, losses, stopped, starts>>

ClearOne ==
    /\ tpc = "clearing"
    /\ RemoveInactive({})
    /\ UNCHANGED <<pointer, curve, tpc, tuning, losses, stopped, starts>>

Cleared ==
    /\ tpc = "clearing"
    /\ generations = {}
    /\ Going("idle")
    /\ UNCHANGED <<directory, curve, tuning, losses, stopped, starts>>

-----------------------------------------------------------------------------
\* The process ends, and another one begins.  An exception in a save removes
\* the temporary directory, a kill leaves it.
TuningDie ==
    /\ starts < MaxStarts
    /\ starts' = starts + 1
    /\ generations' \in {generations} \cup
            {s \in {generations \ {Part(New)}} : tpc = "publish"}
    /\ Going("idle")
    /\ tuning' = NoLayer /\ losses' = <<>> /\ stopped' = FALSE
    /\ UNCHANGED <<pointer, curve>>

TuningStep ==
    \/ Epoch \/ Tuned
    \/ MakeTemporary \/ Publish \/ WritePointer \/ Sweep \/ Swept
    \/ UnlinkPointer \/ ClearOne \/ Cleared

\* Alone, with any order of layers.
TuningSpec ==
    TuningInit /\ [][\/ TuningStep \/ BeginClear \/ TuningDie
                     \/ \E l \in Layers : BeginFresh(l) \/ Resume(l)]_tuningVars

-----------------------------------------------------------------------------
\* Whenever the pointer is there, the generation it names is there and whole
\* and belongs to its layer: no death in a save, in a sweep or in a clear
\* leaves a run that raises on every later start.
PointerIsReadable ==
    /\ pointer # NoPointer =>
        /\ pointer.generation \in generations
        /\ pointer.generation.whole
        /\ pointer.generation.layer = pointer.layer
    /\ tpc # "unreadable"

\* An epoch that a checkpoint holds is not trained again, and none is skipped:
\* the epoch that is trained continues the checkpoint of the layer, if it has one.
EpochsContinue ==
    [][Epoch /\ IsFor(pointer, tuning) =>
        losses = pointer.generation.losses]_tuningVars
=============================================================================
