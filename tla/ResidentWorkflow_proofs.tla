----------------------- MODULE ResidentWorkflow_proofs -----------------------
(***************************************************************************)
(* GlobalDistillation first: results are kept, form a chain, and save no   *)
(* epoch twice.  The workflow implements it: whatever it does with plans   *)
(* and manifests, to the files of the stages it is a sequence of its       *)
(* steps, so what was proved of these holds of every run.                  *)
(*                                                                         *)
(* Then the workflow itself, as long as no two programs overlap: the one   *)
(* that works knows the published plan and the last result, and once the   *)
(* run is COMPLETED nobody works and its last result is among its          *)
(* artifacts (Alone).                                                      *)
(***************************************************************************)
EXTENDS ResidentWorkflow, TLAPS

-----------------------------------------------------------------------------
(***************************************************************************)
(* What a stage of distillation made is kept, the results are a chain, and *)
(* the epochs that were saved are kept, for any number of programs and     *)
(* epochs, however they are interleaved, raise, die and start over.        *)
(*                                                                         *)
(* The invariant says what a program knows: between its lookup and its     *)
(* pointer a stage of distillation has the device, so that the pointer it  *)
(* did not find is still not there; the result it starts from is the       *)
(* pointer of the stage before.  Calibration has no device, and needs      *)
(* none: what it makes is determined by what it is made from.              *)
(***************************************************************************)

Before(k) == IF k = 1 THEN NoResult ELSE pointer[k - 1]

Follows(k) == k > 1 => pointer[k - 1] # NoResult

\* What is pointed to was made from the stage before, by a commit or, after
\* the last distillation, by calibration.
WellMade(k, r) ==
    \E n \in Nat : r = Result(k, n, Before(k)) /\ (k > Distilled => n = 0)

Domains ==
    /\ DOMAIN pointer = Stage /\ DOMAIN checkpoint = Stage
    /\ DOMAIN source = Programs /\ DOMAIN made = Programs
    /\ DOMAIN dpc = Programs
    /\ stage \in [Programs -> Stage] /\ epochs \in [Programs -> Nat]
    /\ committed \in Nat

Pointers ==
    \A k \in Stage : pointer[k] # NoResult => WellMade(k, pointer[k]) /\ Follows(k)

Active == active # NoResult => \E k \in Stage : active = pointer[k]

\* Saved epochs are those of the result the stage starts from.
Checkpoints ==
    \A k \in Stage :
        /\ checkpoint[k].epochs \in Nat
        /\ checkpoint[k].epochs > 0 => checkpoint[k].source = Before(k) /\ Follows(k)

Working == {"look", "cache", "train", "save", "point", "activate"}
Training == {"cache", "train", "save"}

OfProgram(p) ==
    /\ dpc[p] \in Working /\ stage[p] <= Distilled => device = p
    /\ dpc[p] \in Training \cup {"look"} => stage[p] <= Distilled
    /\ dpc[p] \in {"idle", "quantizing"} => stage[p] = 1 /\ source[p] = NoResult
    /\ dpc[p] \in Working \cup {"next"} => source[p] = Before(stage[p]) /\ Follows(stage[p])
    /\ dpc[p] \in Training => pointer[stage[p]] = NoResult
    /\ dpc[p] = "point" =>
        /\ WellMade(stage[p], made[p])
        /\ stage[p] <= Distilled => pointer[stage[p]] = NoResult
    /\ dpc[p] = "activate" => made[p] = pointer[stage[p]] /\ made[p] # NoResult
    /\ dpc[p] \in {"train", "save"} => epochs[p] >= checkpoint[stage[p]].epochs

Inv ==
    /\ Domains /\ Pointers /\ Active /\ Checkpoints
    /\ \A p \in Programs : OfProgram(p)

-----------------------------------------------------------------------------
LEMMA StageFacts ==
    /\ Distilled \in {1, 2} /\ Last \in {Distilled, Distilled + 1}
    /\ Last \in Nat /\ Stage = 1 .. Last /\ 1 \in Stage
    /\ Epochs \in Nat /\ Nobody \notin Programs
BY DistillationAssumption DEF Last, Stage

LEMMA ResultIsSome ==
    ASSUME NEW k \in Stage, NEW n, NEW from
    PROVE  Result(k, n, from) # NoResult
<1>1. k # 0
  BY StageFacts
<1> QED BY <1>1 DEF Result, NoResult

LEMMA InvImplies == Inv => ResultsDescend
<1> SUFFICES ASSUME Inv PROVE ResultsDescend
  OBVIOUS
<1>1. ASSUME NEW k \in Stage, pointer[k] # NoResult
      PROVE  /\ pointer[k].stage = k
             /\ IF k = 1 THEN pointer[k].source = NoResult
                ELSE pointer[k - 1] # NoResult /\ pointer[k].source = pointer[k - 1]
  <2>1. PICK n \in Nat : pointer[k] = Result(k, n, Before(k))
    BY <1>1 DEF Inv, Pointers, WellMade
  <2>2. Follows(k)
    BY <1>1 DEF Inv, Pointers
  <2>3. pointer[k].stage = k /\ pointer[k].source = Before(k)
    BY <2>1 DEF Result
  <2>4. k = 1 \/ k > 1
    BY StageFacts
  <2> QED BY <2>2, <2>3, <2>4 DEF Before, Follows
<1> QED BY <1>1 DEF ResultsDescend, Inv, Active

LEMMA InitInv == DistillationInit => Inv
<1> SUFFICES ASSUME DistillationInit PROVE Inv
  OBVIOUS
<1>1. Domains
  BY StageFacts DEF DistillationInit, Domains
<1>2. Pointers /\ Active /\ Checkpoints
  BY DEF DistillationInit, Pointers, Active, Checkpoints, NoCheckpoint
<1>3. \A p \in Programs : OfProgram(p)
  BY StageFacts DEF DistillationInit, OfProgram, Working, Training
<1> QED BY <1>1, <1>2, <1>3 DEF Inv

\* A step of p that changes no pointer and no checkpoint leaves the others.
Quiet == pointer' = pointer /\ checkpoint' = checkpoint
Leasing(p) ==
    \/ device' = device
    \/ device = Nobody /\ device' = p
    \/ device = p /\ device' = Nobody
OnlyOf(p) ==
    \A q \in Programs \ {p} :
        /\ stage'[q] = stage[q] /\ source'[q] = source[q] /\ epochs'[q] = epochs[q]
        /\ made'[q] = made[q] /\ dpc'[q] = dpc[q]

LEMMA QuietOthers ==
    ASSUME Inv, NEW p \in Programs, Quiet, Leasing(p), OnlyOf(p),
           NEW q \in Programs, q # p
    PROVE  OfProgram(q)'
<1>1. OfProgram(q)
  BY DEF Inv
<1>2. device = q => device' = q
  BY StageFacts DEF Leasing
<1>3. /\ stage'[q] = stage[q] /\ source'[q] = source[q] /\ epochs'[q] = epochs[q]
      /\ made'[q] = made[q] /\ dpc'[q] = dpc[q]
  BY DEF OnlyOf
<1>4. pointer' = pointer /\ checkpoint' = checkpoint
  BY DEF Quiet
<1> QED BY <1>1, <1>2, <1>3, <1>4
  DEF OfProgram, Before, Follows, WellMade, Working, Training

LEMMA QuietInv ==
    ASSUME Inv, NEW p \in Programs, Quiet, Leasing(p), OnlyOf(p),
           Domains', active' = active, OfProgram(p)'
    PROVE  Inv'
<1>1. Pointers' /\ Checkpoints' /\ Active'
  BY DEF Quiet, Inv, Pointers, Checkpoints, Active, WellMade, Before, Follows, Stage, Last
<1>2. \A q \in Programs : OfProgram(q)'
  BY QuietOthers
<1> QED BY <1>1, <1>2 DEF Inv

-----------------------------------------------------------------------------
LEMMA TakesOrFrees ==
    ASSUME NEW p, TakeDevice(p) \/ FreeDevice(p) \/ UNCHANGED device
    PROVE  Leasing(p)
BY DEF TakeDevice, FreeDevice, Leasing

LEMMA BeginQuantizing_ ==
    ASSUME Inv, NEW p \in Programs, BeginQuantizing(p) PROVE Inv'
<1> USE DEF BeginQuantizing, Goto, Locals, distillationDisk
<1>1. Quiet /\ Leasing(p) /\ OnlyOf(p) /\ active' = active
  BY TakesOrFrees DEF Quiet, OnlyOf, Inv, Domains
<1>2. Domains'
  BY DEF Inv, Domains, Stage, Last
<1>3. dpc'[p] = "quantizing" /\ stage'[p] = 1 /\ source'[p] = NoResult
  BY DEF Inv, Domains, OfProgram
<1>4. OfProgram(p)'
  BY <1>3 DEF OfProgram, Working, Training
<1> QED BY <1>1, <1>2, <1>4, QuietInv

LEMMA EndQuantizing_ ==
    ASSUME Inv, NEW p \in Programs, EndQuantizing(p) PROVE Inv'
<1> USE DEF EndQuantizing, Goto, Locals, distillationDisk
<1>1. Quiet /\ Leasing(p) /\ OnlyOf(p) /\ active' = active
  BY TakesOrFrees DEF Quiet, OnlyOf, Inv, Domains
<1>2. Domains'
  BY DEF Inv, Domains, Stage, Last
<1>3. dpc'[p] = "next" /\ stage'[p] = 1 /\ source'[p] = NoResult
  BY DEF Inv, Domains, OfProgram
<1>4. OfProgram(p)'
  BY <1>3 DEF OfProgram, Working, Training, Before, Follows
<1> QED BY <1>1, <1>2, <1>4, QuietInv

LEMMA StartOver_ ==
    ASSUME Inv, NEW p \in Programs, StartOver(p) PROVE Inv'
<1> USE DEF StartOver, Goto, distillationDisk
<1>1. Quiet /\ Leasing(p) /\ OnlyOf(p) /\ active' = active
  BY TakesOrFrees DEF Quiet, OnlyOf, Inv, Domains
<1>2. Domains'
  BY StageFacts DEF Inv, Domains
<1>3. dpc'[p] = "idle" /\ stage'[p] = 1 /\ source'[p] = NoResult
  BY DEF Inv, Domains
<1>4. OfProgram(p)'
  BY <1>3 DEF OfProgram, Working, Training
<1> QED BY <1>1, <1>2, <1>4, QuietInv

LEMMA Raise_ ==
    ASSUME Inv, NEW p \in Programs, Raise(p) PROVE Inv'
<1> USE DEF Raise, Goto, Locals, distillationDisk
<1>1. Quiet /\ Leasing(p) /\ OnlyOf(p) /\ active' = active
  BY TakesOrFrees DEF Quiet, OnlyOf, Inv, Domains
<1>2. Domains'
  BY DEF Inv, Domains, Stage, Last
<1>3. dpc'[p] = "failed"
  BY DEF Inv, Domains
<1>4. OfProgram(p)'
  BY <1>3 DEF OfProgram, Working, Training
<1> QED BY <1>1, <1>2, <1>4, QuietInv

LEMMA Distill_ ==
    ASSUME Inv, NEW p \in Programs, Distill(p) PROVE Inv'
<1> USE DEF Distill, Goto, Locals, distillationDisk
<1>1. Quiet /\ Leasing(p) /\ OnlyOf(p) /\ active' = active
  BY TakesOrFrees DEF Quiet, OnlyOf, Inv, Domains
<1>2. Domains'
  BY DEF Inv, Domains, Stage, Last
<1>3. dpc'[p] = "look" /\ device' = p /\ stage'[p] <= Distilled
  BY DEF Inv, Domains, TakeDevice
<1>4. source[p] = Before(stage[p]) /\ Follows(stage[p])
  BY DEF Inv, OfProgram
<1>5. OfProgram(p)'
  BY <1>3, <1>4 DEF OfProgram, Working, Training, Before, Follows
<1> QED BY <1>1, <1>2, <1>5, QuietInv

LEMMA Look_ ==
    ASSUME Inv, NEW p \in Programs, Look(p) PROVE Inv'
<1> USE DEF Look, Lookup, Goto, distillationDisk
<1>1. Quiet /\ OnlyOf(p) /\ active' = active
  BY DEF Quiet, OnlyOf, Inv, Domains
<1>2. Leasing(p)
  BY TakesOrFrees
<1>3. Domains'
  BY DEF Inv, Domains, Stage, Last
<1>4. /\ source[p] = Before(stage[p]) /\ Follows(stage[p])
      /\ device = p /\ stage[p] <= Distilled
  BY DEF Inv, OfProgram, Working
<1>5. ASSUME dpc'[p] = "failed" PROVE OfProgram(p)'
  BY <1>5 DEF OfProgram, Working, Training
<1>6. ASSUME dpc'[p] = "activate" PROVE OfProgram(p)'
  <2>1. /\ made'[p] = pointer[stage[p]] /\ made'[p] # NoResult /\ device' = p
        /\ stage'[p] = stage[p] /\ source'[p] = source[p]
    BY <1>4, <1>6 DEF Inv, Domains
  <2> QED BY <1>1, <1>4, <1>6, <2>1
    DEF OfProgram, Working, Training, Before, Follows, Quiet
<1>7. ASSUME dpc'[p] = "cache" PROVE OfProgram(p)'
  <2>1. /\ pointer[stage[p]] = NoResult /\ device' = p
        /\ stage'[p] = stage[p] /\ source'[p] = source[p]
    BY <1>4, <1>7 DEF Inv, Domains
  <2> QED BY <1>1, <1>4, <1>7, <2>1
    DEF OfProgram, Working, Training, Before, Follows, Quiet
<1>8. dpc'[p] \in {"failed", "activate", "cache"}
  BY DEF Inv, Domains
<1>9. OfProgram(p)'
  BY <1>5, <1>6, <1>7, <1>8
<1> QED BY <1>1, <1>2, <1>3, <1>9, QuietInv

LEMMA CacheEpoch_ ==
    ASSUME Inv, NEW p \in Programs, CacheEpoch(p) PROVE Inv'
<1> USE DEF CacheEpoch, Locals
<1>1. Quiet /\ OnlyOf(p) /\ Leasing(p) /\ active' = active
  BY TakesOrFrees DEF Quiet, OnlyOf
<1>2. Domains'
  BY DEF Inv, Domains, Stage, Last
<1>3. OfProgram(p)'
  BY DEF Inv, OfProgram, Before, Follows, WellMade, Working, Training
<1> QED BY <1>1, <1>2, <1>3, QuietInv

LEMMA LoadCheckpoint_ ==
    ASSUME Inv, NEW p \in Programs, LoadCheckpoint(p) PROVE Inv'
<1> USE DEF LoadCheckpoint, Goto, distillationDisk
<1>1. Quiet /\ OnlyOf(p) /\ Leasing(p) /\ active' = active
  BY TakesOrFrees DEF Quiet, OnlyOf, Inv, Domains
<1>2. stage[p] \in Stage
  BY DEF Inv, Domains
<1>3. /\ Saved(stage[p], source[p]) \in Nat
      /\ Saved(stage[p], source[p]) >= checkpoint[stage[p]].epochs
  <2>1. /\ checkpoint[stage[p]].epochs \in Nat
        /\ checkpoint[stage[p]].epochs > 0 => checkpoint[stage[p]].source = Before(stage[p])
    BY <1>2 DEF Inv, Checkpoints
  <2>2. source[p] = Before(stage[p])
    BY DEF Inv, OfProgram, Working
  <2> QED BY <2>1, <2>2 DEF Saved
<1>4. Domains'
  BY <1>3 DEF Inv, Domains, Stage, Last
<1>5. /\ dpc'[p] = "train" /\ epochs'[p] = Saved(stage[p], source[p])
      /\ stage'[p] = stage[p] /\ source'[p] = source[p] /\ device' = device
  BY DEF Inv, Domains
<1>6. /\ device = p /\ stage[p] <= Distilled /\ pointer[stage[p]] = NoResult
      /\ source[p] = Before(stage[p]) /\ Follows(stage[p])
  BY DEF Inv, OfProgram, Working, Training
<1>7. OfProgram(p)'
  BY <1>1, <1>3, <1>5, <1>6
  DEF OfProgram, Before, Follows, Working, Training, Quiet
<1> QED BY <1>1, <1>4, <1>7, QuietInv

LEMMA TrainEpoch_ ==
    ASSUME Inv, NEW p \in Programs, TrainEpoch(p) PROVE Inv'
<1> USE DEF TrainEpoch, Goto, distillationDisk
<1>1. Quiet /\ OnlyOf(p) /\ Leasing(p) /\ active' = active
  BY TakesOrFrees DEF Quiet, OnlyOf, Inv, Domains
<1>2. Domains'
  BY DEF Inv, Domains, Stage, Last
<1>3. /\ dpc'[p] = "save" /\ epochs'[p] = epochs[p] + 1
      /\ stage'[p] = stage[p] /\ source'[p] = source[p] /\ device' = device
  BY DEF Inv, Domains
<1>4. /\ device = p /\ stage[p] <= Distilled /\ pointer[stage[p]] = NoResult
      /\ source[p] = Before(stage[p]) /\ Follows(stage[p])
      /\ epochs[p] >= checkpoint[stage[p]].epochs
  BY DEF Inv, OfProgram, Working, Training
<1>5. epochs[p] \in Nat /\ checkpoint[stage[p]].epochs \in Nat
  BY DEF Inv, Domains, Checkpoints
<1>6. OfProgram(p)'
  BY <1>1, <1>3, <1>4, <1>5
  DEF OfProgram, Before, Follows, Working, Training, Quiet
<1> QED BY <1>1, <1>2, <1>6, QuietInv

LEMMA CommitResult_ ==
    ASSUME Inv, NEW p \in Programs, CommitResult(p) PROVE Inv'
<1> USE DEF CommitResult, Goto
<1>1. Quiet /\ OnlyOf(p) /\ Leasing(p) /\ active' = active
  BY TakesOrFrees DEF Quiet, OnlyOf, Inv, Domains
<1>2. Domains'
  BY DEF Inv, Domains, Stage, Last
<1>3. /\ dpc'[p] = "point" /\ made'[p] = Result(stage[p], committed + 1, source[p])
      /\ stage'[p] = stage[p] /\ source'[p] = source[p] /\ device' = device
  BY DEF Inv, Domains
<1>4. /\ device = p /\ stage[p] <= Distilled /\ pointer[stage[p]] = NoResult
      /\ source[p] = Before(stage[p]) /\ Follows(stage[p])
  BY DEF Inv, OfProgram, Working, Training
<1>5. committed + 1 \in Nat /\ stage[p] \in Nat /\ ~ (stage[p] > Distilled)
  BY <1>4, StageFacts DEF Inv, Domains
<1>6. WellMade(stage[p], made'[p])
  BY <1>3, <1>4, <1>5 DEF WellMade
<1>7. OfProgram(p)'
  BY <1>1, <1>3, <1>4, <1>6
  DEF OfProgram, Before, Follows, WellMade, Working, Training, Quiet
<1> QED BY <1>1, <1>2, <1>7, QuietInv

LEMMA Calibrate_ ==
    ASSUME Inv, NEW p \in Programs, Calibrate(p) PROVE Inv'
<1> USE DEF Calibrate, Goto, distillationDisk
<1>1. Quiet /\ OnlyOf(p) /\ Leasing(p) /\ active' = active
  BY TakesOrFrees DEF Quiet, OnlyOf, Inv, Domains
<1>2. Domains'
  BY DEF Inv, Domains, Stage, Last
<1>3. /\ source[p] = Before(stage[p]) /\ Follows(stage[p])
      /\ stage'[p] = stage[p] /\ source'[p] = source[p]
      /\ stage[p] \in Nat /\ ~ (stage[p] <= Distilled)
  BY StageFacts DEF Inv, OfProgram, Domains
<1>4. ASSUME dpc'[p] = "failed" PROVE OfProgram(p)'
  BY <1>4 DEF OfProgram, Working, Training
<1>5. ASSUME dpc'[p] = "activate" PROVE OfProgram(p)'
  <2>1. made'[p] = pointer[stage[p]] /\ made'[p] # NoResult
    BY <1>5 DEF Inv, Domains
  <2> QED BY <1>1, <1>3, <1>5, <2>1
    DEF OfProgram, Working, Training, Before, Follows, Quiet
<1>6. ASSUME dpc'[p] = "point" PROVE OfProgram(p)'
  <2>1. made'[p] = Result(stage[p], 0, source[p])
    BY <1>6 DEF Inv, Domains
  <2>2. WellMade(stage[p], made'[p])
    BY <1>3, <2>1 DEF WellMade
  <2> QED BY <1>1, <1>3, <1>6, <2>2
    DEF OfProgram, Working, Training, Before, Follows, WellMade, Quiet
<1>7. dpc'[p] \in {"failed", "activate", "point"}
  BY DEF Inv, Domains
<1>8. OfProgram(p)'
  BY <1>4, <1>5, <1>6, <1>7
<1> QED BY <1>1, <1>2, <1>8, QuietInv

-----------------------------------------------------------------------------
(***************************************************************************)
(* The three steps that are not quiet.                                     *)
(***************************************************************************)
LEMMA SaveCheckpoint_ ==
    ASSUME Inv, NEW p \in Programs, SaveCheckpoint(p) PROVE Inv'
<1> USE DEF SaveCheckpoint, Goto, Locals
<1> DEFINE k == stage[p]
<1>1. /\ device = p /\ k <= Distilled /\ pointer[k] = NoResult
      /\ source[p] = Before(k) /\ Follows(k)
      /\ epochs[p] >= checkpoint[k].epochs /\ k \in Stage /\ epochs[p] \in Nat
  BY DEF Inv, OfProgram, Domains, Working, Training
<1>2. /\ checkpoint'[k].epochs = epochs[p] /\ checkpoint'[k].source = source[p]
      /\ \A j \in Stage \ {k} : checkpoint'[j] = checkpoint[j]
  BY <1>1 DEF Inv, Domains
<1>3. Domains'
  BY DEF Inv, Domains, Stage, Last
<1>4. Pointers' /\ Active'
  BY DEF Inv, Pointers, Active, WellMade, Before, Follows, Stage, Last
<1>5. Checkpoints'
  BY <1>1, <1>2 DEF Inv, Checkpoints, Before, Follows, Stage, Last
<1>6. OfProgram(p)'
  <2>1. dpc'[p] = "train" /\ stage' = stage /\ source' = source /\ epochs' = epochs
    BY DEF Inv, Domains
  <2> QED BY <1>1, <1>2, <2>1 DEF OfProgram, Before, Follows, Working, Training
<1>7. ASSUME NEW q \in Programs, q # p PROVE OfProgram(q)'
  <2>1. OfProgram(q) /\ dpc'[q] = dpc[q] /\ stage[q] \in Stage
    BY <1>7 DEF Inv, Domains
  <2>2. dpc[q] \in {"train", "save"} => FALSE
    BY <1>1, <1>7, <2>1 DEF OfProgram, Working, Training
  <2> QED BY <2>1, <2>2 DEF OfProgram, WellMade, Before, Follows, Working, Training
<1> QED BY <1>3, <1>4, <1>5, <1>6, <1>7 DEF Inv

LEMMA Activate_ ==
    ASSUME Inv, NEW p \in Programs, Activate(p) PROVE Inv'
<1> USE DEF Activate, Goto
<1> DEFINE k == stage[p]
<1>1. Quiet /\ OnlyOf(p) /\ Leasing(p)
  BY TakesOrFrees DEF Quiet, OnlyOf, Inv, Domains
<1>2. k \in Stage /\ made[p] = pointer[k] /\ made[p] # NoResult
  BY DEF Inv, Domains, OfProgram
<1>3. k < Last => k + 1 \in Stage /\ k + 1 > 1 /\ k + 1 # 1 /\ (k + 1) - 1 = k
  BY <1>2, StageFacts
<1>4. Domains'
  BY <1>2, <1>3 DEF Inv, Domains, Stage, Last
<1>5. Active'
  BY <1>2 DEF Active, Stage, Last
<1>6. Pointers' /\ Checkpoints'
  BY DEF Inv, Pointers, Checkpoints, WellMade, Before, Follows, Stage, Last
<1>7. /\ source'[p] = pointer[k] /\ stage'[p] = IF k < Last THEN k + 1 ELSE k
      /\ dpc'[p] = IF k < Last THEN "next" ELSE "done"
  BY <1>2 DEF Inv, Domains
<1>8. OfProgram(p)'
  <2>1. CASE k < Last
    <3>1. dpc'[p] = "next" /\ stage'[p] = k + 1 /\ source'[p] = pointer[k]
      BY <1>7, <2>1
    <3>2. stage'[p] # 1 /\ stage'[p] - 1 = k /\ pointer' = pointer
      BY <1>1, <1>3, <2>1, <3>1 DEF Quiet
    <3> QED BY <1>2, <3>1, <3>2 DEF OfProgram, Working, Training, Before, Follows
  <2>2. CASE ~ (k < Last)
    BY <1>7, <2>2 DEF OfProgram, Working, Training
  <2> QED BY <2>1, <2>2
<1>9. \A q \in Programs : OfProgram(q)'
  BY <1>1, <1>8, QuietOthers
<1> QED BY <1>4, <1>5, <1>6, <1>9 DEF Inv

\* The pointer is new, or what it was.
LEMMA PointsToNew ==
    ASSUME Inv, NEW p \in Programs, PointStage(p)
    PROVE  /\ stage[p] \in Stage /\ made[p] # NoResult
           /\ WellMade(stage[p], made[p]) /\ Follows(stage[p])
           /\ pointer[stage[p]] \in {NoResult, made[p]}
           /\ pointer' = [pointer EXCEPT ![stage[p]] = made[p]]
<1> DEFINE k == stage[p]
<1>1. /\ dpc[p] = "point" /\ k \in Stage /\ WellMade(k, made[p]) /\ Follows(k)
      /\ k <= Distilled => pointer[k] = NoResult
  BY DEF PointStage, Inv, OfProgram, Domains, Working
<1>2. made[p] # NoResult
  BY <1>1, ResultIsSome DEF WellMade
<1>3. ASSUME k > Distilled, pointer[k] # NoResult
      PROVE  pointer[k] = made[p]
  BY <1>1, <1>3 DEF Inv, Pointers, WellMade
<1>4. k <= Distilled \/ k > Distilled
  BY <1>1, StageFacts
<1> QED BY <1>1, <1>2, <1>3, <1>4 DEF PointStage

LEMMA PointStage_ ==
    ASSUME Inv, NEW p \in Programs, PointStage(p) PROVE Inv'
<1> USE DEF PointStage, Goto, Locals
<1> DEFINE k == stage[p]
<1>1. /\ k \in Stage /\ made[p] # NoResult /\ WellMade(k, made[p]) /\ Follows(k)
      /\ pointer[k] \in {NoResult, made[p]}
  BY PointsToNew
<1>2. /\ pointer'[k] = made[p] /\ DOMAIN pointer' = Stage
      /\ \A j \in Stage \ {k} : pointer'[j] = pointer[j]
      /\ \A j \in Stage : pointer[j] # NoResult => pointer'[j] = pointer[j]
  BY <1>1 DEF Inv, Domains
<1>3. \A j \in Stage : j > 1 => j - 1 \in Stage
  BY StageFacts
<1>4. \A j \in Stage : Follows(j) => Follows(j)' /\ Before(j)' = Before(j)
  BY <1>2, <1>3, StageFacts DEF Follows, Before
<1>5. Domains'
  BY <1>2 DEF Inv, Domains, Stage, Last
<1>6. Pointers'
  <2>1. ASSUME NEW j \in Stage, pointer'[j] # NoResult
        PROVE  WellMade(j, pointer[j])' /\ Follows(j)'
    <3>1. WellMade(j, pointer'[j]) /\ Follows(j)
      BY <1>1, <1>2, <2>1 DEF Inv, Pointers
    <3> QED BY <1>4, <3>1 DEF WellMade
  <2> QED BY <2>1 DEF Pointers, Stage, Last
<1>7. Active'
  BY <1>2 DEF Inv, Active, Stage, Last
<1>8. Checkpoints'
  BY <1>4 DEF Inv, Checkpoints, Stage, Last
<1>9. OfProgram(p)'
  <2>1. /\ dpc'[p] = "activate" /\ stage' = stage /\ source' = source /\ made' = made
        /\ device' = device
    BY DEF Inv, Domains
  <2>2. source[p] = Before(k) /\ (k <= Distilled => device = p)
    BY DEF Inv, OfProgram, Working
  <2>3. Before(k)' = Before(k) /\ Follows(k)'
    BY <1>1, <1>4
  <2> QED BY <1>1, <1>2, <2>1, <2>2, <2>3 DEF OfProgram, Working, Training, Before, Follows
<1>10. ASSUME NEW q \in Programs, q # p PROVE OfProgram(q)'
  <2>1. /\ OfProgram(q) /\ dpc'[q] = dpc[q] /\ stage[q] \in Stage
        /\ stage' = stage /\ source' = source /\ epochs' = epochs /\ made' = made
        /\ device' = device /\ checkpoint' = checkpoint
    BY <1>10 DEF Inv, Domains
  <2>2. Follows(stage[q]) => Follows(stage[q])' /\ Before(stage[q])' = Before(stage[q])
    BY <1>4, <2>1
  <2>3. ASSUME dpc[q] \in Working, stage[q] <= Distilled
        PROVE  stage[q] # k
    BY <1>10, <2>1, <2>3 DEF OfProgram, Working, Inv, Training
  <2>4. pointer[stage[q]] # NoResult => pointer'[stage[q]] = pointer[stage[q]]
    BY <1>2, <2>1
  <2>5. dpc[q] \in Working /\ stage[q] <= Distilled => pointer'[stage[q]] = pointer[stage[q]]
    BY <1>2, <2>1, <2>3
  <2>6. \A r : Follows(stage[q]) /\ WellMade(stage[q], r) => WellMade(stage[q], r)'
    BY <2>1, <2>2 DEF WellMade
  <2> QED BY <2>1, <2>2, <2>4, <2>5, <2>6 DEF OfProgram, Working, Training
<1> QED BY <1>5, <1>6, <1>7, <1>8, <1>9, <1>10 DEF Inv

LEMMA Stutter == ASSUME Inv, UNCHANGED distillationVars PROVE Inv'
<1> USE DEF distillationVars, distillationDisk
<1>1. Domains' /\ Pointers' /\ Active' /\ Checkpoints'
  BY DEF Inv, Domains, Pointers, Active, Checkpoints, WellMade, Before, Follows, Stage, Last
<1>2. \A q \in Programs : OfProgram(q)'
  BY DEF Inv, OfProgram, WellMade, Before, Follows
<1> QED BY <1>1, <1>2 DEF Inv

LEMMA NextInv == Inv /\ [DistillationNext]_distillationVars => Inv'
<1> SUFFICES ASSUME Inv, DistillationNext PROVE Inv'
  BY Stutter
<1>1. PICK p \in Programs :
        BeginQuantizing(p) \/ EndQuantizing(p) \/ StartOver(p) \/ Raise(p) \/ DistillStep(p)
  BY DEF DistillationNext
<1> QED BY <1>1, BeginQuantizing_, EndQuantizing_, StartOver_, Raise_, Distill_, Look_,
        CacheEpoch_, LoadCheckpoint_, TrainEpoch_, SaveCheckpoint_, CommitResult_,
        PointStage_, Activate_, Calibrate_ DEF DistillStep

LEMMA Invariance == DistillationSpec => []Inv
BY InitInv, NextInv, PTL DEF DistillationSpec

-----------------------------------------------------------------------------
LEMMA StepKeeps ==
    ASSUME Inv, [DistillationNext]_distillationVars
    PROVE  [\A k \in Stage : pointer[k] # NoResult => pointer'[k] = pointer[k]]_pointer
<1> SUFFICES ASSUME pointer' # pointer, NEW k \in Stage, pointer[k] # NoResult
             PROVE  pointer'[k] = pointer[k]
  OBVIOUS
<1>1. PICK p \in Programs : PointStage(p)
  BY DEF DistillationNext, DistillStep, distillationVars, distillationDisk, BeginQuantizing,
     EndQuantizing, StartOver, Raise, Distill, Look, Lookup, CacheEpoch, LoadCheckpoint,
     TrainEpoch, SaveCheckpoint, CommitResult, Activate, Calibrate
<1> QED BY <1>1, PointsToNew DEF Inv, Domains

LEMMA StepSaves ==
    ASSUME Inv, [DistillationNext]_distillationVars
    PROVE  [\A k \in Stage : checkpoint'[k].epochs >= checkpoint[k].epochs]_checkpoint
<1> SUFFICES ASSUME checkpoint' # checkpoint, NEW k \in Stage
             PROVE  checkpoint'[k].epochs >= checkpoint[k].epochs
  OBVIOUS
<1>1. PICK p \in Programs : SaveCheckpoint(p)
  BY DEF DistillationNext, DistillStep, distillationVars, distillationDisk, BeginQuantizing,
     EndQuantizing, StartOver, Raise, Distill, Look, Lookup, CacheEpoch, LoadCheckpoint,
     TrainEpoch, PointStage, CommitResult, Activate, Calibrate
<1>2. epochs[p] >= checkpoint[stage[p]].epochs
  BY <1>1 DEF SaveCheckpoint, Inv, OfProgram
<1>3. checkpoint[k].epochs \in Nat
  BY DEF Inv, Checkpoints
<1> QED BY <1>1, <1>2, <1>3 DEF SaveCheckpoint, Inv, Domains

\* Whatever programs do to a run, no stage is made twice: what the later stages
\* were made from stays what the pointer of a stage names.
THEOREM KeepsStages == DistillationSpec => StagesAreKept
<1>1. Inv /\ [DistillationNext]_distillationVars =>
        [\A k \in Stage : pointer[k] # NoResult => pointer'[k] = pointer[k]]_pointer
  BY StepKeeps
<1> QED BY <1>1, Invariance, PTL DEF DistillationSpec, StagesAreKept

\* The stages are a chain from the quantized run, and the active result is one
\* of them, with every program in the middle of something.
THEOREM KeepsDescent == DistillationSpec => []ResultsDescend
BY Invariance, InvImplies, PTL

\* A program that starts a stage again goes on from the epochs that were saved.
THEOREM KeepsEpochs == DistillationSpec => EpochsAreKept
<1>1. Inv /\ [DistillationNext]_distillationVars =>
        [\A k \in Stage : checkpoint'[k].epochs >= checkpoint[k].epochs]_checkpoint
  BY StepSaves
<1> QED BY <1>1, Invariance, PTL DEF DistillationSpec, EpochsAreKept

-----------------------------------------------------------------------------
\* The workflow.  A program that is refused a plan leaves what a dead one leaves.
LEMMA RefusalIsADeath ==
    ASSUME NEW p \in Programs, RefuseRevision(p) PROVE Die(p)
BY DEF RefuseRevision, Refusable, Die, Running

LEMMA WorkflowStep ==
    ASSUME [Next]_vars
    PROVE  [DistillationNext]_distillationVars
<1>1. CASE Stopped \/ UNCHANGED vars
  BY <1>1 DEF Stopped, vars
<1>2. ASSUME NEW p \in Programs,
             Step(p) \/ Die(p) \/ DieRecording(p) \/ RaiseInDistillation(p)
      PROVE  [DistillationNext]_distillationVars
  <2>1. CASE Start(p) \/ MeasureBatches(p) \/ RecordRevision(p)
    BY <2>1 DEF Start, MeasureBatches, RecordRevision
  <2>2. CASE OpenSession(p) \/ StartManifest(p) \/ FailQuantization(p) \/ OutOfMemory(p)
             \/ RevisePlan(p) \/ FinishQuantization(p) \/ HandleError(p) \/ Complete(p)
    <3>1. BeginQuantizing(p) \/ EndQuantizing(p) \/ StartOver(p) \/ UNCHANGED distillationVars
      BY <2>2 DEF OpenSession, StartManifest, FailQuantization, OutOfMemory, RevisePlan,
         FinishQuantization, HandleError, Complete, StopProgram
    <3> QED BY <3>1 DEF DistillationNext
  <2>3. CASE DistillFurther(p)
    BY <2>3 DEF DistillFurther, DistillationNext
  <2>4. CASE Die(p) \/ DieRecording(p) \/ RaiseInDistillation(p)
    BY <2>4 DEF Die, DieRecording, RaiseInDistillation, StopProgram, DistillationNext
  <2> QED BY <1>2, <2>1, <2>2, <2>3, <2>4 DEF Step
<1> QED BY <1>1, <1>2, RefusalIsADeath DEF Next

\* To the files of the stages a run of the workflow is a run of its programs in
\* GlobalDistillation, with the quantization and the errors it has there.
THEOREM ImplementsDistillation == Spec => DistillationSpec
<1>1. Init => DistillationInit
  BY DEF Init
<1>2. [Next]_vars => [DistillationNext]_distillationVars
  BY WorkflowStep
<1> QED BY <1>1, <1>2, PTL DEF Spec, DistillationSpec

\* Of every run of the workflow: no stage is made twice, the results are a
\* chain, and saved epochs are kept.
THEOREM DistillationIsKept == Spec => StagesAreKept /\ []ResultsDescend /\ EpochsAreKept
BY ImplementsDistillation, KeepsStages, KeepsDescent, KeepsEpochs, PTL
-----------------------------------------------------------------------------
(***************************************************************************)
(* What holds while programs were only started one after the other: the    *)
(* one that runs knows the plan that is published, and at its end the last *)
(* result is active.  The invariant says this of every place of a program  *)
(* at which it holds, and that nobody runs on a run that is COMPLETED.     *)
(***************************************************************************)
PlanDomains == DOMAIN mpc = Callers /\ DOMAIN plan = Callers /\ DOMAIN used = Callers

\* Between an out-of-memory error and the lower plan the program has no use of
\* the plan that is published: the caller revises its own.
KnowsPlan(p) ==
    /\ mpc[p] \in {"resolved", "log lowered"} => plan[p] = activePlan
    /\ mpc[p] \in {"prefix", "probe", "log measured", "work"} => used[p] = activePlan

LastIsActive == active = pointer[Last] /\ active # NoResult

KnowsResult(p) == dpc[p] = "done" => source[p] = active /\ LastIsActive

Concluded ==
    /\ \A p \in Programs : ~Running(p)
    /\ LastIsActive /\ active \in manifest.artifacts

Alone ==
    /\ \A p, q \in Programs : Running(p) /\ Running(q) => p = q
    /\ \A p \in Programs : KnowsPlan(p) /\ KnowsResult(p)
    /\ manifest.status = "COMPLETED" => Concluded

WorkflowInv == Inv /\ PlanDomains /\ (~overlapped => Alone)

LEMMA WorkflowInit == Init => WorkflowInv
<1> SUFFICES ASSUME Init PROVE WorkflowInv
  OBVIOUS
<1>1. Inv
  BY InitInv DEF Init
<1>2. PlanDomains
  BY DEF Init, PlanInit, PlanDomains
<1>3. \A p \in Programs : mpc[p] = "idle" /\ dpc[p] = "idle"
  BY WorkflowAssumption DEF Init, PlanInit, DistillationInit
<1>4. manifest.status = "CREATED"
  BY DEF Init, Status
<1> QED BY <1>1, <1>2, <1>3, <1>4 DEF WorkflowInv, Alone, Running, KnowsPlan, KnowsResult

\* A step of p moves no other program.
Moves(p) ==
    \A q \in Programs \ {p} : mpc'[q] = mpc[q] /\ dpc'[q] = dpc[q]

\* What p has to know afterwards, when no other program runs.
Knows(p) ==
    /\ KnowsPlan(p)' /\ KnowsResult(p)'
    /\ manifest'.status = "COMPLETED" => Concluded'

LEMMA RunsAlone ==
    ASSUME WorkflowInv, NEW p \in Programs, Moves(p), ~overlapped, ~overlapped',
           \A q \in Programs \ {p} : ~Running(q),
           Knows(p)
    PROVE  Alone'
<1>1. \A q \in Programs \ {p} : mpc'[q] = "idle" /\ dpc'[q] = "idle"
  BY DEF Moves, Running
<1>2. \A q \in Programs \ {p} : ~Running(q)' /\ KnowsPlan(q)' /\ KnowsResult(q)'
  BY <1>1 DEF Running, KnowsPlan, KnowsResult
<1>3. KnowsPlan(p)' /\ KnowsResult(p)' /\ (manifest.status = "COMPLETED" => Concluded)'
  BY DEF Knows
<1>4. \A q \in Programs : KnowsPlan(q)' /\ KnowsResult(q)'
  BY <1>2, <1>3
<1>5. \A q, r \in Programs : Running(q)' /\ Running(r)' => q = r
  BY <1>2
<1> QED BY <1>3, <1>4, <1>5 DEF Alone

LEMMA OthersRest ==
    ASSUME WorkflowInv, ~overlapped, NEW p \in Programs, Running(p)
    PROVE  /\ \A q \in Programs \ {p} : ~Running(q)
           /\ manifest.status # "COMPLETED"
           /\ KnowsPlan(p) /\ KnowsResult(p)
BY DEF WorkflowInv, Alone, Concluded

LEMMA DomainFacts ==
    ASSUME WorkflowInv
    PROVE  /\ DOMAIN mpc = Programs /\ DOMAIN plan = Programs /\ DOMAIN used = Programs
           /\ DOMAIN dpc = Programs /\ DOMAIN source = Programs
           /\ stage \in [Programs -> Stage]
BY WorkflowAssumption DEF WorkflowInv, PlanDomains, Inv, Domains

LEMMA StopProgramEffect ==
    ASSUME WorkflowInv, NEW p \in Programs, StopProgram(p)
    PROVE  /\ Moves(p) /\ mpc'[p] = "idle" /\ dpc'[p] = "idle"
           /\ active' = active /\ pointer' = pointer
<1>1. mpc' = [mpc EXCEPT ![p] = "idle"] /\ dpc' = [dpc EXCEPT ![p] = "idle"]
  BY DEF StopProgram, ForgetPlan, Planning, StartOver, Goto
<1>2. active' = active /\ pointer' = pointer
  BY DEF StopProgram, StartOver, distillationDisk
<1> QED BY <1>1, <1>2, DomainFacts DEF Moves

\* A program that stops, and does not complete the run.
LEMMA Stops ==
    ASSUME WorkflowInv, NEW p \in Programs, StopProgram(p), Running(p),
           ~overlapped, ~overlapped', manifest'.status # "COMPLETED"
    PROVE  Alone'
<1>1. Moves(p) /\ mpc'[p] = "idle" /\ dpc'[p] = "idle"
  BY StopProgramEffect
<1>2. Knows(p)
  BY <1>1 DEF Knows, KnowsPlan, KnowsResult
<1> QED BY <1>1, <1>2, OthersRest, RunsAlone

\* A step on the plan, in the middle of the program.
LEMMA Plans ==
    ASSUME WorkflowInv, NEW p \in Programs, NEW place, mpc' = [mpc EXCEPT ![p] = place],
           UNCHANGED distillationVars, Running(p),
           ~overlapped, ~overlapped', manifest'.status # "COMPLETED",
           KnowsPlan(p)'
    PROVE  Alone'
<1>1. Moves(p)
  BY DomainFacts DEF Moves, distillationVars
<1>2. KnowsResult(p)'
  BY OthersRest DEF KnowsResult, LastIsActive, distillationVars, distillationDisk, Last
<1>3. Knows(p)
  BY <1>2 DEF Knows
<1> QED BY <1>1, <1>3, OthersRest, RunsAlone

-----------------------------------------------------------------------------
LEMMA StartAlone ==
    ASSUME WorkflowInv, NEW p \in Programs, Start(p), ~overlapped'
    PROVE  Alone'
<1>1. ~overlapped /\ \A q \in Programs \ {p} : ~Running(q)
  BY DEF Start
<1>2. /\ mpc' = [mpc EXCEPT ![p] = "resolved"] /\ UNCHANGED distillationVars
      /\ manifest' = manifest /\ manifest.status # "COMPLETED" /\ ~Running(p)
  BY DEF Start, ResolvePlan, Planning
<1>3. Moves(p) /\ mpc'[p] = "resolved" /\ dpc'[p] = "idle"
  BY <1>2, DomainFacts DEF Moves, distillationVars, Running
<1>4. plan'[p] = activePlan'
  BY DomainFacts DEF Start, ResolvePlan
<1>5. Knows(p)
  BY <1>2, <1>3, <1>4 DEF Knows, KnowsPlan, KnowsResult
<1> QED BY <1>1, <1>3, <1>5, RunsAlone

LEMMA OpenSessionAlone ==
    ASSUME WorkflowInv, NEW p \in Programs, OpenSession(p), ~overlapped'
    PROVE  Alone'
<1>1. /\ ~overlapped /\ manifest' = manifest /\ Running(p)
      /\ mpc[p] = "resolved" /\ dpc[p] = "idle"
  BY DEF OpenSession, workflowVars, Running
<1>2. manifest.status # "COMPLETED"
  BY <1>1, OthersRest
<1>3. BeginQuantizing(p) /\ UNCHANGED planVars
  BY <1>2 DEF OpenSession
<1>4. /\ dpc' = [dpc EXCEPT ![p] = "quantizing"] /\ mpc' = mpc
      /\ plan' = plan /\ used' = used /\ activePlan' = activePlan
  BY <1>3 DEF BeginQuantizing, Goto, planVars, planDisk
<1>5. Moves(p) /\ mpc'[p] = "resolved" /\ dpc'[p] = "quantizing"
  BY <1>1, <1>4, DomainFacts DEF Moves
<1>6. KnowsPlan(p)
  BY <1>1, OthersRest
<1>7. Knows(p)
  BY <1>1, <1>2, <1>4, <1>5, <1>6 DEF Knows, KnowsPlan, KnowsResult
<1> QED BY <1>1, <1>5, <1>7, OthersRest, RunsAlone

LEMMA StartManifestAlone ==
    ASSUME WorkflowInv, NEW p \in Programs, StartManifest(p), ~overlapped'
    PROVE  Alone'
<1>1. /\ ~overlapped /\ manifest'.status # "COMPLETED" /\ Running(p) /\ mpc[p] = "resolved"
  BY DEF StartManifest, Status, Running
<1>2. CASE Explicable(p)
  <2>1. /\ mpc' = [mpc EXCEPT ![p] = "prefix"] /\ used' = [used EXCEPT ![p] = plan[p]]
        /\ activePlan' = activePlan /\ UNCHANGED distillationVars
    BY <1>2 DEF StartManifest, BeginAttempt, Planning, planDisk
  <2>2. KnowsPlan(p)
    BY <1>1, OthersRest
  <2>3. mpc'[p] = "prefix" /\ used'[p] = plan[p] /\ plan[p] = activePlan
    BY <1>1, <2>1, <2>2, DomainFacts DEF KnowsPlan
  <2>4. KnowsPlan(p)'
    BY <2>1, <2>3 DEF KnowsPlan
  <2> QED BY <1>1, <2>1, <2>4, Plans
<1>3. CASE ~Explicable(p)
  <2>1. StopProgram(p)
    BY <1>3 DEF StartManifest
  <2> QED BY <1>1, <2>1, Stops
<1> QED BY <1>2, <1>3

LEMMA MeasureBatchesAlone ==
    ASSUME WorkflowInv, NEW p \in Programs, MeasureBatches(p), ~overlapped'
    PROVE  Alone'
<1>1. /\ ~overlapped /\ manifest' = manifest /\ mpc[p] \in {"prefix", "probe"}
      /\ UNCHANGED distillationVars
  BY DEF MeasureBatches, CaptureFits, NothingToMeasure, PublishMeasured, workflowVars
<1>2. Running(p)
  BY <1>1 DEF Running
<1>3. manifest'.status # "COMPLETED" /\ KnowsPlan(p)
  BY <1>1, <1>2, OthersRest
<1>4. CASE CaptureFits(p) \/ NothingToMeasure(p)
  <2>1. PICK place \in {"probe", "work"} :
          /\ mpc' = [mpc EXCEPT ![p] = place]
          /\ used' = used /\ activePlan' = activePlan
    BY <1>4 DEF CaptureFits, NothingToMeasure, Planning, planDisk
  <2>2. mpc'[p] = place
    BY <2>1, DomainFacts
  <2>3. KnowsPlan(p)'
    BY <1>1, <1>3, <2>1, <2>2 DEF KnowsPlan
  <2> QED BY <1>1, <1>2, <1>3, <2>1, <2>3, Plans
<1>5. CASE PublishMeasured(p)
  <2>1. /\ mpc' = [mpc EXCEPT ![p] = "log measured"]
        /\ used' = [used EXCEPT ![p] = activePlan']
    BY <1>5 DEF PublishMeasured, Planning
  <2>2. KnowsPlan(p)'
    BY <2>1, DomainFacts DEF KnowsPlan
  <2> QED BY <1>1, <1>2, <1>3, <2>1, <2>2, Plans
<1> QED BY <1>4, <1>5 DEF MeasureBatches

LEMMA FailQuantizationAlone ==
    ASSUME WorkflowInv, NEW p \in Programs, FailQuantization(p), ~overlapped'
    PROVE  Alone'
<1>1. ~overlapped /\ manifest'.status # "COMPLETED" /\ StopProgram(p)
  BY DEF FailQuantization, Status
<1>2. mpc[p] # "idle"
  BY DEF FailQuantization, ProbeFails, RunsOut
<1> QED BY <1>1, <1>2, Stops DEF Running

LEMMA OutOfMemoryAlone ==
    ASSUME WorkflowInv, NEW p \in Programs, OutOfMemory(p), ~overlapped'
    PROVE  Alone'
<1>1. /\ ~overlapped /\ manifest'.status # "COMPLETED"
      /\ mpc' = [mpc EXCEPT ![p] = "revise"] /\ dpc' = [dpc EXCEPT ![p] = "idle"]
  BY DEF OutOfMemory, AwaitRevision, Planning, Status, StartOver, Goto
<1>2. Moves(p) /\ mpc'[p] = "revise" /\ dpc'[p] = "idle"
  BY <1>1, DomainFacts DEF Moves
<1>3. Running(p)
  BY DEF Running, OutOfMemory, AwaitRevision, RunsOut
<1>4. Knows(p)
  BY <1>1, <1>2 DEF Knows, KnowsPlan, KnowsResult
<1> QED BY <1>1, <1>2, <1>3, <1>4, OthersRest, RunsAlone

LEMMA RevisePlanAlone ==
    ASSUME WorkflowInv, NEW p \in Programs, RevisePlan(p), ~overlapped'
    PROVE  Alone'
<1>1. ~overlapped /\ manifest' = manifest /\ mpc[p] = "revise" /\ Running(p)
  BY DEF RevisePlan, Exhausted, ReviseAfterOom, workflowVars, Running
<1>2. manifest'.status # "COMPLETED"
  BY <1>1, OthersRest
<1>3. CASE Exhausted(p)
  BY <1>1, <1>2, <1>3, Stops DEF RevisePlan
<1>4. CASE ~Exhausted(p)
  <2>1. ReviseAfterOom(p) /\ UNCHANGED distillationVars
    BY <1>4 DEF RevisePlan
  <2>2. PICK lower : plan' = [plan EXCEPT ![p] = lower] /\ activePlan' = lower
    BY <2>1 DEF ReviseAfterOom
  <2>3. mpc' = [mpc EXCEPT ![p] = "log lowered"]
    BY <2>1 DEF ReviseAfterOom, Planning
  <2>4. KnowsPlan(p)'
    BY <2>2, <2>3, DomainFacts DEF KnowsPlan
  <2> QED BY <1>1, <1>2, <2>1, <2>3, <2>4, Plans
<1> QED BY <1>3, <1>4

LEMMA RecordRevisionAlone ==
    ASSUME WorkflowInv, NEW p \in Programs, RecordRevision(p), ~overlapped'
    PROVE  Alone'
<1>1. /\ ~overlapped /\ manifest' = manifest /\ UNCHANGED distillationVars
      /\ mpc[p] \in {"log measured", "log lowered"}
      /\ plan' = plan /\ activePlan' = activePlan
  BY DEF RecordRevision, LogRevision, workflowVars, planDisk
<1>2. Running(p)
  BY <1>1 DEF Running
<1>3. manifest'.status # "COMPLETED" /\ KnowsPlan(p)
  BY <1>1, <1>2, OthersRest
<1>4. CASE mpc[p] = "log measured"
  <2>1. mpc' = [mpc EXCEPT ![p] = "work"] /\ used' = used
    BY <1>4 DEF RecordRevision, LogRevision, Planning
  <2>2. KnowsPlan(p)'
    BY <1>1, <1>3, <1>4, <2>1, DomainFacts DEF KnowsPlan
  <2> QED BY <1>1, <1>2, <1>3, <2>1, <2>2, Plans
<1>5. CASE mpc[p] = "log lowered"
  <2>1. mpc' = [mpc EXCEPT ![p] = "resolved"]
    BY <1>5 DEF RecordRevision, LogRevision, Planning
  <2>2. KnowsPlan(p)'
    BY <1>1, <1>3, <1>5, <2>1, DomainFacts DEF KnowsPlan
  <2> QED BY <1>1, <1>2, <1>3, <2>1, <2>2, Plans
<1> QED BY <1>1, <1>4, <1>5

LEMMA FinishQuantizationAlone ==
    ASSUME WorkflowInv, NEW p \in Programs, FinishQuantization(p), ~overlapped'
    PROVE  Alone'
<1>1. /\ ~overlapped /\ manifest'.status # "COMPLETED"
      /\ mpc' = [mpc EXCEPT ![p] = "idle"] /\ dpc' = [dpc EXCEPT ![p] = "next"]
  BY DEF FinishQuantization, ForgetPlan, EndQuantizing, Planning, Status, Goto
<1>2. Moves(p) /\ mpc'[p] = "idle" /\ dpc'[p] = "next"
  BY <1>1, DomainFacts DEF Moves
<1>3. Running(p)
  BY DEF Running, FinishQuantization, PlanSuffices
<1>4. Knows(p)
  BY <1>1, <1>2 DEF Knows, KnowsPlan, KnowsResult
<1> QED BY <1>1, <1>2, <1>3, <1>4, OthersRest, RunsAlone

\* A step of distillation, and its last one.
LEMMA DistillStepEffect ==
    ASSUME WorkflowInv, NEW p \in Programs, DistillStep(p) \/ Raise(p)
    PROVE  /\ dpc[p] \notin {"idle", "done"}
           /\ \A q \in Programs \ {p} : dpc'[q] = dpc[q]
           /\ dpc'[p] = "done" => Activate(p) /\ ~(stage[p] < Last)
<1>0. DOMAIN dpc = Programs
  BY DomainFacts
<1>1. CASE Activate(p)
  BY <1>0, <1>1 DEF Activate, Goto
<1>2. CASE Raise(p)
  BY <1>0, <1>2 DEF Raise, Goto
<1>3. CASE Distill(p)
  BY <1>0, <1>3 DEF Distill, Goto
<1>4. CASE Look(p)
  BY <1>0, <1>4 DEF Look, Lookup, Goto
<1>5. CASE CacheEpoch(p)
  BY <1>0, <1>5 DEF CacheEpoch
<1>6. CASE LoadCheckpoint(p) \/ TrainEpoch(p) \/ SaveCheckpoint(p) \/ CommitResult(p)
           \/ PointStage(p)
  BY <1>0, <1>6 DEF LoadCheckpoint, TrainEpoch, SaveCheckpoint, CommitResult, PointStage, Goto
<1>7. CASE Calibrate(p)
  BY <1>0, <1>7 DEF Calibrate, Goto
<1> QED BY <1>1, <1>2, <1>3, <1>4, <1>5, <1>6, <1>7 DEF DistillStep

\* The program that activates the last result has it, and it is the pointer's.
LEMMA LastActivate ==
    ASSUME WorkflowInv, NEW p \in Programs, Activate(p), ~(stage[p] < Last)
    PROVE  source'[p] = active' /\ LastIsActive'
<1>1. made[p] = pointer[stage[p]] /\ made[p] # NoResult
  BY DEF WorkflowInv, Inv, OfProgram, Activate
<1>2. stage[p] = Last
  BY DomainFacts, StageFacts
<1>3. active' = made[p] /\ source' = [source EXCEPT ![p] = made[p]] /\ pointer' = pointer
  BY DEF Activate
<1>4. source'[p] = made[p]
  BY <1>3, DomainFacts
<1>5. active' = pointer'[Last] /\ active' # NoResult
  BY <1>1, <1>2, <1>3
<1> QED BY <1>3, <1>4, <1>5 DEF LastIsActive, Last

LEMMA DistillAlone ==
    ASSUME WorkflowInv, NEW p \in Programs, DistillStep(p) \/ Raise(p),
           UNCHANGED planVars, manifest' = manifest, ~overlapped, ~overlapped'
    PROVE  Alone'
<1>1. /\ dpc[p] \notin {"idle", "done"}
      /\ \A q \in Programs \ {p} : dpc'[q] = dpc[q]
      /\ dpc'[p] = "done" => Activate(p) /\ ~(stage[p] < Last)
  BY DistillStepEffect
<1>2. Running(p)
  BY <1>1 DEF Running
<1>3. manifest'.status # "COMPLETED" /\ KnowsPlan(p)
  BY <1>2, OthersRest
<1>4. KnowsPlan(p)'
  BY <1>3 DEF KnowsPlan, planVars, planDisk
<1>5. KnowsResult(p)'
  BY <1>1, LastActivate DEF KnowsResult
<1>6. Moves(p)
  BY <1>1 DEF Moves, planVars
<1>7. Knows(p)
  BY <1>3, <1>4, <1>5 DEF Knows
<1> QED BY <1>2, <1>6, <1>7, OthersRest, RunsAlone

LEMMA TransitionEffect ==
    ASSUME NEW to, NEW named, Transition(to, named), manifest.status # "COMPLETED"
    PROVE  manifest'.status = "COMPLETED" => to = "COMPLETED" /\ named \subseteq manifest'.artifacts
BY DEF Transition

LEMMA HandleErrorAlone ==
    ASSUME WorkflowInv, NEW p \in Programs, HandleError(p), ~overlapped'
    PROVE  Alone'
<1>1. ~overlapped /\ dpc[p] = "failed" /\ StopProgram(p)
  BY DEF HandleError
<1>2. Running(p)
  BY <1>1 DEF Running
<1>3. PICK to \in {"FAILED", "INTERRUPTED"} : Transition(to, {})
  BY DEF HandleError
<1>4. manifest'.status # "COMPLETED"
  BY <1>1, <1>2, <1>3, OthersRest, TransitionEffect
<1> QED BY <1>1, <1>2, <1>4, Stops

LEMMA CompleteAlone ==
    ASSUME WorkflowInv, NEW p \in Programs, Complete(p), ~overlapped'
    PROVE  Alone'
<1>1. /\ ~overlapped /\ dpc[p] = "done" /\ StopProgram(p)
      /\ Transition("COMPLETED", {source[p]})
  BY DEF Complete
<1>2. Running(p)
  BY <1>1 DEF Running
<1>3. /\ manifest.status # "COMPLETED" /\ KnowsResult(p)
      /\ \A q \in Programs \ {p} : ~Running(q)
  BY <1>1, <1>2, OthersRest
<1>4. source[p] = active /\ LastIsActive
  BY <1>1, <1>3 DEF KnowsResult
<1>5. /\ Moves(p) /\ mpc'[p] = "idle" /\ dpc'[p] = "idle"
      /\ active' = active /\ pointer' = pointer
  BY <1>1, StopProgramEffect
<1>6. \A q \in Programs : ~Running(q)'
  BY <1>3, <1>5 DEF Moves, Running
<1>7. ASSUME manifest'.status = "COMPLETED" PROVE Concluded'
  <2>1. active' \in manifest'.artifacts
    BY <1>1, <1>3, <1>4, <1>5, <1>7, TransitionEffect
  <2>2. LastIsActive'
    BY <1>4, <1>5 DEF LastIsActive, Last
  <2> QED BY <1>6, <2>1, <2>2 DEF Concluded
<1>8. Knows(p)
  BY <1>5, <1>7 DEF Knows, KnowsPlan, KnowsResult
<1> QED BY <1>1, <1>3, <1>5, <1>8, RunsAlone

LEMMA DiesAlone ==
    ASSUME WorkflowInv, NEW p \in Programs, Die(p) \/ DieRecording(p), ~overlapped'
    PROVE  Alone'
<1>1. ~overlapped /\ manifest' = manifest /\ Running(p)
  <2>1. overlapped' = overlapped /\ manifest' = manifest
    BY DEF Die, DieRecording
  <2>2. Running(p)
    BY DEF Die, DieRecording, TearRevision, Running
  <2> QED BY <2>1, <2>2
<1>2. manifest'.status # "COMPLETED"
  BY <1>1, OthersRest
<1>3. mpc' = [mpc EXCEPT ![p] = "idle"] /\ dpc' = [dpc EXCEPT ![p] = "idle"]
  BY DEF Die, DieRecording, TearRevision, StopProgram, ForgetPlan, StartOver, Planning, Goto
<1>4. Moves(p) /\ mpc'[p] = "idle" /\ dpc'[p] = "idle"
  BY <1>3, DomainFacts DEF Moves
<1>5. Knows(p)
  BY <1>2, <1>4 DEF Knows, KnowsPlan, KnowsResult
<1> QED BY <1>1, <1>4, <1>5, OthersRest, RunsAlone

LEMMA RestsAlone ==
    ASSUME WorkflowInv, UNCHANGED vars PROVE ~overlapped' => Alone'
<1> SUFFICES ASSUME ~overlapped PROVE Alone'
  BY DEF vars, workflowVars
<1>1. Alone
  BY DEF WorkflowInv
<1> QED BY <1>1 DEF Alone, Concluded, LastIsActive, Last, KnowsPlan, KnowsResult, Running,
        vars, workflowVars, planVars, planDisk, distillationVars, distillationDisk

-----------------------------------------------------------------------------
\* Steps keep the domains of what the programs know of their plans.
LEMMA KeepsDomains ==
    ASSUME PlanDomains, [Next]_vars PROVE PlanDomains'
<1>1. CASE UNCHANGED vars \/ Stopped
  BY <1>1 DEF Stopped, vars, planVars, PlanDomains
<1>2. ASSUME NEW p \in Programs, StopProgram(p) PROVE PlanDomains'
  BY <1>2 DEF StopProgram, ForgetPlan, Planning, PlanDomains
<1>3. ASSUME UNCHANGED planVars PROVE PlanDomains'
  BY <1>3 DEF planVars, PlanDomains
<1>4. ASSUME NEW p \in Programs,
             Step(p) \/ Die(p) \/ DieRecording(p) \/ RaiseInDistillation(p)
      PROVE  PlanDomains'
  <2>1. CASE Start(p)
    BY <2>1 DEF Start, ResolvePlan, Planning, PlanDomains
  <2>2. CASE OpenSession(p) \/ HandleError(p) \/ Complete(p) \/ FailQuantization(p) \/ Die(p)
    BY <1>2, <1>3, <2>2 DEF OpenSession, HandleError, Complete, FailQuantization, Die
  <2>3. CASE StartManifest(p)
    BY <1>2, <2>3 DEF StartManifest, BeginAttempt, Planning, PlanDomains
  <2>4. CASE MeasureBatches(p)
    BY <2>4 DEF MeasureBatches, CaptureFits, NothingToMeasure, PublishMeasured, Planning,
       PlanDomains
  <2>5. CASE OutOfMemory(p)
    BY <2>5 DEF OutOfMemory, AwaitRevision, Planning, PlanDomains
  <2>6. CASE RevisePlan(p)
    BY <1>2, <2>6 DEF RevisePlan, ReviseAfterOom, Planning, PlanDomains
  <2>7. CASE RecordRevision(p)
    BY <2>7 DEF RecordRevision, LogRevision, Planning, PlanDomains
  <2>8. CASE FinishQuantization(p)
    BY <2>8 DEF FinishQuantization, ForgetPlan, Planning, PlanDomains
  <2>9. CASE DistillFurther(p) \/ RaiseInDistillation(p)
    BY <1>3, <2>9 DEF DistillFurther, RaiseInDistillation
  <2>10. CASE DieRecording(p)
    BY <2>10 DEF DieRecording, TearRevision, Planning, PlanDomains
  <2> QED BY <1>4, <2>1, <2>2, <2>3, <2>4, <2>5, <2>6, <2>7, <2>8, <2>9, <2>10 DEF Step
<1> QED BY <1>1, <1>4, RefusalIsADeath DEF Next

LEMMA WorkflowNext == WorkflowInv /\ [Next]_vars => WorkflowInv'
<1> SUFFICES ASSUME WorkflowInv, [Next]_vars PROVE WorkflowInv'
  OBVIOUS
<1>1. Inv'
  BY WorkflowStep, NextInv DEF WorkflowInv
<1>2. PlanDomains'
  BY KeepsDomains DEF WorkflowInv
<1>3. ASSUME ~overlapped' PROVE Alone'
  <2>1. CASE UNCHANGED vars \/ Stopped
    BY <1>3, <2>1, RestsAlone DEF Stopped
  <2>2. ASSUME NEW p \in Programs, Step(p) PROVE Alone'
    <3>1. CASE DistillFurther(p)
      BY <1>3, <3>1, DistillAlone DEF DistillFurther, workflowVars
    <3> QED
      BY <1>3, <2>2, <3>1, StartAlone, OpenSessionAlone, StartManifestAlone,
         MeasureBatchesAlone, FailQuantizationAlone, OutOfMemoryAlone, RevisePlanAlone,
         RecordRevisionAlone, FinishQuantizationAlone, HandleErrorAlone, CompleteAlone
      DEF Step
  <2>3. ASSUME NEW p \in Programs, Die(p) \/ DieRecording(p) PROVE Alone'
    BY <1>3, <2>3, DiesAlone
  <2>4. ASSUME NEW p \in Programs, RaiseInDistillation(p) PROVE Alone'
    BY <1>3, <2>4, DistillAlone DEF RaiseInDistillation
  <2> QED BY <2>1, <2>2, <2>3, <2>4, RefusalIsADeath DEF Next
<1> QED BY <1>1, <1>2, <1>3 DEF WorkflowInv

LEMMA WorkflowInvariance == Spec => []WorkflowInv
BY WorkflowInit, WorkflowNext, PTL DEF Spec

\* A run on which programs worked one after the other, whatever they died or
\* raised of, and that is COMPLETED, has its last result active, and the manifest
\* names it: it can be loaded (load_completed_resident_workflow).
THEOREM CompletedRunsLoad == Spec => []CompletedHasItsTuning
<1>1. WorkflowInv => CompletedHasItsTuning
  BY DEF WorkflowInv, Alone, Concluded, LastIsActive, CompletedHasItsTuning
<1> QED BY <1>1, WorkflowInvariance, PTL

\* On such a run quantization works with the plan that active-memory-plan.json
\* names: a later program would quantize with no other.
THEOREM WorksWithPublishedPlan == Spec => []UsesPublishedPlan
<1>1. WorkflowInv => UsesPublishedPlan
  BY DEF WorkflowInv, Alone, KnowsPlan, UsesPublishedPlan
<1> QED BY <1>1, WorkflowInvariance, PTL
=============================================================================
