----------------------------- MODULE ResidentRun -----------------------------
(***************************************************************************)
(* One resident quantization run directory: the immutable artifacts a run  *)
(* commits, its append-only progress journal, its manifest status, and the *)
(* process that quantizes the decoder blocks one after another.  The       *)
(* process can die between any two durable steps, and in the middle of a   *)
(* journal line; the next process discovers what is on disk and goes on.   *)
(*                                                                         *)
(* The data is abstracted to provenance.  A stream of activations is the   *)
(* sequence of blocks that was applied to the calibration inputs, so       *)
(* <<0, 1>> is the boundary after block 1.  An artifact is named by what   *)
(* its bytes depend on: units and activations are reproducible             *)
(* (deterministic_torch_execution), while a block result also holds wall   *)
(* times, so every commit of a block makes a new artifact; its "epoch" is  *)
(* the incarnation of the process that wrote it.                           *)
(***************************************************************************)
EXTENDS Integers, Sequences, FiniteSets

CONSTANTS
    NumBlocks,    \* decoder blocks of the model
    NumUnits,     \* shared-input groups and layers of a block, in plan order
    Identities,   \* commit identities: (config, model, plan) hashes
    Rolling,      \* activation_retention is "rolling"
    MaxCrashes,   \* bound: how often the process may die
    MaxRot        \* bound: how many committed artifacts may be damaged

ASSUME RunAssumption ==
    /\ NumBlocks \in Nat \ {0}
    /\ NumUnits \in Nat
    /\ Identities # {}
    /\ Rolling \in BOOLEAN
    /\ MaxCrashes \in Nat
    /\ MaxRot \in Nat

Blocks == 0 .. NumBlocks - 1
Units == 1 .. NumUnits

(***************************************************************************)
(* Activation streams.  Chain(b) is what block b must be fed: the outputs  *)
(* of the blocks before it, in order.  A damaged file read without a check *)
(* yields DamagedStream.                                                   *)
(***************************************************************************)
Damaged == -1
Streams == Seq(Blocks \cup {Damaged})
Chain(b) == [n \in 1 .. b |-> n - 1]
DamagedStream == <<Damaged>>

Artifact ==
    [kind : {"unit", "activations", "block", "report"},
     identity : Identities,
     block : Blocks,
     unit : Units \cup {0},
     input : Streams,
     epoch : Nat]

UnitResult(i, b, u, in) ==
    [kind |-> "unit", identity |-> i, block |-> b, unit |-> u, input |-> in, epoch |-> 0]

BlockResult(i, b, in, e) ==
    [kind |-> "block", identity |-> i, block |-> b, unit |-> 0, input |-> in, epoch |-> e]

\* The activation generation a block result refers to.
ActivationsOf(a) == [a EXCEPT !.kind = "activations", !.epoch = 0]

Report(i, e) ==
    [kind |-> "report", identity |-> i, block |-> 0, unit |-> 0, input |-> <<>>, epoch |-> e]

\* A journal line that is no record: two lines glued together by a torn write.
Garbage == [kind |-> "garbage"]

VARIABLES
    arts,       \* committed artifacts on disk
    rotten,     \* those whose bytes were damaged after the commit
    journal,    \* the complete lines of journal.jsonl
    tail,       \* how the file ends: "clean", "torn" (half a line) or
                \* "open" (the last record lacks its newline)
    status,     \* the manifest's status
    pc,         \* where the process is; "down" when there is none
    me,         \* the identity the process runs under
    committed,  \* committed_blocks, in list order
    restored,   \* completed_block_indexes, fixed when the run resumes
    prior,      \* partial layer and group records found on resume
    cursor,     \* first_incomplete as announced on resume
    blk,        \* the block being quantized
    results,    \* unit results of that block
    inputs,     \* the stream that enters that block
    fresh,      \* the artifact committed last, waiting for its journal line
    accepted,   \* budget.accepted_bits, a unit counting one
    crashes,    \* how often a process has died
    rots        \* how many artifacts have been damaged

disk == <<arts, rotten, journal, tail>>
resume == <<me, committed, restored, prior, cursor>>
work == <<blk, results, inputs, fresh, accepted>>
faults == <<crashes, rots>>
vars == <<disk, status, pc, resume, work, faults>>

NoCursor == [block |-> NumBlocks, unit |-> 0]
NoArtifact == [kind |-> "none"]
Epoch == crashes + 1

Steps == {"down", "discover", "retire old", "load boundary", "pick", "unit",
          "journal unit", "block", "journal block", "retire previous",
          "advance", "finish"}

Init ==
    /\ arts = {} /\ rotten = {}
    /\ journal = <<>> /\ tail = "clean"
    /\ status = "created"
    /\ pc = "down"
    /\ me \in Identities
    /\ committed = <<>> /\ restored = {} /\ prior = {} /\ cursor = NoCursor
    /\ blk = -1 /\ results = <<>> /\ inputs = <<>> /\ fresh = NoArtifact
    /\ accepted = 0
    /\ crashes = 0 /\ rots = 0

-----------------------------------------------------------------------------
(***************************************************************************)
(* Reading the disk.                                                       *)
(***************************************************************************)

\* What LocalArtifactStore.validate accepts in a fresh process.
Intact == arts \ rotten

IsRecord(n) == journal[n] # Garbage

\* ProgressJournal._records: the lines before the first one that is no record.
Readable == {n \in DOMAIN journal : \A m \in 1 .. n : IsRecord(m)}

\* ProgressJournal._valid_journal_records: of those, the lines before the
\* first of another identity or without an intact artifact.
ValidRecords(i) ==
    {journal[n] : n \in {n \in Readable : \A m \in 1 .. n :
                            journal[m].identity = i /\ journal[m] \in Intact}}

\* Broken form of OrphanRecords: the identity is not compared.
OrphansOfAnyIdentity(i) ==
    {a \in Intact \ ValidRecords(i) : a.kind \in {"unit", "block"}}

\* ProgressJournal._orphan_records: a scan of the store.
OrphanRecords(i) ==
    {a \in Intact \ ValidRecords(i) : a.kind \in {"unit", "block"} /\ a.identity = i}

\* Broken form of Discovered: the journal alone is believed.
JournalOnlyDiscovery(i) == ValidRecords(i)

Discovered(i) == ValidRecords(i) \cup OrphanRecords(i)

OfKind(k, records) == {a \in records : a.kind = k}
BlocksOf(records) == {a.block : a \in OfKind("block", records)}

\* s lists the elements of found by block index.
ListsByBlock(s, found) ==
    /\ \A a \in found : \E n \in DOMAIN s : s[n] = a
    /\ \A m, n \in DOMAIN s : m < n => s[m].block <= s[n].block

MinOf(S) == CHOOSE x \in S : \A y \in S : x <= y

\* Broken form of FirstIncomplete: it ignores the units of the open block.
FirstIncompleteBlock(records) ==
    LET open == Blocks \ BlocksOf(records)
    IN  IF open = {} THEN NoCursor
        ELSE [block |-> MinOf(open), unit |-> IF NumUnits = 0 THEN 0 ELSE 1]

\* The cursor discover() announces: the first block without a block result,
\* and its first unit without a unit result (0: all units are there).
FirstIncomplete(records) ==
    LET open == Blocks \ BlocksOf(records)
        todo(b) == Units \ {a.unit : a \in {r \in OfKind("unit", records) : r.block = b}}
    IN  IF open = {} THEN NoCursor
        ELSE LET b == MinOf(open)
             IN  [block |-> b, unit |-> IF todo(b) = {} THEN 0 ELSE MinOf(todo(b))]

Last(s) == s[Len(s)]

-----------------------------------------------------------------------------
(***************************************************************************)
(* The process.  Every action ends at a point where the disk has changed   *)
(* or an artifact has been read, and the process may die between any two.  *)
(***************************************************************************)

\* What is left when the process is gone: nothing it held in memory.
Forget ==
    /\ pc' = "down"
    /\ committed' = <<>> /\ restored' = {} /\ prior' = {} /\ cursor' = NoCursor
    /\ blk' = -1 /\ results' = <<>> /\ inputs' = <<>> /\ fresh' = NoArtifact
    /\ accepted' = 0
    /\ UNCHANGED me

\* An exception inside the session: the manifest becomes FAILED.
Fail ==
    /\ status' = "failed"
    /\ Forget
    /\ UNCHANGED <<disk, faults>>

\* open_run_session and _start_resident_manifest; a completed run is terminal.
Start(i) ==
    /\ pc = "down"
    /\ status # "completed"
    /\ status' = "running"
    /\ pc' = "discover"
    /\ me' = i
    /\ UNCHANGED <<disk, committed, restored, prior, cursor, work, faults>>

Discover ==
    /\ pc = "discover"
    /\ LET records == Discovered(me)
           found == OfKind("block", records)
       IN  /\ \E s \in [1 .. Cardinality(found) -> found] :
                    ListsByBlock(s, found) /\ committed' = s
           /\ restored' = BlocksOf(records)
           /\ prior' = {a \in OfKind("unit", records) : a.block \notin BlocksOf(records)}
           /\ cursor' = FirstIncomplete(records)
           /\ accepted' = NumUnits * Cardinality(found)
    /\ pc' = IF Rolling THEN "retire old" ELSE "load boundary"
    /\ UNCHANGED <<disk, status, me, blk, results, inputs, fresh, faults>>

\* retire_block_activations: nothing happens when the generation is gone.
Retire(a, next) ==
    /\ arts' = arts \ {a}
    /\ rotten' = rotten \ {a}
    /\ pc' = next
    /\ UNCHANGED <<journal, tail, status, resume, work, faults>>

\* Broken form of OldGenerations: the last committed block is included.
AllGenerations == {n \in DOMAIN committed : ActivationsOf(committed[n]) \in arts}

\* Rolling retention on resume: all generations but the last one's go, in
\* order, each validated before it is removed.
OldGenerations ==
    {n \in 1 .. Len(committed) - 1 : ActivationsOf(committed[n]) \in arts}

RetireOld ==
    /\ pc = "retire old"
    /\ OldGenerations # {}
    /\ LET a == ActivationsOf(committed[MinOf(OldGenerations)])
       IN  IF a \in rotten THEN Fail ELSE Retire(a, "retire old")

RetiredOld ==
    /\ pc = "retire old"
    /\ OldGenerations = {}
    /\ pc' = "load boundary"
    /\ UNCHANGED <<disk, status, resume, work, faults>>

\* The stream that a block result's activation generation holds.
Outputs(a) == Append(a.input, a.block)

\* load_block_activations of the last committed block.
LoadBoundary ==
    /\ pc = "load boundary"
    /\ IF committed = <<>>
       THEN /\ inputs' = <<>>
            /\ pc' = "pick"
            /\ UNCHANGED <<disk, status, resume, blk, results, fresh, accepted, faults>>
       ELSE IF ActivationsOf(Last(committed)) \in Intact
            THEN /\ inputs' = Outputs(Last(committed))
                 /\ pc' = "pick"
                 /\ UNCHANGED <<disk, status, resume, blk, results, fresh, accepted, faults>>
            ELSE Fail

\* Broken form of Pending: one block too many.
PendingOnePastEnd == {b \in 0 .. NumBlocks : b \notin restored /\ b > blk}

\* BlockQuantizer.pending: plan order, without the blocks restored on resume.
Pending == {b \in Blocks \ restored : b > blk}

PickBlock ==
    /\ pc = "pick"
    /\ Pending # {}
    /\ blk' = MinOf(Pending)
    /\ results' = <<>>
    /\ pc' = "unit"
    /\ UNCHANGED <<disk, status, resume, inputs, fresh, accepted, faults>>

NextUnit == Len(results) + 1
PriorFor(u) == {a \in prior : a.block = blk /\ a.unit = u}

\* Broken form of ReuseUnit: the budget is not charged.
ReuseUnitUncharged ==
    /\ pc = "unit"
    /\ NextUnit \in Units
    /\ \E a \in PriorFor(NextUnit) : results' = Append(results, a)
    /\ UNCHANGED <<disk, status, pc, resume, blk, inputs, fresh, accepted, faults>>

\* A unit that an earlier process committed is loaded, not quantized again.
ReuseUnit ==
    /\ pc = "unit"
    /\ NextUnit \in Units
    /\ \E a \in PriorFor(NextUnit) : results' = Append(results, a)
    /\ accepted' = accepted + 1
    /\ UNCHANGED <<disk, status, pc, resume, blk, inputs, fresh, faults>>

\* Broken form of CommitUnit: the journal's turn comes before the artifact is published.
CommitUnitUnpublished ==
    /\ pc = "unit"
    /\ NextUnit \in Units
    /\ PriorFor(NextUnit) = {}
    /\ fresh' = UnitResult(me, blk, NextUnit, inputs)
    /\ pc' = "journal unit"
    /\ UNCHANGED <<disk, status, resume, blk, results, inputs, accepted, faults>>

\* Factorize, tune, freeze, and commit_layer or commit_shared_input_group.
CommitUnit ==
    /\ pc = "unit"
    /\ NextUnit \in Units
    /\ PriorFor(NextUnit) = {}
    /\ fresh' = UnitResult(me, blk, NextUnit, inputs)
    /\ arts' = arts \cup {fresh'}
    /\ pc' = "journal unit"
    /\ UNCHANGED <<rotten, journal, tail, status, resume, blk, results, inputs, accepted, faults>>

\* ProgressJournal.append: the line goes behind whatever the file ends with.
AppendLine(a) ==
    /\ \/ tail = "clean" /\ journal' = Append(journal, a)
       \/ tail = "torn" /\ journal' = Append(journal, Garbage)
       \/ tail = "open" /\ journal' = [journal EXCEPT ![Len(journal)] = Garbage]
    /\ tail' = "clean"

JournalUnit ==
    /\ pc = "journal unit"
    /\ AppendLine(fresh)
    /\ results' = Append(results, fresh)
    /\ accepted' = accepted + 1
    /\ pc' = "unit"
    /\ UNCHANGED <<arts, rotten, status, resume, blk, inputs, fresh, faults>>

\* commit_block, first artifact: the activations behind the block.
CommitActivations ==
    /\ pc = "unit"
    /\ NextUnit \notin Units
    /\ arts' = arts \cup {ActivationsOf(BlockResult(me, blk, inputs, 0))}
    /\ pc' = "block"
    /\ UNCHANGED <<rotten, journal, tail, status, resume, work, faults>>

\* commit_block, second artifact: the block result that refers to them.
CommitBlock ==
    /\ pc = "block"
    /\ fresh' = BlockResult(me, blk, inputs, Epoch)
    /\ arts' = arts \cup {fresh'}
    /\ pc' = "journal block"
    /\ UNCHANGED <<rotten, journal, tail, status, resume, blk, results, inputs, accepted, faults>>

\* Broken form of JournalBlock: the predecessor generation is forgotten.
JournalBlockKeepingAll ==
    /\ pc = "journal block"
    /\ AppendLine(fresh)
    /\ pc' = "advance"
    /\ UNCHANGED <<arts, rotten, status, resume, work, faults>>

JournalBlock ==
    /\ pc = "journal block"
    /\ AppendLine(fresh)
    /\ pc' = IF Rolling /\ committed # <<>> THEN "retire previous" ELSE "advance"
    /\ UNCHANGED <<arts, rotten, status, resume, work, faults>>

\* The predecessor was loaded or committed by this process, which remembers it
\* as valid.
RetirePrevious ==
    /\ pc = "retire previous"
    /\ Retire(ActivationsOf(Last(committed)), "advance")

\* Go on to the next block with the generation just committed.  Its validation
\* was remembered by the commit, which does not look at the bytes of a
\* generation that was already there.
Advance ==
    /\ pc = "advance"
    /\ committed' = Append(committed, fresh)
    /\ inputs' = IF Pending # {} /\ ActivationsOf(fresh) \in rotten
                 THEN DamagedStream
                 ELSE Outputs(fresh)
    /\ pc' = "pick"
    /\ UNCHANGED <<disk, status, me, restored, prior, cursor, blk, results, fresh, accepted, faults>>

\* assemble_frozen_model, then _commit_resident_report.
WriteReport ==
    /\ pc = "pick"
    /\ Pending = {}
    /\ IF \A n \in DOMAIN committed : committed[n].block = n - 1
       THEN /\ arts' = arts \cup {Report(me, Epoch)}
            /\ pc' = "finish"
            /\ UNCHANGED <<rotten, journal, tail, status, resume, work, faults>>
       ELSE Fail

Finish ==
    /\ pc = "finish"
    /\ status' = "completed"
    /\ Forget
    /\ UNCHANGED <<disk, faults>>

-----------------------------------------------------------------------------
(***************************************************************************)
(* Faults.                                                                 *)
(***************************************************************************)

\* The process is killed (the manifest keeps saying RUNNING), is interrupted,
\* or an exception ends it (no disk space, out of memory).
Die ==
    /\ pc # "down"
    /\ crashes < MaxCrashes
    /\ crashes' = crashes + 1
    /\ status' \in {status, "interrupted", "failed"}
    /\ Forget
    /\ UNCHANGED <<disk, rots>>

\* It dies while a journal line is being written: a part of the line reaches
\* the file, or all of it but the newline.
DieInAppend ==
    /\ pc \in {"journal unit", "journal block"}
    /\ crashes < MaxCrashes
    /\ crashes' = crashes + 1
    /\ \/ /\ tail = "clean"
          /\ tail' = "open"
          /\ journal' = Append(journal, fresh)
       \/ /\ tail' = "torn"
          /\ journal' = IF tail = "open" THEN SubSeq(journal, 1, Len(journal) - 1) ELSE journal
    /\ status' \in {status, "failed"}
    /\ Forget
    /\ UNCHANGED <<arts, rotten, rots>>

\* A committed file is damaged while no process has it in its cache.
Rot ==
    /\ pc = "down"
    /\ rots < MaxRot
    /\ rots' = rots + 1
    /\ \E a \in Intact : a.kind # "report" /\ rotten' = rotten \cup {a}
    /\ UNCHANGED <<arts, journal, tail, status, pc, resume, work, crashes>>

\* Nothing is left to do.
Idle ==
    /\ pc = "down"
    /\ status = "completed"
    /\ UNCHANGED vars

Step ==
    \/ Discover \/ RetireOld \/ RetiredOld \/ LoadBoundary
    \/ PickBlock \/ ReuseUnit \/ CommitUnit \/ JournalUnit
    \/ CommitActivations \/ CommitBlock \/ JournalBlock \/ RetirePrevious \/ Advance
    \/ WriteReport \/ Finish

Next ==
    \/ \E i \in Identities : Start(i)
    \/ Step
    \/ Die \/ DieInAppend \/ Rot
    \/ Idle

(***************************************************************************)
(* Fairness: the process is one sequential thread, so it goes on until it  *)
(* ends or dies; and a run that is not completed is started again, which   *)
(* is what the launchers and the operator of a stopped run do.             *)
(***************************************************************************)
Fairness ==
    /\ WF_vars(Step)
    /\ WF_vars(\E i \in Identities : Start(i))

Spec == Init /\ [][Next]_vars /\ Fairness

-----------------------------------------------------------------------------
(***************************************************************************)
(* What is said about it.                                                  *)
(***************************************************************************)

TypeOK ==
    /\ arts \subseteq Artifact
    /\ IsFiniteSet(arts)
    /\ rotten \subseteq arts
    /\ journal \in Seq(Artifact \cup {Garbage})
    /\ tail \in {"clean", "torn", "open"}
    /\ status \in {"created", "running", "interrupted", "failed", "completed"}
    /\ pc \in Steps
    /\ me \in Identities
    /\ committed \in Seq(Artifact)
    /\ restored \subseteq Blocks
    /\ prior \subseteq Artifact
    /\ cursor \in [block : 0 .. NumBlocks, unit : Units \cup {0}]
    /\ blk \in Blocks \cup {-1}
    /\ results \in Seq(Artifact)
    /\ inputs \in Streams
    /\ fresh \in Artifact \cup {NoArtifact}
    /\ accepted \in Nat
    /\ crashes \in 0 .. MaxCrashes
    /\ rots \in 0 .. MaxRot

\* A journal line never runs ahead of its artifact: whatever the journal names
\* was committed before the line was written, so a crash between the two steps
\* leaves an artifact without a line and never a line without an artifact.
JournalNeverAhead ==
    \A n \in DOMAIN journal : IsRecord(n) => journal[n] \in arts

\* The invariant that JournalNeverAhead needs: the journal holds results only,
\* which retention never removes, and the artifact that waits for its line is
\* published by a process that works on a block.
JournalInv ==
    /\ JournalNeverAhead
    /\ \A n \in DOMAIN journal : IsRecord(n) => journal[n].kind \in {"unit", "block"}
    /\ pc \in {"journal unit", "journal block", "retire previous", "advance"} =>
            fresh \in arts /\ fresh.kind \in {"unit", "block"}
    /\ pc = "retire previous" => committed # <<>>
    /\ pc \in {"unit", "journal unit", "block"} => blk \in Blocks

\* What a new process discovers is the store and not the journal: the committed
\* unit and block results of the identity, whatever a crash did to the journal.
DiscoveryIsScan ==
    \A i \in Identities :
        Discovered(i) = {a \in Intact : a.kind \in {"unit", "block"} /\ a.identity = i}

\* No committed file was damaged so far.
Undamaged == rots = 0

\* Crash injection at any point discovers a valid boundary, damaged files apart:
\* the blocks a new process would find are 0..k-1, and the generation behind
\* block k-1 is there.
AlwaysResumable ==
    Undamaged => \A i \in Identities :
        LET found == BlocksOf(Discovered(i))
        IN  /\ found = 0 .. Cardinality(found) - 1
            /\ \A a \in OfKind("block", Discovered(i)) :
                    a.block = Cardinality(found) - 1 => ActivationsOf(a) \in Intact

\* The bit budget a resumed process goes on with is the one an uninterrupted
\* process would have: every accepted unit is counted once, restored or not.
BudgetExact ==
    /\ pc \in {"retire old", "load boundary", "pick"} =>
            accepted = NumUnits * Len(committed)
    /\ pc \in {"unit", "journal unit", "block", "journal block", "retire previous", "advance"} =>
            accepted = NumUnits * Len(committed) + Len(results)

\* Rolling retention keeps one activation generation in the steady state and two
\* around a commit, and a crash at any point leaves nothing more behind, damaged
\* files apart.
AtMostTwoGenerations ==
    Rolling /\ Undamaged =>
        \A i \in Identities :
            LET kept == {a \in OfKind("activations", arts) : a.identity = i}
            IN  /\ Cardinality(kept) <= 2
                /\ status = "completed" /\ me = i => Cardinality(kept) = 1

\* No unit whose committed result could be read is quantized again, and neither
\* is any unit of a committed block (RES-004).
NeverRequantized ==
    [][CommitUnit =>
        \A a \in Intact :
            a.kind \in {"unit", "block"} /\ a.identity = me /\ a.block = blk =>
                a.kind = "unit" /\ a.unit # NextUnit]_vars

\* The first unit a resumed process quantizes is the one its cursor announced,
\* and it announces none exactly when it only has the report left to write.
CursorIsNextWork ==
    [][/\ CommitUnit /\ fresh = NoArtifact => cursor = [block |-> blk, unit |-> NextUnit]
       /\ CommitActivations /\ fresh = NoArtifact => cursor = [block |-> blk, unit |-> 0]
       /\ WriteReport => (cursor = NoCursor) = (fresh = NoArtifact)]_vars

\* A run that is started again after every crash completes (RES-005), if nothing
\* it committed was damaged.
EventuallyCompletes == <>(status = "completed" \/ ~ Undamaged)

-----------------------------------------------------------------------------
(***************************************************************************)
(* What the repository's documents say, and the code does not do.          *)
(***************************************************************************)

\* latest_complete_identity over the journal of a completed run, as
\* load_completed_resident_quantization and the exporters read it: every line
\* must parse, and one identity must have journalled every block.
JournalComplete(i) ==
    /\ tail # "torn"
    /\ \A n \in DOMAIN journal : IsRecord(n)
    /\ \A b \in Blocks : \E n \in DOMAIN journal :
            journal[n].kind = "block" /\ journal[n].identity = i /\ journal[n].block = b

\* A completed run can be loaded, with every crash at every commit step.
CompletedIsLoadable == status = "completed" => JournalComplete(me)
=============================================================================
