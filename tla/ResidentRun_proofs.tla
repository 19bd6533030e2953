------------------------- MODULE ResidentRun_proofs -------------------------
(***************************************************************************)
(* Theorems about ResidentRun for every number of blocks and units, every  *)
(* set of identities and every number of crashes.                          *)
(*                                                                         *)
(* Three invariants, one on top of the other.  JournalInv: the journal     *)
(* names results that were published.  ResumedInv: what a process knows is *)
(* what is on disk, and it has paid for all of it.  RunInv: while nothing  *)
(* was damaged, the blocks on disk are the first ones in order, each from  *)
(* the outputs of the one before, with the generation behind the last.     *)
(***************************************************************************)
EXTENDS MCResidentRun, TLAPS, FiniteSetTheorems, SequenceTheorems, FunctionTheorems,
        WellFoundedInduction

\* A non-empty set of naturals has a least element, and MinOf returns it: the
\* next pending block and the next generation to retire are well defined.
LEMMA MinOfNaturals ==
    ASSUME NEW S \in SUBSET Nat, S # {}
    PROVE  MinOf(S) \in S /\ \A y \in S : MinOf(S) <= y
<1>1. PICK x \in S : \A y \in S : ~ (<<y, x>> \in OpToRel(<, Nat))
  BY NatLessThanWellFounded, WFMin, Zenon
<1>2. \A y \in S : ~ (y < x)
  BY <1>1, Zenon DEF OpToRel
<1>3. \A y \in S : x <= y
  BY <1>2
<1>. QED
  BY <1>3 DEF MinOf

\* The shapes of the artifacts the process makes.
LEMMA ArtifactShapes ==
    ASSUME NEW i \in Identities, NEW b \in Blocks, NEW in \in Streams, NEW e \in Nat,
           NEW u \in Units, NEW a \in Artifact
    PROVE  /\ UnitResult(i, b, u, in) \in Artifact
           /\ BlockResult(i, b, in, e) \in Artifact
           /\ ActivationsOf(a) \in Artifact
           /\ ActivationsOf(a).kind = "activations"
           /\ Outputs(a) \in Streams
<1>1. UnitResult(i, b, u, in) \in Artifact
  BY DEF UnitResult, Artifact
<1>2. BlockResult(i, b, in, e) \in Artifact
  BY DEF BlockResult, Artifact
<1>3. ActivationsOf(a) \in Artifact /\ ActivationsOf(a).kind = "activations"
  BY DEF ActivationsOf, Artifact
<1>4. Outputs(a) \in Streams
  <2>1. a.input \in Seq(Blocks \cup {Damaged}) /\ a.block \in Blocks \cup {Damaged}
    BY DEF Artifact, Streams
  <2>. QED  BY <2>1 DEF Outputs, Streams
<1>. QED  BY <1>1, <1>2, <1>3, <1>4

LEMMA ReportShape ==
    ASSUME NEW i \in Identities, NEW e \in Nat
    PROVE  Report(i, e) \in Artifact
<1>1. 0 \in Blocks
  BY RunAssumption DEF Blocks
<1>2. <<>> \in Streams
  BY DEF Streams
<1>. QED  BY <1>1, <1>2 DEF Report, Artifact

-----------------------------------------------------------------------------
\* What discovery reads is what is on disk.
LEMMA DiscoveredIntact ==
    ASSUME TypeOK, NEW i \in Identities
    PROVE  Discovered(i) \subseteq Intact
<1>0. journal \in Seq(Artifact \cup {Garbage})
  BY DEF TypeOK
<1>1. \A n \in DOMAIN journal : n \in 1 .. n
  BY <1>0
<1>2. ValidRecords(i) \subseteq Intact
  BY <1>1 DEF ValidRecords, Readable
<1>. QED  BY <1>2 DEF Discovered, OrphanRecords

LEMMA DiscoveredTyped ==
    ASSUME TypeOK, NEW i \in Identities
    PROVE  /\ Discovered(i) \subseteq Artifact
           /\ IsFiniteSet(OfKind("block", Discovered(i)))
           /\ Cardinality(OfKind("block", Discovered(i))) \in Nat
           /\ BlocksOf(Discovered(i)) \subseteq Blocks
           /\ FirstIncomplete(Discovered(i)) \in [block : 0 .. NumBlocks, unit : Units \cup {0}]
<1>1. Discovered(i) \subseteq arts
  BY DiscoveredIntact DEF Intact
<1>2. Discovered(i) \subseteq Artifact
  BY <1>1 DEF TypeOK
<1>3. IsFiniteSet(OfKind("block", Discovered(i)))
  BY <1>1, FS_Subset DEF TypeOK, OfKind
<1>4. BlocksOf(Discovered(i)) \subseteq Blocks
  BY <1>2 DEF BlocksOf, OfKind, Artifact
<1>5. FirstIncomplete(Discovered(i)) \in [block : 0 .. NumBlocks, unit : Units \cup {0}]
  <2>. DEFINE open == Blocks \ BlocksOf(Discovered(i))
              todo(b) == Units \ {a.unit : a \in {r \in OfKind("unit", Discovered(i)) : r.block = b}}
  <2>1. CASE open = {}
    BY <2>1, RunAssumption DEF FirstIncomplete, NoCursor
  <2>2. CASE open # {}
    <3>1. MinOf(open) \in open
      BY <2>2, MinOfNaturals, RunAssumption DEF Blocks
    <3>2. ASSUME NEW b, todo(b) # {} PROVE MinOf(todo(b)) \in Units
      BY <3>2, MinOfNaturals, RunAssumption DEF Units
    <3>. DEFINE first == IF todo(MinOf(open)) = {} THEN 0 ELSE MinOf(todo(MinOf(open)))
    <3>3. FirstIncomplete(Discovered(i)) = [block |-> MinOf(open), unit |-> first]
      BY <2>2 DEF FirstIncomplete
    <3>5. first \in Units \cup {0}
      BY <3>2
    <3>4. MinOf(open) \in 0 .. NumBlocks
      BY <3>1, RunAssumption DEF Blocks
    <3>. HIDE DEF first, open, todo
    <3>. QED  BY <3>3, <3>4, <3>5
  <2>. QED  BY <2>1, <2>2
<1>. QED  BY <1>2, <1>3, <1>4, <1>5, FS_CardinalityType

-----------------------------------------------------------------------------
\* Writing a journal line leaves every line as it is, turns it into garbage or
\* adds the record.
LEMMA AppendLineEffect ==
    ASSUME TypeOK, NEW a \in Artifact, AppendLine(a)
    PROVE  /\ journal' \in Seq(Artifact \cup {Garbage})
           /\ tail' = "clean"
           /\ \A n \in DOMAIN journal' :
                \/ journal'[n] = Garbage
                \/ journal'[n] = a
                \/ n \in DOMAIN journal /\ journal'[n] = journal[n]
<1>. DEFINE Line == Artifact \cup {Garbage}
<1>1. journal \in Seq(Line) /\ tail \in {"clean", "torn", "open"}
  BY DEF TypeOK
<1>2. a \in Line /\ Garbage \in Line
  OBVIOUS
<1>. HIDE DEF Line
<1>3. CASE tail = "clean"
  <2>1. journal' = Append(journal, a) /\ tail' = "clean"
    BY <1>3 DEF AppendLine
  <2>. QED  BY <2>1, <1>1, <1>2 DEF Line
<1>4. CASE tail = "torn"
  <2>1. journal' = Append(journal, Garbage) /\ tail' = "clean"
    BY <1>4 DEF AppendLine
  <2>. QED  BY <2>1, <1>1, <1>2 DEF Line
<1>5. CASE tail = "open"
  <2>1. journal' = [journal EXCEPT ![Len(journal)] = Garbage] /\ tail' = "clean"
    BY <1>5 DEF AppendLine
  <2>2. journal' \in Seq(Line)
    <3>1. journal \in [1 .. Len(journal) -> Line] /\ Len(journal) \in Nat
      BY <1>1
    <3>2. journal' \in [1 .. Len(journal) -> Line]
      BY <2>1, <3>1, <1>2
    <3>. QED  BY <3>1, <3>2
  <2>3. \A n \in DOMAIN journal' :
            \/ journal'[n] = Garbage
            \/ n \in DOMAIN journal /\ journal'[n] = journal[n]
    BY <2>1, <1>1
  <2>. QED  BY <2>1, <2>2, <2>3 DEF Line
<1>. QED  BY <1>1, <1>3, <1>4, <1>5

\* A process that is gone leaves well-typed variables behind.
LEMMA ForgetTyped ==
    ASSUME TypeOK, Forget
    PROVE  /\ pc' \in Steps /\ me' \in Identities
           /\ committed' \in Seq(Artifact) /\ restored' \subseteq Blocks /\ prior' \subseteq Artifact
           /\ cursor' \in [block : 0 .. NumBlocks, unit : Units \cup {0}]
           /\ blk' \in Blocks \cup {-1}
           /\ pc' \notin {"unit", "journal unit", "block"}
           /\ results' \in Seq(Artifact) /\ inputs' \in Streams
           /\ fresh' \in Artifact \cup {NoArtifact} /\ accepted' \in Nat
<1>1. NoCursor \in [block : 0 .. NumBlocks, unit : Units \cup {0}]
  BY RunAssumption DEF NoCursor
<1>2. <<>> \in Seq(Artifact) /\ <<>> \in Streams
  BY DEF Streams
<1>. QED  BY <1>1, <1>2 DEF Forget, TypeOK, Steps

LEMMA FailKeepsInv ==
    ASSUME TypeOK, JournalInv, Fail
    PROVE  TypeOK' /\ JournalInv'
<1>1. TypeOK'
  BY ForgetTyped DEF Fail, TypeOK, disk, faults
<1>2. JournalInv'
  BY DEF Fail, Forget, JournalInv, JournalNeverAhead, IsRecord, disk
<1>. QED  BY <1>1, <1>2

\* Retention removes activation generations only, which no journal line names.
LEMMA RetireKeepsInv ==
    ASSUME TypeOK, JournalInv, NEW a \in Artifact, NEW next \in Steps,
           Retire(ActivationsOf(a), next),
           next # "retire previous",
           next = "advance" => pc = "retire previous",
           next \notin {"journal unit", "journal block", "unit", "block"}
    PROVE  TypeOK' /\ JournalInv'
<1>1. /\ arts' = arts \ {ActivationsOf(a)}
      /\ rotten' = rotten \ {ActivationsOf(a)}
      /\ pc' = next
      /\ UNCHANGED <<journal, tail, status, resume, work, faults>>
  BY DEF Retire
<1>2. TypeOK'
  <2>1. IsFiniteSet(arts')
    BY <1>1, FS_Subset DEF TypeOK
  <2>. QED  BY <1>1, <2>1 DEF TypeOK, resume, work, faults
<1>3. ActivationsOf(a).kind = "activations"
  BY DEF ActivationsOf, Artifact
<1>4. JournalInv'
  BY <1>1, <1>3 DEF JournalInv, JournalNeverAhead, IsRecord, resume, work
<1>. QED  BY <1>2, <1>4

LEMMA InitInv == Init => TypeOK /\ JournalInv
<1>. SUFFICES ASSUME Init PROVE TypeOK /\ JournalInv
  OBVIOUS
<1>1. IsFiniteSet({})
  BY FS_EmptySet
<1>2. NoCursor \in [block : 0 .. NumBlocks, unit : Units \cup {0}]
  BY RunAssumption DEF NoCursor
<1>3. TypeOK
  BY <1>1, <1>2, RunAssumption DEF Init, TypeOK, Steps, Streams
<1>4. JournalInv
  BY DEF Init, JournalInv, JournalNeverAhead, IsRecord
<1>. QED  BY <1>3, <1>4

\* Actions that leave the disk and the process' last artifact alone.
LEMMA QuietKeepsJournalInv ==
    ASSUME JournalInv, UNCHANGED <<disk, fresh>>,
           pc' \notin {"journal unit", "journal block", "retire previous", "advance"},
           pc' \in {"unit", "block"} => blk' \in Blocks
    PROVE  JournalInv'
BY DEF JournalInv, JournalNeverAhead, IsRecord, disk

\* A new artifact is published: nothing that was said of the store is lost.
LEMMA PublishKeepsInv ==
    ASSUME TypeOK, JournalInv, NEW a \in Artifact,
           arts' = arts \cup {a}, UNCHANGED <<rotten, journal, tail>>
    PROVE  /\ arts' \subseteq Artifact /\ IsFiniteSet(arts') /\ rotten' \subseteq arts'
           /\ journal' \in Seq(Artifact \cup {Garbage}) /\ tail' \in {"clean", "torn", "open"}
           /\ \A n \in DOMAIN journal' :
                IsRecord(n)' => journal'[n] \in arts' /\ journal'[n].kind \in {"unit", "block"}
<1>1. IsFiniteSet(arts')
  BY FS_AddElement DEF TypeOK
<1>2. \A n \in DOMAIN journal' :
        IsRecord(n)' => journal'[n] \in arts' /\ journal'[n].kind \in {"unit", "block"}
  BY DEF JournalInv, JournalNeverAhead, IsRecord
<1>. QED  BY <1>1, <1>2 DEF TypeOK

\* A line is written for an artifact that is published.
LEMMA JournalKeepsLines ==
    ASSUME TypeOK, JournalInv, fresh \in arts, fresh.kind \in {"unit", "block"},
           AppendLine(fresh), UNCHANGED arts
    PROVE  /\ journal' \in Seq(Artifact \cup {Garbage}) /\ tail' \in {"clean", "torn", "open"}
           /\ \A n \in DOMAIN journal' :
                IsRecord(n)' => journal'[n] \in arts' /\ journal'[n].kind \in {"unit", "block"}
<1>1. fresh \in Artifact
  BY DEF TypeOK
<1>2. /\ journal' \in Seq(Artifact \cup {Garbage})
      /\ tail' = "clean"
      /\ \A n \in DOMAIN journal' :
            \/ journal'[n] = Garbage
            \/ journal'[n] = fresh
            \/ n \in DOMAIN journal /\ journal'[n] = journal[n]
  BY <1>1, AppendLineEffect
<1>. QED  BY <1>2 DEF JournalInv, JournalNeverAhead, IsRecord

LEMMA StartKeepsInv ==
    ASSUME TypeOK, JournalInv, NEW i \in Identities, Start(i)
    PROVE  TypeOK' /\ JournalInv'
<1>1. TypeOK'
  BY DEF Start, TypeOK, Steps, disk, work, faults
<1>2. JournalInv'
  BY QuietKeepsJournalInv DEF Start, work
<1>. QED  BY <1>1, <1>2

LEMMA DiscoverKeepsInv ==
    ASSUME TypeOK, JournalInv, Discover
    PROVE  TypeOK' /\ JournalInv'
<1>. DEFINE records == Discovered(me)
            found == OfKind("block", records)
<1>1. me \in Identities
  BY DEF TypeOK
<1>2. /\ records \subseteq Artifact
      /\ Cardinality(found) \in Nat
      /\ BlocksOf(records) \subseteq Blocks
      /\ FirstIncomplete(records) \in [block : 0 .. NumBlocks, unit : Units \cup {0}]
  BY <1>1, DiscoveredTyped
<1>3. PICK s \in [1 .. Cardinality(found) -> found] : committed' = s
  BY DEF Discover
<1>4. committed' \in Seq(Artifact)
  <2>1. found \subseteq Artifact
    BY <1>2 DEF OfKind
  <2>2. committed' \in [1 .. Cardinality(found) -> Artifact]
    BY <1>3, <2>1
  <2>. QED  BY <2>2, <1>2
<1>5. restored' \subseteq Blocks /\ cursor' \in [block : 0 .. NumBlocks, unit : Units \cup {0}]
  BY <1>2 DEF Discover
<1>6. prior' \subseteq Artifact
  BY <1>2 DEF Discover, OfKind
<1>7. accepted' \in Nat
  <2>1. accepted' = NumUnits * Cardinality(found)
    BY DEF Discover
  <2>2. \A x, y \in Nat : x * y \in Nat
    OBVIOUS
  <2>. QED  BY <2>1, <2>2, <1>2, RunAssumption
<1>8. TypeOK'
  BY <1>4, <1>5, <1>6, <1>7 DEF Discover, TypeOK, Steps, disk, faults
<1>9. JournalInv'
  BY QuietKeepsJournalInv DEF Discover, disk
<1>. QED  BY <1>8, <1>9

LEMMA RetireOldKeepsInv ==
    ASSUME TypeOK, JournalInv, RetireOld
    PROVE  TypeOK' /\ JournalInv'
<1>1. OldGenerations \subseteq Nat /\ OldGenerations \subseteq DOMAIN committed
  BY DEF OldGenerations, TypeOK
<1>2. MinOf(OldGenerations) \in OldGenerations
  BY <1>1, MinOfNaturals DEF RetireOld
<1>3. committed[MinOf(OldGenerations)] \in Artifact
  <2>1. committed \in Seq(Artifact)
    BY DEF TypeOK
  <2>2. \A n \in DOMAIN committed : committed[n] \in Artifact
    BY <2>1
  <2>. QED  BY <2>2, <1>1, <1>2
<1>. DEFINE a == committed[MinOf(OldGenerations)]
<1>4. CASE ActivationsOf(a) \in rotten
  BY <1>4, FailKeepsInv DEF RetireOld
<1>5. CASE ActivationsOf(a) \notin rotten
  BY <1>3, <1>5, RetireKeepsInv DEF RetireOld, Steps
<1>. QED  BY <1>4, <1>5

LEMMA LoadBoundaryKeepsInv ==
    ASSUME TypeOK, JournalInv, LoadBoundary
    PROVE  TypeOK' /\ JournalInv'
<1>1. CASE committed = <<>>
  <2>1. <<>> \in Streams
    BY DEF Streams
  <2>2. TypeOK'
    BY <1>1, <2>1 DEF LoadBoundary, TypeOK, Steps, disk, resume, faults
  <2>3. JournalInv'
    BY <1>1, QuietKeepsJournalInv DEF LoadBoundary, disk
  <2>. QED  BY <2>2, <2>3
<1>2. CASE committed # <<>> /\ ActivationsOf(Last(committed)) \in Intact
  <2>1. Last(committed) \in Artifact
    BY <1>2 DEF TypeOK, Last
  <2>2. Outputs(Last(committed)) \in Streams
    <3>1. Last(committed).input \in Seq(Blocks \cup {Damaged})
      BY <2>1 DEF Artifact, Streams
    <3>2. Last(committed).block \in Blocks \cup {Damaged}
      BY <2>1 DEF Artifact
    <3>. QED  BY <3>1, <3>2 DEF Outputs, Streams
  <2>3. TypeOK'
    BY <1>2, <2>2 DEF LoadBoundary, TypeOK, Steps, disk, resume, faults
  <2>4. JournalInv'
    BY <1>2, QuietKeepsJournalInv DEF LoadBoundary, disk
  <2>. QED  BY <2>3, <2>4
<1>3. CASE committed # <<>> /\ ActivationsOf(Last(committed)) \notin Intact
  BY <1>3, FailKeepsInv DEF LoadBoundary
<1>. QED  BY <1>1, <1>2, <1>3

LEMMA PickBlockKeepsInv ==
    ASSUME TypeOK, JournalInv, PickBlock
    PROVE  TypeOK' /\ JournalInv'
<1>1. Pending \subseteq Nat /\ Pending \subseteq Blocks
  BY RunAssumption DEF Pending, Blocks
<1>2. MinOf(Pending) \in Blocks
  BY <1>1, MinOfNaturals DEF PickBlock
<1>3. TypeOK'
  BY <1>2 DEF PickBlock, TypeOK, Steps, disk, resume, faults
<1>4. JournalInv'
  BY <1>2, QuietKeepsJournalInv DEF PickBlock, disk
<1>. QED  BY <1>3, <1>4

LEMMA UnitKeepsInv ==
    ASSUME TypeOK, JournalInv, ReuseUnit \/ CommitUnit
    PROVE  TypeOK' /\ JournalInv'
<1>1. CASE ReuseUnit
  <2>1. PICK a \in PriorFor(NextUnit) : results' = Append(results, a)
    BY <1>1 DEF ReuseUnit
  <2>2. a \in Artifact
    BY DEF PriorFor, TypeOK
  <2>3. results' \in Seq(Artifact) /\ accepted' \in Nat
    BY <1>1, <2>1, <2>2 DEF ReuseUnit, TypeOK
  <2>4. TypeOK'
    BY <1>1, <2>3 DEF ReuseUnit, TypeOK, disk, resume, faults
  <2>5. JournalInv'
    BY <1>1, QuietKeepsJournalInv DEF ReuseUnit, JournalInv, disk
  <2>. QED  BY <2>4, <2>5
<1>2. CASE CommitUnit
  <2>1. me \in Identities /\ blk \in Blocks /\ NextUnit \in Units /\ inputs \in Streams
    BY <1>2 DEF CommitUnit, TypeOK, JournalInv
  <2>2. fresh' \in Artifact
    BY <1>2, <2>1 DEF CommitUnit, UnitResult, Artifact
  <2>3. fresh'.kind = "unit"
    BY <1>2 DEF CommitUnit, UnitResult
  <2>4. arts' = arts \cup {fresh'} /\ UNCHANGED <<rotten, journal, tail>>
    BY <1>2 DEF CommitUnit
  <2>5. /\ arts' \subseteq Artifact /\ IsFiniteSet(arts') /\ rotten' \subseteq arts'
        /\ journal' \in Seq(Artifact \cup {Garbage}) /\ tail' \in {"clean", "torn", "open"}
        /\ \A n \in DOMAIN journal' :
                IsRecord(n)' => journal'[n] \in arts' /\ journal'[n].kind \in {"unit", "block"}
    BY <2>2, <2>4, PublishKeepsInv
  <2>6. TypeOK'
    BY <1>2, <2>2, <2>5 DEF CommitUnit, TypeOK, Steps, resume, faults
  <2>7. JournalInv'
    BY <1>2, <2>3, <2>4, <2>5 DEF CommitUnit, JournalInv, JournalNeverAhead
  <2>. QED  BY <2>6, <2>7
<1>. QED  BY <1>1, <1>2

LEMMA JournalUnitKeepsInv ==
    ASSUME TypeOK, JournalInv, JournalUnit
    PROVE  TypeOK' /\ JournalInv'
<1>1. fresh \in arts /\ fresh.kind \in {"unit", "block"} /\ fresh \in Artifact
  BY DEF JournalUnit, JournalInv, TypeOK
<1>2. /\ journal' \in Seq(Artifact \cup {Garbage}) /\ tail' \in {"clean", "torn", "open"}
      /\ \A n \in DOMAIN journal' :
            IsRecord(n)' => journal'[n] \in arts' /\ journal'[n].kind \in {"unit", "block"}
  BY <1>1, JournalKeepsLines DEF JournalUnit
<1>3. results' \in Seq(Artifact) /\ accepted' \in Nat
  <2>1. results \in Seq(Artifact) /\ accepted \in Nat
    BY DEF TypeOK
  <2>2. results' = Append(results, fresh) /\ accepted' = accepted + 1
    BY DEF JournalUnit
  <2>. QED  BY <2>1, <2>2, <1>1
<1>4. TypeOK'
  BY <1>2, <1>3 DEF JournalUnit, TypeOK, Steps, resume, faults
<1>5. JournalInv'
  BY <1>2 DEF JournalUnit, JournalInv, JournalNeverAhead
<1>. QED  BY <1>4, <1>5

LEMMA CommitActivationsKeepsInv ==
    ASSUME TypeOK, JournalInv, CommitActivations
    PROVE  TypeOK' /\ JournalInv'
<1>. DEFINE a == ActivationsOf(BlockResult(me, blk, inputs, 0))
<1>1. me \in Identities /\ blk \in Blocks /\ inputs \in Streams
  BY DEF CommitActivations, TypeOK, JournalInv
<1>2. a \in Artifact
  BY <1>1 DEF BlockResult, ActivationsOf, Artifact
<1>3. arts' = arts \cup {a} /\ UNCHANGED <<rotten, journal, tail>>
  BY DEF CommitActivations
<1>. HIDE DEF a
<1>4. /\ arts' \subseteq Artifact /\ IsFiniteSet(arts') /\ rotten' \subseteq arts'
      /\ journal' \in Seq(Artifact \cup {Garbage}) /\ tail' \in {"clean", "torn", "open"}
      /\ \A n \in DOMAIN journal' :
            IsRecord(n)' => journal'[n] \in arts' /\ journal'[n].kind \in {"unit", "block"}
  BY <1>2, <1>3, PublishKeepsInv
<1>5. TypeOK'
  BY <1>1, <1>4 DEF CommitActivations, TypeOK, Steps, resume, work, faults
<1>6. JournalInv'
  BY <1>4 DEF CommitActivations, JournalInv, JournalNeverAhead, work
<1>. QED  BY <1>5, <1>6

LEMMA CommitBlockKeepsInv ==
    ASSUME TypeOK, JournalInv, CommitBlock
    PROVE  TypeOK' /\ JournalInv'
<1>1. me \in Identities /\ blk \in Blocks /\ inputs \in Streams /\ Epoch \in Nat
  <2>1. me \in Identities /\ inputs \in Streams /\ crashes \in 0 .. MaxCrashes
    BY DEF TypeOK
  <2>2. blk \in Blocks
    BY DEF CommitBlock, JournalInv
  <2>. QED  BY <2>1, <2>2, RunAssumption DEF Epoch
<1>2. fresh' \in Artifact /\ fresh'.kind = "block"
  BY <1>1 DEF CommitBlock, BlockResult, Artifact
<1>3. arts' = arts \cup {fresh'} /\ UNCHANGED <<rotten, journal, tail>>
  BY DEF CommitBlock
<1>4. /\ arts' \subseteq Artifact /\ IsFiniteSet(arts') /\ rotten' \subseteq arts'
      /\ journal' \in Seq(Artifact \cup {Garbage}) /\ tail' \in {"clean", "torn", "open"}
      /\ \A n \in DOMAIN journal' :
            IsRecord(n)' => journal'[n] \in arts' /\ journal'[n].kind \in {"unit", "block"}
  BY <1>2, <1>3, PublishKeepsInv
<1>5. TypeOK'
  BY <1>2, <1>4 DEF CommitBlock, TypeOK, Steps, resume, faults
<1>6. JournalInv'
  BY <1>2, <1>3, <1>4 DEF CommitBlock, JournalInv, JournalNeverAhead
<1>. QED  BY <1>5, <1>6

LEMMA JournalBlockKeepsInv ==
    ASSUME TypeOK, JournalInv, JournalBlock
    PROVE  TypeOK' /\ JournalInv'
<1>1. fresh \in arts /\ fresh.kind \in {"unit", "block"} /\ fresh \in Artifact
  BY DEF JournalBlock, JournalInv, TypeOK
<1>2. /\ journal' \in Seq(Artifact \cup {Garbage}) /\ tail' \in {"clean", "torn", "open"}
      /\ \A n \in DOMAIN journal' :
            IsRecord(n)' => journal'[n] \in arts' /\ journal'[n].kind \in {"unit", "block"}
  BY <1>1, JournalKeepsLines DEF JournalBlock
<1>3. TypeOK'
  BY <1>2 DEF JournalBlock, TypeOK, Steps, resume, work, faults
<1>4. JournalInv'
  BY <1>1, <1>2 DEF JournalBlock, JournalInv, JournalNeverAhead, resume, work
<1>. QED  BY <1>3, <1>4

LEMMA RetirePreviousKeepsInv ==
    ASSUME TypeOK, JournalInv, RetirePrevious
    PROVE  TypeOK' /\ JournalInv'
<1>1. Last(committed) \in Artifact
  <2>1. committed \in Seq(Artifact) /\ committed # <<>>
    BY DEF RetirePrevious, JournalInv, TypeOK
  <2>. QED  BY <2>1 DEF Last
<1>. QED  BY <1>1, RetireKeepsInv DEF RetirePrevious, Steps

LEMMA AdvanceKeepsInv ==
    ASSUME TypeOK, JournalInv, Advance
    PROVE  TypeOK' /\ JournalInv'
<1>1. fresh \in Artifact
  BY DEF Advance, JournalInv, TypeOK
<1>2. Outputs(fresh) \in Streams
  <2>1. fresh.input \in Seq(Blocks \cup {Damaged}) /\ fresh.block \in Blocks \cup {Damaged}
    BY <1>1 DEF Artifact, Streams
  <2>. QED  BY <2>1 DEF Outputs, Streams
<1>3. DamagedStream \in Streams
  BY DEF DamagedStream, Streams
<1>4. committed' \in Seq(Artifact) /\ inputs' \in Streams
  BY <1>1, <1>2, <1>3 DEF Advance, TypeOK
<1>5. TypeOK'
  BY <1>4 DEF Advance, TypeOK, Steps, disk, faults
<1>6. JournalInv'
  BY QuietKeepsJournalInv DEF Advance, disk
<1>. QED  BY <1>5, <1>6

LEMMA WriteReportKeepsInv ==
    ASSUME TypeOK, JournalInv, WriteReport
    PROVE  TypeOK' /\ JournalInv'
<1>1. CASE \A n \in DOMAIN committed : committed[n].block = n - 1
  <2>1. Report(me, Epoch) \in Artifact
    BY ReportShape, RunAssumption DEF TypeOK, Epoch
  <2>2. arts' = arts \cup {Report(me, Epoch)} /\ UNCHANGED <<rotten, journal, tail>>
    BY <1>1 DEF WriteReport
  <2>3. /\ arts' \subseteq Artifact /\ IsFiniteSet(arts') /\ rotten' \subseteq arts'
        /\ journal' \in Seq(Artifact \cup {Garbage}) /\ tail' \in {"clean", "torn", "open"}
        /\ \A n \in DOMAIN journal' :
            IsRecord(n)' => journal'[n] \in arts' /\ journal'[n].kind \in {"unit", "block"}
    BY <2>1, <2>2, PublishKeepsInv
  <2>4. TypeOK'
    BY <1>1, <2>3 DEF WriteReport, TypeOK, Steps, resume, work, faults
  <2>5. JournalInv'
    BY <1>1, <2>3 DEF WriteReport, JournalInv, JournalNeverAhead
  <2>. QED  BY <2>4, <2>5
<1>2. CASE ~ \A n \in DOMAIN committed : committed[n].block = n - 1
  BY <1>2, FailKeepsInv DEF WriteReport
<1>. QED  BY <1>1, <1>2

LEMMA FinishKeepsInv ==
    ASSUME TypeOK, JournalInv, Finish
    PROVE  TypeOK' /\ JournalInv'
<1>1. TypeOK'
  BY ForgetTyped DEF Finish, TypeOK, disk, faults
<1>2. JournalInv'
  BY DEF Finish, Forget, JournalInv, JournalNeverAhead, IsRecord, disk
<1>. QED  BY <1>1, <1>2

LEMMA DieKeepsInv ==
    ASSUME TypeOK, JournalInv, Die
    PROVE  TypeOK' /\ JournalInv'
<1>1. crashes' \in 0 .. MaxCrashes
  BY RunAssumption DEF Die, TypeOK
<1>2. TypeOK'
  BY <1>1, ForgetTyped DEF Die, TypeOK, disk
<1>3. JournalInv'
  BY DEF Die, Forget, JournalInv, JournalNeverAhead, IsRecord, disk
<1>. QED  BY <1>2, <1>3

LEMMA DieInAppendKeepsInv ==
    ASSUME TypeOK, JournalInv, DieInAppend
    PROVE  TypeOK' /\ JournalInv'
<1>1. fresh \in arts /\ fresh.kind \in {"unit", "block"} /\ fresh \in Artifact
  BY DEF DieInAppend, JournalInv, TypeOK
<1>. DEFINE Line == Artifact \cup {Garbage}
<1>2. journal \in Seq(Line) /\ fresh \in Line
  BY <1>1 DEF TypeOK
<1>. HIDE DEF Line
<1>3. /\ journal' \in Seq(Line) /\ tail' \in {"clean", "torn", "open"}
      /\ \A n \in DOMAIN journal' :
            \/ journal'[n] = fresh
            \/ n \in DOMAIN journal /\ journal'[n] = journal[n]
  <2>1. CASE tail' = "open" /\ journal' = Append(journal, fresh)
    BY <2>1, <1>2
  <2>2. CASE tail' = "torn" /\ journal' = journal
    BY <2>2, <1>2
  <2>3. CASE tail' = "torn" /\ journal' = SubSeq(journal, 1, Len(journal) - 1)
    BY <2>3, <1>2
  <2>. QED  BY <2>1, <2>2, <2>3 DEF DieInAppend
<1>4. crashes' \in 0 .. MaxCrashes
  <2>1. crashes \in 0 .. MaxCrashes /\ crashes < MaxCrashes /\ crashes' = crashes + 1
    BY DEF DieInAppend, TypeOK
  <2>. QED  BY <2>1, RunAssumption
<1>5. TypeOK'
  BY <1>3, <1>4, ForgetTyped DEF DieInAppend, TypeOK, Line
<1>6. JournalInv'
  BY <1>1, <1>3 DEF DieInAppend, Forget, JournalInv, JournalNeverAhead, IsRecord
<1>. QED  BY <1>5, <1>6

LEMMA RotKeepsInv ==
    ASSUME TypeOK, JournalInv, Rot
    PROVE  TypeOK' /\ JournalInv'
<1>1. rots' \in 0 .. MaxRot
  BY RunAssumption DEF Rot, TypeOK
<1>2. TypeOK'
  BY <1>1 DEF Rot, TypeOK, Intact, resume, work
<1>3. JournalInv'
  BY DEF Rot, JournalInv, JournalNeverAhead, IsRecord, resume, work
<1>. QED  BY <1>2, <1>3

LEMMA StutterKeepsInv ==
    ASSUME TypeOK, JournalInv, UNCHANGED vars
    PROVE  TypeOK' /\ JournalInv'
BY DEF TypeOK, JournalInv, JournalNeverAhead, IsRecord, vars, disk, resume, work, faults

LEMMA QuietStepKeepsInv ==
    ASSUME TypeOK, JournalInv, RetiredOld
    PROVE  TypeOK' /\ JournalInv'
<1>1. TypeOK'
  BY DEF RetiredOld, TypeOK, Steps, disk, resume, work, faults
<1>2. JournalInv'
  BY QuietKeepsJournalInv DEF RetiredOld, disk, work
<1>. QED  BY <1>1, <1>2

LEMMA NextKeepsInv ==
    ASSUME TypeOK, JournalInv, [Next]_vars
    PROVE  TypeOK' /\ JournalInv'
<1>1. CASE \E i \in Identities : Start(i)
  BY <1>1, StartKeepsInv
<1>2. CASE Step
  BY <1>2, DiscoverKeepsInv, RetireOldKeepsInv, QuietStepKeepsInv, LoadBoundaryKeepsInv,
     PickBlockKeepsInv, UnitKeepsInv, JournalUnitKeepsInv, CommitActivationsKeepsInv,
     CommitBlockKeepsInv, JournalBlockKeepsInv, RetirePreviousKeepsInv, AdvanceKeepsInv,
     WriteReportKeepsInv, FinishKeepsInv DEF Step
<1>3. CASE Die \/ DieInAppend \/ Rot
  BY <1>3, DieKeepsInv, DieInAppendKeepsInv, RotKeepsInv
<1>4. CASE Idle \/ UNCHANGED vars
  BY <1>4, StutterKeepsInv DEF Idle
<1>. QED  BY <1>1, <1>2, <1>3, <1>4 DEF Next

\* Type correctness of every reachable state.
THEOREM TypeCorrect == Spec => []TypeOK
<1>1. Init => TypeOK /\ JournalInv
  BY InitInv
<1>2. TypeOK /\ JournalInv /\ [Next]_vars => (TypeOK /\ JournalInv)'
  BY NextKeepsInv
<1>. QED  BY <1>1, <1>2, PTL DEF Spec

\* The journal never names an artifact that was not committed before it, for
\* every sequence of commits, retirements, torn lines, crashes and damage.
THEOREM JournalBehindArtifacts == Spec => []JournalNeverAhead
<1>1. Init => TypeOK /\ JournalInv
  BY InitInv
<1>2. TypeOK /\ JournalInv /\ [Next]_vars => (TypeOK /\ JournalInv)'
  BY NextKeepsInv
<1>3. JournalInv => JournalNeverAhead
  BY DEF JournalInv
<1>. QED  BY <1>1, <1>2, <1>3, PTL DEF Spec

\* Discovery depends on the store alone: a crash between a commit and its line,
\* a torn line or another identity's lines hide nothing that was committed.
THEOREM DiscoveryScansStore == Spec => []DiscoveryIsScan
<1>1. Init => TypeOK /\ JournalInv
  BY InitInv
<1>2. TypeOK /\ JournalInv /\ [Next]_vars => (TypeOK /\ JournalInv)'
  BY NextKeepsInv
<1>3. TypeOK /\ JournalInv => DiscoveryIsScan
  <2>. SUFFICES ASSUME TypeOK, JournalInv, NEW i \in Identities
                PROVE  Discovered(i) = {a \in Intact : a.kind \in {"unit", "block"} /\ a.identity = i}
    BY DEF DiscoveryIsScan
  <2>0. journal \in Seq(Artifact \cup {Garbage})
    BY DEF TypeOK
  <2>1. \A n \in Readable : n \in 1 .. n /\ n \in DOMAIN journal /\ IsRecord(n)
    BY <2>0 DEF Readable
  <2>2. ValidRecords(i) \subseteq {a \in Intact : a.kind \in {"unit", "block"} /\ a.identity = i}
    BY <2>1 DEF ValidRecords, JournalInv
  <2>. QED  BY <2>2 DEF Discovered, OrphanRecords
<1>. QED  BY <1>1, <1>2, <1>3, PTL DEF Spec

-----------------------------------------------------------------------------
\* Every unit of the open block is counted once, and none twice.
BudgetInv ==
    /\ BudgetExact
    /\ pc = "unit" => Len(results) <= NumUnits
    /\ pc = "journal unit" => Len(results) < NumUnits
    /\ pc \in {"block", "journal block", "retire previous", "advance"} =>
            Len(results) = NumUnits

\* Actions that end in a place where nothing is counted.
LEMMA DownKeepsBudget ==
    ASSUME pc' \in {"down", "discover", "finish"}
    PROVE  BudgetInv'
BY DEF BudgetInv, BudgetExact

LEMMA FailKeepsBudget == Fail => BudgetInv'
BY DownKeepsBudget DEF Fail, Forget

LEMMA NextKeepsBudget ==
    ASSUME TypeOK, JournalInv, BudgetInv, [Next]_vars
    PROVE  BudgetInv'
<1>. USE RunAssumption
<1>0. /\ committed \in Seq(Artifact) /\ results \in Seq(Artifact) /\ accepted \in Nat
      /\ Len(committed) \in Nat /\ Len(results) \in Nat
  BY DEF TypeOK
<1>1. CASE Die \/ DieInAppend \/ Finish \/ \E i \in Identities : Start(i)
  BY <1>1, DownKeepsBudget DEF Die, DieInAppend, Finish, Start, Forget
<1>2. CASE Discover
  <2>. DEFINE found == OfKind("block", Discovered(me))
  <2>1. Cardinality(found) \in Nat
    BY DiscoveredTyped DEF TypeOK
  <2>2. PICK s \in [1 .. Cardinality(found) -> found] : committed' = s
    BY <1>2 DEF Discover
  <2>3. Len(committed') = Cardinality(found)
    BY <2>1, <2>2
  <2>4. accepted' = NumUnits * Cardinality(found) /\ pc' \in {"retire old", "load boundary"}
    BY <1>2 DEF Discover
  <2>. HIDE DEF found
  <2>. QED  BY <2>3, <2>4 DEF BudgetInv, BudgetExact
<1>3. CASE RetireOld \/ RetirePrevious
  BY <1>3, FailKeepsBudget DEF RetireOld, RetirePrevious, Retire, BudgetInv, BudgetExact, resume, work
<1>4. CASE RetiredOld
  BY <1>4 DEF RetiredOld, BudgetInv, BudgetExact, resume, work
<1>5. CASE LoadBoundary
  BY <1>5, FailKeepsBudget DEF LoadBoundary, BudgetInv, BudgetExact, resume
<1>6. CASE PickBlock
  BY <1>6 DEF PickBlock, BudgetInv, BudgetExact, resume
<1>7. CASE ReuseUnit \/ CommitUnit
  <2>0. NextUnit \in Units
    BY <1>7 DEF ReuseUnit, CommitUnit
  <2>1. Len(results) < NumUnits
    BY <1>0, <2>0 DEF NextUnit, Units
  <2>2. CASE ReuseUnit
    <3>1. PICK a \in PriorFor(NextUnit) : results' = Append(results, a)
      BY <2>2 DEF ReuseUnit
    <3>2. a \in Artifact
      BY DEF PriorFor, TypeOK
    <3>3. Len(results') = Len(results) + 1
      BY <1>0, <3>1, <3>2
    <3>. QED  BY <1>0, <2>1, <2>2, <3>3 DEF ReuseUnit, BudgetInv, BudgetExact, resume
  <2>3. CASE CommitUnit
    BY <2>1, <2>3 DEF CommitUnit, BudgetInv, BudgetExact, resume
  <2>. QED  BY <1>7, <2>2, <2>3
<1>8. CASE JournalUnit
  <2>1. fresh \in Artifact /\ Len(results) < NumUnits
    BY <1>8 DEF JournalUnit, JournalInv, BudgetInv, TypeOK
  <2>2. results' = Append(results, fresh) /\ accepted' = accepted + 1 /\ pc' = "unit"
        /\ committed' = committed /\ pc = "journal unit"
    BY <1>8 DEF JournalUnit, resume
  <2>3. Len(results') = Len(results) + 1
    BY <1>0, <2>1, <2>2, AppendProperties
  <2>4. Len(results) + 1 <= NumUnits
    BY <1>0, <2>1
  <2>5. accepted' = NumUnits * Len(committed') + Len(results')
    <3>. DEFINE paid == NumUnits * Len(committed)
    <3>1. paid \in Nat
      BY <1>0
    <3>2. accepted = paid + Len(results)
      BY <2>2 DEF BudgetInv, BudgetExact
    <3>3. paid = NumUnits * Len(committed')
      BY <2>2
    <3>. HIDE DEF paid
    <3>4. accepted' = accepted + 1 /\ Len(results) \in Nat
      BY <1>0, <2>2
    <3>5. accepted' = paid + Len(results')
      BY <2>3, <3>1, <3>2, <3>4
    <3>. QED  BY <3>5, <3>3
  <2>. QED  BY <2>2, <2>3, <2>4, <2>5 DEF BudgetInv, BudgetExact
<1>9. CASE CommitActivations
  <2>1. NextUnit \notin Units /\ Len(results) <= NumUnits
    BY <1>9 DEF CommitActivations, BudgetInv
  <2>2. Len(results) = NumUnits
    BY <1>0, <2>1 DEF NextUnit, Units
  <2>. QED  BY <1>9, <2>2 DEF CommitActivations, BudgetInv, BudgetExact, resume, work
<1>9a. CASE CommitBlock \/ JournalBlock
  BY <1>9a DEF CommitBlock, JournalBlock, BudgetInv, BudgetExact, resume, work
<1>10. CASE Advance
  <2>1. accepted = NumUnits * Len(committed) + NumUnits
    BY <1>10 DEF Advance, BudgetInv, BudgetExact
  <2>2. Len(committed') = Len(committed) + 1
    BY <1>0, <1>10 DEF Advance
  <2>3. \A x, y \in Nat : x * (y + 1) = x * y + x
    OBVIOUS
  <2>4. accepted' = NumUnits * Len(committed')
    BY <1>0, <1>10, <2>1, <2>2, <2>3 DEF Advance
  <2>. QED  BY <1>10, <2>4 DEF Advance, BudgetInv, BudgetExact
<1>11. CASE WriteReport
  BY <1>11, FailKeepsBudget, DownKeepsBudget DEF WriteReport
<1>12. CASE Rot \/ Idle \/ UNCHANGED vars
  BY <1>12 DEF Rot, Idle, vars, work, resume, BudgetInv, BudgetExact
<1>. QED
  BY <1>1, <1>2, <1>3, <1>4, <1>5, <1>6, <1>7, <1>8, <1>9, <1>9a, <1>10, <1>11, <1>12 DEF Next, Step

-----------------------------------------------------------------------------
\* The results of an identity that are there and whole.
Results(i) == {a \in Intact : a.kind \in {"unit", "block"} /\ a.identity = i}

\* The blocks the process found open, and the units of one it did not find.
Open == Blocks \ restored
Todo(b) == Units \ {a.unit : a \in {r \in prior : r.block = b}}

\* The process knows of every result that is there: it found it when it started,
\* or it has committed it since.
BlockKnown(a) ==
    \/ a.block \in restored
    \/ a.block < blk
    \/ a.block = blk /\ pc \notin {"unit", "journal unit", "block"}

UnitKnown(a) ==
    \/ a \in prior
    \/ a.block \in restored
    \/ a.block < blk
    \/ /\ a.block = blk
       /\ \/ a.unit < NextUnit
          \/ pc = "journal unit" /\ a = fresh
          \/ pc \notin {"unit", "journal unit"}

Known ==
    \A a \in Results(me) :
        /\ a.kind = "block" => BlockKnown(a)
        /\ a.kind = "unit" => UnitKnown(a)

\* The cursor is the first unit that is open.
Announced ==
    cursor = IF Open = {} THEN NoCursor
             ELSE [block |-> MinOf(Open),
                   unit |-> IF Todo(MinOf(Open)) = {} THEN 0 ELSE MinOf(Todo(MinOf(Open)))]

\* Until its first commit the process is in the first open block, and the units
\* behind it are those it found.
Positioned ==
    /\ blk = -1 \/ blk \in Open
    /\ fresh = NoArtifact => blk = -1 \/ blk = MinOf(Open)
    /\ fresh # NoArtifact => blk # -1
    /\ pc = "pick" /\ fresh = NoArtifact => blk = -1
    /\ pc \in {"unit", "block"} /\ fresh = NoArtifact =>
            \A u \in 1 .. Len(results) : PriorFor(u) # {}
    /\ pc = "journal unit" => fresh.unit = NextUnit

ResumeInv ==
    /\ pc \in {"down", "discover", "retire old", "load boundary"} =>
            fresh = NoArtifact /\ blk = -1
    /\ pc \notin {"down", "discover"} => Known /\ Announced /\ Positioned

LEMMA DiscoveredAreResults ==
    ASSUME TypeOK, JournalInv, NEW i \in Identities
    PROVE  Discovered(i) = Results(i)
<1>0. journal \in Seq(Artifact \cup {Garbage})
  BY DEF TypeOK
<1>1. \A n \in Readable : n \in 1 .. n /\ n \in DOMAIN journal /\ IsRecord(n)
  BY <1>0 DEF Readable
<1>2. ValidRecords(i) \subseteq Results(i)
  BY <1>1 DEF ValidRecords, JournalInv, Results
<1>. QED  BY <1>2 DEF Discovered, OrphanRecords, Results

\* A process that is gone knows nothing and is nowhere.
LEMMA ForgetKeepsResume == Forget => ResumeInv'
BY DEF Forget, ResumeInv

LEMMA DiscoverKeepsResume ==
    ASSUME TypeOK, JournalInv, ResumeInv, Discover
    PROVE  ResumeInv'
<1>. DEFINE records == Discovered(me)
<1>1. me \in Identities /\ records = Results(me) /\ records \subseteq Artifact
  BY DiscoveredAreResults, DiscoveredTyped DEF TypeOK
<1>2. /\ restored' = BlocksOf(records)
      /\ prior' = {a \in OfKind("unit", records) : a.block \notin BlocksOf(records)}
      /\ cursor' = FirstIncomplete(records)
      /\ UNCHANGED <<disk, me, blk, fresh>>
      /\ pc = "discover" /\ pc' \in {"retire old", "load boundary"}
  BY DEF Discover
<1>3. fresh' = NoArtifact /\ blk' = -1
  BY <1>2 DEF ResumeInv
<1>4. Results(me)' = records
  BY <1>1, <1>2 DEF Results, Intact, disk
<1>5. Known'
  <2>. SUFFICES ASSUME NEW a \in records
                PROVE  /\ a.kind = "block" => BlockKnown(a)'
                       /\ a.kind = "unit" => UnitKnown(a)'
    BY <1>4 DEF Known
  <2>1. a.kind = "block" => a.block \in restored'
    BY <1>2 DEF BlocksOf, OfKind
  <2>2. a.kind = "unit" => a \in prior' \/ a.block \in restored'
    BY <1>2 DEF OfKind
  <2>. QED  BY <2>1, <2>2 DEF BlockKnown, UnitKnown
<1>6. Announced'
  <2>. DEFINE todo(b) == Units \ {a.unit : a \in {r \in OfKind("unit", records) : r.block = b}}
  <2>1. Open' = Blocks \ BlocksOf(records)
    BY <1>2 DEF Open
  <2>2. CASE Open' = {}
    BY <1>2, <2>1, <2>2 DEF Announced, FirstIncomplete
  <2>3. CASE Open' # {}
    <3>1. MinOf(Open') \in Open'
      BY <2>1, <2>3, MinOfNaturals, RunAssumption DEF Blocks
    <3>2. \A b \in Open' : Todo(b)' = todo(b)
      BY <1>2, <2>1 DEF Todo
    <3>3. Todo(MinOf(Open))' = todo(MinOf(Open'))
      BY <3>1, <3>2
    <3>4. FirstIncomplete(records) =
            [block |-> MinOf(Open'),
             unit |-> IF todo(MinOf(Open')) = {} THEN 0 ELSE MinOf(todo(MinOf(Open')))]
      BY <2>1, <2>3 DEF FirstIncomplete
    <3>. HIDE DEF todo
    <3>. QED  BY <1>2, <2>3, <3>3, <3>4 DEF Announced
  <2>. QED  BY <2>2, <2>3
<1>7. Positioned'
  BY <1>2, <1>3 DEF Positioned
<1>. QED  BY <1>2, <1>3, <1>5, <1>6, <1>7 DEF ResumeInv

\* Retirement takes no result away, and moves the process nowhere.
LEMMA RetireKeepsResume ==
    ASSUME TypeOK, JournalInv, ResumeInv, NEW a \in Artifact, NEW next \in {"retire old", "advance"},
           Retire(ActivationsOf(a), next),
           next = "retire old" => pc = "retire old",
           next = "advance" => pc = "retire previous"
    PROVE  ResumeInv'
<1>1. /\ Intact' \subseteq Intact
      /\ pc' = next
      /\ UNCHANGED <<me, restored, prior, cursor, blk, results, fresh>>
  BY DEF Retire, Intact, resume, work
<1>2. Results(me)' \subseteq Results(me)
  BY <1>1 DEF Results
<1>3. Known /\ Announced /\ Positioned
  BY DEF ResumeInv
<1>4. Known'
  BY <1>1, <1>2, <1>3 DEF Known, BlockKnown, UnitKnown, NextUnit
<1>5. Announced' /\ Positioned'
  BY <1>1, <1>3 DEF Announced, Positioned, Open, Todo, PriorFor
<1>6. next = "retire old" => fresh' = NoArtifact /\ blk' = -1
  BY <1>1 DEF ResumeInv
<1>. QED  BY <1>1, <1>4, <1>5, <1>6 DEF ResumeInv

\* What a step of the process leaves alone stays announced.
LEMMA StaysAnnounced ==
    ASSUME Announced, UNCHANGED <<restored, prior, cursor>>
    PROVE  Announced'
BY DEF Announced, Open, Todo

LEMMA WorkKeepsResume ==
    ASSUME TypeOK, JournalInv, BudgetInv, ResumeInv,
           \/ RetiredOld \/ LoadBoundary \/ PickBlock \/ ReuseUnit \/ CommitUnit \/ JournalUnit
           \/ CommitActivations \/ CommitBlock \/ JournalBlock \/ Advance \/ WriteReport
    PROVE  ResumeInv'
<1>0. /\ restored \subseteq Blocks /\ prior \subseteq Artifact /\ blk \in Int /\ Blocks \subseteq Int
      /\ results \in Seq(Artifact) /\ Len(results) \in Nat
      /\ arts \subseteq Artifact
  BY RunAssumption DEF TypeOK, Blocks
<1>1. pc \notin {"down", "discover"} => Known /\ Announced /\ Positioned
  BY DEF ResumeInv
<1>2. CASE RetiredOld
  <2>1. Known' /\ Announced' /\ Positioned'
    BY <1>1, <1>2 DEF RetiredOld, disk, resume, work, Known, BlockKnown, UnitKnown, Announced,
       Positioned, Open, Todo, PriorFor, NextUnit, Results, Intact
  <2>. QED  BY <1>2, <2>1 DEF RetiredOld, ResumeInv, work
<1>3. CASE LoadBoundary
  <2>1. CASE Fail
    BY <2>1, ForgetKeepsResume DEF Fail
  <2>2. CASE ~ Fail
    <3>1. /\ pc = "load boundary" /\ pc' = "pick"
          /\ UNCHANGED <<disk, me, restored, prior, cursor, blk, results, fresh>>
      BY <1>3, <2>2 DEF LoadBoundary, resume
    <3>2. blk = -1 /\ fresh = NoArtifact
      BY <3>1 DEF ResumeInv
    <3>3. Known' /\ Announced' /\ Positioned'
      BY <1>1, <3>1, <3>2 DEF disk, Known, BlockKnown, UnitKnown, Announced,
         Positioned, Open, Todo, PriorFor, NextUnit, Results, Intact
    <3>. QED  BY <3>1, <3>3 DEF ResumeInv
  <2>. QED  BY <2>1, <2>2
<1>4. CASE PickBlock
  <2>1. /\ pc = "pick" /\ pc' = "unit"
        /\ UNCHANGED <<disk, me, restored, prior, cursor, fresh>>
        /\ results' = <<>> /\ blk' = MinOf(Pending) /\ Pending # {}
    BY <1>4 DEF PickBlock, resume
  <2>2. blk' \in Pending /\ \A b \in Pending : blk' <= b
    <3>1. Pending \subseteq Nat
      BY RunAssumption DEF Pending, Blocks
    <3>. QED  BY <2>1, <3>1, MinOfNaturals
  <2>3. blk' \in Open /\ blk < blk' /\ blk' # -1
    BY <2>2, RunAssumption DEF Pending, Open, Blocks
  <2>4. Known'
    <3>. SUFFICES ASSUME NEW a \in Results(me)
                  PROVE  (a.kind = "block" => BlockKnown(a)') /\ (a.kind = "unit" => UnitKnown(a)')
      BY <2>1 DEF Known, Results, Intact, disk
    <3>1. a.block \in Int
      BY <1>0 DEF Results, Intact, Artifact
    <3>2. a.kind = "block" => a.block \in restored \/ a.block <= blk
      BY <1>1, <2>1, <3>1, <1>0 DEF Known, BlockKnown
    <3>3. a.kind = "unit" => a \in prior \/ a.block \in restored \/ a.block <= blk
      BY <1>1, <2>1, <3>1, <1>0 DEF Known, UnitKnown
    <3>4. a.block <= blk => a.block < blk'
      BY <1>0, <2>3, <3>1 DEF Open
    <3>. QED  BY <2>1, <3>2, <3>3, <3>4 DEF BlockKnown, UnitKnown
  <2>5. Announced'
    BY <1>1, <2>1, StaysAnnounced
  <2>6. fresh = NoArtifact => blk' = MinOf(Open)
    <3>. SUFFICES ASSUME fresh = NoArtifact PROVE Pending = Open
      BY <2>1
    <3>1. blk = -1
      BY <1>1, <2>1 DEF Positioned
    <3>. QED  BY <3>1, RunAssumption DEF Pending, Open, Blocks
  <2>7. Positioned'
    <3>1. 1 .. Len(results') = {}
      BY <2>1, EmptySeq, Zenon, SMT
    <3>2. MinOf(Open)' = MinOf(Open) /\ Open' = Open
      BY <2>1 DEF Open
    <3>. QED  BY <2>1, <2>3, <2>6, <3>1, <3>2 DEF Positioned
  <2>. QED  BY <2>1, <2>4, <2>5, <2>7 DEF ResumeInv
<1>5. CASE ReuseUnit
  <2>1. PICK a \in PriorFor(NextUnit) : results' = Append(results, a)
    BY <1>5 DEF ReuseUnit
  <2>2. /\ pc = "unit" /\ pc' = "unit"
        /\ UNCHANGED <<disk, me, restored, prior, cursor, blk, fresh>>
    BY <1>5 DEF ReuseUnit, resume
  <2>3. Len(results') = Len(results) + 1
    BY <1>0, <2>1, AppendProperties DEF PriorFor
  <2>4. Known'
    <3>1. \A x \in Artifact : x.unit \in Int
      BY RunAssumption DEF Artifact, Units
    <3>2. \A x \in Results(me) : x \in Artifact
      BY <1>0 DEF Results, Intact
    <3>. QED
      BY <1>0, <1>1, <2>2, <2>3, <3>1, <3>2 DEF Known, BlockKnown, UnitKnown, Results, Intact, disk, NextUnit
  <2>5. Announced'
    BY <1>1, <2>2, StaysAnnounced
  <2>6. Positioned'
    <3>1. \A u \in 1 .. Len(results') : u \in 1 .. Len(results) \/ u = NextUnit
      BY <1>0, <2>3 DEF NextUnit
    <3>. QED  BY <1>1, <2>1, <2>2, <3>1 DEF Positioned, Open, PriorFor
  <2>. QED  BY <2>2, <2>4, <2>5, <2>6 DEF ResumeInv
<1>6. CASE CommitUnit
  <2>1. /\ pc = "unit" /\ pc' = "journal unit"
        /\ UNCHANGED <<rotten, me, restored, prior, cursor, blk, results>>
        /\ arts' = arts \cup {fresh'} /\ fresh' = UnitResult(me, blk, NextUnit, inputs)
    BY <1>6 DEF CommitUnit, resume
  <2>2. fresh'.kind = "unit" /\ fresh'.block = blk /\ fresh' # NoArtifact
    BY <2>1 DEF UnitResult, NoArtifact
  <2>3. Results(me)' \subseteq Results(me) \cup {fresh'}
    BY <2>1 DEF Results, Intact
  <2>4. Known'
    <3>. SUFFICES ASSUME NEW a \in Results(me)'
                  PROVE  (a.kind = "block" => BlockKnown(a)') /\ (a.kind = "unit" => UnitKnown(a)')
      BY DEF Known
    <3>1. CASE a = fresh'
      BY <2>1, <2>2, <3>1 DEF UnitKnown
    <3>2. CASE a \in Results(me)
      BY <1>1, <2>1, <3>2 DEF Known, BlockKnown, UnitKnown, NextUnit
    <3>. QED  BY <2>3, <3>1, <3>2
  <2>5. Announced'
    BY <1>1, <2>1, StaysAnnounced
  <2>6. blk' \in Open' /\ blk' # -1
    <3>1. blk \in Blocks
      BY <2>1 DEF JournalInv
    <3>2. blk # -1
      BY <3>1, RunAssumption DEF Blocks
    <3>. QED  BY <1>1, <2>1, <3>2 DEF Positioned, Open
  <2>7. Positioned'
    BY <2>1, <2>2, <2>6 DEF Positioned, NextUnit, UnitResult
  <2>. QED  BY <2>1, <2>4, <2>5, <2>7 DEF ResumeInv
<1>7. CASE JournalUnit
  <2>1. /\ pc = "journal unit" /\ pc' = "unit"
        /\ UNCHANGED <<arts, rotten, me, restored, prior, cursor, blk, fresh>>
        /\ results' = Append(results, fresh)
    BY <1>7 DEF JournalUnit, resume
  <2>2. fresh \in arts /\ fresh \in Artifact
    BY <1>0, <2>1 DEF JournalInv
  <2>3. Len(results') = Len(results) + 1
    BY <1>0, <2>1, <2>2, AppendProperties
  <2>4. fresh # NoArtifact /\ blk # -1
    <3>1. fresh # NoArtifact
      <4>1. fresh.kind \in {"unit", "block"}
        BY <2>1 DEF JournalInv
      <4>. QED  BY <4>1 DEF NoArtifact
    <3>2. blk \in Blocks
      BY <2>1 DEF JournalInv
    <3>. QED  BY <3>1, <3>2, RunAssumption DEF Blocks
  <2>5. Known'
    <3>. SUFFICES ASSUME NEW a \in Results(me)
                  PROVE  (a.kind = "block" => BlockKnown(a)') /\ (a.kind = "unit" => UnitKnown(a)')
      BY <2>1 DEF Known, Results, Intact
    <3>1. a.unit \in Int /\ NextUnit \in Int /\ NextUnit' = NextUnit + 1
      BY <1>0, <2>3, RunAssumption DEF Results, Intact, Artifact, Units, NextUnit
    <3>2. a.kind = "block" => BlockKnown(a)
      BY <1>1, <2>1 DEF Known
    <3>3. a.kind = "unit" => UnitKnown(a)
      BY <1>1, <2>1 DEF Known
    <3>4. fresh.unit = NextUnit
      BY <1>1, <2>1 DEF Positioned
    <3>5. a.kind = "block" => BlockKnown(a)'
      BY <2>1, <3>2 DEF BlockKnown
    <3>6. a.kind = "unit" =>
            \/ a \in prior \/ a.block \in restored \/ a.block < blk
            \/ a.block = blk /\ (a.unit < NextUnit \/ a = fresh)
      BY <2>1, <3>3 DEF UnitKnown
    <3>7. a.unit < NextUnit \/ a = fresh => a.unit < NextUnit'
      BY <3>1, <3>4
    <3>8. a.kind = "unit" => UnitKnown(a)'
      BY <2>1, <3>6, <3>7 DEF UnitKnown
    <3>. QED  BY <3>5, <3>8
  <2>6. Announced'
    BY <1>1, <2>1, StaysAnnounced
  <2>7. Positioned'
    BY <1>1, <2>1, <2>4 DEF Positioned, Open
  <2>. QED  BY <2>1, <2>5, <2>6, <2>7 DEF ResumeInv
<1>8. CASE CommitActivations
  <2>1. /\ pc = "unit" /\ pc' = "block" /\ NextUnit \notin Units
        /\ UNCHANGED <<rotten, me, restored, prior, cursor, blk, results, fresh>>
        /\ arts' = arts \cup {ActivationsOf(BlockResult(me, blk, inputs, 0))}
    BY <1>8 DEF CommitActivations, resume, work
  <2>2. Results(me)' \subseteq Results(me)
    BY <2>1 DEF Results, Intact, ActivationsOf, BlockResult
  <2>3. Known'
    <3>. SUFFICES ASSUME NEW a \in Results(me)
                  PROVE  (a.kind = "block" => BlockKnown(a)') /\ (a.kind = "unit" => UnitKnown(a)')
      BY <2>2 DEF Known
    <3>1. a.kind = "block" => BlockKnown(a)
      BY <1>1, <2>1 DEF Known
    <3>2. a.kind = "unit" => UnitKnown(a)
      BY <1>1, <2>1 DEF Known
    <3>. QED  BY <2>1, <3>1, <3>2 DEF BlockKnown, UnitKnown
  <2>4. Announced'
    BY <1>1, <2>1, StaysAnnounced
  <2>5. Positioned'
    BY <1>1, <2>1 DEF Positioned, Open, PriorFor
  <2>. QED  BY <2>1, <2>3, <2>4, <2>5 DEF ResumeInv
<1>9. CASE CommitBlock
  <2>1. /\ pc = "block" /\ pc' = "journal block"
        /\ UNCHANGED <<rotten, me, restored, prior, cursor, blk, results>>
        /\ arts' = arts \cup {fresh'} /\ fresh' = BlockResult(me, blk, inputs, Epoch)
    BY <1>9 DEF CommitBlock, resume
  <2>2. fresh'.kind = "block" /\ fresh'.block = blk /\ fresh' # NoArtifact
    BY <2>1 DEF BlockResult, NoArtifact
  <2>3. Results(me)' \subseteq Results(me) \cup {fresh'}
    BY <2>1 DEF Results, Intact
  <2>4. Known'
    <3>. SUFFICES ASSUME NEW a \in Results(me)'
                  PROVE  (a.kind = "block" => BlockKnown(a)') /\ (a.kind = "unit" => UnitKnown(a)')
      BY DEF Known
    <3>1. CASE a = fresh'
      BY <2>1, <2>2, <3>1 DEF BlockKnown
    <3>2. CASE a \in Results(me)
      BY <1>1, <2>1, <3>2 DEF Known, BlockKnown, UnitKnown, NextUnit
    <3>. QED  BY <2>3, <3>1, <3>2
  <2>5. Announced'
    BY <1>1, <2>1, StaysAnnounced
  <2>6. blk' \in Open' /\ blk' # -1
    <3>1. blk \in Blocks
      BY <2>1 DEF JournalInv
    <3>2. blk # -1
      BY <3>1, RunAssumption DEF Blocks
    <3>. QED  BY <1>1, <2>1, <3>2 DEF Positioned, Open
  <2>7. Positioned'
    BY <2>1, <2>2, <2>6 DEF Positioned
  <2>. QED  BY <2>1, <2>4, <2>5, <2>7 DEF ResumeInv
<1>10. CASE JournalBlock \/ Advance
  <2>1. /\ pc \in {"journal block", "advance"} /\ pc' \in {"retire previous", "advance", "pick"}
        /\ UNCHANGED <<arts, rotten, me, restored, prior, cursor, blk, results, fresh>>
    BY <1>10 DEF JournalBlock, Advance, resume, work, disk
  <2>2. Results(me)' = Results(me)
    BY <2>1 DEF Results, Intact
  <2>3. fresh # NoArtifact
    <3>1. fresh.kind \in {"unit", "block"}
      BY <2>1 DEF JournalInv
    <3>. QED  BY <3>1 DEF NoArtifact
  <2>4. Known' /\ Announced'
    BY <1>1, <2>1, <2>2, StaysAnnounced DEF Known, BlockKnown, UnitKnown, NextUnit
  <2>5. Positioned'
    BY <1>1, <2>1, <2>3 DEF Positioned, Open
  <2>. QED  BY <2>1, <2>4, <2>5 DEF ResumeInv
<1>11. CASE WriteReport
  <2>1. CASE Fail
    BY <2>1, ForgetKeepsResume DEF Fail
  <2>2. CASE ~ Fail
    <3>1. /\ pc = "pick" /\ pc' = "finish" /\ arts' = arts \cup {Report(me, Epoch)}
          /\ UNCHANGED <<rotten, me, restored, prior, cursor, blk, results, fresh>>
      BY <1>11, <2>2 DEF WriteReport, resume, work
    <3>2. Results(me)' \subseteq Results(me)
      BY <3>1 DEF Results, Intact, Report
    <3>3. Known' /\ Announced'
      BY <1>1, <3>1, <3>2, StaysAnnounced DEF Known, BlockKnown, UnitKnown, NextUnit
    <3>4. Positioned'
      BY <1>1, <3>1 DEF Positioned, Open
    <3>. QED  BY <3>1, <3>3, <3>4 DEF ResumeInv
  <2>. QED  BY <2>1, <2>2
<1>. QED  BY <1>2, <1>3, <1>4, <1>5, <1>6, <1>7, <1>8, <1>9, <1>10, <1>11

\* Every step keeps what a resumed process knows.
LEMMA NextKeepsResume ==
    ASSUME TypeOK, JournalInv, BudgetInv, ResumeInv, [Next]_vars
    PROVE  ResumeInv'
<1>1. CASE Step
  <2>1. CASE Discover
    BY <2>1, DiscoverKeepsResume
  <2>2. CASE RetireOld
    <3>1. CASE Fail
      BY <3>1, ForgetKeepsResume DEF Fail
    <3>2. CASE ~ Fail
      <4>1. OldGenerations \subseteq Nat /\ OldGenerations \subseteq DOMAIN committed
        BY DEF OldGenerations, TypeOK
      <4>2. MinOf(OldGenerations) \in OldGenerations
        BY <2>2, <4>1, MinOfNaturals DEF RetireOld
      <4>3. committed[MinOf(OldGenerations)] \in Artifact
        <5>1. committed \in Seq(Artifact)
          BY DEF TypeOK
        <5>2. MinOf(OldGenerations) \in DOMAIN committed
          BY <4>1, <4>2, Zenon
        <5>. QED  BY <5>1, <5>2
      <4>4. Retire(ActivationsOf(committed[MinOf(OldGenerations)]), "retire old") /\ pc = "retire old"
        BY <2>2, <3>2 DEF RetireOld
      <4>. QED  BY <4>3, <4>4, RetireKeepsResume
    <3>. QED  BY <3>1, <3>2
  <2>3. CASE RetirePrevious
    <3>1. committed # <<>> /\ committed \in Seq(Artifact)
      BY <2>3 DEF RetirePrevious, JournalInv, TypeOK
    <3>2. Last(committed) \in Artifact
      BY <3>1 DEF Last
    <3>. QED  BY <2>3, <3>2, RetireKeepsResume DEF RetirePrevious
  <2>4. CASE Finish
    BY <2>4, ForgetKeepsResume DEF Finish
  <2>. QED
    BY <1>1, <2>1, <2>2, <2>3, <2>4, WorkKeepsResume DEF Step
<1>2. CASE \E i \in Identities : Start(i)
  BY <1>2 DEF Start, ResumeInv, work
<1>3. CASE Die \/ DieInAppend
  BY <1>3, ForgetKeepsResume DEF Die, DieInAppend
<1>4. CASE Rot
  BY <1>4 DEF Rot, ResumeInv, work
<1>5. CASE UNCHANGED vars
  <2>1. UNCHANGED <<arts, rotten, pc, me, restored, prior, cursor, blk, results, fresh>>
    BY <1>5 DEF vars, disk, resume, work
  <2>2. Known' = Known
    BY <2>1 DEF Known, Results, Intact, BlockKnown, UnitKnown, NextUnit
  <2>3. Announced' = Announced /\ Positioned' = Positioned
    BY <2>1 DEF Announced, Positioned, Open, Todo, PriorFor, NextUnit
  <2>. QED  BY <2>1, <2>2, <2>3 DEF ResumeInv
<1>. QED  BY <1>1, <1>2, <1>3, <1>4, <1>5 DEF Next, Idle

\* What a process knows and has paid for, in every reachable state.
ResumedInv == TypeOK /\ JournalInv /\ BudgetInv /\ ResumeInv

LEMMA ResumedInvInductive ==
    /\ Init => ResumedInv
    /\ ResumedInv /\ [Next]_vars => ResumedInv'
<1>1. Init => BudgetInv /\ ResumeInv
  BY DEF Init, BudgetInv, BudgetExact, ResumeInv
<1>2. Init => ResumedInv
  BY <1>1, InitInv DEF ResumedInv
<1>3. ResumedInv /\ [Next]_vars => ResumedInv'
  BY NextKeepsInv, NextKeepsBudget, NextKeepsResume DEF ResumedInv
<1>. QED  BY <1>2, <1>3

\* A resumed process has charged its budget as an uninterrupted one would have:
\* every accepted unit once, whichever process quantized it.
THEOREM BudgetIsExact == Spec => []BudgetExact
<1>1. ResumedInv => BudgetExact
  BY DEF ResumedInv, BudgetInv
<1>. QED  BY <1>1, ResumedInvInductive, PTL DEF Spec

\* No unit whose result is there and whole is quantized a second time, and no
\* unit of a committed block (RES-004), after every sequence of crashes.
THEOREM ResultsAreReused == Spec => NeverRequantized
<1>. DEFINE Fresh ==
        CommitUnit =>
            \A a \in Intact :
                a.kind \in {"unit", "block"} /\ a.identity = me /\ a.block = blk =>
                    a.kind = "unit" /\ a.unit # NextUnit
<1>1. ResumedInv => Fresh
  <2>. SUFFICES ASSUME ResumedInv, CommitUnit, NEW a \in Results(me), a.block = blk
                PROVE  a.kind = "unit" /\ a.unit # NextUnit
    BY DEF Results
  <2>1. pc = "unit" /\ PriorFor(NextUnit) = {} /\ Known /\ Positioned /\ blk \in Blocks
    BY DEF CommitUnit, ResumedInv, ResumeInv, JournalInv
  <2>2. blk \in Int /\ blk # -1 /\ blk \in Open
    BY <2>1, RunAssumption DEF Positioned, Blocks
  <2>3. a.kind \in {"unit", "block"} /\ a.unit \in Int /\ NextUnit \in Int
    BY RunAssumption DEF Results, Intact, ResumedInv, TypeOK, Artifact, Units, NextUnit
  <2>4. ~ BlockKnown(a)
    BY <2>1, <2>2 DEF BlockKnown, Open
  <2>5. UnitKnown(a) => a \in prior \/ a.unit < NextUnit
    BY <2>1, <2>2 DEF UnitKnown, Open
  <2>6. a \in prior => a.unit # NextUnit
    BY <2>1 DEF PriorFor
  <2>. QED  BY <2>1, <2>3, <2>4, <2>5, <2>6 DEF Known
<1>2. ResumedInv /\ [Next]_vars => [Fresh]_vars
  BY <1>1
<1>. QED  BY <1>2, ResumedInvInductive, PTL DEF Spec, NeverRequantized

\* What discover() announces is what the process does: the unit it quantizes
\* first, the block it only has to close, or the report alone.
THEOREM CursorIsHonest == Spec => CursorIsNextWork
<1>. DEFINE Honest ==
        /\ CommitUnit /\ fresh = NoArtifact => cursor = [block |-> blk, unit |-> NextUnit]
        /\ CommitActivations /\ fresh = NoArtifact => cursor = [block |-> blk, unit |-> 0]
        /\ WriteReport => (cursor = NoCursor) = (fresh = NoArtifact)
<1>1. ResumedInv => Honest
  <2>. SUFFICES ASSUME ResumedInv PROVE Honest
    OBVIOUS
  <2>0. /\ Open \subseteq Nat /\ NumUnits \in Nat /\ Units \subseteq Nat
        /\ Len(results) \in Nat /\ blk \in Blocks \cup {-1}
        /\ NumBlocks \notin Open
    BY RunAssumption DEF Open, Blocks, Units, ResumedInv, TypeOK
  <2>1. ASSUME fresh = NoArtifact, pc = "unit"
        PROVE  /\ cursor = [block |-> blk, unit |-> IF Todo(blk) = {} THEN 0 ELSE MinOf(Todo(blk))]
               /\ \A u \in 1 .. Len(results) : u \notin Todo(blk)
    <3>1. Announced /\ Positioned /\ blk \in Blocks
      BY <2>1 DEF ResumedInv, ResumeInv, JournalInv
    <3>2. blk # -1
      BY <3>1, RunAssumption DEF Blocks
    <3>3. blk \in Open /\ blk = MinOf(Open)
      BY <2>1, <3>1, <3>2 DEF Positioned
    <3>4. \A u \in 1 .. Len(results) : PriorFor(u) # {}
      BY <2>1, <3>1 DEF Positioned
    <3>. QED  BY <3>1, <3>3, <3>4 DEF Announced, Todo, PriorFor
  <2>2. ASSUME CommitUnit, fresh = NoArtifact
        PROVE  cursor = [block |-> blk, unit |-> NextUnit]
    <3>1. pc = "unit" /\ NextUnit \in Units /\ PriorFor(NextUnit) = {}
      BY <2>2 DEF CommitUnit
    <3>2. NextUnit \in Todo(blk)
      BY <3>1 DEF Todo, PriorFor
    <3>3. \A u \in Todo(blk) : NextUnit <= u
      <4>1. \A u \in Todo(blk) : u \in Nat /\ u >= 1
        BY RunAssumption DEF Todo, Units
      <4>. QED  BY <2>0, <2>1, <2>2, <3>1, <4>1 DEF NextUnit
    <3>4. Todo(blk) \in SUBSET Nat
      BY <2>0 DEF Todo
    <3>5. MinOf(Todo(blk)) \in Todo(blk) /\ \A u \in Todo(blk) : MinOf(Todo(blk)) <= u
      BY <3>2, <3>4, MinOfNaturals
    <3>6. MinOf(Todo(blk)) = NextUnit
      BY <3>2, <3>3, <3>4, <3>5
    <3>. QED  BY <2>1, <2>2, <3>1, <3>2, <3>6
  <2>3. ASSUME CommitActivations, fresh = NoArtifact
        PROVE  cursor = [block |-> blk, unit |-> 0]
    <3>1. pc = "unit" /\ NextUnit \notin Units
      BY <2>3 DEF CommitActivations
    <3>2. Len(results) = NumUnits
      BY <2>0, <3>1 DEF NextUnit, Units, ResumedInv, BudgetInv
    <3>3. Todo(blk) = {}
      BY <2>1, <2>3, <3>1, <3>2 DEF Todo, Units
    <3>. QED  BY <2>1, <2>3, <3>1, <3>3
  <2>4. ASSUME WriteReport
        PROVE  (cursor = NoCursor) = (fresh = NoArtifact)
    <3>1. pc = "pick" /\ Pending = {} /\ Announced /\ Positioned
      BY <2>4 DEF WriteReport, ResumedInv, ResumeInv
    <3>2. CASE fresh = NoArtifact
      <4>1. blk = -1
        BY <3>1, <3>2 DEF Positioned
      <4>2. Open = {}
        BY <3>1, <4>1, RunAssumption DEF Pending, Open, Blocks
      <4>. QED  BY <3>1, <3>2, <4>2 DEF Announced
    <3>3. CASE fresh # NoArtifact
      <4>1. Open # {}
        BY <3>1, <3>3 DEF Positioned
      <4>2. MinOf(Open) \in Open
        BY <2>0, <4>1, MinOfNaturals
      <4>3. cursor.block = MinOf(Open)
        BY <3>1, <4>1 DEF Announced
      <4>4. cursor # NoCursor
        BY <2>0, <4>2, <4>3 DEF NoCursor
      <4>. QED  BY <3>3, <4>4
    <3>. QED  BY <3>2, <3>3
  <2>. QED  BY <2>2, <2>3, <2>4
<1>2. ResumedInv /\ [Next]_vars => [Honest]_vars
  BY <1>1
<1>. QED  BY <1>2, ResumedInvInductive, PTL DEF Spec, CursorIsNextWork

-----------------------------------------------------------------------------
\* The block results and the activation generations of an identity on disk, and
\* the blocks they are of.
BlocksAt(i) == {a \in arts : a.kind = "block" /\ a.identity = i}
GensAt(i) == {a \in arts : a.kind = "activations" /\ a.identity = i}
Done(i) == {a.block : a \in BlocksAt(i)}
Gens(i) == {a.block : a \in GensAt(i)}

\* The generation behind block b.
Act(i, b) == ActivationsOf(BlockResult(i, b, Chain(b), 0))

\* The first k blocks are done and the generation behind them is there; of the
\* others, rolling retention leaves one at most.
ResumableAt(i, k) ==
    /\ Done(i) = 0 .. k - 1
    /\ k > 0 => k - 1 \in Gens(i)
    /\ Rolling => Gens(i) \subseteq {k - 2, k - 1} \/ Gens(i) \subseteq {k - 1, k}

\* Every result of an identity continues the one before it.
Chained(i) ==
    /\ \A a \in BlocksAt(i) : a = BlockResult(i, a.block, Chain(a.block), a.epoch)
    /\ \A a \in GensAt(i) : a = Act(i, a.block)
    /\ \A a, b \in BlocksAt(i) : a.block = b.block => a = b
    /\ \E k \in 0 .. NumBlocks : ResumableAt(i, k)

\* The list of the process holds the blocks before the one it works on.
Listed ==
    /\ \A n \in 1 .. Len(committed) :
            committed[n] = BlockResult(me, n - 1, Chain(n - 1), committed[n].epoch)
    /\ restored \subseteq 0 .. Len(committed) - 1
    /\ \A b \in 0 .. Len(committed) - 1 : b \in restored \/ b <= blk

AfterBlock == {"journal block", "retire previous", "advance"}
InBlock == {"unit", "journal unit", "block"} \cup AfterBlock

\* Where the process is, and what it has made of the block it works on.
Placed ==
    LET m == Len(committed)
    IN  /\ Done(me) = IF pc \in AfterBlock THEN 0 .. m ELSE 0 .. m - 1
        /\ pc \in {"retire old", "load boundary", "pick", "finish"} => blk < m
        /\ pc \in InBlock => blk = m
        /\ pc \in InBlock \cup {"pick"} => inputs = Chain(m)
        /\ pc = "block" \/ pc \in AfterBlock => m \in Gens(me)
        /\ pc \in AfterBlock => fresh = BlockResult(me, m, Chain(m), fresh.epoch)
        /\ pc = "finish" => m = NumBlocks

\* The generations that rolling retention has left.
Retained ==
    LET m == Len(committed)
    IN  Rolling =>
            /\ pc \in (InBlock \ {"advance"}) \cup {"load boundary", "pick"} => Gens(me) \subseteq {m - 1, m}
            /\ pc = "advance" => Gens(me) \subseteq {m}
            /\ pc = "finish" => Gens(me) \subseteq {m - 1}

\* A completed run has every block, and one generation.
Ended ==
    status = "completed" =>
        /\ pc = "down"
        /\ Done(me) = Blocks
        /\ Rolling => Gens(me) \subseteq {NumBlocks - 1}

Core ==
    /\ rotten = {}
    /\ \A i \in Identities : Chained(i)
    /\ pc \notin {"down", "discover"} => Listed /\ Placed /\ Retained
    /\ Ended

ChainInv == Undamaged => Core

-----------------------------------------------------------------------------
\* The stream behind block b is the stream before it and the block.
LEMMA ChainGrows ==
    ASSUME NEW b \in Nat
    PROVE  /\ Append(Chain(b), b) = Chain(b + 1)
           /\ Chain(0) = <<>>
           /\ Chain(b) \in Seq(Nat)
           /\ Len(Chain(b)) = b
<1>1. Chain(b) \in Seq(Nat) /\ Len(Chain(b)) = b /\ DOMAIN Chain(b) = 1 .. b
  BY DEF Chain
<1>2. Append(Chain(b), b) \in Seq(Nat) /\ Len(Append(Chain(b), b)) = b + 1
  BY <1>1, AppendProperties
<1>3. Chain(b + 1) \in Seq(Nat) /\ Len(Chain(b + 1)) = b + 1
  BY DEF Chain
<1>4. \A n \in 1 .. b + 1 : Append(Chain(b), b)[n] = Chain(b + 1)[n]
  <2>. TAKE n \in 1 .. b + 1
  <2>1. CASE n \in 1 .. b
    BY <1>1, <2>1, AppendProperties DEF Chain
  <2>2. CASE n = b + 1
    <3>1. Append(Chain(b), b)[Len(Chain(b)) + 1] = b
      BY <1>1, AppendProperties
    <3>2. Chain(b + 1)[b + 1] = b
      BY DEF Chain
    <3>. QED  BY <1>1, <2>2, <3>1, <3>2
  <2>3. n \in 1 .. b \/ n = b + 1
    OBVIOUS
  <2>. QED  BY <2>1, <2>2, <2>3
<1>5. Append(Chain(b), b) = Chain(b + 1)
  BY <1>2, <1>3, <1>4, SeqEqual
<1>6. Chain(0) = <<>>
  <2>1. Chain(0) \in Seq(Nat) /\ Len(Chain(0)) = 0
    BY DEF Chain
  <2>. QED  BY <2>1, EmptySeq
<1>. QED  BY <1>1, <1>5, <1>6

\* Artifacts with the same fields are the same.
LEMMA SameFields ==
    ASSUME NEW a \in Artifact, NEW b \in Artifact,
           a.kind = b.kind, a.identity = b.identity, a.block = b.block,
           a.unit = b.unit, a.input = b.input, a.epoch = b.epoch
    PROVE  a = b
BY DEF Artifact

\* The generation of a block result differs from it in its kind and its epoch.
LEMMA GenerationFields ==
    ASSUME NEW a \in Artifact
    PROVE  /\ ActivationsOf(a) \in Artifact
           /\ ActivationsOf(a).kind = "activations" /\ ActivationsOf(a).epoch = 0
           /\ ActivationsOf(a).identity = a.identity
           /\ ActivationsOf(a).block = a.block
           /\ ActivationsOf(a).unit = a.unit
           /\ ActivationsOf(a).input = a.input
BY DEF Artifact, ActivationsOf

\* The fields of a block result, and of its generation.
LEMMA Shapes ==
    ASSUME NEW i \in Identities, NEW b \in Blocks, NEW e \in Nat
    PROVE  /\ b \in Nat
           /\ BlockResult(i, b, Chain(b), e) \in Artifact
           /\ BlockResult(i, b, Chain(b), e).kind = "block"
           /\ BlockResult(i, b, Chain(b), e).identity = i
           /\ BlockResult(i, b, Chain(b), e).block = b
           /\ BlockResult(i, b, Chain(b), e).epoch = e
           /\ ActivationsOf(BlockResult(i, b, Chain(b), e)) = Act(i, b)
           /\ Outputs(BlockResult(i, b, Chain(b), e)) = Chain(b + 1)
           /\ Act(i, b).kind = "activations"
           /\ Act(i, b).identity = i
           /\ Act(i, b).block = b
<1>0. b \in Nat
  BY RunAssumption DEF Blocks
<1>1. Chain(b) \in Streams
  <2>1. \A n \in 1 .. b : n - 1 \in Blocks
    BY RunAssumption DEF Blocks
  <2>. QED  BY <1>0, <2>1 DEF Chain, Streams
<1>2. BlockResult(i, b, Chain(b), e) \in Artifact /\ BlockResult(i, b, Chain(b), 0) \in Artifact
  BY <1>1 DEF BlockResult, Artifact
<1>3. /\ BlockResult(i, b, Chain(b), e).kind = "block"
      /\ BlockResult(i, b, Chain(b), e).identity = i
      /\ BlockResult(i, b, Chain(b), e).block = b
      /\ BlockResult(i, b, Chain(b), e).epoch = e
  BY DEF BlockResult
<1>4. ActivationsOf(BlockResult(i, b, Chain(b), e)) = Act(i, b)
  BY <1>2, SameFields, GenerationFields DEF Act, BlockResult
<1>5. Act(i, b).kind = "activations" /\ Act(i, b).identity = i /\ Act(i, b).block = b
  BY <1>2, GenerationFields DEF Act, BlockResult
<1>6. Outputs(BlockResult(i, b, Chain(b), e)) = Chain(b + 1)
  BY <1>0, ChainGrows DEF BlockResult, Outputs
<1>. QED  BY <1>0, <1>2, <1>3, <1>4, <1>5, <1>6

\* The blocks on disk are blocks.
LEMMA DoneAreBlocks ==
    ASSUME TypeOK, NEW i \in Identities
    PROVE  Done(i) \subseteq Blocks /\ Gens(i) \subseteq Blocks /\ Blocks \subseteq Nat
BY RunAssumption DEF TypeOK, Done, Gens, BlocksAt, GensAt, Artifact, Blocks

\* An identity whose results and generations are those of before is as it was.
LEMMA SameScan ==
    ASSUME NEW i, BlocksAt(i)' = BlocksAt(i), GensAt(i)' = GensAt(i)
    PROVE  Done(i)' = Done(i) /\ Gens(i)' = Gens(i) /\ (Chained(i) => Chained(i)')
<1>1. Done(i)' = Done(i) /\ Gens(i)' = Gens(i)
  BY DEF Done, Gens
<1>. QED  BY <1>1 DEF Chained, ResumableAt

\* A generation is removed.
LEMMA RemovesGeneration ==
    ASSUME TypeOK, NEW j \in Identities, NEW b \in Blocks, Chained(j), arts' = arts \ {Act(j, b)}
    PROVE  /\ \A i \in Identities : BlocksAt(i)' = BlocksAt(i)
           /\ \A i \in Identities \ {j} : GensAt(i)' = GensAt(i)
           /\ GensAt(j)' \subseteq GensAt(j)
           /\ Gens(j)' = Gens(j) \ {b}
<1>1. Act(j, b).kind = "activations" /\ Act(j, b).identity = j /\ Act(j, b).block = b
  BY Shapes
<1>2. \A i \in Identities : BlocksAt(i)' = BlocksAt(i)
  BY <1>1 DEF BlocksAt
<1>3. \A i \in Identities \ {j} : GensAt(i)' = GensAt(i)
  BY <1>1 DEF GensAt
<1>4. GensAt(j)' = GensAt(j) \ {Act(j, b)}
  BY DEF GensAt
<1>5. \A a \in GensAt(j) : a.block = b <=> a = Act(j, b)
  BY <1>1 DEF Chained
<1>6. Gens(j)' = Gens(j) \ {b}
  BY <1>4, <1>5 DEF Gens
<1>. QED  BY <1>2, <1>3, <1>4, <1>6

\* A generation is published.
LEMMA AddsGeneration ==
    ASSUME NEW j \in Identities, NEW b \in Blocks, arts' = arts \cup {Act(j, b)}
    PROVE  /\ \A i \in Identities : BlocksAt(i)' = BlocksAt(i)
           /\ \A i \in Identities \ {j} : GensAt(i)' = GensAt(i)
           /\ GensAt(j)' = GensAt(j) \cup {Act(j, b)}
           /\ Gens(j)' = Gens(j) \cup {b}
<1>1. Act(j, b).kind = "activations" /\ Act(j, b).identity = j /\ Act(j, b).block = b
  BY Shapes
<1>2. \A i \in Identities : BlocksAt(i)' = BlocksAt(i)
  BY <1>1 DEF BlocksAt
<1>3. \A i \in Identities \ {j} : GensAt(i)' = GensAt(i)
  BY <1>1 DEF GensAt
<1>4. GensAt(j)' = GensAt(j) \cup {Act(j, b)}
  BY <1>1 DEF GensAt
<1>5. Gens(j)' = Gens(j) \cup {b}
  BY <1>1, <1>4 DEF Gens
<1>. QED  BY <1>2, <1>3, <1>4, <1>5

\* A block result is published.
LEMMA AddsBlock ==
    ASSUME NEW j \in Identities, NEW b \in Blocks, NEW e \in Nat, arts' = arts \cup {BlockResult(j, b, Chain(b), e)}
    PROVE  /\ \A i \in Identities : GensAt(i)' = GensAt(i)
           /\ \A i \in Identities \ {j} : BlocksAt(i)' = BlocksAt(i)
           /\ BlocksAt(j)' = BlocksAt(j) \cup {BlockResult(j, b, Chain(b), e)}
           /\ Done(j)' = Done(j) \cup {b}
<1>. DEFINE new == BlockResult(j, b, Chain(b), e)
<1>1. new.kind = "block" /\ new.identity = j /\ new.block = b
  BY Shapes
<1>. HIDE DEF new
<1>2. arts' = arts \cup {new}
  BY DEF new
<1>3. \A i \in Identities : GensAt(i)' = GensAt(i)
  BY <1>1, <1>2 DEF GensAt
<1>4. \A i \in Identities \ {j} : BlocksAt(i)' = BlocksAt(i)
  BY <1>1, <1>2 DEF BlocksAt
<1>5. BlocksAt(j)' = BlocksAt(j) \cup {new}
  BY <1>1, <1>2 DEF BlocksAt
<1>6. Done(j)' = Done(j) \cup {b}
  BY <1>1, <1>5 DEF Done
<1>. QED  BY <1>3, <1>4, <1>5, <1>6 DEF new

\* Anything else that is published is neither.
LEMMA AddsNeither ==
    ASSUME NEW x, arts' = arts \cup {x}, x.kind \in {"unit", "report"}, NEW i
    PROVE  BlocksAt(i)' = BlocksAt(i) /\ GensAt(i)' = GensAt(i)
BY DEF BlocksAt, GensAt
\* A finite set of results with one for each of the blocks 0 .. k - 1.
OnePerBlock(found, k) ==
    /\ IsFiniteSet(found)
    /\ \A a \in found : a.block \in 0 .. k - 1
    /\ \A b \in 0 .. k - 1 : \E a \in found : a.block = b
    /\ \A a, b \in found : a.block = b.block => a = b

\* As many results as blocks, when there is one result for each block.
LEMMA OneForEach ==
    ASSUME NEW found, NEW k \in Nat, OnePerBlock(found, k)
    PROVE  Cardinality(found) = k
<1>0. /\ IsFiniteSet(found)
      /\ \A a \in found : a.block \in 0 .. k - 1
      /\ \A b \in 0 .. k - 1 : \E a \in found : a.block = b
      /\ \A a, b \in found : a.block = b.block => a = b
  BY DEF OnePerBlock
<1>. DEFINE f == [a \in found |-> a.block]
<1>1. f \in Injection(found, 0 .. k - 1)
  <2>1. f \in [found -> 0 .. k - 1]
    BY <1>0
  <2>2. \A a, b \in found : f[a] = f[b] => a = b
    BY <1>0
  <2>. HIDE DEF f
  <2>. QED  BY <2>1, <2>2, Fun_IsInj
<1>2. f \in Surjection(found, 0 .. k - 1)
  <2>1. f \in [found -> 0 .. k - 1]
    BY <1>0
  <2>2. \A t \in 0 .. k - 1 : \E a \in found : f[a] = t
    BY <1>0
  <2>. HIDE DEF f
  <2>. QED  BY <2>1, <2>2, Fun_IsSurj
<1>. HIDE DEF f
<1>3. IsFiniteSet(0 .. k - 1) /\ Cardinality(0 .. k - 1) = k
  <2>1. k - 1 \in Int
    OBVIOUS
  <2>2. IsFiniteSet(0 .. k - 1) /\ Cardinality(0 .. k - 1) = IF 0 > k - 1 THEN 0 ELSE (k - 1) - 0 + 1
    BY <2>1, FS_Interval
  <2>. QED  BY <2>2
<1>4. Cardinality(found) = Cardinality(0 .. k - 1)
  BY <1>1, <1>2, <1>3, FS_Injection
<1>. QED  BY <1>3, <1>4

\* A list by block of one result for each of the blocks 0 .. k - 1 has the result
\* of block n - 1 in place n.
LEMMA SortedListing ==
    ASSUME NEW found, NEW k \in Nat, OnePerBlock(found, k),
           NEW s \in [1 .. Cardinality(found) -> found], ListsByBlock(s, found)
    PROVE  /\ s \in [1 .. k -> found]
           /\ \A n \in 1 .. k : s[n].block = n - 1
<1>0. /\ IsFiniteSet(found)
      /\ \A a \in found : a.block \in 0 .. k - 1
      /\ \A b \in 0 .. k - 1 : \E a \in found : a.block = b
      /\ \A a, b \in found : a.block = b.block => a = b
  BY DEF OnePerBlock
<1>1. Cardinality(found) = k
  BY OneForEach
<1>2. s \in [1 .. k -> found] /\ DOMAIN s = 1 .. k
  BY <1>1
<1>3. \A m, n \in 1 .. k : s[m] = s[n] => m = n
  <2>0. \A a \in found : \E n \in 1 .. k : s[n] = a
    BY <1>2 DEF ListsByBlock
  <2>1. s \in Surjection(1 .. k, found)
    BY <1>2, <2>0, Fun_IsSurj
  <2>2. IsFiniteSet(1 .. k) /\ Cardinality(1 .. k) = k
    <3>1. IsFiniteSet(1 .. k) /\ Cardinality(1 .. k) = IF 1 > k THEN 0 ELSE k - 1 + 1
      BY FS_Interval
    <3>. QED  BY <3>1
  <2>3. s \in Injection(1 .. k, found)
    BY <1>1, <2>1, <2>2, FS_Surjection
  <2>. QED  BY <2>3, Fun_InjectionProperties, Zenon
<1>4. \A n \in 1 .. k : s[n].block \in 0 .. k - 1
  BY <1>0, <1>2
<1>5. \A m, n \in 1 .. k : m < n => s[m].block < s[n].block
  <2>. SUFFICES ASSUME NEW m \in 1 .. k, NEW n \in 1 .. k, m < n PROVE s[m].block < s[n].block
    OBVIOUS
  <2>1. s[m].block <= s[n].block
    BY <1>2 DEF ListsByBlock
  <2>2. s[m] # s[n]
    BY <1>3
  <2>3. s[m].block # s[n].block
    BY <1>0, <1>2, <2>2
  <2>. QED  BY <1>4, <2>1, <2>3
<1>6. \A b \in 0 .. k - 1 : \E n \in 1 .. k : s[n].block = b
  <2>. TAKE b \in 0 .. k - 1
  <2>1. PICK a \in found : a.block = b
    BY <1>0, Zenon
  <2>2. PICK n \in 1 .. k : s[n] = a
    BY <1>2 DEF ListsByBlock
  <2>. QED  BY <2>1, <2>2
<1>7. \A n \in 1 .. k : s[n].block = n - 1
  <2>. DEFINE odd == {n \in 1 .. k : s[n].block # n - 1}
  <2>. SUFFICES ASSUME odd # {} PROVE FALSE
    OBVIOUS
  <2>1. odd \in SUBSET Nat
    OBVIOUS
  <2>2. MinOf(odd) \in odd /\ \A y \in odd : MinOf(odd) <= y
    BY <2>1, MinOfNaturals
  <2>3. PICK n \in 1 .. k : s[n].block # n - 1 /\ \A p \in 1 .. k : p < n => s[p].block = p - 1
    <3>1. \A p \in 1 .. k : p < MinOf(odd) => p \notin odd
      BY <2>1, <2>2
    <3>. QED  BY <2>2, <3>1
  <2>4. CASE s[n].block < n - 1
    <3>1. s[n].block + 1 \in 1 .. k /\ s[n].block + 1 < n
      BY <1>4, <2>4
    <3>2. s[s[n].block + 1].block = s[n].block
      BY <1>4, <2>3, <3>1
    <3>. QED  BY <1>5, <1>4, <3>1, <3>2
  <2>5. CASE s[n].block > n - 1
    <3>1. PICK q \in 1 .. k : s[q].block = n - 1
      BY <1>6
    <3>2. q < n \/ q = n \/ n < q
      OBVIOUS
    <3>. QED  BY <1>4, <1>5, <2>3, <2>5, <3>1, <3>2
  <2>. QED  BY <1>4, <2>3, <2>4, <2>5
<1>. QED  BY <1>2, <1>7

\* What Core says of every state, in one place.
LEMMA CoreFacts ==
    ASSUME TypeOK, Core
    PROVE  /\ me \in Identities /\ Chained(me)
           /\ Len(committed) \in Nat /\ blk \in Int
           /\ Blocks \subseteq Nat /\ NumBlocks \in Nat
           /\ Intact = arts
           /\ pc \notin {"down", "discover"} => Len(committed) \in 0 .. NumBlocks
<1>1. /\ me \in Identities /\ Chained(me) /\ Len(committed) \in Nat /\ blk \in Int
      /\ Blocks \subseteq Nat /\ NumBlocks \in Nat /\ Intact = arts
  BY RunAssumption DEF TypeOK, Core, Blocks, Intact
<1>2. ASSUME pc \notin {"down", "discover"} PROVE Len(committed) <= NumBlocks
  <2>0. Done(me) = 0 .. Len(committed) \/ Done(me) = 0 .. Len(committed) - 1
    BY <1>2 DEF Core, Placed
  <2>1. 0 .. Len(committed) - 1 \subseteq Done(me)
    BY <1>1, <2>0
  <2>2. Done(me) \subseteq Blocks
    BY <1>1, DoneAreBlocks
  <2>3. Len(committed) > 0 => Len(committed) - 1 \in Blocks
    BY <1>1, <2>1, <2>2
  <2>. QED  BY <1>1, <2>3 DEF Blocks
<1>. QED  BY <1>1, <1>2

\* A step that publishes and removes neither block results nor generations, and
\* leaves the process where it is in its list, keeps what is on disk.
LEMMA ScanStays ==
    ASSUME Core, rotten' = rotten,
           \A i \in Identities : BlocksAt(i)' = BlocksAt(i) /\ GensAt(i)' = GensAt(i)
    PROVE  /\ rotten' = {}
           /\ \A i \in Identities : Chained(i)' /\ Done(i)' = Done(i) /\ Gens(i)' = Gens(i)
BY SameScan DEF Core

\* What is said of an identity is said of the process's own.
LEMMA OfMine ==
    ASSUME UNCHANGED me, NEW i, i = me
    PROVE  Done(me)' = Done(i)' /\ Gens(me)' = Gens(i)' /\ Done(me) = Done(i) /\ Gens(me) = Gens(i)
BY DEF Done, Gens, BlocksAt, GensAt

LEMMA ArtsStay ==
    ASSUME UNCHANGED arts, NEW i
    PROVE  BlocksAt(i)' = BlocksAt(i) /\ GensAt(i)' = GensAt(i)
BY DEF BlocksAt, GensAt

\* A process that ends leaves the disk as it is.
LEMMA ForgetKeepsCore ==
    ASSUME TypeOK, Core, pc # "down", Forget, UNCHANGED <<arts, rotten>>,
           status' # "completed"
    PROVE  Core'
<1>1. \A i \in Identities : BlocksAt(i)' = BlocksAt(i) /\ GensAt(i)' = GensAt(i)
  BY ArtsStay
<1>2. rotten' = {} /\ \A i \in Identities : Chained(i)'
  BY <1>1, ScanStays
<1>3. pc' = "down" /\ Ended'
  BY DEF Forget, Ended
<1>. QED  BY <1>2, <1>3 DEF Core

LEMMA FailKeepsCore ==
    ASSUME TypeOK, Core, pc # "down", Fail
    PROVE  Core'
BY ForgetKeepsCore DEF Fail, disk

\* A step of the process that changes neither the disk nor the status, nor where
\* the process is in its list.
LEMMA StepKeepsCore ==
    ASSUME TypeOK, Core, pc # "down", rotten' = rotten, UNCHANGED <<status, me>>,
           \A i \in Identities : BlocksAt(i)' = BlocksAt(i) /\ GensAt(i)' = GensAt(i),
           pc' \notin {"down", "discover"} => Listed' /\ Placed' /\ Retained'
    PROVE  Core'
<1>1. rotten' = {} /\ \A i \in Identities : Chained(i)'
  BY ScanStays
<1>2. Ended'
  BY DEF Core, Ended
<1>. QED  BY <1>1, <1>2 DEF Core

LEMMA ListedStays ==
    ASSUME Listed, UNCHANGED <<me, committed, restored, blk>>
    PROVE  Listed'
BY DEF Listed

LEMMA DiscoverKeepsCore ==
    ASSUME TypeOK, JournalInv, ResumeInv, Core, Discover
    PROVE  Core'
<1>. DEFINE found == OfKind("block", Discovered(me))
<1>0. /\ pc = "discover" /\ pc' = IF Rolling THEN "retire old" ELSE "load boundary"
      /\ UNCHANGED <<disk, status, me, blk>>
      /\ restored' = BlocksOf(Discovered(me))
      /\ \E s \in [1 .. Cardinality(found) -> found] : ListsByBlock(s, found) /\ committed' = s
  BY DEF Discover
<1>1. me \in Identities /\ Chained(me) /\ Intact = arts /\ blk \in Int
  BY CoreFacts
<1>2. found = BlocksAt(me) /\ restored' = Done(me)
  <2>1. Discovered(me) = Results(me)
    BY <1>1, DiscoveredAreResults
  <2>2. found = BlocksAt(me)
    BY <1>1, <2>1 DEF OfKind, Results, BlocksAt
  <2>. QED  BY <1>0, <2>2 DEF BlocksOf, Done
<1>3. IsFiniteSet(found)
  BY <1>1, DiscoveredTyped
<1>4. PICK k \in 0 .. NumBlocks : ResumableAt(me, k)
  BY <1>1 DEF Chained
<1>5. k \in Nat
  BY <1>4, RunAssumption
<1>6. OnePerBlock(found, k)
  <2>1. \A a, b \in found : a.block = b.block => a = b
    BY <1>1, <1>2 DEF Chained
  <2>2. {a.block : a \in found} = 0 .. k - 1
    BY <1>2, <1>4 DEF ResumableAt, Done
  <2>3. \A b \in 0 .. k - 1 : \E a \in found : a.block = b
    BY <2>2, Zenon
  <2>. QED  BY <1>3, <2>1, <2>2, <2>3 DEF OnePerBlock
<1>7. committed' \in [1 .. k -> found] /\ \A n \in 1 .. k : committed'[n].block = n - 1
  <2>1. PICK s \in [1 .. Cardinality(found) -> found] : ListsByBlock(s, found) /\ committed' = s
    BY <1>0
  <2>. HIDE DEF found
  <2>2. s \in [1 .. k -> found] /\ \A n \in 1 .. k : s[n].block = n - 1
    BY <1>5, <1>6, <2>1, SortedListing
  <2>. QED  BY <2>1, <2>2
<1>8. Len(committed') = k
  BY <1>5, <1>7
<1>9. \A i \in Identities : BlocksAt(i)' = BlocksAt(i) /\ GensAt(i)' = GensAt(i)
  BY <1>0, ArtsStay DEF disk
<1>10. Done(me)' = Done(me) /\ Gens(me)' = Gens(me)
  <2>1. PICK i \in Identities : i = me
    BY <1>1
  <2>2. Done(i)' = Done(i) /\ Gens(i)' = Gens(i)
    BY <1>9, SameScan
  <2>. QED  BY <1>0, <2>1, <2>2, OfMine
<1>11. Listed'
  <2>1. \A n \in 1 .. k : committed'[n] = BlockResult(me, n - 1, Chain(n - 1), committed'[n].epoch)
    <3>. TAKE n \in 1 .. k
    <3>1. committed'[n] \in BlocksAt(me) /\ committed'[n].block = n - 1
      BY <1>2, <1>7
    <3>. QED  BY <1>1, <3>1 DEF Chained
  <2>2. restored' = 0 .. Len(committed') - 1
    BY <1>2, <1>4, <1>8 DEF ResumableAt
  <2>. QED  BY <1>0, <1>8, <2>1, <2>2 DEF Listed
<1>12. blk' = -1
  <2>1. blk = -1
    BY <1>0 DEF ResumeInv
  <2>. QED  BY <1>0, <2>1
<1>13. Placed'
  <2>1. Done(me)' = 0 .. Len(committed') - 1
    BY <1>4, <1>8, <1>10 DEF ResumableAt
  <2>2. blk' < Len(committed')
    BY <1>5, <1>8, <1>12
  <2>3. pc' \in {"retire old", "load boundary"}
    BY <1>0
  <2>. QED  BY <2>1, <2>2, <2>3 DEF Placed, AfterBlock, InBlock
<1>14. Retained'
  BY <1>0 DEF Retained, InBlock, AfterBlock
<1>. QED  BY <1>0, <1>9, <1>11, <1>13, <1>14, StepKeepsCore DEF disk

\* As many blocks as are done.
LEMMA SameLength ==
    ASSUME NEW k \in Nat, NEW m \in Nat, 0 .. k - 1 = 0 .. m - 1
    PROVE  k = m
<1>1. CASE k < m
  <2>1. k \in 0 .. m - 1 /\ k \notin 0 .. k - 1
    BY <1>1
  <2>. QED  BY <2>1
<1>2. CASE m < k
  <2>1. m \in 0 .. k - 1 /\ m \notin 0 .. m - 1
    BY <1>2
  <2>. QED  BY <2>1
<1>. QED  BY <1>1, <1>2

\* The generations behind the results in the list.
LEMMA ListedGeneration ==
    ASSUME TypeOK, Core, pc \notin {"down", "discover"}, NEW n \in 1 .. Len(committed)
    PROVE  /\ n - 1 \in Blocks
           /\ committed[n] \in Artifact
           /\ committed[n].block = n - 1
           /\ ActivationsOf(committed[n]) = Act(me, n - 1)
           /\ Outputs(committed[n]) = Chain(n)
<1>1. Len(committed) \in 0 .. NumBlocks /\ NumBlocks \in Nat /\ me \in Identities
  BY CoreFacts
<1>2. n - 1 \in Blocks /\ n \in Nat /\ (n - 1) + 1 = n
  BY <1>1 DEF Blocks
<1>3. committed \in Seq(Artifact)
  BY DEF TypeOK
<1>4. committed[n] \in Artifact
  BY <1>3, ElementOfSeq
<1>5. committed[n].epoch \in Nat
  BY <1>4 DEF Artifact
<1>6. committed[n] = BlockResult(me, n - 1, Chain(n - 1), committed[n].epoch)
  BY DEF Core, Listed
<1>7. /\ BlockResult(me, n - 1, Chain(n - 1), committed[n].epoch).block = n - 1
      /\ ActivationsOf(BlockResult(me, n - 1, Chain(n - 1), committed[n].epoch)) = Act(me, n - 1)
      /\ Outputs(BlockResult(me, n - 1, Chain(n - 1), committed[n].epoch)) = Chain((n - 1) + 1)
  BY <1>1, <1>2, <1>5, Shapes
<1>. QED  BY <1>2, <1>4, <1>6, <1>7

\* Retiring a generation that is not the one behind the last block done.
LEMMA RetireKeepsScan ==
    ASSUME TypeOK, Core, NEW j \in Identities, NEW b \in Blocks, NEW next,
           Retire(Act(j, b), next),
           \A k \in Nat : Done(j) = 0 .. k - 1 => b # k - 1
    PROVE  /\ rotten' = {}
           /\ \A i \in Identities : Chained(i)'
           /\ Done(j)' = Done(j) /\ Gens(j)' = Gens(j) \ {b}
<1>1. Chained(j) /\ arts' = arts \ {Act(j, b)} /\ rotten' = {}
  BY DEF Core, Retire
<1>2. /\ \A i \in Identities : BlocksAt(i)' = BlocksAt(i)
      /\ \A i \in Identities \ {j} : GensAt(i)' = GensAt(i)
      /\ GensAt(j)' \subseteq GensAt(j)
      /\ Gens(j)' = Gens(j) \ {b}
  BY <1>1, RemovesGeneration
<1>3. BlocksAt(j)' = BlocksAt(j) /\ Done(j)' = Done(j)
  BY <1>2 DEF Done
<1>4. Chained(j)'
  <2>1. PICK k \in 0 .. NumBlocks : ResumableAt(j, k)
    BY <1>1 DEF Chained
  <2>2. k \in Nat /\ b # k - 1
    BY <2>1, RunAssumption DEF ResumableAt
  <2>3. ResumableAt(j, k)'
    BY <1>2, <1>3, <2>1, <2>2 DEF ResumableAt
  <2>. QED  BY <1>1, <1>2, <1>3, <2>3 DEF Chained
<1>5. \A i \in Identities \ {j} : Chained(i)'
  BY <1>2, SameScan DEF Core
<1>. QED  BY <1>1, <1>2, <1>3, <1>4, <1>5

LEMMA RetireOldKeepsCore ==
    ASSUME TypeOK, Core, RetireOld
    PROVE  Core'
<1>1. CASE Fail
  BY <1>1, FailKeepsCore DEF RetireOld
<1>2. CASE ~ Fail
  <2>. DEFINE n == MinOf(OldGenerations)
              m == Len(committed)
  <2>0. pc = "retire old" /\ Retire(ActivationsOf(committed[n]), "retire old") /\ OldGenerations # {}
    BY <1>2 DEF RetireOld
  <2>1. m \in 0 .. NumBlocks /\ NumBlocks \in Nat /\ me \in Identities /\ Listed /\ Placed
    BY <2>0, CoreFacts DEF Core
  <2>2. n \in 1 .. m - 1
    <3>1. OldGenerations \subseteq Nat /\ OldGenerations \subseteq 1 .. m - 1
      BY DEF OldGenerations
    <3>. QED  BY <2>0, <3>1, MinOfNaturals
  <2>. HIDE DEF n
  <2>3. n \in 1 .. m /\ n - 1 \in Blocks /\ ActivationsOf(committed[n]) = Act(me, n - 1)
    <3>1. n \in 1 .. m
      BY <2>1, <2>2
    <3>. QED  BY <2>0, <3>1, ListedGeneration
  <2>4. Done(me) = 0 .. m - 1
    BY <2>0, <2>1 DEF Placed, AfterBlock
  <2>5. \A k \in Nat : Done(me) = 0 .. k - 1 => n - 1 # k - 1
    BY <2>1, <2>2, <2>4, SameLength
  <2>6. PICK j \in Identities : j = me
    BY <2>1
  <2>7. Retire(Act(j, n - 1), "retire old")
    BY <2>0, <2>3, <2>6
  <2>8. \A k \in Nat : Done(j) = 0 .. k - 1 => n - 1 # k - 1
    BY <2>5, <2>6
  <2>9. PICK b \in Blocks : b = n - 1
    BY <2>3
  <2>10. /\ rotten' = {} /\ \A i \in Identities : Chained(i)'
         /\ Done(j)' = Done(j)
    BY <2>7, <2>8, <2>9, RetireKeepsScan
  <2>11. UNCHANGED <<status, me, committed, restored, blk, inputs>> /\ pc' = "retire old"
    BY <2>0 DEF Retire, resume, work
  <2>12. Done(me)' = Done(me)
    BY <2>6, <2>10, <2>11, OfMine
  <2>13. Listed' /\ Placed' /\ Retained'
    BY <2>0, <2>1, <2>11, <2>12 DEF Listed, Placed, Retained, InBlock, AfterBlock
  <2>14. Ended'
    BY <2>0, <2>11 DEF Core, Ended
  <2>. QED  BY <2>10, <2>11, <2>13, <2>14 DEF Core
<1>. QED  BY <1>1, <1>2

LEMMA RetirePreviousKeepsCore ==
    ASSUME TypeOK, JournalInv, Core, RetirePrevious
    PROVE  Core'
<1>. DEFINE m == Len(committed)
<1>0. pc = "retire previous" /\ Retire(ActivationsOf(Last(committed)), "advance")
  BY DEF RetirePrevious
<1>1. m \in 0 .. NumBlocks /\ NumBlocks \in Nat /\ me \in Identities /\ Listed /\ Placed /\ Retained
  BY <1>0, CoreFacts DEF Core
<1>2. m \in 1 .. m
  <2>1. committed # <<>> /\ committed \in Seq(Artifact)
    BY <1>0 DEF JournalInv, TypeOK
  <2>. QED  BY <2>1
<1>3. m - 1 \in Blocks /\ ActivationsOf(Last(committed)) = Act(me, m - 1)
  BY <1>0, <1>2, ListedGeneration DEF Last
<1>4. Done(me) = 0 .. m
  BY <1>0, <1>1 DEF Placed, AfterBlock
<1>5. \A k \in Nat : Done(me) = 0 .. k - 1 => m - 1 # k - 1
  <2>1. m + 1 \in Nat /\ Done(me) = 0 .. (m + 1) - 1
    BY <1>1, <1>4
  <2>. QED  BY <1>1, <2>1, SameLength
<1>6. PICK j \in Identities : j = me
  BY <1>1
<1>7. PICK b \in Blocks : b = m - 1
  BY <1>3
<1>8. Retire(Act(j, b), "advance") /\ \A k \in Nat : Done(j) = 0 .. k - 1 => b # k - 1
  BY <1>0, <1>3, <1>5, <1>6, <1>7
<1>9. /\ rotten' = {} /\ \A i \in Identities : Chained(i)'
      /\ Done(j)' = Done(j) /\ Gens(j)' = Gens(j) \ {b}
  BY <1>8, RetireKeepsScan
<1>10. UNCHANGED <<status, me, committed, restored, blk, inputs, fresh>> /\ pc' = "advance"
  BY <1>0 DEF Retire, resume, work
<1>11. Done(me)' = Done(me) /\ Gens(me)' = Gens(me) \ {m - 1}
  BY <1>6, <1>7, <1>9, <1>10, OfMine
<1>12. Listed'
  BY <1>1, <1>10, ListedStays
<1>13. Placed'
  <2>1. m \in Gens(me)'
    <3>1. m \in Gens(me)
      BY <1>0, <1>1 DEF Placed, AfterBlock
    <3>. QED  BY <1>1, <1>11, <3>1
  <2>. QED  BY <1>0, <1>1, <1>4, <1>10, <1>11, <2>1 DEF Placed, InBlock, AfterBlock
<1>14. Retained'
  <2>1. Rolling => Gens(me) \subseteq {m - 1, m}
    BY <1>0, <1>1 DEF Retained, InBlock, AfterBlock
  <2>. QED  BY <1>10, <1>11, <2>1 DEF Retained, InBlock, AfterBlock
<1>15. Ended'
  BY <1>0, <1>10 DEF Core, Ended
<1>. QED  BY <1>9, <1>12, <1>13, <1>14, <1>15 DEF Core

\* The next block is the first one that is not done.
LEMMA NextIsFirstOpen ==
    ASSUME TypeOK, Core, pc = "pick"
    PROVE  /\ Pending # {} => MinOf(Pending) = Len(committed) /\ Len(committed) \in Blocks
           /\ Pending = {} => Len(committed) = NumBlocks
<1>. DEFINE m == Len(committed)
<1>1. /\ m \in 0 .. NumBlocks /\ NumBlocks \in Nat /\ blk \in Int /\ blk < m
      /\ restored \subseteq 0 .. m - 1
      /\ \A b \in 0 .. m - 1 : b \in restored \/ b <= blk
  BY CoreFacts DEF Core, Listed, Placed
<1>. HIDE DEF m
<1>2. Pending = {b \in m .. NumBlocks - 1 : TRUE}
  BY <1>1 DEF Pending, Blocks
<1>3. CASE Pending = {}
  <2>1. m = NumBlocks
    BY <1>1, <1>2, <1>3
  <2>. QED  BY <1>3, <2>1 DEF m
<1>4. CASE Pending # {}
  <2>1. Pending \subseteq Nat
    BY <1>1, <1>2
  <2>2. MinOf(Pending) \in Pending /\ \A b \in Pending : MinOf(Pending) <= b
    BY <1>4, <2>1, MinOfNaturals
  <2>3. m \in Pending /\ m \in Blocks
    BY <1>1, <1>2, <1>4 DEF Blocks
  <2>4. MinOf(Pending) = m
    BY <1>1, <1>2, <2>2, <2>3
  <2>. QED  BY <1>4, <2>3, <2>4 DEF m
<1>. QED  BY <1>3, <1>4

\* The steps that neither publish nor remove results and generations.
LEMMA QuietStepsKeepCore ==
    ASSUME TypeOK, JournalInv, Core,
           RetiredOld \/ PickBlock \/ ReuseUnit \/ CommitUnit \/ JournalUnit \/ JournalBlock
    PROVE  Core'
<1>. DEFINE m == Len(committed)
<1>1. CASE RetiredOld
  <2>1. /\ pc = "retire old" /\ pc' = "load boundary" /\ OldGenerations = {}
        /\ UNCHANGED <<arts, rotten, status, me, committed, restored, blk, inputs>>
    BY <1>1 DEF RetiredOld, disk, resume, work
  <2>2. m \in 0 .. NumBlocks /\ NumBlocks \in Nat /\ me \in Identities /\ Listed /\ Placed
        /\ Chained(me) /\ Gens(me) \subseteq Blocks
    BY <2>1, CoreFacts, DoneAreBlocks DEF Core
  <2>3. Done(me)' = Done(me) /\ Gens(me)' = Gens(me)
    BY <2>1 DEF Done, Gens, BlocksAt, GensAt
  <2>4. \A n \in 1 .. m - 1 : n - 1 \notin Gens(me)
    <3>. TAKE n \in 1 .. m - 1
    <3>1. n \in 1 .. m
      BY <2>2
    <3>2. ActivationsOf(committed[n]) = Act(me, n - 1)
      BY <2>1, <3>1, ListedGeneration
    <3>3. Act(me, n - 1) \notin arts
      BY <2>1, <3>2 DEF OldGenerations
    <3>4. \A a \in GensAt(me) : a = Act(me, a.block) /\ a \in arts
      BY <2>2 DEF GensAt, Chained
    <3>. QED  BY <3>3, <3>4 DEF Gens
  <2>5. PICK k \in 0 .. NumBlocks : ResumableAt(me, k)
    BY <2>2 DEF Chained
  <2>6. k = m
    <3>1. Done(me) = 0 .. m - 1
      BY <2>1, <2>2 DEF Placed, AfterBlock
    <3>2. Done(me) = 0 .. k - 1
      BY <2>5 DEF ResumableAt
    <3>3. k \in Nat /\ m \in Nat
      BY <2>2
    <3>. QED  BY <3>1, <3>2, <3>3, SameLength
  <2>7. Rolling => Gens(me) \subseteq {m - 1, m}
    <3>. SUFFICES ASSUME Rolling PROVE Gens(me) \subseteq {m - 1, m}
      OBVIOUS
    <3>1. Gens(me) \subseteq {m - 2, m - 1} \/ Gens(me) \subseteq {m - 1, m}
      BY <2>5, <2>6 DEF ResumableAt
    <3>2. m - 2 \notin Gens(me)
      <4>1. CASE m >= 2
        <5>1. m - 1 \in 1 .. m - 1 /\ (m - 1) - 1 = m - 2
          BY <2>2, <4>1
        <5>. QED  BY <2>4, <5>1
      <4>2. CASE m < 2
        BY <2>2, <4>2 DEF Blocks
      <4>. QED  BY <2>2, <4>1, <4>2
    <3>. QED  BY <3>1, <3>2
  <2>8. Listed' /\ Placed' /\ Retained'
    BY <2>1, <2>2, <2>3, <2>7 DEF Listed, Placed, Retained, InBlock, AfterBlock
  <2>. QED  BY <2>1, <2>8, ArtsStay, StepKeepsCore
<1>2. CASE PickBlock
  <2>1. /\ pc = "pick" /\ pc' = "unit" /\ Pending # {} /\ blk' = MinOf(Pending)
        /\ UNCHANGED <<arts, rotten, status, me, committed, restored, inputs>>
    BY <1>2 DEF PickBlock, disk, resume
  <2>2. Listed /\ Placed /\ Retained /\ blk < m /\ blk \in Int /\ m \in Nat
    BY <2>1, CoreFacts DEF Core, Placed
  <2>3. blk' = m
    BY <2>1, NextIsFirstOpen
  <2>4. Done(me)' = Done(me) /\ Gens(me)' = Gens(me)
    BY <2>1 DEF Done, Gens, BlocksAt, GensAt
  <2>5. Listed'
    BY <2>1, <2>2, <2>3 DEF Listed
  <2>6. Placed' /\ Retained'
    BY <2>1, <2>2, <2>3, <2>4 DEF Placed, Retained, InBlock, AfterBlock
  <2>. QED  BY <2>1, <2>5, <2>6, ArtsStay, StepKeepsCore
<1>3. CASE ReuseUnit \/ JournalUnit \/ CommitUnit
  <2>1. /\ pc \in {"unit", "journal unit"} /\ pc' \in {"unit", "journal unit"}
        /\ UNCHANGED <<rotten, status, me, committed, restored, inputs, blk>>
    BY <1>3 DEF ReuseUnit, JournalUnit, CommitUnit, disk, resume
  <2>2. \A i \in Identities : BlocksAt(i)' = BlocksAt(i) /\ GensAt(i)' = GensAt(i)
    <3>1. CASE UNCHANGED arts
      BY <3>1, ArtsStay
    <3>2. CASE CommitUnit
      <4>1. arts' = arts \cup {fresh'} /\ fresh'.kind = "unit"
        BY <3>2 DEF CommitUnit, UnitResult
      <4>. QED  BY <4>1, AddsNeither
    <3>. QED  BY <1>3, <3>1, <3>2 DEF ReuseUnit, JournalUnit, disk
  <2>3. me \in Identities /\ Listed /\ Placed /\ Retained
    BY <2>1, CoreFacts DEF Core
  <2>4. Done(me)' = Done(me) /\ Gens(me)' = Gens(me)
    BY <2>1, <2>2, <2>3, OfMine, ScanStays
  <2>5. Listed' /\ Placed' /\ Retained'
    BY <2>1, <2>3, <2>4 DEF Listed, Placed, Retained, InBlock, AfterBlock
  <2>. QED  BY <2>1, <2>2, <2>5, StepKeepsCore
<1>4. CASE JournalBlock
  <2>1. /\ pc = "journal block" /\ pc' = IF Rolling /\ committed # <<>> THEN "retire previous" ELSE "advance"
        /\ UNCHANGED <<arts, rotten, status, me, committed, restored, inputs, blk, fresh>>
    BY <1>4 DEF JournalBlock, resume, work
  <2>2. Listed /\ Placed /\ Retained /\ m \in Nat /\ me \in Identities /\ Gens(me) \subseteq Blocks /\ Blocks \subseteq Nat
    BY <2>1, CoreFacts, DoneAreBlocks DEF Core
  <2>3. Done(me)' = Done(me) /\ Gens(me)' = Gens(me)
    BY <2>1 DEF Done, Gens, BlocksAt, GensAt
  <2>4. Listed' /\ Placed'
    BY <2>1, <2>2, <2>3 DEF Listed, Placed, InBlock, AfterBlock
  <2>5. Retained'
    <3>. SUFFICES ASSUME Rolling PROVE Retained'
      BY DEF Retained
    <3>1. Gens(me) \subseteq {m - 1, m}
      BY <2>1, <2>2 DEF Retained, InBlock, AfterBlock
    <3>2. CASE committed # <<>>
      BY <2>1, <2>3, <3>1, <3>2 DEF Retained, InBlock, AfterBlock
    <3>3. CASE committed = <<>>
      <4>1. m = 0
        BY <3>3
      <4>2. Gens(me) \subseteq {m}
        BY <2>2, <3>1, <4>1
      <4>. QED  BY <2>1, <2>3, <3>3, <4>2 DEF Retained, InBlock, AfterBlock
    <3>. QED  BY <3>2, <3>3
  <2>. QED  BY <2>1, <2>4, <2>5, ArtsStay, StepKeepsCore
<1>. QED  BY <1>1, <1>2, <1>3, <1>4

LEMMA LoadBoundaryKeepsCore ==
    ASSUME TypeOK, Core, LoadBoundary
    PROVE  Core'
<1>. DEFINE m == Len(committed)
<1>0. pc = "load boundary"
  BY DEF LoadBoundary
<1>1. CASE Fail
  BY <1>0, <1>1, FailKeepsCore
<1>2. CASE ~ Fail
  <2>1. /\ pc' = "pick"
        /\ UNCHANGED <<arts, rotten, status, me, committed, restored, blk>>
        /\ IF committed = <<>> THEN inputs' = <<>> ELSE inputs' = Outputs(Last(committed))
    BY <1>2 DEF LoadBoundary, disk, resume
  <2>2. m \in Nat /\ Listed /\ Placed /\ Retained
    BY <1>0, CoreFacts DEF Core
  <2>3. inputs' = Chain(m)
    <3>1. CASE committed = <<>>
      BY <2>1, <3>1, ChainGrows
    <3>2. CASE committed # <<>>
      <4>1. committed \in Seq(Artifact)
        BY DEF TypeOK
      <4>2. m \in 1 .. Len(committed)
        BY <3>2, <4>1
      <4>. QED  BY <1>0, <2>1, <3>2, <4>2, ListedGeneration DEF Last
    <3>. QED  BY <3>1, <3>2
  <2>4. Done(me)' = Done(me) /\ Gens(me)' = Gens(me)
    BY <2>1 DEF Done, Gens, BlocksAt, GensAt
  <2>5. Listed' /\ Placed' /\ Retained'
    BY <1>0, <2>1, <2>2, <2>3, <2>4 DEF Listed, Placed, Retained, InBlock, AfterBlock
  <2>. QED  BY <1>0, <2>1, <2>5, ArtsStay, StepKeepsCore
<1>. QED  BY <1>1, <1>2

LEMMA CommitActivationsKeepsCore ==
    ASSUME TypeOK, JournalInv, Core, CommitActivations
    PROVE  Core'
<1>. DEFINE m == Len(committed)
<1>0. /\ pc = "unit" /\ pc' = "block"
      /\ UNCHANGED <<rotten, status, me, committed, restored, inputs, blk>>
      /\ arts' = arts \cup {ActivationsOf(BlockResult(me, blk, inputs, 0))}
  BY DEF CommitActivations, resume, work
<1>1. me \in Identities /\ m \in Nat /\ Listed /\ Placed /\ Retained
  BY <1>0, CoreFacts DEF Core
<1>2. blk = m /\ inputs = Chain(m) /\ blk \in Blocks /\ Done(me) = 0 .. m - 1
  BY <1>0, <1>1 DEF Placed, JournalInv, InBlock, AfterBlock
<1>3. PICK j \in Identities : j = me
  BY <1>1
<1>4. PICK b \in Blocks : b = m
  BY <1>2
<1>5. arts' = arts \cup {Act(j, b)}
  BY <1>0, <1>2, <1>3, <1>4 DEF Act
<1>6. /\ \A i \in Identities : BlocksAt(i)' = BlocksAt(i)
      /\ \A i \in Identities \ {j} : GensAt(i)' = GensAt(i)
      /\ GensAt(j)' = GensAt(j) \cup {Act(j, b)}
      /\ Gens(j)' = Gens(j) \cup {b}
  BY <1>5, AddsGeneration
<1>7. Done(j)' = Done(j)
  BY <1>6 DEF Done
<1>8. Chained(j) /\ Act(j, b).block = b
  BY Shapes DEF Core
<1>9. Chained(j)'
  <2>1. PICK k \in 0 .. NumBlocks : ResumableAt(j, k)
    BY <1>8 DEF Chained
  <2>2. Done(j) = 0 .. k - 1 /\ Done(j) = 0 .. b - 1 /\ k \in Nat /\ b \in Nat
    BY <1>1, <1>2, <1>3, <1>4, <2>1, RunAssumption DEF ResumableAt
  <2>3. k = b
    BY <2>2, SameLength
  <2>4. Rolling => Gens(j) \subseteq {b - 1, b}
    BY <1>0, <1>1, <1>3, <1>4 DEF Retained, InBlock, AfterBlock
  <2>5. ResumableAt(j, k)'
    BY <1>6, <1>7, <2>1, <2>3, <2>4 DEF ResumableAt
  <2>6. /\ \A x \in BlocksAt(j)' : x = BlockResult(j, x.block, Chain(x.block), x.epoch)
        /\ \A x, y \in BlocksAt(j)' : x.block = y.block => x = y
    BY <1>6, <1>8 DEF Chained
  <2>7. \A x \in GensAt(j)' : x = Act(j, x.block)
    BY <1>6, <1>8 DEF Chained
  <2>. QED  BY <2>5, <2>6, <2>7 DEF Chained
<1>10. \A i \in Identities : Chained(i)'
  BY <1>6, <1>9, SameScan DEF Core
<1>11. Done(me)' = Done(me) /\ Gens(me)' = Gens(me) \cup {m}
  BY <1>0, <1>3, <1>4, <1>6, <1>7, OfMine
<1>12. Listed'
  BY <1>0, <1>1, ListedStays
<1>13. Placed' /\ Retained'
  BY <1>0, <1>1, <1>2, <1>11 DEF Placed, Retained, InBlock, AfterBlock
<1>. QED  BY <1>0, <1>10, <1>12, <1>13 DEF Core, Ended

LEMMA CommitBlockKeepsCore ==
    ASSUME TypeOK, JournalInv, Core, CommitBlock
    PROVE  Core'
<1>. DEFINE m == Len(committed)
<1>0. /\ pc = "block" /\ pc' = "journal block"
      /\ UNCHANGED <<rotten, status, me, committed, restored, inputs, blk>>
      /\ fresh' = BlockResult(me, blk, inputs, Epoch)
      /\ arts' = arts \cup {fresh'}
  BY DEF CommitBlock, resume
<1>1. me \in Identities /\ m \in Nat /\ Listed /\ Placed /\ Retained
  BY <1>0, CoreFacts DEF Core
<1>2. blk = m /\ inputs = Chain(m) /\ blk \in Blocks /\ Done(me) = 0 .. m - 1 /\ m \in Gens(me)
  BY <1>0, <1>1 DEF Placed, JournalInv, InBlock, AfterBlock
<1>3. PICK j \in Identities : j = me
  BY <1>1
<1>4. PICK b \in Blocks : b = m
  BY <1>2
<1>5. PICK e \in Nat : e = Epoch
  BY DEF TypeOK, Epoch
<1>6. fresh' = BlockResult(j, b, Chain(b), e)
  BY <1>0, <1>2, <1>3, <1>4, <1>5
<1>7. /\ \A i \in Identities : GensAt(i)' = GensAt(i)
      /\ \A i \in Identities \ {j} : BlocksAt(i)' = BlocksAt(i)
      /\ BlocksAt(j)' = BlocksAt(j) \cup {BlockResult(j, b, Chain(b), e)}
      /\ Done(j)' = Done(j) \cup {b}
  <2>1. arts' = arts \cup {BlockResult(j, b, Chain(b), e)}
    BY <1>0, <1>6
  <2>. QED  BY <2>1, AddsBlock
<1>8. Gens(j)' = Gens(j)
  BY <1>7 DEF Gens
<1>9. Chained(j) /\ b \in Nat /\ b \in Gens(j) /\ Done(j) = 0 .. b - 1
  BY <1>1, <1>2, <1>3, <1>4 DEF Core
<1>10. Chained(j)'
  <2>. DEFINE new == BlockResult(j, b, Chain(b), e)
  <2>1. new.block = b /\ new.epoch = e
    BY Shapes
  <2>2. new = BlockResult(j, new.block, Chain(new.block), new.epoch)
    BY <2>1
  <2>. HIDE DEF new
  <2>3. \A x \in BlocksAt(j) : x.block # b
    BY <1>9 DEF Done
  <2>4. BlocksAt(j)' = BlocksAt(j) \cup {new}
    BY <1>7 DEF new
  <2>5. /\ \A x \in BlocksAt(j)' : x = BlockResult(j, x.block, Chain(x.block), x.epoch)
        /\ \A x, y \in BlocksAt(j)' : x.block = y.block => x = y
    BY <1>9, <2>1, <2>2, <2>3, <2>4 DEF Chained
  <2>6. \A x \in GensAt(j)' : x = Act(j, x.block)
    BY <1>7, <1>9 DEF Chained
  <2>7. b + 1 \in 0 .. NumBlocks /\ Done(j)' = 0 .. (b + 1) - 1
    <3>1. b + 1 \in 0 .. NumBlocks
      BY RunAssumption DEF Blocks
    <3>2. (0 .. b - 1) \cup {b} = 0 .. (b + 1) - 1
      BY <1>9
    <3>. QED  BY <1>7, <1>9, <3>1, <3>2
  <2>8. Rolling => Gens(j) \subseteq {(b + 1) - 2, (b + 1) - 1}
    <3>1. Rolling => Gens(j) \subseteq {b - 1, b}
      BY <1>0, <1>1, <1>3, <1>4 DEF Retained, InBlock, AfterBlock
    <3>2. (b + 1) - 2 = b - 1 /\ (b + 1) - 1 = b
      BY <1>9
    <3>. QED  BY <3>1, <3>2
  <2>9. ResumableAt(j, b + 1)'
    BY <1>8, <1>9, <2>7, <2>8 DEF ResumableAt
  <2>. QED  BY <2>5, <2>6, <2>7, <2>9 DEF Chained
<1>11. \A i \in Identities : Chained(i)'
  BY <1>7, <1>10, SameScan DEF Core
<1>12. Done(me)' = 0 .. m /\ Gens(me)' = Gens(me)
  <2>1. Done(j)' = 0 .. b
    BY <1>7, <1>9
  <2>. QED  BY <1>0, <1>3, <1>4, <1>8, <2>1, OfMine
<1>13. fresh' = BlockResult(me, m, Chain(m), fresh'.epoch)
  <2>1. fresh'.epoch = e
    BY <1>6, Shapes
  <2>. QED  BY <1>3, <1>4, <1>6, <2>1
<1>14. Listed'
  BY <1>0, <1>1, ListedStays
<1>15. Placed' /\ Retained'
  BY <1>0, <1>1, <1>2, <1>12, <1>13 DEF Placed, Retained, InBlock, AfterBlock
<1>. QED  BY <1>0, <1>11, <1>14, <1>15 DEF Core, Ended

LEMMA AdvanceKeepsCore ==
    ASSUME TypeOK, JournalInv, Core, Advance
    PROVE  Core'
<1>. DEFINE m == Len(committed)
<1>0. /\ pc = "advance" /\ pc' = "pick"
      /\ UNCHANGED <<arts, rotten, status, me, restored, blk, fresh>>
      /\ committed' = Append(committed, fresh)
      /\ rotten = {} => inputs' = Outputs(fresh)
  BY DEF Advance, disk
<1>1. me \in Identities /\ m \in Nat /\ Listed /\ Placed /\ Retained /\ rotten = {}
  BY <1>0, CoreFacts DEF Core
<1>2. /\ blk = m /\ Done(me) = 0 .. m /\ m \in Gens(me)
      /\ fresh = BlockResult(me, m, Chain(m), fresh.epoch)
      /\ Rolling => Gens(me) \subseteq {m}
  BY <1>0, <1>1 DEF Placed, Retained, InBlock, AfterBlock
<1>3. fresh \in Artifact /\ fresh.epoch \in Nat /\ m \in Blocks
  <2>1. fresh \in arts
    BY <1>0 DEF JournalInv
  <2>2. fresh \in Artifact
    BY <2>1 DEF TypeOK
  <2>3. m \in Blocks
    BY <1>1, <1>2, DoneAreBlocks
  <2>. QED  BY <2>2, <2>3 DEF Artifact
<1>4. Outputs(fresh) = Chain(m + 1)
  BY <1>1, <1>2, <1>3, Shapes
<1>5. committed \in Seq(Artifact)
  BY DEF TypeOK
<1>6. /\ Len(committed') = m + 1
      /\ \A n \in 1 .. m : committed'[n] = committed[n]
      /\ committed'[m + 1] = fresh
  BY <1>0, <1>3, <1>5, AppendProperties
<1>7. Done(me)' = Done(me) /\ Gens(me)' = Gens(me)
  BY <1>0 DEF Done, Gens, BlocksAt, GensAt
<1>8. Listed'
  <2>1. \A n \in 1 .. m + 1 : committed'[n] = BlockResult(me, n - 1, Chain(n - 1), committed'[n].epoch)
    <3>. TAKE n \in 1 .. m + 1
    <3>1. CASE n \in 1 .. m
      BY <1>1, <1>6, <3>1 DEF Listed
    <3>2. CASE n = m + 1
      <4>1. n - 1 = m /\ committed'[n] = fresh
        BY <1>1, <1>6, <3>2
      <4>. QED  BY <1>2, <4>1
    <3>3. n \in 1 .. m \/ n = m + 1
      BY <1>1
    <3>. QED  BY <3>1, <3>2, <3>3
  <2>2. restored \subseteq 0 .. (m + 1) - 1
    BY <1>1 DEF Listed
  <2>3. \A b \in 0 .. (m + 1) - 1 : b \in restored \/ b <= blk
    BY <1>1, <1>2
  <2>. QED  BY <1>0, <1>6, <2>1, <2>2, <2>3 DEF Listed
<1>9. Placed'
  <2>1. Done(me)' = 0 .. (m + 1) - 1 /\ blk < m + 1 /\ inputs' = Chain(m + 1)
    BY <1>0, <1>1, <1>2, <1>4, <1>7
  <2>. QED  BY <1>0, <1>6, <2>1 DEF Placed, InBlock, AfterBlock
<1>10. Retained'
  <2>1. Rolling => Gens(me)' \subseteq {(m + 1) - 1, m + 1}
    BY <1>1, <1>2, <1>7
  <2>. QED  BY <1>0, <1>6, <2>1 DEF Retained, InBlock, AfterBlock
<1>. QED  BY <1>0, <1>8, <1>9, <1>10, ArtsStay, StepKeepsCore

LEMMA EndKeepsCore ==
    ASSUME TypeOK, JournalInv, Core, WriteReport \/ Finish \/ Die \/ DieInAppend
    PROVE  Core'
<1>. DEFINE m == Len(committed)
<1>1. CASE WriteReport
  <2>0. pc = "pick" /\ Pending = {}
    BY <1>1 DEF WriteReport
  <2>1. CASE Fail
    BY <2>0, <2>1, FailKeepsCore
  <2>2. CASE ~ Fail
    <3>1. /\ pc' = "finish" /\ arts' = arts \cup {Report(me, Epoch)}
          /\ UNCHANGED <<rotten, status, me, committed, restored, blk>>
      BY <1>1, <2>2 DEF WriteReport, resume, work
    <3>2. Report(me, Epoch).kind = "report"
      BY DEF Report
    <3>3. \A i \in Identities : BlocksAt(i)' = BlocksAt(i) /\ GensAt(i)' = GensAt(i)
      BY <3>1, <3>2, AddsNeither
    <3>4. me \in Identities /\ Listed /\ Placed /\ Retained /\ m \in Nat
          /\ Gens(me) \subseteq Blocks /\ m = NumBlocks
      BY <2>0, CoreFacts, DoneAreBlocks, NextIsFirstOpen DEF Core
    <3>5. Done(me)' = Done(me) /\ Gens(me)' = Gens(me)
      BY <3>1, <3>3, <3>4, OfMine, ScanStays
    <3>6. Rolling => Gens(me) \subseteq {m - 1}
      <4>1. Rolling => Gens(me) \subseteq {m - 1, m}
        BY <2>0, <3>4 DEF Retained
      <4>2. m \notin Gens(me)
        BY <3>4 DEF Blocks
      <4>. QED  BY <4>1, <4>2
    <3>7. Listed' /\ Placed' /\ Retained'
      BY <2>0, <3>1, <3>4, <3>5, <3>6 DEF Listed, Placed, Retained, InBlock, AfterBlock
    <3>. QED  BY <2>0, <3>1, <3>3, <3>7, StepKeepsCore
  <2>. QED  BY <2>1, <2>2
<1>2. CASE Finish
  <2>1. /\ pc = "finish" /\ pc' = "down" /\ status' = "completed" /\ UNCHANGED <<arts, rotten, me>>
    BY <1>2 DEF Finish, Forget, disk
  <2>2. me \in Identities /\ Placed /\ Retained /\ m \in Nat
    BY <2>1, CoreFacts DEF Core
  <2>3. m = NumBlocks /\ Done(me) = 0 .. m - 1 /\ (Rolling => Gens(me) \subseteq {m - 1})
    BY <2>1, <2>2 DEF Placed, Retained, AfterBlock
  <2>4. Done(me)' = Done(me) /\ Gens(me)' = Gens(me)
    BY <2>1 DEF Done, Gens, BlocksAt, GensAt
  <2>5. Ended'
    BY <2>1, <2>3, <2>4 DEF Ended, Blocks
  <2>6. rotten' = {} /\ \A i \in Identities : Chained(i)'
    BY <2>1, ArtsStay, ScanStays
  <2>. QED  BY <2>1, <2>5, <2>6 DEF Core
<1>3. CASE Die
  <2>1. status # "completed" /\ pc # "down"
    BY <1>3 DEF Die, Core, Ended
  <2>. QED  BY <1>3, <2>1, ForgetKeepsCore DEF Die, disk
<1>4. CASE DieInAppend
  <2>1. status # "completed" /\ pc # "down"
    BY <1>4 DEF DieInAppend, Core, Ended
  <2>. QED  BY <1>4, <2>1, ForgetKeepsCore DEF DieInAppend
<1>. QED  BY <1>1, <1>2, <1>3, <1>4

LEMMA StartKeepsCore ==
    ASSUME TypeOK, Core, NEW i \in Identities, Start(i)
    PROVE  Core'
<1>1. /\ status' = "running" /\ pc' = "discover" /\ UNCHANGED <<arts, rotten>>
  BY DEF Start, disk
<1>2. rotten' = {} /\ \A j \in Identities : Chained(j)'
  BY <1>1, ArtsStay, ScanStays
<1>. QED  BY <1>1, <1>2 DEF Core, Ended

LEMMA StutterKeepsCore ==
    ASSUME TypeOK, Core, UNCHANGED vars
    PROVE  Core'
<1>1. UNCHANGED <<arts, rotten, status, pc, me, committed, restored, blk, inputs, fresh>>
  BY DEF vars, disk, resume, work
<1>2. rotten' = {} /\ \A j \in Identities : Chained(j)'
  BY <1>1, ArtsStay, ScanStays
<1>3. Done(me)' = Done(me) /\ Gens(me)' = Gens(me)
  BY <1>1 DEF Done, Gens, BlocksAt, GensAt
<1>4. Listed' = Listed /\ Placed' = Placed /\ Retained' = Retained /\ Ended' = Ended
  BY <1>1, <1>3 DEF Listed, Placed, Retained, Ended
<1>. QED  BY <1>1, <1>2, <1>4 DEF Core

\* Damage only happens, it does not go away.
LEMMA DamageStays ==
    ASSUME TypeOK, [Next]_vars, Undamaged'
    PROVE  Undamaged /\ ~ Rot
<1>1. rots \in Nat
  BY RunAssumption DEF TypeOK
<1>2. ASSUME Rot PROVE FALSE
  BY <1>1, <1>2 DEF Rot, Undamaged
<1>3. CASE UNCHANGED rots
  BY <1>2, <1>3 DEF Undamaged
<1>4. [Next]_vars => Rot \/ UNCHANGED rots
  BY DEF Next, Step, vars, faults, Start, Discover, RetireOld, Retire, RetiredOld, LoadBoundary,
     PickBlock, ReuseUnit, CommitUnit, JournalUnit, CommitActivations, CommitBlock, JournalBlock,
     RetirePrevious, Advance, WriteReport, Finish, Fail, Die, DieInAppend, Idle
<1>. QED  BY <1>2, <1>3, <1>4

LEMMA NextKeepsChain ==
    ASSUME TypeOK, JournalInv, ResumeInv, ChainInv, [Next]_vars
    PROVE  ChainInv'
<1>. SUFFICES ASSUME Undamaged' PROVE Core'
  BY DEF ChainInv
<1>1. Core /\ ~ Rot
  BY DamageStays DEF ChainInv
<1>2. CASE \E i \in Identities : Start(i)
  BY <1>1, <1>2, StartKeepsCore
<1>3. CASE Step
  BY <1>1, <1>3, DiscoverKeepsCore, RetireOldKeepsCore, LoadBoundaryKeepsCore, QuietStepsKeepCore,
     CommitActivationsKeepsCore, CommitBlockKeepsCore, RetirePreviousKeepsCore, AdvanceKeepsCore,
     EndKeepsCore DEF Step
<1>4. CASE Die \/ DieInAppend
  BY <1>1, <1>4, EndKeepsCore
<1>5. CASE UNCHANGED vars
  BY <1>1, <1>5, StutterKeepsCore
<1>. QED  BY <1>1, <1>2, <1>3, <1>4, <1>5 DEF Next, Idle

LEMMA InitChain == Init => ChainInv
<1>. SUFFICES ASSUME Init PROVE Core
  BY DEF ChainInv
<1>1. ASSUME NEW i \in Identities PROVE Chained(i)
  <2>1. BlocksAt(i) = {} /\ GensAt(i) = {} /\ Done(i) = {} /\ Gens(i) = {}
    BY DEF Init, BlocksAt, GensAt, Done, Gens
  <2>2. 0 \in 0 .. NumBlocks /\ 0 .. 0 - 1 = {}
    BY RunAssumption
  <2>3. ResumableAt(i, 0)
    BY <2>1, <2>2 DEF ResumableAt
  <2>. QED  BY <2>1, <2>2, <2>3 DEF Chained
<1>. QED  BY <1>1 DEF Init, Core, Ended

\* What the disk holds of every identity, and what the process has made of it.
RunInv == ResumedInv /\ ChainInv

LEMMA RunInvInductive ==
    /\ Init => RunInv
    /\ RunInv /\ [Next]_vars => RunInv'
BY ResumedInvInductive, InitChain, NextKeepsChain DEF RunInv, ResumedInv

\* What the next process would discover: the blocks of the identity.
LEMMA FoundIsDone ==
    ASSUME TypeOK, JournalInv, Core, NEW i \in Identities
    PROVE  /\ OfKind("block", Discovered(i)) = BlocksAt(i)
           /\ BlocksOf(Discovered(i)) = Done(i)
<1>1. Discovered(i) = Results(i) /\ Intact = arts
  BY DiscoveredAreResults, CoreFacts
<1>. QED  BY <1>1 DEF OfKind, BlocksOf, Results, BlocksAt, Done

LEMMA CountOfDone ==
    ASSUME NEW k \in Nat
    PROVE  Cardinality(0 .. k - 1) = k
<1>1. Cardinality(0 .. k - 1) = IF 0 > k - 1 THEN 0 ELSE (k - 1) - 0 + 1
  <2>1. k - 1 \in Int
    OBVIOUS
  <2>. QED  BY <2>1, FS_Interval
<1>. QED  BY <1>1

\* Whatever a crash has cut short, the blocks a new process finds are the first
\* ones, and it can load the boundary behind them, so long as no file was damaged.
THEOREM EveryCrashIsResumable == Spec => []AlwaysResumable
<1>1. RunInv => AlwaysResumable
  <2>. SUFFICES ASSUME RunInv, Undamaged, NEW i \in Identities
                PROVE  LET found == BlocksOf(Discovered(i))
                       IN  /\ found = 0 .. Cardinality(found) - 1
                           /\ \A a \in OfKind("block", Discovered(i)) :
                                a.block = Cardinality(found) - 1 => ActivationsOf(a) \in Intact
    BY DEF AlwaysResumable
  <2>1. TypeOK /\ JournalInv /\ Core /\ Chained(i) /\ Intact = arts
    BY CoreFacts DEF RunInv, ResumedInv, ChainInv, Core
  <2>2. OfKind("block", Discovered(i)) = BlocksAt(i) /\ BlocksOf(Discovered(i)) = Done(i)
    BY <2>1, FoundIsDone
  <2>3. PICK k \in 0 .. NumBlocks : ResumableAt(i, k)
    BY <2>1 DEF Chained
  <2>4. Done(i) = 0 .. k - 1 /\ k \in Nat
    BY <2>3, RunAssumption DEF ResumableAt
  <2>5. Cardinality(Done(i)) = k
    BY <2>4, CountOfDone
  <2>6. ASSUME NEW a \in BlocksAt(i), a.block = k - 1
        PROVE  ActivationsOf(a) \in Intact
    <3>1. a \in Artifact /\ a.block \in Blocks /\ a.epoch \in Nat
      BY <2>1 DEF BlocksAt, TypeOK, Artifact
    <3>2. k > 0 /\ a = BlockResult(i, a.block, Chain(a.block), a.epoch)
      BY <2>1, <2>4, <2>6, <3>1, RunAssumption DEF Chained, Blocks
    <3>3. ActivationsOf(a) = Act(i, a.block)
      BY <3>1, <3>2, Shapes
    <3>4. PICK g \in GensAt(i) : g.block = k - 1
      BY <2>3, <3>2 DEF ResumableAt, Gens
    <3>5. g = Act(i, k - 1) /\ g \in arts
      BY <2>1, <3>4 DEF Chained, GensAt
    <3>. QED  BY <2>1, <2>6, <3>3, <3>5
  <2>. QED  BY <2>2, <2>4, <2>5, <2>6
<1>. QED  BY <1>1, RunInvInductive, PTL DEF Spec

\* Rolling retention leaves two generations at most, whatever a crash has cut
\* short, and one of a completed run.
THEOREM RetentionIsBounded == Spec => []AtMostTwoGenerations
<1>1. RunInv => AtMostTwoGenerations
  <2>. SUFFICES ASSUME RunInv, Rolling, Undamaged, NEW i \in Identities
                PROVE  /\ Cardinality(GensAt(i)) <= 2
                       /\ status = "completed" /\ me = i => Cardinality(GensAt(i)) = 1
    <3>1. \A j : {a \in OfKind("activations", arts) : a.identity = j} = GensAt(j)
      BY DEF OfKind, GensAt
    <3>. QED  BY <3>1 DEF AtMostTwoGenerations
  <2>1. TypeOK /\ Core /\ Chained(i)
    BY DEF RunInv, ResumedInv, ChainInv, Core
  <2>2. PICK k \in 0 .. NumBlocks : ResumableAt(i, k)
    BY <2>1 DEF Chained
  <2>3. PICK x, y : Gens(i) \subseteq {x, y}
    BY <2>2 DEF ResumableAt
  <2>4. GensAt(i) \subseteq {Act(i, x), Act(i, y)}
    BY <2>1, <2>3 DEF Chained, Gens
  <2>5. Cardinality(GensAt(i)) <= 2
    <3>1. /\ IsFiniteSet({Act(i, x)}) /\ Cardinality({Act(i, x)}) = 1
      BY FS_Singleton
    <3>2. /\ IsFiniteSet({Act(i, x)} \cup {Act(i, y)})
          /\ Cardinality({Act(i, x)} \cup {Act(i, y)}) <= 2
      BY <3>1, FS_AddElement
    <3>3. GensAt(i) \subseteq {Act(i, x)} \cup {Act(i, y)}
      BY <2>4
    <3>4. /\ IsFiniteSet(GensAt(i))
          /\ Cardinality(GensAt(i)) <= Cardinality({Act(i, x)} \cup {Act(i, y)})
      BY <3>2, <3>3, FS_Subset
    <3>5. /\ Cardinality(GensAt(i)) \in Nat
          /\ Cardinality({Act(i, x)} \cup {Act(i, y)}) \in Nat
      BY <3>2, <3>4, FS_CardinalityType
    <3>. QED  BY <3>2, <3>4, <3>5
  <2>6. ASSUME status = "completed", me = i PROVE Cardinality(GensAt(i)) = 1
    <3>1. Done(i) = 0 .. NumBlocks - 1 /\ Gens(i) \subseteq {NumBlocks - 1}
      BY <2>1, <2>6 DEF Core, Ended, Blocks
    <3>2. Done(i) = 0 .. k - 1 /\ k \in Nat /\ NumBlocks \in Nat /\ NumBlocks > 0
      BY <2>2, RunAssumption DEF ResumableAt
    <3>3. k = NumBlocks
      BY <3>1, <3>2, SameLength
    <3>4. NumBlocks - 1 \in Gens(i)
      BY <2>2, <3>2, <3>3 DEF ResumableAt
    <3>5. GensAt(i) = {Act(i, NumBlocks - 1)}
      BY <2>1, <3>1, <3>4 DEF Chained, Gens
    <3>. QED  BY <3>5, FS_Singleton
  <2>. QED  BY <2>5, <2>6
<1>. QED  BY <1>1, RunInvInductive, PTL DEF Spec

\* The model an uninterrupted run has after k blocks.
ModelOf(k) == [n \in 1 .. k |-> [block |-> n - 1, input |-> Chain(n - 1)]]

\* One block more, computed from the outputs of the one before it.
LEMMA ModelGrows ==
    ASSUME NEW k \in Nat
    PROVE  /\ Len(ModelOf(k)) = k
           /\ Progress!Boundary(ModelOf(k)) = Chain(k)
           /\ Append(ModelOf(k), [block |-> k, input |-> Chain(k)]) = ModelOf(k + 1)
<1>. DEFINE S == [block : Nat, input : Seq(Nat)]
<1>1. ModelOf(k) \in Seq(S) /\ Len(ModelOf(k)) = k
  <2>1. \A n \in 1 .. k : Chain(n - 1) \in Seq(Nat) /\ n - 1 \in Nat
    BY ChainGrows
  <2>2. \A n \in 1 .. k : [block |-> n - 1, input |-> Chain(n - 1)] \in S
    BY <2>1
  <2>. HIDE DEF S
  <2>. QED  BY <2>2 DEF ModelOf
<1>2. [block |-> k, input |-> Chain(k)] \in S
  BY ChainGrows
<1>3. Progress!Boundary(ModelOf(k)) = Chain(k)
  <2>1. CASE k = 0
    <3>1. ModelOf(k) = <<>>
      BY <1>1, <2>1, EmptySeq
    <3>. QED  BY <2>1, <3>1, ChainGrows DEF Progress!Boundary
  <2>2. CASE k > 0
    <3>1. ModelOf(k) # <<>>
      BY <1>1, <2>2, EmptySeq
    <3>2. ModelOf(k)[k] = [block |-> k - 1, input |-> Chain(k - 1)]
      BY <2>2 DEF ModelOf
    <3>3. k - 1 \in Nat /\ (k - 1) + 1 = k
      BY <2>2
    <3>4. Append(Chain(k - 1), k - 1) = Chain(k)
      BY <3>3, ChainGrows
    <3>. QED  BY <1>1, <3>1, <3>2, <3>4 DEF Progress!Boundary
  <2>. QED  BY <2>1, <2>2
<1>4. Append(ModelOf(k), [block |-> k, input |-> Chain(k)]) = ModelOf(k + 1)
  <2>. DEFINE next == [block |-> k, input |-> Chain(k)]
  <2>. HIDE DEF S
  <2>1. /\ Append(ModelOf(k), next) \in Seq(S) /\ Len(Append(ModelOf(k), next)) = k + 1
        /\ \A n \in 1 .. k : Append(ModelOf(k), next)[n] = ModelOf(k)[n]
        /\ Append(ModelOf(k), next)[k + 1] = next
    BY <1>1, <1>2, AppendProperties
  <2>2. ModelOf(k + 1) \in Seq(S) /\ Len(ModelOf(k + 1)) = k + 1
    <3>1. \A n \in 1 .. k + 1 : Chain(n - 1) \in Seq(Nat) /\ n - 1 \in Nat
      BY ChainGrows
    <3>2. \A n \in 1 .. k + 1 : [block |-> n - 1, input |-> Chain(n - 1)] \in S
      BY <3>1 DEF S
    <3>. QED  BY <3>2 DEF ModelOf
  <2>3. \A n \in 1 .. k : ModelOf(k + 1)[n] = ModelOf(k)[n]
    BY DEF ModelOf
  <2>4. ModelOf(k + 1)[k + 1] = next
    <3>1. (k + 1) - 1 = k
      OBVIOUS
    <3>. QED  BY <3>1 DEF ModelOf
  <2>5. \A n \in 1 .. k + 1 : Append(ModelOf(k), next)[n] = ModelOf(k + 1)[n]
    <3>1. \A n \in 1 .. k + 1 : n \in 1 .. k \/ n = k + 1
      OBVIOUS
    <3>. HIDE DEF next
    <3>. QED  BY <2>1, <2>3, <2>4, <3>1
  <2>. QED  BY <2>1, <2>2, <2>5, SeqEqual
<1>. QED  BY <1>1, <1>3, <1>4

\* The durable model of an identity is the model after the blocks it has done.
LEMMA DurableIsModel ==
    ASSUME TypeOK, JournalInv, Core, NEW i \in Identities, NEW k \in Nat, Done(i) = 0 .. k - 1
    PROVE  DurableModel(i) = ModelOf(k)
<1>1. OfKind("block", Discovered(i)) = BlocksAt(i) /\ BlocksOf(Discovered(i)) = Done(i)
  BY FoundIsDone
<1>2. Cardinality(BlocksOf(Discovered(i))) = k
  BY <1>1, CountOfDone
<1>3. \A n \in 1 .. k : BlockFound(i, n - 1).input = Chain(n - 1)
  <2>. TAKE n \in 1 .. k
  <2>1. n - 1 \in Done(i)
    OBVIOUS
  <2>2. BlockFound(i, n - 1) \in BlocksAt(i) /\ BlockFound(i, n - 1).block = n - 1
    BY <1>1, <2>1 DEF BlockFound, Done
  <2>3. BlockFound(i, n - 1) = BlockResult(i, n - 1, Chain(n - 1), BlockFound(i, n - 1).epoch)
    BY <2>2 DEF Core, Chained
  <2>4. \A e : BlockResult(i, n - 1, Chain(n - 1), e).input = Chain(n - 1)
    BY DEF BlockResult
  <2>. QED  BY <2>3, <2>4
<1>. QED  BY <1>2, <1>3 DEF DurableModel, ModelOf

\* Only a commit of a block result makes another block durable.
LEMMA DoneStays ==
    ASSUME TypeOK, JournalInv, Core, [Next]_vars, ~ Rot, ~ CommitBlock
    PROVE  \A i \in Identities : Done(i)' = Done(i)
<1>1. CASE UNCHANGED arts
  BY <1>1 DEF Done, BlocksAt
<1>2. ASSUME NEW x, x.kind # "block", arts' = arts \cup {x} \/ arts' = arts \ {x}
      PROVE  \A i \in Identities : Done(i)' = Done(i)
  <2>1. \A i \in Identities : BlocksAt(i)' = BlocksAt(i)
    BY <1>2 DEF BlocksAt
  <2>. QED  BY <2>1 DEF Done
<1>3. CASE RetireOld
  <2>1. OldGenerations \subseteq Nat /\ OldGenerations \subseteq DOMAIN committed
    BY DEF OldGenerations, TypeOK
  <2>2. MinOf(OldGenerations) \in OldGenerations
    BY <1>3, <2>1, MinOfNaturals DEF RetireOld
  <2>3. committed \in Seq(Artifact) /\ MinOf(OldGenerations) \in DOMAIN committed
    BY <2>1, <2>2 DEF TypeOK
  <2>4. committed[MinOf(OldGenerations)] \in Artifact
    BY <2>3
  <2>5. ActivationsOf(committed[MinOf(OldGenerations)]).kind # "block"
    BY <2>4, GenerationFields
  <2>6. UNCHANGED arts \/ arts' = arts \ {ActivationsOf(committed[MinOf(OldGenerations)])}
    BY <1>3 DEF RetireOld, Fail, Retire, disk
  <2>. QED  BY <1>1, <1>2, <2>5, <2>6
<1>4. CASE RetirePrevious
  <2>1. committed # <<>> /\ committed \in Seq(Artifact)
    BY <1>4 DEF RetirePrevious, JournalInv, TypeOK
  <2>2. Last(committed) \in Artifact
    BY <2>1 DEF Last
  <2>3. ActivationsOf(Last(committed)).kind # "block"
    BY <2>2, GenerationFields
  <2>. QED  BY <1>2, <1>4, <2>3 DEF RetirePrevious, Retire
<1>5. CASE CommitUnit
  <2>1. fresh'.kind # "block" /\ arts' = arts \cup {fresh'}
    BY <1>5 DEF CommitUnit, UnitResult
  <2>. QED  BY <1>2, <2>1
<1>6. CASE CommitActivations
  <2>1. pc = "unit" /\ blk \in Blocks /\ me \in Identities /\ inputs \in Streams
    <3>1. pc = "unit"
      BY <1>6 DEF CommitActivations
    <3>. QED  BY <3>1 DEF JournalInv, TypeOK
  <2>2. BlockResult(me, blk, inputs, 0) \in Artifact
    BY <2>1 DEF BlockResult, Artifact
  <2>3. ActivationsOf(BlockResult(me, blk, inputs, 0)).kind # "block"
    BY <2>2, GenerationFields
  <2>. QED  BY <1>2, <1>6, <2>3 DEF CommitActivations
<1>7. CASE WriteReport
  <2>1. UNCHANGED arts \/ arts' = arts \cup {Report(me, Epoch)}
    BY <1>7 DEF WriteReport, Fail, disk
  <2>2. Report(me, Epoch).kind # "block"
    BY DEF Report
  <2>. QED  BY <1>1, <1>2, <2>1, <2>2
<1>8. [Next]_vars =>
        \/ UNCHANGED arts \/ Rot \/ CommitBlock \/ RetireOld \/ RetirePrevious
        \/ CommitUnit \/ CommitActivations \/ WriteReport
  BY DEF Next, Step, vars, disk, Start, Discover, RetiredOld, LoadBoundary,
     PickBlock, ReuseUnit, JournalUnit, JournalBlock, Advance, Finish, Fail, Die, DieInAppend, Idle
<1>. QED  BY <1>1, <1>3, <1>4, <1>5, <1>6, <1>7, <1>8

\* Only Finish completes the run, and nothing starts a completed one again.
LEMMA CompletedStays ==
    ASSUME Core, [Next]_vars, ~ Finish
    PROVE  (status' = "completed") = (status = "completed")
<1>1. CASE UNCHANGED status
  BY <1>1
<1>2. ASSUME pc # "down", status' # "completed"
      PROVE  (status' = "completed") = (status = "completed")
  BY <1>2 DEF Core, Ended
<1>3. CASE \E i \in Identities : Start(i)
  BY <1>3 DEF Start
<1>4. CASE Fail /\ pc # "down"
  BY <1>2, <1>4 DEF Fail
<1>5. CASE Die \/ DieInAppend
  <2>1. pc # "down" /\ status' \in {status, "interrupted", "failed"}
    BY <1>5 DEF Die, DieInAppend
  <2>. QED  BY <1>1, <1>2, <2>1
<1>6. [Next]_vars =>
        \/ UNCHANGED status \/ (\E i \in Identities : Start(i)) \/ (Fail /\ pc # "down")
        \/ Die \/ DieInAppend \/ Finish
  BY DEF Next, Step, vars, Discover, RetireOld, Retire, RetiredOld, LoadBoundary,
     PickBlock, ReuseUnit, CommitUnit, JournalUnit, CommitActivations, CommitBlock, JournalBlock,
     RetirePrevious, Advance, WriteReport, Rot, Idle
<1>. QED  BY <1>1, <1>3, <1>4, <1>5, <1>6

LEMMA EachIsModel ==
    \A i \in Identities : \A k \in Nat :
        TypeOK /\ JournalInv /\ Core /\ Done(i) = 0 .. k - 1 => DurableModel(i) = ModelOf(k)
BY DurableIsModel

LEMMA EachIsModelNext ==
    (\A i \in Identities : \A k \in Nat :
        TypeOK /\ JournalInv /\ Core /\ Done(i) = 0 .. k - 1 => DurableModel(i) = ModelOf(k))'
BY EachIsModel, PTL

\* One step of the run, seen from outside.
LEMMA StepIsProgress ==
    ASSUME RunInv, RunInv', [Next]_vars, Undamaged'
    PROVE  Progress!Next \/ UNCHANGED Progress!vars
<1>. DEFINE model == [i \in Identities |-> DurableModel(i)]
<1>1. TypeOK /\ JournalInv /\ Core /\ ~ Rot /\ TypeOK' /\ JournalInv' /\ Core'
  BY DamageStays DEF RunInv, ResumedInv, ChainInv
<1>2. \A i \in Identities : \E k \in 0 .. NumBlocks : Done(i) = 0 .. k - 1 /\ DurableModel(i) = ModelOf(k)
  <2>. TAKE i \in Identities
  <2>1. PICK k \in 0 .. NumBlocks : Done(i) = 0 .. k - 1
    BY <1>1 DEF Core, Chained, ResumableAt
  <2>2. k \in Nat
    BY RunAssumption
  <2>3. DurableModel(i) = ModelOf(k)
    BY <1>1, <2>1, <2>2, DurableIsModel
  <2>. QED  BY <2>1, <2>3
<1>3. \A i \in Identities : \A k \in Nat : Done(i)' = 0 .. k - 1 => DurableModel(i)' = ModelOf(k)
  BY <1>1, EachIsModelNext
<1>4. ASSUME NEW i \in Identities, Done(i)' = Done(i)
      PROVE  DurableModel(i)' = DurableModel(i)
  <2>1. PICK k \in 0 .. NumBlocks : Done(i) = 0 .. k - 1 /\ DurableModel(i) = ModelOf(k)
    BY <1>2
  <2>. QED  BY <1>3, <1>4, <2>1, RunAssumption
<1>5. CASE CommitBlock
  <2>. DEFINE m == Len(committed)
  <2>0. /\ pc = "block" /\ status # "completed" /\ status' # "completed"
        /\ me' = me /\ arts' = arts \cup {BlockResult(me, blk, inputs, Epoch)}
    BY <1>1, <1>5 DEF CommitBlock, resume, Core, Ended
  <2>1. /\ me \in Identities /\ m \in Nat /\ blk = m /\ inputs = Chain(m) /\ Done(me) = 0 .. m - 1
        /\ blk \in Blocks
    BY <1>1, <2>0, CoreFacts DEF Core, Placed, JournalInv, InBlock, AfterBlock
  <2>2. PICK j \in Identities : j = me
    BY <2>1
  <2>3. PICK b \in Blocks : b = m
    BY <2>1
  <2>4. PICK e \in Nat : e = Epoch
    BY <1>1 DEF TypeOK, Epoch
  <2>5. arts' = arts \cup {BlockResult(j, b, Chain(b), e)}
    BY <2>0, <2>1, <2>2, <2>3, <2>4
  <2>6. /\ \A i \in Identities \ {j} : BlocksAt(i)' = BlocksAt(i)
        /\ Done(j)' = Done(j) \cup {b}
    BY <2>5, AddsBlock
  <2>7. \A i \in Identities \ {j} : Done(i)' = Done(i)
    BY <2>6 DEF Done
  <2>8. b \in Nat /\ b < NumBlocks /\ b + 1 \in Nat /\ Done(j) = 0 .. b - 1 /\ Done(j)' = 0 .. (b + 1) - 1
    <3>1. b \in Nat /\ b < NumBlocks /\ b + 1 \in Nat /\ Done(j) = 0 .. b - 1
      BY <2>1, <2>2, <2>3, RunAssumption DEF Blocks
    <3>2. (0 .. b - 1) \cup {b} = 0 .. (b + 1) - 1
      BY <3>1
    <3>. QED  BY <2>6, <3>1, <3>2
  <2>9. DurableModel(j) = ModelOf(b) /\ DurableModel(j)' = ModelOf(b + 1)
    BY <1>1, <1>3, <2>8, DurableIsModel
  <2>10. \A i \in Identities \ {j} : DurableModel(i)' = DurableModel(i)
    BY <1>4, <2>7
  <2>11. /\ Len(model[j]) = b
         /\ model'[j] = Append(model[j], [block |-> Len(model[j]), input |-> Progress!Boundary(model[j])])
    BY <2>8, <2>9, ModelGrows
  <2>12. model' = [model EXCEPT ![j] =
                      Append(@, [block |-> Len(@), input |-> Progress!Boundary(@)])]
    BY <2>10, <2>11
  <2>13. Progress!QuantizeNext(j)
    BY <2>0, <2>8, <2>11, <2>12 DEF Progress!QuantizeNext
  <2>. QED  BY <2>13 DEF Progress!Next
<1>6. CASE ~ CommitBlock
  <2>1. model' = model
    BY <1>1, <1>4, <1>6, DoneStays
  <2>2. CASE Finish
    <3>1. pc = "finish" /\ status # "completed" /\ status' = "completed"
      BY <1>1, <2>2 DEF Finish, Core, Ended
    <3>2. me \in Identities /\ Done(me) = 0 .. NumBlocks - 1 /\ NumBlocks \in Nat
      BY <1>1, <3>1, CoreFacts DEF Core, Placed, AfterBlock
    <3>3. DurableModel(me) = ModelOf(NumBlocks)
      BY <1>1, <3>2, EachIsModel
    <3>4. Len(model[me]) = NumBlocks
      BY <3>2, <3>3, ModelGrows
    <3>5. PICK j \in Identities : j = me
      BY <3>2
    <3>6. Progress!Complete(j)
      BY <2>1, <3>1, <3>4, <3>5 DEF Progress!Complete
    <3>. QED  BY <3>6 DEF Progress!Next
  <2>3. CASE ~ Finish
    BY <1>1, <2>1, <2>3, CompletedStays DEF Progress!vars
  <2>. QED  BY <2>2, <2>3
<1>. QED  BY <1>5, <1>6

\* However it is killed and resumed, a run is an uninterrupted one: every state
\* and every step of it, seen from outside, is one of QuantizationProgress.
THEOREM RunImplementsProgress == Spec => RunsLikeUninterrupted
<1>1. Init => Progress!Init
  <2>. SUFFICES ASSUME Init PROVE Progress!Init
    OBVIOUS
  <2>1. RunInv /\ Undamaged
    BY RunInvInductive DEF Init, Undamaged
  <2>2. \A i \in Identities : Done(i) = 0 .. 0 - 1
    BY DEF Init, Done, BlocksAt
  <2>3. \A i \in Identities : DurableModel(i) = ModelOf(0)
    BY <2>1, <2>2, EachIsModel DEF RunInv, ResumedInv, ChainInv
  <2>4. ModelOf(0) = <<>>
    BY DEF ModelOf
  <2>5. status # "completed"
    BY DEF Init
  <2>. QED  BY <2>3, <2>4, <2>5 DEF Progress!Init
<1>2. RunInv /\ RunInv' /\ [Next]_vars =>
        [Undamaged' => Progress!Next \/ UNCHANGED Progress!vars]_vars
  BY StepIsProgress
<1>. QED  BY <1>1, <1>2, RunInvInductive, PTL DEF Spec, RunsLikeUninterrupted
=============================================================================
