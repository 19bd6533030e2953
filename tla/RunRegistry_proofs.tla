-------------------------- MODULE RunRegistry_proofs --------------------------
(***************************************************************************)
(* Theorems about RunRegistry: for any number of programs, registrations,  *)
(* rebuilds, deaths and failed writes, a registered run is lost only in    *)
(* the three ways the model names, and the third only after a lock was     *)
(* taken from a program at work.                                           *)
(***************************************************************************)
EXTENDS RunRegistry, SequenceTheorems, FiniteSetTheorems, TLAPS

Files == Seq(Seq(Procs \X {1, 2})) \ {<<>>}

\* What is read from the registry is finite: Replace writes all of it back.
SeenIsFinite == \A p \in Procs : IsFiniteSet(seen[p])

\* A program has a file open where the code has.
OpenPlaces ==
    \A p \in Procs : opened[p] # 0 <=> call[p].at \in {"scanning", "reading", "appending"}

(***************************************************************************)
(* What keeps the records is that lines are only added behind the others,  *)
(* and that a replacement writes back all it saw.                          *)
(***************************************************************************)
RegistryInv == TypeOK /\ SeenIsFinite /\ OpenPlaces /\ RegistrationsSurvive

(***************************************************************************)
(* Until a lock is taken from a program at work, there is one such program,*)
(* and the lock is its own: nobody replaces the file it has open.          *)
(***************************************************************************)
LockIsTheirs == ~taken => \A p \in Procs : AtWork(p) => lock.by = p

LockKeepsTheFile ==
    ~taken => \A p \in Procs : AtWork(p) /\ opened[p] # 0 => opened[p] = Current

LockInv == LockIsTheirs /\ LockKeepsTheFile

-----------------------------------------------------------------------------
LEMMA RecordType ==
    ASSUME NEW p \in Procs
    PROVE  /\ Record(p) \in Seq(Procs \X {1, 2})
           /\ Len(Record(p)) = 2 /\ Record(p)[1] = <<p, 1>>
           /\ \A k \in 1 .. 2 : SubSeq(Record(p), 1, k) \in Seq(Procs \X {1, 2})
<1>1. <<p, 1>> \in Procs \X {1, 2} /\ <<p, 2>> \in Procs \X {1, 2}
  OBVIOUS
<1>2. Record(p) \in Seq(Procs \X {1, 2}) /\ Len(Record(p)) = 2 /\ Record(p)[1] = <<p, 1>>
  BY <1>1 DEF Record
<1>3. ASSUME NEW k \in 1 .. 2 PROVE SubSeq(Record(p), 1, k) \in Seq(Procs \X {1, 2})
  BY <1>2, SubSeqProperties
<1> QED BY <1>2, <1>3

\* A line is the record of one run at most.
LEMMA OneRecord ==
    ASSUME NEW p \in Procs, NEW q \in Procs, Record(p) = Record(q)
    PROVE  p = q
<1>1. <<p, 1>> = <<q, 1>>
  BY RecordType
<1> QED BY <1>1

LEMMA FewRecords ==
    ASSUME NEW line PROVE IsFiniteSet(HasRecord(line)) /\ HasRecord(line) \subseteq Procs
<1>1. CASE HasRecord(line) = {}
  BY <1>1, FS_EmptySet
<1>2. CASE HasRecord(line) # {}
  <2>1. PICK p \in Procs : line = Record(p)
    BY <1>2 DEF HasRecord
  <2>2. HasRecord(line) \subseteq {p}
    BY <2>1, OneRecord DEF HasRecord
  <2>3. IsFiniteSet({p})
    BY FS_Singleton
  <2> QED BY <2>2, <2>3, FS_Subset DEF HasRecord
<1> QED BY <1>1, <1>2

\* read_registry finds finitely many runs.
LEMMA RecordedIsFinite ==
    ASSUME NEW file \in Files
    PROVE  IsFiniteSet(RecordedIn(file)) /\ RecordedIn(file) \subseteq Procs
<1> DEFINE f == [i \in DOMAIN file |-> HasRecord(file[i])]
           T == {HasRecord(file[i]) : i \in DOMAIN file}
<1>1. DOMAIN file = 1 .. Len(file) /\ Len(file) \in Nat
  BY DEF Files
<1>2. IsFiniteSet(DOMAIN file)
  BY <1>1, FS_Interval
<1>3. f \in Surjection(DOMAIN file, T)
  BY DEF Surjection
<1>4. IsFiniteSet(T)
  BY <1>2, <1>3, FS_Surjection
<1>5. \A t \in T : IsFiniteSet(t) /\ t \subseteq Procs
  BY FewRecords
<1>6. RecordedIn(file) = UNION T
  BY DEF RecordedIn
<1>7. IsFiniteSet(UNION T)
  BY <1>4, <1>5, FS_UNION
<1> QED BY <1>5, <1>6, <1>7

\* An order of a finite set leaves none of it out.
LEMMA OrderHasAll ==
    ASSUME NEW S, IsFiniteSet(S),
           NEW order \in [1 .. Cardinality(S) -> S], IsInjective(order),
           NEW p \in S
    PROVE  \E i \in 1 .. Cardinality(S) : order[i] = p
<1>1. Cardinality(S) \in Nat
  BY FS_CardinalityType
<1>2. Cardinality(1 .. Cardinality(S)) = Cardinality(S)
  BY <1>1, FS_Interval
<1>3. order \in Injection(1 .. Cardinality(S), S)
  BY DEF Injection, IsInjective
<1>4. order \in Surjection(1 .. Cardinality(S), S)
  BY <1>2, <1>3, FS_Injection
<1> QED BY <1>4 DEF Surjection

-----------------------------------------------------------------------------
(***************************************************************************)
(* What is recorded when lines are added behind the others.                *)
(***************************************************************************)
LEMMA LastLine ==
    ASSUME NEW file \in Files
    PROVE  /\ Len(file) \in Nat \ {0} /\ DOMAIN file = 1 .. Len(file)
           /\ Len(file) \in DOMAIN file /\ Last(file) \in Seq(Procs \X {1, 2})
<1>1. Len(file) \in Nat /\ DOMAIN file = 1 .. Len(file) /\ Len(file) # 0
  BY EmptySeq DEF Files
<1>2. Len(file) \in DOMAIN file
  BY <1>1
<1>3. Last(file) \in Seq(Procs \X {1, 2})
  BY <1>2 DEF Last, Files
<1> QED BY <1>1, <1>2, <1>3

LEMMA PutLine ==
    ASSUME NEW file \in Files, NEW halves \in Seq(Procs \X {1, 2})
    PROVE  /\ Put(file, halves) \in Files /\ Len(Put(file, halves)) = Len(file)
           /\ Put(file, halves)[Len(file)] = Last(file) \o halves
           /\ \A i \in DOMAIN file : i # Len(file) => Put(file, halves)[i] = file[i]
<1>1. /\ Len(file) \in Nat \ {0} /\ DOMAIN file = 1 .. Len(file)
      /\ Len(file) \in DOMAIN file /\ Last(file) \in Seq(Procs \X {1, 2})
  BY LastLine
<1>2. Last(file) \o halves \in Seq(Procs \X {1, 2})
  BY <1>1, ConcatProperties
<1>3. Put(file, halves) \in Seq(Seq(Procs \X {1, 2})) /\ Len(Put(file, halves)) = Len(file)
  BY <1>1, <1>2, ExceptSeq DEF Put, Files
<1>4. Put(file, halves)[Len(file)] = Last(file) \o halves
  BY <1>1 DEF Put
<1>5. \A i \in DOMAIN file : i # Len(file) => Put(file, halves)[i] = file[i]
  BY <1>1 DEF Put
<1>6. Put(file, halves) # <<>>
  BY <1>1, <1>3, EmptySeq
<1> QED BY <1>3, <1>4, <1>5, <1>6 DEF Files

\* A line is closed by another, empty one.
LEMMA CloseLine ==
    ASSUME NEW file \in Seq(Seq(Procs \X {1, 2}))
    PROVE  /\ Append(file, <<>>) \in Files
           /\ Len(file) \in Nat /\ Len(Append(file, <<>>)) = Len(file) + 1
           /\ \A i \in 1 .. Len(file) : Append(file, <<>>)[i] = file[i]
<1>1. <<>> \in Seq(Procs \X {1, 2})
  OBVIOUS
<1>2. Len(file) \in Nat
  OBVIOUS
<1>3. /\ Append(file, <<>>) \in Seq(Seq(Procs \X {1, 2}))
      /\ Len(Append(file, <<>>)) = Len(file) + 1
      /\ \A i \in 1 .. Len(file) : Append(file, <<>>)[i] = file[i]
  BY <1>1, AppendProperties
<1>4. Append(file, <<>>) # <<>>
  BY <1>2, <1>3, EmptySeq
<1> QED BY <1>2, <1>3, <1>4 DEF Files

\* What the lines before the last one record stays.
LEMMA KeptBehind ==
    ASSUME NEW file \in Files, NEW next \in Files, Len(next) >= Len(file),
           \A i \in DOMAIN file : i # Len(file) => next[i] = file[i]
    PROVE  RecordedIn(file) \subseteq RecordedIn(next) \cup HasRecord(Last(file))
<1>1. /\ Len(file) \in Nat \ {0} /\ DOMAIN file = 1 .. Len(file)
      /\ Len(next) \in Nat /\ DOMAIN next = 1 .. Len(next)
  BY LastLine
<1>2. SUFFICES ASSUME NEW p \in RecordedIn(file), p \notin HasRecord(Last(file))
              PROVE  p \in RecordedIn(next)
  OBVIOUS
<1>3. PICK i \in DOMAIN file : p \in HasRecord(file[i])
  BY DEF RecordedIn
<1>4. i # Len(file)
  BY <1>2, <1>3 DEF Last
<1>5. next[i] = file[i] /\ i \in DOMAIN next
  BY <1>1, <1>4
<1>6. p \in Procs /\ next[i] = Record(p)
  BY <1>3, <1>5 DEF HasRecord
<1>7. p \in HasRecord(next[i])
  BY <1>6 DEF HasRecord
<1> QED BY <1>5, <1>7 DEF RecordedIn

-----------------------------------------------------------------------------
LEMMA CurrentFile ==
    ASSUME TypeOK
    PROVE  /\ files \in Seq(Files) /\ files # <<>>
           /\ Current \in Nat \ {0} /\ DOMAIN files = 1 .. Current
           /\ \A n \in 1 .. Current : files[n] \in Files
<1>1. files \in Seq(Files) /\ files # <<>>
  BY DEF TypeOK, Files
<1>2. Current \in Nat /\ DOMAIN files = 1 .. Current /\ Current # 0
  BY <1>1, EmptySeq DEF Current
<1>3. ASSUME NEW n \in 1 .. Current PROVE files[n] \in Files
  BY <1>1, <1>2, <1>3 DEF Current
<1> QED BY <1>1, <1>2, <1>3

\* A file is written, be it the registry or one that has been replaced.
LEMMA Written ==
    ASSUME TypeOK, NEW n \in 1 .. Current, NEW new \in Files,
           files' = [files EXCEPT ![n] = new]
    PROVE  /\ files' \in Seq(Files) /\ files' # <<>> /\ Current' = Current
           /\ n # Current => Recorded' = Recorded
           /\ n = Current => Recorded' = RecordedIn(new)
<1>1. /\ files \in Seq(Files) /\ files # <<>>
      /\ Current \in Nat \ {0} /\ DOMAIN files = 1 .. Current
  BY CurrentFile
<1>2. files' \in Seq(Files) /\ Len(files') = Current
  BY <1>1, ExceptSeq DEF Current
<1>3. Current' = Current
  BY <1>2 DEF Current
<1>4. files' # <<>>
  BY <1>1, <1>2, EmptySeq
<1>5. Recorded' = RecordedIn(files'[Current])
  BY <1>3 DEF Recorded
<1>6. n # Current => files'[Current] = files[Current]
  BY <1>1
<1>7. n = Current => files'[Current] = new
  BY <1>1
<1> QED BY <1>2, <1>3, <1>4, <1>5, <1>6, <1>7 DEF Recorded

\* A program that has a file open has one of the files.
LEMMA OpenedOne ==
    ASSUME RegistryInv, NEW p \in Procs,
           call[p].at \in {"scanning", "reading", "appending"}
    PROVE  opened[p] \in 1 .. Current /\ files[opened[p]] \in Files
<1>1. opened[p] \in 0 .. Current /\ opened[p] # 0
  BY DEF RegistryInv, TypeOK, OpenPlaces
<1>2. Current \in Nat \ {0} /\ \A n \in 1 .. Current : files[n] \in Files
  BY CurrentFile DEF RegistryInv
<1>3. opened[p] \in 1 .. Current
  BY <1>1, <1>2
<1> QED BY <1>2, <1>3

\* Only a program whose lock was taken has a replaced file open under the lock.
LEMMA OnlyAstray ==
    ASSUME RegistryInv, LockInv, NEW p \in Procs,
           call[p].at \in {"reading", "appending"}, opened[p] # Current
    PROVE  Astray(p) = {p}
<1>1. AtWork(p) /\ opened[p] # 0
  BY DEF AtWork, RegistryInv, OpenPlaces
<1>2. taken
  BY <1>1 DEF LockInv, LockKeepsTheFile
<1> QED BY <1>2 DEF Astray

-----------------------------------------------------------------------------
LEMMA AppendRecord_ ==
    ASSUME RegistryInv, LockInv, NEW p \in Procs, AppendRecord(p)
    PROVE  /\ files' \in Seq(Files) /\ files' # <<>> /\ Current' = Current
           /\ RegistrationsSurvive'
<1>1. TypeOK /\ registered \subseteq Recorded \cup dropped
  BY DEF RegistryInv, RegistrationsSurvive
<1>2. At(p, "appending") /\ registered' = registered \cup {p}
  BY DEF AppendRecord
<1>3. PICK n \in 1 .. Current, file \in Files : n = opened[p] /\ file = files[n]
  BY <1>2, OpenedOne DEF At
<1>4. PICK put \in Files : put = Put(file, Record(p))
  BY PutLine, RecordType
<1>5. PICK new : new = Append(put, <<>>)
  OBVIOUS
<1>6. /\ Len(put) = Len(file) /\ put[Len(file)] = Last(file) \o Record(p)
      /\ \A i \in DOMAIN file : i # Len(file) => put[i] = file[i]
  BY <1>4, PutLine, RecordType
<1>7. /\ Len(file) \in Nat \ {0} /\ DOMAIN file = 1 .. Len(file)
      /\ Last(file) \in Seq(Procs \X {1, 2})
  BY LastLine
<1>8. put \in Seq(Seq(Procs \X {1, 2}))
  BY DEF Files
<1>9. /\ new \in Files /\ Len(new) = Len(file) + 1
      /\ \A i \in 1 .. Len(file) : new[i] = put[i]
  BY <1>5, <1>6, <1>8, CloseLine
<1>10. files' = [files EXCEPT ![n] = new]
  BY <1>3, <1>4, <1>5 DEF AppendRecord
<1>11. /\ files' \in Seq(Files) /\ files' # <<>> /\ Current' = Current
       /\ n # Current => Recorded' = Recorded
       /\ n = Current => Recorded' = RecordedIn(new)
  BY <1>1, <1>9, <1>10, Written
<1>12. RecordedIn(file) \subseteq RecordedIn(new) \cup HasRecord(Last(file))
  <2>1. Len(new) >= Len(file)
    BY <1>7, <1>9
  <2>2. \A i \in DOMAIN file : i # Len(file) => new[i] = file[i]
    BY <1>6, <1>7, <1>9
  <2> QED BY <1>9, <2>1, <2>2, KeptBehind
<1>13. CASE n # Current
  <2>1. Astray(p) = {p}
    BY <1>2, <1>3, <1>13, OnlyAstray DEF At
  <2>2. dropped' = dropped \cup {p}
    BY <1>3, <1>13, <2>1 DEF AppendRecord
  <2>3. registered' \subseteq Recorded' \cup dropped'
    BY <1>1, <1>2, <1>11, <1>13, <2>2
  <2> QED BY <1>11, <2>3 DEF RegistrationsSurvive
<1>14. CASE n = Current /\ Last(file) = <<>>
  <2>1. dropped' = dropped \ {p}
    BY <1>3, <1>14 DEF AppendRecord
  <2>2. Recorded = RecordedIn(file) /\ Recorded' = RecordedIn(new)
    BY <1>3, <1>11, <1>14 DEF Recorded
  <2>3. new[Len(file)] = Record(p)
    BY <1>6, <1>7, <1>9, <1>14, RecordType, ConcatEmptySeq
  <2>4. p \in HasRecord(new[Len(file)])
    BY <2>3 DEF HasRecord
  <2>5. Len(file) \in DOMAIN new
    BY <1>7, <1>9 DEF Files
  <2>6. p \in RecordedIn(new)
    BY <2>4, <2>5 DEF RecordedIn
  <2>7. HasRecord(Last(file)) = {}
    BY <1>14, RecordType, EmptySeq DEF HasRecord
  <2>8. registered' \subseteq Recorded' \cup dropped'
    BY <1>1, <1>2, <1>12, <2>1, <2>2, <2>6, <2>7
  <2> QED BY <1>11, <2>8 DEF RegistrationsSurvive
<1>15. CASE n = Current /\ Last(file) # <<>>
  <2>1. dropped' = dropped \cup {p} \cup HasRecord(Last(file))
    BY <1>3, <1>15 DEF AppendRecord
  <2>2. Recorded = RecordedIn(file) /\ Recorded' = RecordedIn(new)
    BY <1>3, <1>11, <1>15 DEF Recorded
  <2>3. registered' \subseteq Recorded' \cup dropped'
    BY <1>1, <1>2, <1>12, <2>1, <2>2
  <2> QED BY <1>11, <2>3 DEF RegistrationsSurvive
<1> QED BY <1>13, <1>14, <1>15

LEMMA TearAppend_ ==
    ASSUME RegistryInv, NEW p \in Procs, TearAppend(p)
    PROVE  /\ files' \in Seq(Files) /\ files' # <<>> /\ Current' = Current
           /\ RegistrationsSurvive'
<1>1. TypeOK /\ registered \subseteq Recorded \cup dropped
  BY DEF RegistryInv, RegistrationsSurvive
<1>2. At(p, "appending") /\ registered' = registered
  BY DEF TearAppend
<1>3. PICK n \in 1 .. Current, file \in Files : n = opened[p] /\ file = files[n]
  BY <1>2, OpenedOne DEF At
<1>4. PICK k \in 1 .. 2 : files' = [files EXCEPT ![n] = Put(file, SubSeq(Record(p), 1, k))]
  BY <1>3 DEF TearAppend
<1>5. PICK new \in Files : new = Put(file, SubSeq(Record(p), 1, k))
  BY PutLine, RecordType
<1>6. /\ Len(new) = Len(file)
      /\ \A i \in DOMAIN file : i # Len(file) => new[i] = file[i]
  BY <1>5, PutLine, RecordType
<1>7. /\ files' \in Seq(Files) /\ files' # <<>> /\ Current' = Current
      /\ n # Current => Recorded' = Recorded
      /\ n = Current => Recorded' = RecordedIn(new)
  BY <1>1, <1>4, <1>5, Written
<1>8. Len(new) >= Len(file)
  BY <1>6, LastLine
<1>9. RecordedIn(file) \subseteq RecordedIn(new) \cup HasRecord(Last(file))
  BY <1>6, <1>8, KeptBehind
<1>10. CASE n # Current
  <2>1. dropped' = dropped
    BY <1>3, <1>10 DEF TearAppend
  <2>2. registered' \subseteq Recorded' \cup dropped'
    BY <1>1, <1>2, <1>7, <1>10, <2>1
  <2> QED BY <1>7, <2>2 DEF RegistrationsSurvive
<1>11. CASE n = Current
  <2>1. dropped' = dropped \cup HasRecord(Last(file))
    BY <1>3, <1>11 DEF TearAppend
  <2>2. Recorded = RecordedIn(file) /\ Recorded' = RecordedIn(new)
    BY <1>3, <1>7, <1>11 DEF Recorded
  <2>3. registered' \subseteq Recorded' \cup dropped'
    BY <1>1, <1>2, <1>9, <2>1, <2>2
  <2> QED BY <1>7, <2>3 DEF RegistrationsSurvive
<1> QED BY <1>10, <1>11

\* The whole file is written again: what was seen is in it.
LEMMA Replace_ ==
    ASSUME RegistryInv, NEW p \in Procs, Replace(p)
    PROVE  /\ files' \in Seq(Files) /\ files' # <<>> /\ Current' = Current + 1
           /\ RegistrationsSurvive'
<1> DEFINE S == seen[p]
           n == Cardinality(S)
<1>1. IsFiniteSet(S) /\ S \subseteq Procs
  BY DEF RegistryInv, SeenIsFinite, TypeOK
<1>2. n \in Nat
  BY <1>1, FS_CardinalityType
<1>3. PICK order \in [1 .. n -> S] :
        /\ IsInjective(order)
        /\ files' = Append(files, Append([i \in DOMAIN order |-> Record(order[i])], <<>>))
  BY DEF Replace
<1>4. PICK rewritten : rewritten = [i \in 1 .. n |-> Record(order[i])]
  OBVIOUS
<1>5. \A i \in 1 .. n : order[i] \in Procs
  BY <1>1, <1>3
<1>6. \A i \in 1 .. n : Record(order[i]) \in Seq(Procs \X {1, 2})
  BY <1>5, RecordType
<1>7. rewritten \in Seq(Seq(Procs \X {1, 2})) /\ Len(rewritten) = n
  BY <1>2, <1>4, <1>6
<1>8. PICK new : new = Append(rewritten, <<>>)
  OBVIOUS
<1>9. /\ new \in Files /\ Len(new) = n + 1
      /\ \A i \in 1 .. n : new[i] = rewritten[i]
  BY <1>7, <1>8, CloseLine
<1>10. files' = Append(files, new)
  BY <1>3, <1>4, <1>8
<1>11. files \in Seq(Files) /\ Current \in Nat \ {0}
  BY CurrentFile DEF RegistryInv
<1>12. files' \in Seq(Files) /\ Len(files') = Current + 1 /\ files'[Current + 1] = new
  BY <1>9, <1>10, <1>11, AppendProperties DEF Current
<1>13. Current' = Current + 1
  BY <1>12 DEF Current
<1>14. files' # <<>>
  BY <1>11, <1>12, EmptySeq
<1>15. Recorded' = RecordedIn(new)
  BY <1>12, <1>13 DEF Recorded
<1>16. ASSUME NEW q \in S PROVE q \in RecordedIn(new)
  <2>1. PICK i \in 1 .. n : order[i] = q
    BY <1>1, <1>3, OrderHasAll
  <2>2. new[i] = Record(q) /\ q \in Procs
    BY <1>1, <1>4, <1>9, <2>1
  <2>3. i \in DOMAIN new
    BY <1>2, <1>9 DEF Files
  <2>4. q \in HasRecord(new[i])
    BY <2>2 DEF HasRecord
  <2> QED BY <2>3, <2>4 DEF RecordedIn
<1>17. registered' = registered /\ dropped' = dropped \cup (registered \ S)
  BY DEF Replace
<1>18. registered' \subseteq Recorded' \cup dropped'
  BY <1>15, <1>16, <1>17
<1> QED BY <1>12, <1>13, <1>14, <1>18 DEF RegistrationsSurvive

\* A record is found in the registry, or in a file that has been replaced.
LEMMA LookUp_ ==
    ASSUME RegistryInv, LockInv, NEW p \in Procs, LookUp(p)
    PROVE  RegistrationsSurvive'
<1>1. At(p, "reading") /\ files' = files
  BY DEF LookUp
<1>2. Recorded' = Recorded
  BY <1>1 DEF Recorded, Current
<1>3. registered \subseteq Recorded \cup dropped
  BY DEF RegistryInv, RegistrationsSurvive
<1>4. CASE p \in ReadRegistry(p) /\ opened[p] = Current
  <2>1. p \in Recorded
    BY <1>4 DEF ReadRegistry, Recorded
  <2>2. registered' = registered \cup {p} /\ dropped' = dropped \ {p}
    BY <1>4 DEF LookUp
  <2> QED BY <1>2, <1>3, <2>1, <2>2 DEF RegistrationsSurvive
<1>5. CASE p \in ReadRegistry(p) /\ opened[p] # Current
  <2>1. Astray(p) = {p}
    BY <1>1, <1>5, OnlyAstray DEF At
  <2>2. registered' = registered \cup {p} /\ dropped' = dropped \cup {p}
    BY <1>5, <2>1 DEF LookUp
  <2> QED BY <1>2, <1>3, <2>2 DEF RegistrationsSurvive
<1>6. CASE p \notin ReadRegistry(p)
  <2>1. registered' = registered /\ dropped' = dropped
    BY <1>6 DEF LookUp
  <2> QED BY <1>2, <1>3, <2>1 DEF RegistrationsSurvive
<1> QED BY <1>4, <1>5, <1>6

-----------------------------------------------------------------------------
Calls == [does : {"nothing", "register", "rebuild"},
          at : {"out", "scanning", "asking", "looking", "unlinking", "writing", "locked",
                "reading", "missing", "appending", "releasing", "dead"}]

Locks == {Absent} \cup [by : Procs, written : BOOLEAN, old : BOOLEAN]

\* What a step does to the variables beside the files.
Frame ==
    /\ lock' \in Locks
    /\ seen' \in [Procs -> SUBSET Procs] /\ SeenIsFinite'
    /\ registered' \subseteq Procs /\ dropped' \subseteq Procs /\ taken' \in BOOLEAN
    /\ calls' \in 0 .. MaxCalls /\ faults' \in 0 .. MaxFaults

\* Where the programs are, and what they have open.
Placed == call' \in [Procs -> Calls] /\ opened' \in [Procs -> 0 .. Current'] /\ OpenPlaces'

LEMMA Together ==
    ASSUME Frame, Placed, files' \in Seq(Files), files' # <<>>, RegistrationsSurvive'
    PROVE  RegistryInv'
BY DEF Frame, Placed, RegistryInv, TypeOK, Files, Calls, Locks

\* A step that leaves the files and what is registered alone.
Elsewhere == files' = files /\ registered' = registered /\ dropped' = dropped

LEMMA ElsewhereSurvives ==
    ASSUME RegistryInv, Elsewhere
    PROVE  /\ files' \in Seq(Files) /\ files' # <<>> /\ Current' = Current
           /\ RegistrationsSurvive'
<1>1. Recorded' = Recorded /\ Current' = Current
  BY DEF Elsewhere, Recorded, Current
<1>2. files \in Seq(Files) /\ files # <<>>
  BY CurrentFile DEF RegistryInv
<1> QED BY <1>1, <1>2 DEF Elsewhere, RegistryInv, RegistrationsSurvive

(***************************************************************************)
(* One program moves on: with the files as they are, with the current one  *)
(* opened, or with none open.                                              *)
(***************************************************************************)
LEMMA Moves ==
    ASSUME RegistryInv, NEW p \in Procs, NEW c \in Calls,
           call' = [call EXCEPT ![p] = c],
           Current' \in Nat, Current' >= Current,
           \/ /\ opened' = [opened EXCEPT ![p] = 0]
              /\ c.at \notin {"scanning", "reading", "appending"}
           \/ /\ opened' = [opened EXCEPT ![p] = Current]
              /\ c.at \in {"scanning", "reading", "appending"}
           \/ /\ opened' = opened
              /\ c.at \notin {"scanning", "reading", "appending"}
              /\ call[p].at \notin {"scanning", "reading", "appending"}
    PROVE  Placed
<1>1. /\ call \in [Procs -> Calls] /\ opened \in [Procs -> 0 .. Current]
      /\ Current \in Nat \ {0}
  BY CurrentFile DEF RegistryInv, TypeOK, Calls
<1>2. OpenPlaces
  BY DEF RegistryInv
<1>3. call' \in [Procs -> Calls] /\ call'[p] = c /\ \A q \in Procs \ {p} : call'[q] = call[q]
  BY <1>1
<1>4. CASE opened' = [opened EXCEPT ![p] = 0] /\ c.at \notin {"scanning", "reading", "appending"}
  <2>1. opened'[p] = 0 /\ \A q \in Procs \ {p} : opened'[q] = opened[q]
    BY <1>1, <1>4
  <2>2. opened' \in [Procs -> 0 .. Current']
    BY <1>1, <1>4
  <2>3. OpenPlaces'
    BY <1>2, <1>3, <1>4, <2>1 DEF OpenPlaces
  <2> QED BY <1>3, <2>2, <2>3 DEF Placed
<1>5. CASE opened' = [opened EXCEPT ![p] = Current] /\ c.at \in {"scanning", "reading", "appending"}
  <2>1. opened'[p] = Current /\ Current # 0 /\ \A q \in Procs \ {p} : opened'[q] = opened[q]
    BY <1>1, <1>5
  <2>2. opened' \in [Procs -> 0 .. Current']
    BY <1>1, <1>5
  <2>3. OpenPlaces'
    BY <1>2, <1>3, <1>5, <2>1 DEF OpenPlaces
  <2> QED BY <1>3, <2>2, <2>3 DEF Placed
<1>6. CASE /\ opened' = opened
           /\ c.at \notin {"scanning", "reading", "appending"}
           /\ call[p].at \notin {"scanning", "reading", "appending"}
  <2>1. opened' \in [Procs -> 0 .. Current']
    BY <1>1, <1>6
  <2>2. OpenPlaces'
    BY <1>2, <1>3, <1>6 DEF OpenPlaces
  <2> QED BY <1>3, <2>1, <2>2 DEF Placed
<1> QED BY <1>4, <1>5, <1>6

\* GoTo and Leave as a new value of the program's call.
LEMMA Going ==
    ASSUME TypeOK, NEW p \in Procs,
           NEW place \in {"out", "scanning", "asking", "looking", "unlinking", "writing", "locked",
                          "reading", "missing", "appending", "releasing", "dead"},
           GoTo(p, place)
    PROVE  \E c \in Calls : c.at = place /\ call' = [call EXCEPT ![p] = c]
<1>1. call \in [Procs -> Calls]
  BY DEF TypeOK, Calls
<1>2. PICK c : c = [call[p] EXCEPT !.at = place]
  OBVIOUS
<1>3. c \in Calls /\ c.at = place
  BY <1>1, <1>2 DEF Calls
<1>4. call' = [call EXCEPT ![p] = c]
  BY <1>2 DEF GoTo
<1> QED BY <1>3, <1>4

LEMMA Leaving ==
    ASSUME NEW p \in Procs, Leave(p)
    PROVE  \E c \in Calls : c.at = "out" /\ call' = [call EXCEPT ![p] = c]
<1>1. Out \in Calls /\ Out.at = "out"
  BY DEF Out, Calls
<1> QED BY <1>1 DEF Leave

LEMMA Owned ==
    ASSUME NEW p \in Procs, NEW w \in BOOLEAN
    PROVE  OwnedBy(p, w) \in Locks /\ OwnedBy(p, w).by = p
BY DEF OwnedBy, Locks

LEMMA ReadsFinitely ==
    ASSUME RegistryInv, NEW p \in Procs,
           call[p].at \in {"scanning", "reading", "appending"},
           seen' = [seen EXCEPT ![p] = ReadRegistry(p)]
    PROVE  seen' \in [Procs -> SUBSET Procs] /\ SeenIsFinite'
<1>1. PICK R : R = ReadRegistry(p)
  OBVIOUS
<1>2. IsFiniteSet(R) /\ R \subseteq Procs
  BY <1>1, OpenedOne, RecordedIsFinite DEF ReadRegistry
<1>3. seen' \in [Procs -> SUBSET Procs]
  BY <1>1, <1>2 DEF RegistryInv, TypeOK
<1>4. \A q \in Procs : seen'[q] = IF q = p THEN R ELSE seen[q]
  BY <1>1 DEF RegistryInv, TypeOK
<1> QED BY <1>2, <1>3, <1>4 DEF SeenIsFinite, RegistryInv

LEMMA Framed ==
    ASSUME RegistryInv
    PROVE  /\ lock \in Locks /\ call \in [Procs -> Calls]
           /\ seen \in [Procs -> SUBSET Procs]
           /\ registered \subseteq Procs /\ dropped \subseteq Procs /\ taken \in BOOLEAN
           /\ calls \in 0 .. MaxCalls /\ faults \in 0 .. MaxFaults
           /\ MaxCalls \in Nat /\ MaxFaults \in Nat
           /\ TypeOK /\ SeenIsFinite /\ Absent \in Locks
BY RegistryAssumption DEF RegistryInv, TypeOK, Calls, Locks

LEMMA SeenStays ==
    ASSUME SeenIsFinite, seen' = seen PROVE SeenIsFinite'
BY DEF SeenIsFinite

-----------------------------------------------------------------------------
LEMMA InitRegistry == Init => RegistryInv /\ LockInv
<1> SUFFICES ASSUME Init PROVE RegistryInv /\ LockInv
  OBVIOUS
<1>1. files \in Seq(Files) /\ files # <<>>
  <2>1. <<>> \in Seq(Procs \X {1, 2})
    OBVIOUS
  <2>2. << <<>> >> \in Files
    BY <2>1 DEF Files
  <2> QED BY <2>2 DEF Init
<1>2. call \in [Procs -> Calls] /\ \A p \in Procs : At(p, "out")
  BY DEF Init, Out, Calls, At
<1>3. SeenIsFinite
  BY FS_EmptySet DEF Init, SeenIsFinite
<1>4. RegistrationsSurvive
  BY DEF Init, RegistrationsSurvive
<1>5. opened \in [Procs -> 0 .. Current] /\ \A p \in Procs : opened[p] = 0
  <2>1. Current \in Nat
    BY <1>1 DEF Current
  <2> QED BY <2>1 DEF Init
<1>6. TypeOK
  <2>1. lock = Absent /\ calls \in 0 .. MaxCalls /\ faults \in 0 .. MaxFaults
    BY RegistryAssumption DEF Init
  <2>2. seen \in [Procs -> SUBSET Procs]
    BY DEF Init
  <2>3. registered \subseteq Procs /\ dropped \subseteq Procs /\ taken \in BOOLEAN
    BY DEF Init
  <2> QED BY <1>1, <1>2, <1>5, <2>1, <2>2, <2>3 DEF TypeOK, Files, Calls
<1>7. OpenPlaces
  BY <1>2, <1>5 DEF OpenPlaces, At
<1>8. LockInv
  BY <1>2, <1>5 DEF LockInv, LockIsTheirs, LockKeepsTheFile, AtWork, At
<1> QED BY <1>3, <1>4, <1>6, <1>7, <1>8 DEF RegistryInv

LEMMA RegistryStep == RegistryInv /\ LockInv /\ [Next]_vars => RegistryInv'
<1> SUFFICES ASSUME RegistryInv, LockInv, [Next]_vars PROVE RegistryInv'
  OBVIOUS
<1> DEFINE Apart == {"scanning", "reading", "appending"}
<1>0. /\ lock \in Locks /\ call \in [Procs -> Calls]
      /\ seen \in [Procs -> SUBSET Procs]
      /\ registered \subseteq Procs /\ dropped \subseteq Procs /\ taken \in BOOLEAN
      /\ calls \in 0 .. MaxCalls /\ faults \in 0 .. MaxFaults
      /\ MaxCalls \in Nat /\ MaxFaults \in Nat
      /\ TypeOK /\ SeenIsFinite /\ Absent \in Locks
  BY Framed
<1>c. Current \in Nat \ {0}
  BY <1>0, CurrentFile
<1>a. ASSUME Elsewhere, Frame, Placed PROVE RegistryInv'
  BY <1>a, ElsewhereSurvives, Together
<1>b. ASSUME Elsewhere PROVE Current' \in Nat /\ Current' >= Current
  <2>1. Current' = Current
    BY <1>b, ElsewhereSurvives
  <2> QED BY <1>c, <2>1
<1>d. ASSUME Elsewhere, call' = call, opened' = opened PROVE Placed
  <2>1. Current' = Current
    BY <1>d, ElsewhereSurvives
  <2>2. opened' \in [Procs -> 0 .. Current']
    BY <1>0, <1>d, <2>1 DEF TypeOK
  <2>3. OpenPlaces'
    BY <1>d DEF RegistryInv, OpenPlaces
  <2> QED BY <1>0, <1>d, <2>2, <2>3 DEF Placed
<1>1. CASE UNCHANGED vars
  <2>1. Elsewhere /\ call' = call /\ opened' = opened
    BY <1>1 DEF vars, registry, Elsewhere
  <2>2. Frame
    BY <1>0, <1>1, SeenStays DEF vars, registry, Frame
  <2> QED BY <1>a, <1>d, <2>1, <2>2
<1>2. CASE Age
  <2>1. lock' \in Locks
    <3>1. lock.written /\ lock' = [lock EXCEPT !.old = TRUE]
      BY <1>2 DEF Age
    <3>2. lock # Absent
      BY <3>1 DEF Absent
    <3>3. lock \in [by : Procs, written : BOOLEAN, old : BOOLEAN]
      BY <1>0, <3>2 DEF Locks
    <3>4. lock' \in [by : Procs, written : BOOLEAN, old : BOOLEAN]
      BY <3>1, <3>3
    <3> QED BY <3>4 DEF Locks
  <2>2. Elsewhere /\ call' = call /\ opened' = opened
    BY <1>2 DEF Age, registry, Elsewhere
  <2>3. Frame
    BY <1>0, <1>2, <2>1, SeenStays DEF Age, registry, Frame
  <2> QED BY <1>a, <1>d, <2>2, <2>3
<1>3. ASSUME NEW p \in Procs, Register(p) PROVE RegistryInv'
  <2>1. Elsewhere
    BY <1>3 DEF Register, registry, Elsewhere
  <2>2. PICK c \in Calls : c.at \notin Apart /\ call' = [call EXCEPT ![p] = c]
    BY <1>3 DEF Register, Calls
  <2>3. opened' = opened /\ call[p].at \notin Apart
    BY <1>3 DEF Register, registry, At
  <2>4. Placed
    BY <1>b, <2>1, <2>2, <2>3, Moves
  <2>5. calls' \in 0 .. MaxCalls
    BY <1>0, <1>3 DEF Register
  <2>6. Frame
    BY <1>0, <1>3, <2>5, SeenStays DEF Register, registry, Frame
  <2> QED BY <1>a, <2>1, <2>4, <2>6
<1>4. ASSUME NEW p \in Procs, Rebuild(p) PROVE RegistryInv'
  <2>1. Elsewhere
    BY <1>4 DEF Rebuild, registry, Elsewhere
  <2>2. PICK c \in Calls : c.at \in Apart /\ call' = [call EXCEPT ![p] = c]
    BY <1>4 DEF Rebuild, Calls
  <2>3. opened' = [opened EXCEPT ![p] = Current]
    BY <1>4 DEF Rebuild, OpenFile
  <2>4. Placed
    BY <1>b, <2>1, <2>2, <2>3, Moves
  <2>5. calls' \in 0 .. MaxCalls
    BY <1>0, <1>4 DEF Rebuild
  <2>6. Frame
    BY <1>0, <1>4, <2>5, SeenStays DEF Rebuild, registry, Frame
  <2> QED BY <1>a, <2>1, <2>4, <2>6
<1>5. ASSUME NEW p \in Procs, Scan(p) PROVE RegistryInv'
  <2>1. Elsewhere
    BY <1>5 DEF Scan, registry, Elsewhere
  <2>2. PICK c \in Calls : c.at \notin Apart /\ call' = [call EXCEPT ![p] = c]
    <3>1. GoTo(p, "asking")
      BY <1>5 DEF Scan
    <3> QED BY <1>0, <3>1, Going
  <2>3. opened' = [opened EXCEPT ![p] = 0]
    BY <1>5 DEF Scan, CloseFile
  <2>4. Placed
    BY <1>b, <2>1, <2>2, <2>3, Moves
  <2>5. seen' \in [Procs -> SUBSET Procs] /\ SeenIsFinite'
    BY <1>5, ReadsFinitely DEF Scan, At
  <2>6. Frame
    BY <1>0, <1>5, <2>5 DEF Scan, Frame
  <2> QED BY <1>a, <2>1, <2>4, <2>6
<1>6. ASSUME NEW p \in Procs, CreateLock(p) PROVE RegistryInv'
  <2>1. Elsewhere
    BY <1>6 DEF CreateLock, registry, Elsewhere
  <2>2. PICK c \in Calls : c.at \notin Apart /\ call' = [call EXCEPT ![p] = c]
    <3>1. GoTo(p, "looking") \/ GoTo(p, "writing")
      BY <1>6 DEF CreateLock
    <3> QED BY <1>0, <3>1, Going
  <2>3. opened' = opened /\ call[p].at \notin Apart
    BY <1>6 DEF CreateLock, registry, At
  <2>4. Placed
    BY <1>b, <2>1, <2>2, <2>3, Moves
  <2>5. lock' \in Locks
    BY <1>0, <1>6, Owned DEF CreateLock
  <2>6. Frame
    BY <1>0, <1>6, <2>5, SeenStays DEF CreateLock, registry, Frame
  <2> QED BY <1>a, <2>1, <2>4, <2>6
<1>7. ASSUME NEW p \in Procs, Look(p) PROVE RegistryInv'
  <2>1. Elsewhere
    BY <1>7 DEF Look, registry, Elsewhere
  <2>2. PICK c \in Calls : c.at \notin Apart /\ call' = [call EXCEPT ![p] = c]
    <3>1. GoTo(p, "unlinking") \/ GoTo(p, "asking") \/ Leave(p)
      BY <1>7 DEF Look
    <3> QED BY <1>0, <3>1, Going, Leaving
  <2>3. opened' = opened /\ call[p].at \notin Apart
    BY <1>7 DEF Look, registry, At
  <2>4. Placed
    BY <1>b, <2>1, <2>2, <2>3, Moves
  <2>5. Frame
    BY <1>0, <1>7, SeenStays DEF Look, registry, Frame
  <2> QED BY <1>a, <2>1, <2>4, <2>5
<1>8. ASSUME NEW p \in Procs, UnlinkStale(p) PROVE RegistryInv'
  <2>1. Elsewhere
    BY <1>8 DEF UnlinkStale, registry, Elsewhere
  <2>2. PICK c \in Calls : c.at \notin Apart /\ call' = [call EXCEPT ![p] = c]
    <3>1. GoTo(p, "asking")
      BY <1>8 DEF UnlinkStale
    <3> QED BY <1>0, <3>1, Going
  <2>3. opened' = opened /\ call[p].at \notin Apart
    BY <1>8 DEF UnlinkStale, registry, At
  <2>4. Placed
    BY <1>b, <2>1, <2>2, <2>3, Moves
  <2>5. Frame
    BY <1>0, <1>8, SeenStays DEF UnlinkStale, registry, Frame
  <2> QED BY <1>a, <2>1, <2>4, <2>5
<1>9. ASSUME NEW p \in Procs, WriteOwner(p) PROVE RegistryInv'
  <2>1. Elsewhere
    BY <1>9 DEF WriteOwner, registry, Elsewhere
  <2>2. PICK c \in Calls : c.at \notin Apart /\ call' = [call EXCEPT ![p] = c]
    <3>1. GoTo(p, "locked")
      BY <1>9 DEF WriteOwner
    <3> QED BY <1>0, <3>1, Going
  <2>3. opened' = opened /\ call[p].at \notin Apart
    BY <1>9 DEF WriteOwner, registry, At
  <2>4. Placed
    BY <1>b, <2>1, <2>2, <2>3, Moves
  <2>5. lock' \in Locks
    BY <1>0, <1>9, Owned DEF WriteOwner
  <2>6. Frame
    BY <1>0, <1>9, <2>5, SeenStays DEF WriteOwner, registry, Frame
  <2> QED BY <1>a, <2>1, <2>4, <2>6
<1>10. ASSUME NEW p \in Procs, FailToWrite(p) PROVE RegistryInv'
  <2>1. Elsewhere
    BY <1>10 DEF FailToWrite, registry, Elsewhere
  <2>2. PICK c \in Calls : c.at \notin Apart /\ call' = [call EXCEPT ![p] = c]
    BY <1>10, Leaving DEF FailToWrite
  <2>3. opened' = opened /\ call[p].at \notin Apart
    BY <1>10 DEF FailToWrite, registry, At
  <2>4. Placed
    BY <1>b, <2>1, <2>2, <2>3, Moves
  <2>5. faults' \in 0 .. MaxFaults
    BY <1>0, <1>10 DEF FailToWrite, Fault
  <2>6. Frame
    BY <1>0, <1>10, <2>5, SeenStays DEF FailToWrite, registry, Frame
  <2> QED BY <1>a, <2>1, <2>4, <2>6
<1>11. ASSUME NEW p \in Procs, Release(p) PROVE RegistryInv'
  <2>1. Elsewhere
    BY <1>11 DEF Release, registry, Elsewhere
  <2>2. PICK c \in Calls : c.at \notin Apart /\ call' = [call EXCEPT ![p] = c]
    BY <1>11, Leaving DEF Release
  <2>3. opened' = opened /\ call[p].at \notin Apart
    BY <1>11 DEF Release, registry, At
  <2>4. Placed
    BY <1>b, <2>1, <2>2, <2>3, Moves
  <2>5. Frame
    BY <1>0, <1>11, SeenStays DEF Release, registry, Frame
  <2> QED BY <1>a, <2>1, <2>4, <2>5
<1>12. ASSUME NEW p \in Procs, OpenToRead(p) PROVE RegistryInv'
  <2>1. Elsewhere
    BY <1>12 DEF OpenToRead, registry, Elsewhere
  <2>2. PICK c \in Calls : c.at \in Apart /\ call' = [call EXCEPT ![p] = c]
    <3>1. GoTo(p, "reading")
      BY <1>12 DEF OpenToRead
    <3> QED BY <1>0, <3>1, Going
  <2>3. opened' = [opened EXCEPT ![p] = Current]
    BY <1>12 DEF OpenToRead, OpenFile
  <2>4. Placed
    BY <1>b, <2>1, <2>2, <2>3, Moves
  <2>5. Frame
    BY <1>0, <1>12, SeenStays DEF OpenToRead, registry, Frame
  <2> QED BY <1>a, <2>1, <2>4, <2>5
<1>13. ASSUME NEW p \in Procs, OpenToAppend(p) PROVE RegistryInv'
  <2>1. Elsewhere
    BY <1>13 DEF OpenToAppend, registry, Elsewhere
  <2>2. PICK c \in Calls : c.at \in Apart /\ call' = [call EXCEPT ![p] = c]
    <3>1. GoTo(p, "appending")
      BY <1>13 DEF OpenToAppend
    <3> QED BY <1>0, <3>1, Going
  <2>3. opened' = [opened EXCEPT ![p] = Current]
    BY <1>13 DEF OpenToAppend, OpenFile
  <2>4. Placed
    BY <1>b, <2>1, <2>2, <2>3, Moves
  <2>5. Frame
    BY <1>0, <1>13, SeenStays DEF OpenToAppend, registry, Frame
  <2> QED BY <1>a, <2>1, <2>4, <2>5
<1>14. ASSUME NEW p \in Procs, Fail(p) PROVE RegistryInv'
  <2>1. Elsewhere
    BY <1>14 DEF Fail, registry, Elsewhere
  <2>2. PICK c \in Calls : c.at \notin Apart /\ call' = [call EXCEPT ![p] = c]
    <3>1. GoTo(p, "releasing")
      BY <1>14 DEF Fail
    <3> QED BY <1>0, <3>1, Going
  <2>3. opened' = [opened EXCEPT ![p] = 0]
    BY <1>14 DEF Fail, CloseFile
  <2>4. Placed
    BY <1>b, <2>1, <2>2, <2>3, Moves
  <2>5. faults' \in 0 .. MaxFaults
    BY <1>0, <1>14 DEF Fail, Fault
  <2>6. Frame
    BY <1>0, <1>14, <2>5, SeenStays DEF Fail, registry, Frame
  <2> QED BY <1>a, <2>1, <2>4, <2>6
<1>15. ASSUME NEW p \in Procs, Die(p) PROVE RegistryInv'
  <2>1. Elsewhere
    BY <1>15 DEF Die, registry, Elsewhere
  <2>2. PICK c \in Calls : c.at \notin Apart /\ call' = [call EXCEPT ![p] = c]
    BY <1>15 DEF Die, Out, Calls
  <2>3. opened' = [opened EXCEPT ![p] = 0]
    BY <1>15 DEF Die, CloseFile
  <2>4. Placed
    BY <1>b, <2>1, <2>2, <2>3, Moves
  <2>5. faults' \in 0 .. MaxFaults
    BY <1>0, <1>15 DEF Die, Fault
  <2>6. Frame
    BY <1>0, <1>15, <2>5, SeenStays DEF Die, registry, Frame
  <2> QED BY <1>a, <2>1, <2>4, <2>6
<1>16. ASSUME NEW p \in Procs, LookUp(p) PROVE RegistryInv'
  <2>1. files' = files /\ Current' = Current
    BY <1>16 DEF LookUp, Current
  <2>2. files' \in Seq(Files) /\ files' # <<>>
    BY <1>0, <2>1, CurrentFile
  <2>3. PICK c \in Calls : c.at \notin Apart /\ call' = [call EXCEPT ![p] = c]
    <3>1. GoTo(p, "releasing") \/ GoTo(p, "missing")
      BY <1>16 DEF LookUp
    <3> QED BY <1>0, <3>1, Going
  <2>4. opened' = [opened EXCEPT ![p] = 0]
    BY <1>16 DEF LookUp, CloseFile
  <2>5. Placed
    <3>1. Current' \in Nat /\ Current' >= Current
      BY <1>c, <2>1
    <3> QED BY <2>3, <2>4, <3>1, Moves
  <2>6. seen' \in [Procs -> SUBSET Procs] /\ SeenIsFinite'
    BY <1>16, ReadsFinitely DEF LookUp, At
  <2>7. registered' \subseteq Procs /\ dropped' \subseteq Procs
    BY <1>0, <1>16 DEF LookUp, Astray
  <2>8. Frame
    BY <1>0, <1>16, <2>6, <2>7 DEF LookUp, Frame
  <2> QED BY <1>16, <2>2, <2>5, <2>8, LookUp_, Together
<1>17. ASSUME NEW p \in Procs, AppendRecord(p) PROVE RegistryInv'
  <2>1. files' \in Seq(Files) /\ files' # <<>> /\ Current' = Current /\ RegistrationsSurvive'
    BY <1>17, AppendRecord_
  <2>2. PICK c \in Calls : c.at \notin Apart /\ call' = [call EXCEPT ![p] = c]
    <3>1. GoTo(p, "releasing")
      BY <1>17 DEF AppendRecord
    <3> QED BY <1>0, <3>1, Going
  <2>3. opened' = [opened EXCEPT ![p] = 0]
    BY <1>17 DEF AppendRecord, CloseFile
  <2>4. Placed
    <3>1. Current' \in Nat /\ Current' >= Current
      BY <1>c, <2>1
    <3> QED BY <2>2, <2>3, <3>1, Moves
  <2>5. registered' \subseteq Procs /\ dropped' \subseteq Procs
    BY <1>0, <1>17, FewRecords DEF AppendRecord, Astray
  <2>6. faults' \in 0 .. MaxFaults
    BY <1>0, <1>17 DEF AppendRecord, Fault
  <2>7. Frame
    BY <1>0, <1>17, <2>5, <2>6, SeenStays DEF AppendRecord, Frame
  <2> QED BY <2>1, <2>4, <2>7, Together
<1>18. ASSUME NEW p \in Procs, TearAppend(p) PROVE RegistryInv'
  <2>1. files' \in Seq(Files) /\ files' # <<>> /\ Current' = Current /\ RegistrationsSurvive'
    BY <1>18, TearAppend_
  <2>2. PICK c \in Calls : c.at \notin Apart /\ call' = [call EXCEPT ![p] = c]
    <3>1. GoTo(p, "releasing") \/ GoTo(p, "dead")
      BY <1>18 DEF TearAppend
    <3> QED BY <1>0, <3>1, Going
  <2>3. opened' = [opened EXCEPT ![p] = 0]
    BY <1>18 DEF TearAppend, CloseFile
  <2>4. Placed
    <3>1. Current' \in Nat /\ Current' >= Current
      BY <1>c, <2>1
    <3> QED BY <2>2, <2>3, <3>1, Moves
  <2>5. registered' \subseteq Procs /\ dropped' \subseteq Procs
    BY <1>0, <1>18, FewRecords DEF TearAppend
  <2>6. faults' \in 0 .. MaxFaults
    BY <1>0, <1>18 DEF TearAppend, Fault
  <2>7. Frame
    BY <1>0, <1>18, <2>5, <2>6, SeenStays DEF TearAppend, Frame
  <2> QED BY <2>1, <2>4, <2>7, Together
<1>19. ASSUME NEW p \in Procs, Replace(p) PROVE RegistryInv'
  <2>1. /\ files' \in Seq(Files) /\ files' # <<>> /\ Current' = Current + 1
        /\ RegistrationsSurvive'
    BY <1>19, Replace_
  <2>2. PICK c \in Calls : c.at \notin Apart /\ call' = [call EXCEPT ![p] = c]
    <3>1. GoTo(p, "releasing")
      BY <1>19 DEF Replace
    <3> QED BY <1>0, <3>1, Going
  <2>3. opened' = opened /\ call[p].at \notin Apart
    BY <1>19 DEF Replace, Locked, At
  <2>4. Placed
    <3>1. Current' \in Nat /\ Current' >= Current
      BY <1>c, <2>1
    <3> QED BY <2>2, <2>3, <3>1, Moves
  <2>5. registered' \subseteq Procs /\ dropped' \subseteq Procs
    BY <1>0, <1>19 DEF Replace
  <2>6. Frame
    BY <1>0, <1>19, <2>5, SeenStays DEF Replace, Frame
  <2> QED BY <2>1, <2>4, <2>6, Together
<1> QED
  BY <1>1, <1>2, <1>3, <1>4, <1>5, <1>6, <1>7, <1>8, <1>9, <1>10, <1>11, <1>12, <1>13, <1>14, <1>15, <1>16, <1>17, <1>18, <1>19
  DEF Next, Go

-----------------------------------------------------------------------------
(***************************************************************************)
(* A step of p that leaves the owner of the lock: what p has open is closed*)
(* or the registry, and p is at work only if it was.                       *)
(***************************************************************************)
LEMMA LockStays ==
    ASSUME LockInv, NEW p \in Procs,
           \A q \in Procs \ {p} : call'[q] = call[q] /\ opened'[q] = opened[q],
           taken' = taken, lock'.by = lock.by, Current' = Current,
           AtWork(p)' => AtWork(p), opened'[p] \in {0, Current}
    PROVE  LockInv'
<1>1. \A q \in Procs \ {p} : AtWork(q)' <=> AtWork(q)
  BY DEF AtWork
<1>2. LockIsTheirs'
  BY <1>1 DEF LockInv, LockIsTheirs
<1>3. LockKeepsTheFile'
  BY <1>1 DEF LockInv, LockKeepsTheFile
<1> QED BY <1>2, <1>3 DEF LockInv

LEMMA LockStep == RegistryInv /\ LockInv /\ [Next]_vars => LockInv'
<1> SUFFICES ASSUME RegistryInv, LockInv, [Next]_vars PROVE LockInv'
  OBVIOUS
<1>0. /\ call \in [Procs -> Calls] /\ opened \in [Procs -> 0 .. Current]
      /\ lock \in Locks /\ taken \in BOOLEAN /\ OpenPlaces
  BY DEF RegistryInv, TypeOK, Calls, Locks
<1>a. ~taken => \A p \in Procs : AtWork(p) => lock.by = p
  BY DEF LockInv, LockIsTheirs
<1>b. ~taken => \A p \in Procs : AtWork(p) /\ opened[p] # 0 => opened[p] = Current
  BY DEF LockInv, LockKeepsTheFile
<1>1. CASE UNCHANGED vars
  <2>1. \A p \in Procs : AtWork(p)' = AtWork(p)
    BY <1>1 DEF vars, AtWork
  <2> QED BY <1>1, <1>a, <1>b, <2>1 DEF vars, registry, LockInv, LockIsTheirs, LockKeepsTheFile, Current
<1>2. CASE Age
  <2>1. \A p \in Procs : AtWork(p)' = AtWork(p)
    BY <1>2 DEF Age, AtWork
  <2>2. lock.written /\ lock' = [lock EXCEPT !.old = TRUE]
    BY <1>2 DEF Age
  <2>3. lock \in [by : Procs, written : BOOLEAN, old : BOOLEAN]
    BY <1>0, <2>2 DEF Locks, Absent
  <2>4. lock'.by = lock.by
    BY <2>2, <2>3
  <2>5. taken' = taken /\ opened' = opened /\ Current' = Current
    BY <1>2 DEF Age, registry, Current
  <2> QED BY <1>a, <1>b, <2>1, <2>4, <2>5 DEF LockInv, LockIsTheirs, LockKeepsTheFile
<1>3. ASSUME NEW p \in Procs, Register(p) PROVE LockInv'
  <2>1. call'[p].at \in {"asking"} /\ \A q \in Procs \ {p} : call'[q] = call[q]
    BY <1>0, <1>3 DEF Register, Calls
  <2>3. AtWork(p)' => AtWork(p)
    BY <2>1 DEF AtWork
  <2>4. taken' = taken
    BY <1>3 DEF Register
  <2>5. lock'.by = lock.by
    BY <1>3 DEF Register
  <2>6. Current' = Current
    BY <1>3 DEF Register, registry, Current
  <2>7. opened' = opened /\ opened[p] = 0
    BY <1>0, <1>3 DEF Register, registry, At, OpenPlaces
  <2>8. opened'[p] \in {0, Current} /\ \A q \in Procs \ {p} : opened'[q] = opened[q]
    BY <2>7
  <2> QED BY <2>1, <2>3, <2>4, <2>5, <2>6, <2>8, LockStays
<1>4. ASSUME NEW p \in Procs, Rebuild(p) PROVE LockInv'
  <2>1. call'[p].at \in {"scanning"} /\ \A q \in Procs \ {p} : call'[q] = call[q]
    BY <1>0, <1>4 DEF Rebuild, OpenFile, Calls
  <2>3. AtWork(p)' => AtWork(p)
    BY <2>1 DEF AtWork
  <2>4. taken' = taken
    BY <1>4 DEF Rebuild
  <2>5. lock'.by = lock.by
    BY <1>4 DEF Rebuild
  <2>6. Current' = Current
    BY <1>4 DEF Rebuild, registry, Current
  <2>8. opened'[p] \in {0, Current} /\ \A q \in Procs \ {p} : opened'[q] = opened[q]
    BY <1>0, <1>4 DEF Rebuild, OpenFile
  <2> QED BY <2>1, <2>3, <2>4, <2>5, <2>6, <2>8, LockStays
<1>5. ASSUME NEW p \in Procs, Scan(p) PROVE LockInv'
  <2>1. call'[p].at \in {"asking"} /\ \A q \in Procs \ {p} : call'[q] = call[q]
    BY <1>0, <1>5 DEF Scan, GoTo, CloseFile, Calls
  <2>3. AtWork(p)' => AtWork(p)
    BY <2>1 DEF AtWork
  <2>4. taken' = taken
    BY <1>5 DEF Scan
  <2>5. lock'.by = lock.by
    BY <1>5 DEF Scan
  <2>6. Current' = Current
    BY <1>5 DEF Scan, registry, Current
  <2>8. opened'[p] \in {0, Current} /\ \A q \in Procs \ {p} : opened'[q] = opened[q]
    BY <1>0, <1>5 DEF Scan, CloseFile
  <2> QED BY <2>1, <2>3, <2>4, <2>5, <2>6, <2>8, LockStays
<1>6. ASSUME NEW p \in Procs, Look(p) PROVE LockInv'
  <2>1. call'[p].at \in {"unlinking", "asking", "out"} /\ \A q \in Procs \ {p} : call'[q] = call[q]
    BY <1>0, <1>6 DEF Look, GoTo, Leave, Out, Calls
  <2>3. AtWork(p)' => AtWork(p)
    BY <2>1 DEF AtWork
  <2>4. taken' = taken
    BY <1>6 DEF Look
  <2>5. lock'.by = lock.by
    BY <1>6 DEF Look
  <2>6. Current' = Current
    BY <1>6 DEF Look, registry, Current
  <2>7. opened' = opened /\ opened[p] = 0
    BY <1>0, <1>6 DEF Look, registry, At, OpenPlaces
  <2>8. opened'[p] \in {0, Current} /\ \A q \in Procs \ {p} : opened'[q] = opened[q]
    BY <2>7
  <2> QED BY <2>1, <2>3, <2>4, <2>5, <2>6, <2>8, LockStays
<1>7. ASSUME NEW p \in Procs, WriteOwner(p) PROVE LockInv'
  <2>1. call'[p].at \in {"locked"} /\ \A q \in Procs \ {p} : call'[q] = call[q]
    BY <1>0, <1>7 DEF WriteOwner, GoTo, Calls
  <2>2. call[p].at \in {"writing"}
    BY <1>7 DEF WriteOwner, At
  <2>3. AtWork(p)' => AtWork(p)
    BY <2>2 DEF AtWork
  <2>4. taken' = taken
    BY <1>7 DEF WriteOwner
  <2>5. lock'.by = lock.by
    BY <1>7 DEF WriteOwner, OwnedBy
  <2>6. Current' = Current
    BY <1>7 DEF WriteOwner, registry, Current
  <2>7. opened' = opened /\ opened[p] = 0
    BY <1>0, <1>7 DEF WriteOwner, registry, At, OpenPlaces
  <2>8. opened'[p] \in {0, Current} /\ \A q \in Procs \ {p} : opened'[q] = opened[q]
    BY <2>7
  <2> QED BY <2>1, <2>3, <2>4, <2>5, <2>6, <2>8, LockStays
<1>8. ASSUME NEW p \in Procs, FailToWrite(p) PROVE LockInv'
  <2>1. call'[p].at \in {"out"} /\ \A q \in Procs \ {p} : call'[q] = call[q]
    BY <1>0, <1>8 DEF FailToWrite, Leave, Out, Calls
  <2>3. AtWork(p)' => AtWork(p)
    BY <2>1 DEF AtWork
  <2>4. taken' = taken
    BY <1>8 DEF FailToWrite
  <2>5. lock'.by = lock.by
    BY <1>8 DEF FailToWrite
  <2>6. Current' = Current
    BY <1>8 DEF FailToWrite, registry, Current
  <2>7. opened' = opened /\ opened[p] = 0
    BY <1>0, <1>8 DEF FailToWrite, registry, At, OpenPlaces
  <2>8. opened'[p] \in {0, Current} /\ \A q \in Procs \ {p} : opened'[q] = opened[q]
    BY <2>7
  <2> QED BY <2>1, <2>3, <2>4, <2>5, <2>6, <2>8, LockStays
<1>9. ASSUME NEW p \in Procs, OpenToRead(p) PROVE LockInv'
  <2>1. call'[p].at \in {"reading"} /\ \A q \in Procs \ {p} : call'[q] = call[q]
    BY <1>0, <1>9 DEF OpenToRead, GoTo, OpenFile, Locked, Calls
  <2>2. call[p].at \in {"locked"}
    BY <1>9 DEF OpenToRead, At, Locked
  <2>3. AtWork(p)' => AtWork(p)
    BY <2>2 DEF AtWork
  <2>4. taken' = taken
    BY <1>9 DEF OpenToRead
  <2>5. lock'.by = lock.by
    BY <1>9 DEF OpenToRead
  <2>6. Current' = Current
    BY <1>9 DEF OpenToRead, registry, Current
  <2>8. opened'[p] \in {0, Current} /\ \A q \in Procs \ {p} : opened'[q] = opened[q]
    BY <1>0, <1>9 DEF OpenToRead, OpenFile
  <2> QED BY <2>1, <2>3, <2>4, <2>5, <2>6, <2>8, LockStays
<1>10. ASSUME NEW p \in Procs, LookUp(p) PROVE LockInv'
  <2>1. call'[p].at \in {"releasing", "missing"} /\ \A q \in Procs \ {p} : call'[q] = call[q]
    BY <1>0, <1>10 DEF LookUp, GoTo, CloseFile, Calls
  <2>2. call[p].at \in {"reading"}
    BY <1>10 DEF LookUp, At
  <2>3. AtWork(p)' => AtWork(p)
    BY <2>2 DEF AtWork
  <2>4. taken' = taken
    BY <1>10 DEF LookUp
  <2>5. lock'.by = lock.by
    BY <1>10 DEF LookUp
  <2>6. Current' = Current
    BY <1>10 DEF LookUp, registry, Current
  <2>8. opened'[p] \in {0, Current} /\ \A q \in Procs \ {p} : opened'[q] = opened[q]
    BY <1>0, <1>10 DEF LookUp, CloseFile
  <2> QED BY <2>1, <2>3, <2>4, <2>5, <2>6, <2>8, LockStays
<1>11. ASSUME NEW p \in Procs, OpenToAppend(p) PROVE LockInv'
  <2>1. call'[p].at \in {"appending"} /\ \A q \in Procs \ {p} : call'[q] = call[q]
    BY <1>0, <1>11 DEF OpenToAppend, GoTo, OpenFile, Calls
  <2>2. call[p].at \in {"missing"}
    BY <1>11 DEF OpenToAppend, At
  <2>3. AtWork(p)' => AtWork(p)
    BY <2>2 DEF AtWork
  <2>4. taken' = taken
    BY <1>11 DEF OpenToAppend
  <2>5. lock'.by = lock.by
    BY <1>11 DEF OpenToAppend
  <2>6. Current' = Current
    BY <1>11 DEF OpenToAppend, registry, Current
  <2>8. opened'[p] \in {0, Current} /\ \A q \in Procs \ {p} : opened'[q] = opened[q]
    BY <1>0, <1>11 DEF OpenToAppend, OpenFile
  <2> QED BY <2>1, <2>3, <2>4, <2>5, <2>6, <2>8, LockStays
<1>12. ASSUME NEW p \in Procs, AppendRecord(p) PROVE LockInv'
  <2>1. call'[p].at \in {"releasing"} /\ \A q \in Procs \ {p} : call'[q] = call[q]
    BY <1>0, <1>12 DEF AppendRecord, GoTo, CloseFile, Calls
  <2>2. call[p].at \in {"appending"}
    BY <1>12 DEF AppendRecord, At
  <2>3. AtWork(p)' => AtWork(p)
    BY <2>2 DEF AtWork
  <2>4. taken' = taken
    BY <1>12 DEF AppendRecord
  <2>5. lock'.by = lock.by
    BY <1>12 DEF AppendRecord
  <2>6. Current' = Current
    BY <1>12, AppendRecord_
  <2>8. opened'[p] \in {0, Current} /\ \A q \in Procs \ {p} : opened'[q] = opened[q]
    BY <1>0, <1>12 DEF AppendRecord, CloseFile
  <2> QED BY <2>1, <2>3, <2>4, <2>5, <2>6, <2>8, LockStays
<1>13. ASSUME NEW p \in Procs, TearAppend(p) PROVE LockInv'
  <2>1. call'[p].at \in {"releasing", "dead"} /\ \A q \in Procs \ {p} : call'[q] = call[q]
    BY <1>0, <1>13 DEF TearAppend, GoTo, CloseFile, Calls
  <2>2. call[p].at \in {"appending"}
    BY <1>13 DEF TearAppend, At
  <2>3. AtWork(p)' => AtWork(p)
    BY <2>2 DEF AtWork
  <2>4. taken' = taken
    BY <1>13 DEF TearAppend
  <2>5. lock'.by = lock.by
    BY <1>13 DEF TearAppend
  <2>6. Current' = Current
    BY <1>13, TearAppend_
  <2>8. opened'[p] \in {0, Current} /\ \A q \in Procs \ {p} : opened'[q] = opened[q]
    BY <1>0, <1>13 DEF TearAppend, CloseFile
  <2> QED BY <2>1, <2>3, <2>4, <2>5, <2>6, <2>8, LockStays
<1>14. ASSUME NEW p \in Procs, Fail(p) PROVE LockInv'
  <2>1. call'[p].at \in {"releasing"} /\ \A q \in Procs \ {p} : call'[q] = call[q]
    BY <1>0, <1>14 DEF Fail, GoTo, CloseFile, Calls
  <2>2. call[p].at \in {"locked", "reading", "missing", "appending"}
    BY <1>14 DEF Fail, At
  <2>3. AtWork(p)' => AtWork(p)
    BY <2>2 DEF AtWork
  <2>4. taken' = taken
    BY <1>14 DEF Fail
  <2>5. lock'.by = lock.by
    BY <1>14 DEF Fail
  <2>6. Current' = Current
    BY <1>14 DEF Fail, registry, Current
  <2>8. opened'[p] \in {0, Current} /\ \A q \in Procs \ {p} : opened'[q] = opened[q]
    BY <1>0, <1>14 DEF Fail, CloseFile
  <2> QED BY <2>1, <2>3, <2>4, <2>5, <2>6, <2>8, LockStays
<1>15. ASSUME NEW p \in Procs, Die(p) PROVE LockInv'
  <2>1. call'[p].at \in {"dead"} /\ \A q \in Procs \ {p} : call'[q] = call[q]
    BY <1>0, <1>15 DEF Die, CloseFile, Out, Calls
  <2>3. AtWork(p)' => AtWork(p)
    BY <2>1 DEF AtWork
  <2>4. taken' = taken
    BY <1>15 DEF Die
  <2>5. lock'.by = lock.by
    BY <1>15 DEF Die
  <2>6. Current' = Current
    BY <1>15 DEF Die, registry, Current
  <2>8. opened'[p] \in {0, Current} /\ \A q \in Procs \ {p} : opened'[q] = opened[q]
    BY <1>0, <1>15 DEF Die, CloseFile
  <2> QED BY <2>1, <2>3, <2>4, <2>5, <2>6, <2>8, LockStays
<1>16. ASSUME NEW p \in Procs, CreateLock(p) PROVE LockInv'
  <2>1. opened' = opened /\ taken' = taken /\ Current' = Current
    BY <1>16 DEF CreateLock, registry, Current
  <2>2. opened[p] = 0 /\ ~AtWork(p)
    BY <1>0, <1>16 DEF CreateLock, At, OpenPlaces, AtWork
  <2>3. \A q \in Procs \ {p} : call'[q] = call[q]
    BY <1>0, <1>16 DEF CreateLock, GoTo
  <2>4. CASE There
    <3>1. lock' = lock /\ call'[p].at = "looking"
      BY <1>0, <1>16, <2>4 DEF CreateLock, GoTo, Calls
    <3>2. ~AtWork(p)'
      BY <3>1 DEF AtWork
    <3> QED BY <2>1, <2>2, <2>3, <3>1, <3>2, LockStays
  <2>5. CASE ~There
    <3>1. lock'.by = p
      BY <1>16, <2>5, Owned DEF CreateLock
    <3>2. ~taken => \A q \in Procs : ~AtWork(q)
      BY <1>a, <2>5, RegistryAssumption DEF There
    <3>3. \A q \in Procs \ {p} : AtWork(q)' <=> AtWork(q)
      BY <2>3 DEF AtWork
    <3>4. LockIsTheirs'
      BY <2>1, <3>1, <3>2, <3>3 DEF LockIsTheirs
    <3>5. LockKeepsTheFile'
      BY <1>b, <2>1, <2>2, <3>3 DEF LockKeepsTheFile
    <3> QED BY <3>4, <3>5 DEF LockInv
  <2> QED BY <2>4, <2>5
<1>17. ASSUME NEW p \in Procs, UnlinkStale(p) PROVE LockInv'
  <2>1. \A q \in Procs \ {p} : call'[q] = call[q]
    BY <1>0, <1>17 DEF UnlinkStale, GoTo
  <2>2. call'[p].at = "asking"
    BY <1>0, <1>17 DEF UnlinkStale, GoTo, Calls
  <2>3. \A q \in Procs : AtWork(q)' => AtWork(q)
    BY <2>1, <2>2 DEF AtWork
  <2>4. ~taken' => ~taken /\ \A q \in Procs : AtWork(q) => lock.by # q
    BY <1>17 DEF UnlinkStale
  <2>5. ~taken' => \A q \in Procs : ~AtWork(q)'
    BY <1>a, <2>3, <2>4
  <2> QED BY <2>5 DEF LockInv, LockIsTheirs, LockKeepsTheFile
<1>18. ASSUME NEW p \in Procs, Release(p) PROVE LockInv'
  <2>1. AtWork(p) /\ taken' = taken
    BY <1>18 DEF Release, At, AtWork
  <2>2. \A q \in Procs \ {p} : call'[q] = call[q]
    BY <1>0, <1>18 DEF Release, Leave
  <2>3. call'[p].at = "out"
    BY <1>0, <1>18 DEF Release, Leave, Out
  <2>4. \A q \in Procs : AtWork(q)' => AtWork(q) /\ q # p
    BY <2>2, <2>3 DEF AtWork
  <2>5. ~taken => \A q \in Procs : ~AtWork(q)'
    BY <1>a, <2>1, <2>4
  <2> QED BY <2>1, <2>5 DEF LockInv, LockIsTheirs, LockKeepsTheFile
<1>19. ASSUME NEW p \in Procs, Replace(p) PROVE LockInv'
  <2>1. taken' = taken /\ lock' = lock /\ opened' = opened
    BY <1>19 DEF Replace
  <2>2. AtWork(p) /\ opened[p] = 0
    BY <1>0, <1>19 DEF Replace, Locked, At, AtWork, OpenPlaces
  <2>3. \A q \in Procs \ {p} : call'[q] = call[q]
    BY <1>0, <1>19 DEF Replace, GoTo
  <2>4. \A q \in Procs : AtWork(q)' => AtWork(q)
    BY <2>2, <2>3 DEF AtWork
  <2>5. ~taken => \A q \in Procs : AtWork(q)' => q = p /\ lock.by = p
    BY <1>a, <2>2, <2>4
  <2> QED BY <2>1, <2>2, <2>5 DEF LockInv, LockIsTheirs, LockKeepsTheFile
<1> QED
  BY <1>1, <1>2, <1>3, <1>4, <1>5, <1>6, <1>7, <1>8, <1>9, <1>10, <1>11, <1>12, <1>13, <1>14, <1>15, <1>16, <1>17, <1>18, <1>19
  DEF Next, Go

-----------------------------------------------------------------------------
\* The registry is always files of lines of halves of records, and every program
\* at a place of the code with a file that was there, whatever locks are taken.
THEOREM RegistryTypeCorrect == Spec => []TypeOK
<1>1. Init => RegistryInv /\ LockInv
  BY InitRegistry
<1>2. RegistryInv /\ LockInv /\ [Next]_vars => (RegistryInv /\ LockInv)'
  BY RegistryStep, LockStep
<1>3. RegistryInv => TypeOK
  BY DEF RegistryInv
<1> QED BY <1>1, <1>2, <1>3, PTL DEF Spec

\* A run that was registered is in the registry, unless a rebuild that read too
\* early or an append behind an open line lost it, or, after a lock was taken from
\* a program at work, a file replaced since it was opened (register_external_run,
\* rebuild_registry).
THEOREM RegistrationsAreKept == Spec => []RegistrationsSurvive
<1>1. Init => RegistryInv /\ LockInv
  BY InitRegistry
<1>2. RegistryInv /\ LockInv /\ [Next]_vars => (RegistryInv /\ LockInv)'
  BY RegistryStep, LockStep
<1>3. RegistryInv => RegistrationsSurvive
  BY DEF RegistryInv
<1> QED BY <1>1, <1>2, <1>3, PTL DEF Spec
=============================================================================
