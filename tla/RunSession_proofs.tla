-------------------------- MODULE RunSession_proofs --------------------------
(***************************************************************************)
(* Proofs about RunLease and RunSession, for any number of programs, hosts,*)
(* faults, sessions and events.                                            *)
(*                                                                         *)
(* The lease: its file's creator is what the argument is about.  While one *)
(* program at a time takes over a dead owner's lease, a program between the*)
(* creation and the release of its lease is the creator of the file that is*)
(* there, and the file a program is about to unlink was created by a dead  *)
(* one.                                                                    *)
(*                                                                         *)
(* The session: where a program is tells how it stands with the lease, so  *)
(* one program writes the stream at a time; and the file and that writer's *)
(* buffer together are always whole lines under growing numbers, so that   *)
(* wherever a write is torn, what is in the file is a beginning of them.   *)
(***************************************************************************)
EXTENDS RunSession, SequenceTheorems, FiniteSetTheorems, WellFoundedInduction, TLAPS

LEMMA LeaseStepCases ==
    ASSUME [LeaseNext]_leaseVars
    PROVE  \/ \E p \in Procs : \/ Create(p) \/ ReadOwner(p) \/ UnlinkDead(p) \/ Recreate(p)
                               \/ WriteOwner(p) \/ FailToWrite(p) \/ Release(p) \/ LeaseDie(p)
           \/ UNCHANGED leaseVars
  BY DEF LeaseNext, TakeLease

LEMMA LeaseFiles ==
    /\ Absent \in LeaseFile
    /\ \A p \in Procs, w \in BOOLEAN : CreatedBy(p, w) \in LeaseFile
  BY DEF LeaseFile, Absent, CreatedBy

LEMMA LeaseTypeInductive ==
    ASSUME LeaseTypeOK, [LeaseNext]_leaseVars
    PROVE  LeaseTypeOK'
<1> USE LeaseFiles, RunLeaseAssumption DEF LeaseTypeOK, Go
<1>1. ASSUME UNCHANGED leaseVars PROVE LeaseTypeOK'
  BY <1>1 DEF leaseVars
<1>2. ASSUME NEW p \in Procs, Create(p) PROVE LeaseTypeOK'
  BY <1>2 DEF Create
<1>3. ASSUME NEW p \in Procs, ReadOwner(p) PROVE LeaseTypeOK'
  BY <1>3 DEF ReadOwner, Refuse
<1>4. ASSUME NEW p \in Procs, UnlinkDead(p) PROVE LeaseTypeOK'
  BY <1>4 DEF UnlinkDead, Refuse
<1>5. ASSUME NEW p \in Procs, Recreate(p) PROVE LeaseTypeOK'
  BY <1>5 DEF Recreate, Refuse
<1>6. ASSUME NEW p \in Procs, WriteOwner(p) PROVE LeaseTypeOK'
  BY <1>6 DEF WriteOwner
<1>7. ASSUME NEW p \in Procs, FailToWrite(p) PROVE LeaseTypeOK'
  BY <1>7 DEF FailToWrite
<1>8. ASSUME NEW p \in Procs, Release(p) PROVE LeaseTypeOK'
  BY <1>8 DEF Release
<1>9. ASSUME NEW p \in Procs, LeaseDie(p) PROVE LeaseTypeOK'
  BY <1>9 DEF LeaseDie
<1> QED
  BY LeaseStepCases, <1>1, <1>2, <1>3, <1>4, <1>5, <1>6, <1>7, <1>8, <1>9

LEMMA LeaseTypeInit == LeaseInit => LeaseTypeOK
<1> SUFFICES ASSUME LeaseInit PROVE LeaseTypeOK
  OBVIOUS
<1>1. file \in LeaseFile /\ raced \in BOOLEAN
  BY DEF LeaseInit, LeaseFile
<1>2. faults \in 0 .. MaxFaults
  BY RunLeaseAssumption DEF LeaseInit
<1>3. phase \in [Procs -> {"out"}]
  BY DEF LeaseInit
<1> QED
  BY <1>1, <1>2, <1>3 DEF LeaseTypeOK

-----------------------------------------------------------------------------
TakeoverInv ==
    /\ \A p \in Procs : phase[p] = "write" => file = CreatedBy(p, FALSE)
    /\ \A p \in Procs : phase[p] = "in" => file = CreatedBy(p, TRUE)
    /\ \A p \in Procs : phase[p] = "unlink" => There /\ ~Alive(file.by)
    /\ \A p, q \in Taking : p = q

LeaseInv == ~raced => TakeoverInv

LEMMA TakeoverInductive ==
    ASSUME LeaseTypeOK, TakeoverInv, [LeaseNext]_leaseVars, ~raced'
    PROVE  TakeoverInv'
<1> USE RunLeaseAssumption DEF LeaseTypeOK, TakeoverInv, LeaseFile, Absent, CreatedBy, There,
    Go, Taking, Alive
<1>1. ASSUME UNCHANGED leaseVars PROVE TakeoverInv'
  BY <1>1 DEF leaseVars
<1>2. ASSUME NEW p \in Procs, Create(p) PROVE TakeoverInv'
  <2>1. CASE There
    BY <1>2, <2>1 DEF Create
  <2>2. CASE ~There
    <3>1. \A q \in Procs : phase[q] \notin {"write", "in"}
      BY <2>2
    <3>2. /\ file' = CreatedBy(p, FALSE)
          /\ phase' = [phase EXCEPT ![p] = "write"]
      BY <1>2, <2>2 DEF Create
    <3>3. \A q \in Procs : phase[q] # "unlink"
      BY <2>2
    <3> QED
      BY <3>1, <3>2, <3>3
  <2> QED
    BY <2>1, <2>2
<1>3. ASSUME NEW p \in Procs, ReadOwner(p) PROVE TakeoverInv'
  BY <1>3 DEF ReadOwner, OwnerIsDead, Refuse
<1>4. ASSUME NEW p \in Procs, UnlinkDead(p) PROVE TakeoverInv'
  BY <1>4 DEF UnlinkDead, Refuse
<1>5. ASSUME NEW p \in Procs, Recreate(p) PROVE TakeoverInv'
  BY <1>5 DEF Recreate, Refuse
<1>6. ASSUME NEW p \in Procs, WriteOwner(p) PROVE TakeoverInv'
  <2>1. \A q \in Procs \ {p} : phase[q] \notin {"write", "in", "unlink"}
    BY <1>6 DEF WriteOwner
  <2>2. /\ file' = CreatedBy(p, TRUE)
        /\ phase' = [phase EXCEPT ![p] = "in"]
    BY <1>6 DEF WriteOwner
  <2> QED
    BY <2>1, <2>2
<1>7. ASSUME NEW p \in Procs, FailToWrite(p) PROVE TakeoverInv'
  BY <1>7 DEF FailToWrite
<1>8. ASSUME NEW p \in Procs, Release(p) PROVE TakeoverInv'
  BY <1>8 DEF Release
<1>9. ASSUME NEW p \in Procs, LeaseDie(p) PROVE TakeoverInv'
  BY <1>9 DEF LeaseDie
<1> QED
  BY LeaseStepCases, <1>1, <1>2, <1>3, <1>4, <1>5, <1>6, <1>7, <1>8, <1>9

LEMMA LeaseInvInductive ==
    ASSUME LeaseTypeOK, LeaseInv, [LeaseNext]_leaseVars
    PROVE  LeaseInv'
<1> SUFFICES ASSUME ~raced' PROVE TakeoverInv'
  BY DEF LeaseInv
<1>1. ~raced
  BY DEF LeaseTypeOK, LeaseNext, TakeLease, leaseVars, Create, Refuse, ReadOwner, UnlinkDead,
         Recreate, WriteOwner, FailToWrite, Release, LeaseDie
<1> QED
  BY <1>1, TakeoverInductive DEF LeaseInv

LEMMA LeaseInvHolds == LeaseSpec => [](LeaseTypeOK /\ LeaseInv)
<1>1. LeaseInit => LeaseInv
  BY DEF LeaseInit, LeaseInv, TakeoverInv, Taking
<1>2. LeaseTypeOK /\ LeaseInv /\ [LeaseNext]_leaseVars => LeaseTypeOK' /\ LeaseInv'
  BY LeaseTypeInductive, LeaseInvInductive
<1> QED
  BY <1>1, <1>2, LeaseTypeInit, PTL DEF LeaseSpec

(***************************************************************************)
(* The lease file, the programs' phases and the number of faults keep      *)
(* their types, races included.                                            *)
(***************************************************************************)
THEOREM LeaseTypeCorrect == LeaseSpec => []LeaseTypeOK
  BY LeaseTypeInit, LeaseTypeInductive, PTL DEF LeaseSpec

(***************************************************************************)
(* A run is never open in two programs, as long as one program at a time   *)
(* takes over a dead owner's lease: any number of programs may start,      *)
(* refuse, fail to write and die at any step beside it.                    *)
(***************************************************************************)
THEOREM OneOwner == LeaseSpec => []SoleOwner
<1>1. LeaseInv => SoleOwner
  <2> SUFFICES ASSUME TakeoverInv, NEW p \in Inside, NEW q \in Inside PROVE p = q
    BY DEF LeaseInv, SoleOwner
  <2>1. CreatedBy(p, TRUE) = CreatedBy(q, TRUE)
    BY DEF TakeoverInv, Inside
  <2> QED
    BY <2>1 DEF CreatedBy
<1> QED
  BY <1>1, LeaseInvHolds, PTL

(***************************************************************************)
(* Under the same condition the lease in the directory is always that of   *)
(* the program inside: release never unlinks another's.                    *)
(***************************************************************************)
THEOREM OwnRecordStays == LeaseSpec => []OwnRecord
<1>1. LeaseInv => OwnRecord
  BY DEF LeaseInv, TakeoverInv, OwnRecord, Inside
<1> QED
  BY <1>1, LeaseInvHolds, PTL

-----------------------------------------------------------------------------
(***************************************************************************)
(* The session.  What it does to the lease is what the lease allows.       *)
(***************************************************************************)

Places == {"away", "fresh", "leasing", "opening", "starting", "announcing", "running", "crashing",
           "ending", "ended", "closing", "closed", "lingering", "downstream", "deciding"}
Outcomes == {"none", "completed", "stage_completed", "failed", "interrupted"}
Names == Outcomes \cup {"note", "started", "work"}
Statuses == {"none", "created", "running", "interrupted", "failed", "completed"}
Runs == Procs \cup {Nobody}
Manifests == [run : Runs, status : Statuses]
Events == [sequence : Nat, run : Runs, name : Names]
ChunkSet == [event : Events, part : 1 .. 3]
Sessions == [at : Places, appends : BOOLEAN, adopted : Manifests, last : Nat,
             buffer : Seq(ChunkSet), notes : Int, work : Int, outcome : Outcomes,
             defers : BOOLEAN]

TypeInv ==
    /\ LeaseTypeOK
    /\ manifest \in Manifests
    /\ events \in Seq(ChunkSet)
    /\ session \in [Procs -> Sessions]
    /\ reported \in SUBSET Events
    /\ late \in BOOLEAN

\* The actions one by one.
LEMMA SessionStepCases ==
    ASSUME [Next]_vars
    PROVE  \/ \E p \in Procs :
                \/ \E appends \in BOOLEAN : ReadManifest(p, appends)
                \/ WriteFreshManifest(p) \/ AcquireLease(p) \/ Prepare(p)
                \/ EmitNote(p) \/ Start(p) \/ EmitStarted(p)
                \/ EmitWork(p) \/ FinishWork(p) \/ FailWork(p)
                \/ EmitOutcome(p) \/ WriteManifest(p) \/ Close(p) \/ ReleaseLease(p)
                \/ Finalize(p) \/ ReadForTransition(p) \/ WriteTransition(p) \/ Die(p)
           \/ UNCHANGED vars
  BY DEF Next, Operate

LEMMA SessionReplaced ==
    ASSUME TypeInv, NEW p \in Procs, NEW r \in Sessions, session' = [session EXCEPT ![p] = r]
    PROVE  /\ session' \in [Procs -> Sessions]
           /\ session'[p] = r
           /\ \A q \in Procs \ {p} : session'[q] = session[q]
  BY DEF TypeInv

\* The program p goes on with its session at the place, with the last sequence
\* number and the buffer given.
Carries(p, place, last, buffer) ==
    /\ session' \in [Procs -> Sessions]
    /\ session'[p].at = place /\ session'[p].last = last /\ session'[p].buffer = buffer
    /\ session'[p].adopted.run = session[p].adopted.run
    /\ \A q \in Procs \ {p} : session'[q] = session[q]

Moves(p, place) == Carries(p, place, session[p].last, session[p].buffer)

LEMMA MovesOn ==
    ASSUME TypeInv, NEW p \in Procs, NEW place \in Places, GoTo(p, place)
    PROVE  /\ Moves(p, place)
           /\ session'[p].outcome = session[p].outcome /\ session'[p].adopted = session[p].adopted
<1> DEFINE r == [session[p] EXCEPT !.at = place]
<1>1. session[p] \in Sessions
  BY DEF TypeInv
<1>2. session' = [session EXCEPT ![p] = r]
  BY DEF GoTo, Set
<1>3. /\ r \in Sessions /\ r.at = place /\ r.buffer = session[p].buffer /\ r.last = session[p].last
      /\ r.adopted = session[p].adopted /\ r.outcome = session[p].outcome
  BY <1>1 DEF Sessions
<1> HIDE DEF r
<1>. QED
  BY <1>2, <1>3, SessionReplaced DEF Moves, Carries

LEMMA AwayTyped ==
    /\ Away \in Sessions /\ Away.at = "away" /\ Away.buffer = <<>>
    /\ Away.last = 0 /\ Away.outcome = "none"
<1>1. NoManifest \in Manifests
  BY DEF NoManifest, Manifests, Runs, Statuses
<1>2. <<>> \in Seq(ChunkSet)
  OBVIOUS
<1>. QED
  BY <1>1, <1>2 DEF Away, Sessions, Places, Outcomes

\* The program p leaves its session.
Leaves(p) ==
    /\ session' \in [Procs -> Sessions]
    /\ session'[p] = Away
    /\ \A q \in Procs \ {p} : session'[q] = session[q]

LEMMA LeavesIt ==
    ASSUME TypeInv, NEW p \in Procs, session' = [session EXCEPT ![p] = Away]
    PROVE  Leaves(p)
  BY AwayTyped, SessionReplaced DEF Leaves

\* A new session, from what the manifest says.
LEMMA ReadManifestEffect ==
    ASSUME TypeInv, NEW p \in Procs, NEW appends \in BOOLEAN, ReadManifest(p, appends)
    PROVE  /\ At(p, "away") /\ Alive(p)
           /\ session' \in [Procs -> Sessions]
           /\ session'[p].at \in {"fresh", "leasing"} /\ session'[p].buffer = <<>>
           /\ session'[p].at = "fresh" => session'[p].adopted = [run |-> p, status |-> "created"]
           /\ \A q \in Procs \ {p} : session'[q] = session[q]
           /\ UNCHANGED <<leaseVars, manifest, events, reported, late>>
<1> DEFINE adopted == IF manifest = NoManifest THEN [run |-> p, status |-> "created"] ELSE manifest
           place == IF manifest = NoManifest THEN "fresh" ELSE "leasing"
           r == [Away EXCEPT !.at = place, !.appends = appends, !.adopted = adopted]
<1>1. adopted \in Manifests
  BY DEF TypeInv, Manifests, Runs, Statuses
<1>2. place \in {"fresh", "leasing"}
      /\ (place = "fresh" => adopted = [run |-> p, status |-> "created"])
  OBVIOUS
<1>3. session' = [session EXCEPT ![p] = r]
  BY DEF ReadManifest
<1> HIDE DEF adopted, place
<1>4. /\ r \in Sessions /\ r.at = place /\ r.buffer = <<>> /\ r.adopted = adopted
  BY <1>1, <1>2, AwayTyped DEF Sessions, Places
<1> HIDE DEF r
<1>. QED
  BY <1>2, <1>3, <1>4, SessionReplaced DEF ReadManifest

LEMMA FreshEffect ==
    ASSUME TypeInv, NEW p \in Procs, WriteFreshManifest(p)
    PROVE  /\ At(p, "fresh") /\ Moves(p, "leasing") /\ manifest' = session[p].adopted
           /\ manifest' \in Manifests
           /\ UNCHANGED <<leaseVars, events, reported, late>>
<1>1. GoTo(p, "leasing")
  BY DEF WriteFreshManifest
<1>2. session[p] \in Sessions
  BY DEF TypeInv
<1>3. session[p].adopted \in Manifests
  BY <1>2 DEF Sessions
<1>. QED
  BY <1>1, <1>3, MovesOn DEF WriteFreshManifest, Places

LEMMA AcquireEffect ==
    ASSUME TypeInv, NEW p \in Procs, AcquireLease(p)
    PROVE  /\ At(p, "leasing") /\ (Create(p) \/ TakeLease(p))
           /\ \/ phase'[p] = "out" /\ Leaves(p)
              \/ phase'[p] = "in" /\ Moves(p, "opening")
              \/ phase'[p] \notin {"out", "in"} /\ Moves(p, "leasing")
           /\ UNCHANGED <<manifest, events, reported, late>>
<1> USE DEF AcquireLease
<1>1. CASE phase'[p] = "out"
  BY <1>1, LeavesIt DEF Leasing
<1>2. CASE phase'[p] # "out"
  <2> DEFINE place == IF phase'[p] = "in" THEN "opening" ELSE "leasing"
             notes == IF phase'[p] = "recreate" /\ ~session[p].appends
                      THEN session[p].notes + 1 ELSE session[p].notes
             r == [session[p] EXCEPT !.at = place, !.notes = notes]
  <2>1. session[p] \in Sessions
    BY DEF TypeInv
  <2>2. notes \in Int /\ place \in Places
    BY <2>1 DEF Sessions, Places
  <2>3. session' = [session EXCEPT ![p] = r]
    BY <1>2 DEF Leasing
  <2> HIDE DEF notes
  <2>4. /\ r \in Sessions /\ r.at = place /\ r.buffer = session[p].buffer
        /\ r.last = session[p].last /\ r.adopted = session[p].adopted
    BY <2>1, <2>2 DEF Sessions
  <2> HIDE DEF r, place
  <2>5. Moves(p, place)
    BY <2>3, <2>4, SessionReplaced DEF Moves, Carries
  <2>. QED
    BY <1>2, <2>5 DEF place
<1>. QED
  BY <1>1, <1>2

-----------------------------------------------------------------------------
(***************************************************************************)
(* Streams.  One is regular when each chunk is the next of its line or the *)
(* first of another, and rising when the sequence numbers grow from line   *)
(* to line.  The chunks of a beginning, and of a stream and a line more,   *)
(* are all the proofs need of how the sequences are built.                 *)
(***************************************************************************)

Follows(a, b) ==
    IF a.part = 3 THEN b.part = 1 ELSE b.event = a.event /\ b.part = a.part + 1

Regular(s) ==
    /\ Len(s) > 0 => s[1].part = 1
    /\ \A i \in 1 .. (Len(s) - 1) : Follows(s[i], s[i + 1])

Rising(s) ==
    \A i, j \in 1 .. Len(s) : i < j =>
        /\ s[i].event.sequence <= s[j].event.sequence
        /\ s[i].part = 3 => s[i].event.sequence < s[j].event.sequence

Fine(s) == Regular(s) /\ Rising(s)
Closed(s) == Len(s) > 0 => s[Len(s)].part = 3
UpTo(s, n) == \A i \in 1 .. Len(s) : s[i].event.sequence <= n

\* The events whose lines are complete.
Done(s) == {s[i].event : i \in {j \in 1 .. Len(s) : s[j].part = 3}}

LEMMA Beginning ==
    ASSUME NEW s \in Seq(ChunkSet), NEW n \in 0 .. Len(s)
    PROVE  /\ SubSeq(s, 1, n) \in Seq(ChunkSet)
           /\ Len(SubSeq(s, 1, n)) = n
           /\ \A i \in 1 .. n : SubSeq(s, 1, n)[i] = s[i]
<1>1. \A i \in 1 .. n : s[i] \in ChunkSet
  BY ElementOfSeq
<1>2. \A i \in 1 .. n - 1 + 1 : SubSeq(s, 1, n)[i] = s[1 + i - 1]
      /\ Len(SubSeq(s, 1, n)) = IF 1 <= n THEN n - 1 + 1 ELSE 0
  BY <1>1, SubSeqProperties
<1>3. SubSeq(s, 1, n) \in Seq(ChunkSet)
  BY <1>1, SubSeqProperties
<1>4. Len(SubSeq(s, 1, n)) = n
  BY <1>1, SubSeqProperties
<1>5. \A i \in 1 .. n : SubSeq(s, 1, n)[i] = s[i]
  BY <1>1, SubSeqProperties
<1>. QED
  BY <1>3, <1>4, <1>5

LEMMA BeginningIsFine ==
    ASSUME NEW s \in Seq(ChunkSet), NEW n \in 0 .. Len(s), Fine(s)
    PROVE  Fine(SubSeq(s, 1, n))
<1> DEFINE b == SubSeq(s, 1, n)
<1>1. b \in Seq(ChunkSet) /\ Len(b) = n /\ \A i \in 1 .. n : b[i] = s[i]
  BY Beginning
<1>2. Len(s) \in Nat /\ n \in Nat /\ n <= Len(s)
  BY LenProperties
<1> HIDE DEF b
<1>3. Regular(b)
  BY <1>1, <1>2 DEF Fine, Regular
<1>4. Rising(b)
  BY <1>1, <1>2 DEF Fine, Rising
<1>. QED
  BY <1>3, <1>4 DEF Fine, b

LEMMA DoneGrows ==
    ASSUME NEW s \in Seq(ChunkSet), NEW t \in Seq(ChunkSet)
    PROVE  s \o t \in Seq(ChunkSet) /\ Done(s) \subseteq Done(s \o t)
<1>1. /\ s \o t \in Seq(ChunkSet) /\ Len(s \o t) = Len(s) + Len(t)
      /\ \A i \in 1 .. Len(s) + Len(t) : (s \o t)[i] = IF i <= Len(s) THEN s[i] ELSE t[i - Len(s)]
  BY ConcatProperties
<1>2. Len(s) \in Nat /\ Len(t) \in Nat
  BY LenProperties
<1>3. \A i \in 1 .. Len(s) : i \in 1 .. Len(s \o t) /\ (s \o t)[i] = s[i]
  BY <1>1, <1>2
<1>. QED
  BY <1>1, <1>3 DEF Done

LEMMA LineChunks ==
    ASSUME NEW e \in Events
    PROVE  /\ Chunks(e) \in Seq(ChunkSet) /\ Len(Chunks(e)) = 3
           /\ \A i \in 1 .. 3 : Chunks(e)[i] = [event |-> e, part |-> i]
<1>1. Chunks(e) \in [1 .. 3 -> ChunkSet]
  BY DEF Chunks, ChunkSet
<1>2. Chunks(e) \in Seq(ChunkSet)
  <2> DEFINE c(i) == [event |-> e, part |-> i]
  <2>1. <<c(1), c(2), c(3)>> \in Seq(ChunkSet)
    BY DEF ChunkSet
  <2>2. Chunks(e) = <<c(1), c(2), c(3)>>
    BY DEF Chunks
  <2>. QED
    BY <2>1, <2>2
<1>3. DOMAIN Chunks(e) = 1 .. Len(Chunks(e)) /\ Len(Chunks(e)) \in Nat
  BY <1>2, LenProperties
<1>4. DOMAIN Chunks(e) = 1 .. 3
  BY <1>1
<1>. QED
  BY <1>2, <1>3, <1>4 DEF Chunks

\* A line more, under a number above all the others.
LEMMA LineAdded ==
    ASSUME NEW s \in Seq(ChunkSet), NEW n \in Nat, NEW e \in Events,
           Fine(s), Closed(s), UpTo(s, n), e.sequence = n + 1
    PROVE  /\ s \o Chunks(e) \in Seq(ChunkSet)
           /\ Fine(s \o Chunks(e)) /\ Closed(s \o Chunks(e)) /\ UpTo(s \o Chunks(e), n + 1)
           /\ e \in Done(s \o Chunks(e))
<1> PICK c \in Seq(ChunkSet) : c = Chunks(e)
  BY LineChunks
<1>0. Len(c) = 3
  BY LineChunks
<1> DEFINE t == s \o c
           L == Len(s)
<1>1. L \in Nat
  BY LenProperties
<1>2. t \in Seq(ChunkSet) /\ Len(t) = L + 3
  <2> HIDE DEF L
  <2>1. t \in Seq(ChunkSet) /\ Len(t) = Len(s) + Len(c)
    BY ConcatProperties, Zenon
  <2>. QED
    BY <1>0, <2>1 DEF L
<1>3. \A i \in 1 .. L + 3 : t[i] = IF i <= L THEN s[i] ELSE c[i - L]
  <2>1. \A i \in 1 .. Len(s) + Len(c) : t[i] = IF i <= Len(s) THEN s[i] ELSE c[i - Len(s)]
    BY ConcatProperties, Zenon
  <2>. QED
    BY <1>0, <2>1, Zenon
<1>4. \A i \in 1 .. L : t[i] = s[i] /\ s[i] \in ChunkSet
  BY <1>1, <1>3, ElementOfSeq
<1>5. \A i \in L + 1 .. L + 3 : t[i] = [event |-> e, part |-> i - L]
  <2> HIDE DEF L
  <2> SUFFICES ASSUME NEW i \in L + 1 .. L + 3 PROVE t[i] = [event |-> e, part |-> i - L]
    OBVIOUS
  <2>1. i \in 1 .. L + 3 /\ ~(i <= L) /\ i - L \in 1 .. 3
    BY <1>1
  <2>2. t[i] = c[i - L]
    BY <1>3, <2>1
  <2>3. c[i - L] = [event |-> e, part |-> i - L]
    BY <2>1, LineChunks
  <2>. QED
    BY <2>2, <2>3
<1>6. \A i \in 1 .. L + 3 : i \in 1 .. L \/ i \in L + 1 .. L + 3
  BY <1>1
<1>7. \A i \in L + 1 .. L + 3 : t[i].event = e /\ t[i].part = i - L
  <2> SUFFICES ASSUME NEW i \in L + 1 .. L + 3 PROVE t[i].event = e /\ t[i].part = i - L
    OBVIOUS
  <2>1. t[i] = [event |-> e, part |-> i - L]
    BY <1>5
  <2> HIDE DEF t
  <2>. QED
    BY <2>1
<1>8. \A i \in 1 .. L : t[i].event.sequence \in Nat /\ t[i].part \in 1 .. 3
  BY <1>4 DEF ChunkSet, Events
<1> HIDE DEF t
<1>9. Regular(t)
  <2>1. t[1].part = 1
    BY <1>1, <1>4, <1>7 DEF Fine, Regular
  <2>2. ASSUME NEW i \in 1 .. (L + 2) PROVE Follows(t[i], t[i + 1])
    <3>1. CASE i < L
      <4>1. Follows(s[i], s[i + 1])
        BY <1>1, <3>1 DEF Fine, Regular
      <4>. QED
        BY <1>1, <1>4, <3>1, <4>1
    <3>2. CASE i = L
      <4>1. t[i].part = 3 /\ t[i + 1].part = 1
        BY <1>1, <1>4, <1>7, <3>2 DEF Closed
      <4>. QED
        BY <4>1 DEF Follows
    <3>3. CASE i > L
      <4>1. i \in L + 1 .. L + 2 /\ i \in L + 1 .. L + 3 /\ i + 1 \in L + 1 .. L + 3
        BY <1>1, <3>3
      <4>2. t[i].event = e /\ t[i].part = i - L /\ t[i + 1].event = e /\ t[i + 1].part = i + 1 - L
        BY <1>7, <4>1
      <4>. QED
        BY <1>1, <4>1, <4>2 DEF Follows
    <3>. QED
      BY <1>1, <3>1, <3>2, <3>3
  <2>. QED
    BY <1>1, <1>2, <2>1, <2>2 DEF Regular
<1>10. Rising(t)
  <2> SUFFICES ASSUME NEW i \in 1 .. L + 3, NEW j \in 1 .. L + 3, i < j
               PROVE  /\ t[i].event.sequence <= t[j].event.sequence
                      /\ t[i].part = 3 => t[i].event.sequence < t[j].event.sequence
    BY <1>2 DEF Rising
  <2>1. CASE j \in 1 .. L
    <3>1. i \in 1 .. Len(s) /\ j \in 1 .. Len(s) /\ t[i] = s[i] /\ t[j] = s[j]
      BY <1>1, <1>4, <2>1
    <3>2. /\ s[i].event.sequence <= s[j].event.sequence
          /\ s[i].part = 3 => s[i].event.sequence < s[j].event.sequence
      BY <3>1 DEF Fine, Rising
    <3>. QED
      BY <3>1, <3>2
  <2>2. CASE j \in L + 1 .. L + 3 /\ i \in 1 .. L
    <3>1. t[i].event.sequence <= n /\ t[j].event.sequence = n + 1 /\ t[i].event.sequence \in Nat
      BY <1>4, <1>7, <1>8, <2>2 DEF UpTo
    <3>. QED
      BY <3>1
  <2>3. CASE j \in L + 1 .. L + 3 /\ i \in L + 1 .. L + 3
    <3>1. t[i].event.sequence = n + 1 /\ t[j].event.sequence = n + 1 /\ t[i].part = i - L
      BY <1>7, <2>3
    <3>2. i - L # 3
      BY <1>1, <2>3
    <3>. QED
      BY <3>1, <3>2
  <2>. QED
    BY <1>6, <2>1, <2>2, <2>3
<1>11. Closed(t)
  BY <1>1, <1>2, <1>7 DEF Closed
<1>12. UpTo(t, n + 1)
  <2> SUFFICES ASSUME NEW i \in 1 .. L + 3 PROVE t[i].event.sequence <= n + 1
    BY <1>2 DEF UpTo
  <2>1. CASE i \in 1 .. L
    <3>1. t[i].event.sequence <= n /\ t[i].event.sequence \in Nat
      BY <1>4, <1>8, <2>1 DEF UpTo
    <3>. QED
      BY <3>1
  <2>2. CASE i \in L + 1 .. L + 3
    BY <1>7, <2>2
  <2>. QED
    BY <1>6, <2>1, <2>2
<1>13. e \in Done(t)
  <2>1. L + 3 \in 1 .. Len(t) /\ t[L + 3].part = 3 /\ t[L + 3].event = e
    BY <1>1, <1>2, <1>7
  <2>. QED
    BY <2>1 DEF Done
<1>. QED
  BY <1>2, <1>9, <1>10, <1>11, <1>12, <1>13 DEF Fine, t

\* What is written of a buffer and what stays in it.
LEMMA Written ==
    ASSUME NEW s \in Seq(ChunkSet), NEW b \in Seq(ChunkSet), NEW k \in 0 .. Len(b)
    PROVE  /\ SubSeq(b, 1, k) \in Seq(ChunkSet) /\ SubSeq(b, k + 1, Len(b)) \in Seq(ChunkSet)
           /\ (s \o SubSeq(b, 1, k)) \o SubSeq(b, k + 1, Len(b)) = s \o b
           /\ Len(s) + k \in 0 .. Len(s \o b)
           /\ s \o SubSeq(b, 1, k) = SubSeq(s \o b, 1, Len(s) + k)
<1>1. Len(b) \in Nat /\ Len(s) \in Nat
  BY LenProperties
<1>2. SubSeq(b, 1, k) \in Seq(ChunkSet) /\ Len(SubSeq(b, 1, k)) = k
      /\ \A i \in 1 .. k : SubSeq(b, 1, k)[i] = b[i]
  BY Beginning
<1>3. SubSeq(b, k + 1, Len(b)) \in Seq(ChunkSet)
  <2>1. \A i \in k + 1 .. Len(b) : b[i] \in ChunkSet
    BY <1>1, ElementOfSeq
  <2>. QED
    BY <1>1, <2>1, SubSeqProperties
<1>4. SubSeq(b, 1, k) \o SubSeq(b, k + 1, Len(b)) = b
  <2>1. SubSeq(b, 1, k) \o SubSeq(b, k + 1, Len(b)) = SubSeq(b, 1, Len(b))
    <3>1. 1 \in 1 .. Len(b) + 1 /\ k \in (1 - 1) .. Len(b) /\ Len(b) \in k .. Len(b)
      BY <1>1
    <3>. QED
      BY <3>1, ConcatAdjacentSubSeq, Zenon
  <2>2. SubSeq(b, 1, Len(b)) = b
    BY SubSeqFull, Zenon
  <2>. QED
    BY <2>1, <2>2, Zenon
<1>5. (s \o SubSeq(b, 1, k)) \o SubSeq(b, k + 1, Len(b)) = s \o b
  <2>1. (s \o SubSeq(b, 1, k)) \o SubSeq(b, k + 1, Len(b))
            = s \o (SubSeq(b, 1, k) \o SubSeq(b, k + 1, Len(b)))
    <3>1. PICK x \in Seq(ChunkSet) : x = SubSeq(b, 1, k)
      BY <1>2, Zenon
    <3>2. PICK y \in Seq(ChunkSet) : y = SubSeq(b, k + 1, Len(b))
      BY <1>3, Zenon
    <3>3. (s \o x) \o y = s \o (x \o y)
      BY ConcatAssociative
    <3>. QED
      BY <3>1, <3>2, <3>3, Zenon
  <2>. QED
    BY <1>4, <2>1, Zenon
<1>6. s \o b \in Seq(ChunkSet) /\ Len(s \o b) = Len(s) + Len(b)
  BY ConcatProperties
<1>7. Len(s) + k \in 0 .. Len(s \o b)
  BY <1>1, <1>6
<1>8. s \o SubSeq(b, 1, k) = SubSeq(s \o b, 1, Len(s) + k)
  <2> DEFINE x == s \o SubSeq(b, 1, k)
             y == SubSeq(s \o b, 1, Len(s) + k)
  <2>1. x \in Seq(ChunkSet) /\ Len(x) = Len(s) + k
    BY <1>2, ConcatProperties
  <2>2. y \in Seq(ChunkSet) /\ Len(y) = Len(s) + k
        /\ \A i \in 1 .. Len(s) + k : y[i] = (s \o b)[i]
    BY <1>6, <1>7, Beginning
  <2>3. ASSUME NEW i \in 1 .. Len(s) + k PROVE x[i] = y[i]
    <3>1. x[i] = IF i <= Len(s) THEN s[i] ELSE SubSeq(b, 1, k)[i - Len(s)]
      BY <1>2, ConcatProperties
    <3>2. (s \o b)[i] = IF i <= Len(s) THEN s[i] ELSE b[i - Len(s)]
      BY <1>1, ConcatProperties
    <3>3. i <= Len(s) \/ i - Len(s) \in 1 .. k
      BY <1>1
    <3>. QED
      BY <1>2, <2>2, <3>1, <3>2, <3>3
  <2> HIDE DEF x, y
  <2>4. x = y
    BY <2>1, <2>2, <2>3, SeqEqual
  <2>. QED
    BY <2>4 DEF x, y
<1>. QED
  BY <1>2, <1>3, <1>5, <1>7, <1>8

\* What comes before a chunk of a regular stream.
LEMMA Before ==
    ASSUME NEW s \in Seq(ChunkSet), Regular(s), NEW i \in 1 .. Len(s)
    PROVE  /\ s[i].part \in 1 .. 3 /\ s[i] = [event |-> s[i].event, part |-> s[i].part]
           /\ s[i].part = 1 => EndsLine(s, i - 1)
           /\ s[i].part > 1 => /\ i - 1 \in 1 .. Len(s)
                               /\ s[i - 1].part = s[i].part - 1 /\ s[i - 1].event = s[i].event
<1>1. Len(s) \in Nat /\ \A j \in 1 .. Len(s) : s[j] \in ChunkSet
  BY LenProperties, ElementOfSeq
<1>2. \A j \in 1 .. Len(s) : s[j].part \in 1 .. 3 /\ s[j] = [event |-> s[j].event, part |-> s[j].part]
  BY <1>1 DEF ChunkSet
<1>3. CASE i = 1
  <2>1. s[i].part = 1
    BY <1>1, <1>3 DEF Regular
  <2>. QED
    BY <1>2, <1>3, <2>1 DEF EndsLine
<1>4. CASE i > 1
  <2>1. i - 1 \in 1 .. Len(s) /\ i - 1 \in 1 .. Len(s) - 1 /\ (i - 1) + 1 = i
    BY <1>1, <1>4
  <2>2. Follows(s[i - 1], s[i])
    BY <2>1 DEF Regular
  <2>3. s[i - 1].part \in 1 .. 3 /\ s[i].part \in 1 .. 3
    BY <1>2, <2>1
  <2>4. s[i].part = 1 => s[i - 1].part = 3
    BY <2>2, <2>3 DEF Follows
  <2>5. s[i].part > 1 => s[i - 1].part = s[i].part - 1 /\ s[i - 1].event = s[i].event
    BY <2>2, <2>3 DEF Follows
  <2>. QED
    BY <1>2, <2>1, <2>4, <2>5 DEF EndsLine
<1>. QED
  BY <1>3, <1>4

\* In a regular stream every line is one record.
LEMMA FineLines ==
    ASSUME NEW s \in Seq(ChunkSet), Regular(s)
    PROVE  /\ LineEnds(s) = {i \in 1 .. Len(s) : s[i].part = 3}
           /\ \A i \in LineEnds(s) : IsRecord(s, i)
           /\ Done(s) \subseteq Kept(s)
<1>1. Len(s) \in Nat /\ DOMAIN s = 1 .. Len(s)
  BY LenProperties
<1>2. ASSUME NEW i \in 1 .. Len(s), s[i].part = 3
      PROVE  ~EndsLine(s, i - 1) /\ EndsLine(s, i) /\ IsRecord(s, i)
  <2>1. /\ i - 1 \in 1 .. Len(s) /\ s[i - 1].part = 2 /\ s[i - 1].event = s[i].event
        /\ s[i] = [event |-> s[i].event, part |-> 3]
    BY <1>2, Before
  <2>2. /\ i - 2 \in 1 .. Len(s) /\ s[i - 2].part = 1 /\ s[i - 2].event = s[i].event
        /\ s[i - 1] = [event |-> s[i].event, part |-> 2]
    <3>1. (i - 1) - 1 = i - 2
      BY <1>1
    <3>. QED
      BY <2>1, <3>1, Before
  <2>3. EndsLine(s, i - 3) /\ s[i - 2] = [event |-> s[i].event, part |-> 1]
    <3>1. (i - 2) - 1 = i - 3
      BY <1>1
    <3>. QED
      BY <2>2, <3>1, Before
  <2>4. s[i].event \in Events
    <3>1. s[i] \in ChunkSet
      BY ElementOfSeq
    <3>. QED
      BY <3>1 DEF ChunkSet
  <2> DEFINE t == SubSeq(s, i - 2, i)
             e == s[i].event
  <2>5. t \in Seq(ChunkSet) /\ Len(t) = 3 /\ \A j \in 1 .. 3 : t[j] = s[i - 2 + j - 1]
    <3>1. \A j \in i - 2 .. i : s[j] \in ChunkSet
      BY <2>2, ElementOfSeq
    <3>2. i - 2 \in Int /\ i \in Int /\ i - 2 <= i /\ i - (i - 2) + 1 = 3
      BY <1>1
    <3>3. \A j \in 1 .. i - (i - 2) + 1 : t[j] = s[(i - 2) + j - 1]
      BY <3>1, <3>2, SubSeqProperties
    <3>4. t \in Seq(ChunkSet) /\ Len(t) = i - (i - 2) + 1
      BY <3>1, <3>2, SubSeqProperties
    <3>. QED
      BY <3>2, <3>3, <3>4
  <2>6. t[1] = s[i - 2] /\ t[2] = s[i - 1] /\ t[3] = s[i]
    <3>1. i - 2 + 1 - 1 = i - 2 /\ i - 2 + 2 - 1 = i - 1 /\ i - 2 + 3 - 1 = i
      BY <1>1
    <3>2. t[1] = s[i - 2 + 1 - 1] /\ t[2] = s[i - 2 + 2 - 1] /\ t[3] = s[i - 2 + 3 - 1]
      BY <2>5
    <3>. QED
      BY <3>1, <3>2
  <2>7. PICK c \in Seq(ChunkSet) : c = Chunks(e)
    BY <2>4, LineChunks
  <2>8. Len(c) = 3 /\ c[1] = t[1] /\ c[2] = t[2] /\ c[3] = t[3]
    <3>1. /\ Len(c) = 3 /\ c[1] = [event |-> e, part |-> 1] /\ c[2] = [event |-> e, part |-> 2]
          /\ c[3] = [event |-> e, part |-> 3]
      BY <2>4, <2>7, LineChunks
    <3>. QED
      BY <2>1, <2>2, <2>3, <2>6, <3>1
  <2> HIDE DEF t
  <2>9. t = c
    <3>1. \A j \in 1 .. 3 : t[j] = c[j]
      BY <2>8
    <3>. QED
      BY <2>5, <2>8, <3>1, SeqEqual
  <2>10. i >= 3 /\ i # 0 /\ i - 1 # 0
    BY <1>1, <2>2
  <2>11. IsRecord(s, i)
    <3>1. SubSeq(s, i - 2, i) = Chunks(s[i].event)
      BY <2>7, <2>9, Zenon DEF t
    <3>. QED
      BY <2>3, <2>10, <3>1, Zenon DEF IsRecord
  <2>. QED
    BY <1>2, <2>1, <2>10, <2>11 DEF EndsLine
<1>3. LineEnds(s) = {i \in 1 .. Len(s) : s[i].part = 3}
  <2>1. \A i \in 1 .. Len(s) : EndsLine(s, i) <=> s[i].part = 3
    BY <1>1 DEF EndsLine
  <2>. QED
    BY <1>1, <1>2, <2>1 DEF LineEnds
<1>. QED
  BY <1>2, <1>3 DEF Done, Kept

\* There is a place where the torn end starts.
LEMMA TailStarts ==
    ASSUME NEW s \in Seq(ChunkSet), Regular(s)
    PROVE  /\ TailStart(s) \in 0 .. Len(s) /\ EndsLine(s, TailStart(s))
           /\ \A k \in (TailStart(s) + 1) .. Len(s) : ~EndsLine(s, k)
<1> DEFINE Starts(j) == EndsLine(s, j) /\ \A k \in (j + 1) .. Len(s) : ~EndsLine(s, k)
           L == Len(s)
<1>1. L \in Nat
  BY LenProperties
<1>2. \E j \in 0 .. L : Starts(j)
  <2>1. CASE L = 0
    BY <2>1 DEF EndsLine
  <2>2. CASE L > 0 /\ s[L].part = 3
    BY <1>1, <2>2 DEF EndsLine
  <2>3. CASE L > 0 /\ s[L].part = 1
    <3>1. L \in 1 .. L /\ L - 1 \in 0 .. L
      BY <1>1, <2>3
    <3>2. EndsLine(s, L - 1)
      BY <2>3, <3>1, Before
    <3>3. \A k \in (L - 1) + 1 .. L : ~EndsLine(s, k)
      <4>1. \A k \in (L - 1) + 1 .. L : k = L
        BY <1>1
      <4>. QED
        BY <2>3, <4>1 DEF EndsLine
    <3>. QED
      BY <3>1, <3>2, <3>3
  <2>4. CASE L > 0 /\ s[L].part = 2
    <3>1. L \in 1 .. L
      BY <1>1, <2>4
    <3>2. L - 1 \in 1 .. L /\ s[L - 1].part = 1
      <4>1. s[L].part > 1 /\ s[L].part - 1 = 1
        BY <2>4
      <4>2. L - 1 \in 1 .. L /\ s[L - 1].part = s[L].part - 1
        BY <3>1, <4>1, Before
      <4>. QED
        BY <4>1, <4>2
    <3>3. EndsLine(s, L - 2) /\ L - 2 \in 0 .. L
      <4>1. (L - 1) - 1 = L - 2
        BY <1>1
      <4>2. EndsLine(s, L - 2)
        BY <3>2, <4>1, Before
      <4>. QED
        BY <1>1, <3>2, <4>2
    <3>4. \A k \in (L - 2) + 1 .. L : ~EndsLine(s, k)
      <4>1. L >= 2
        BY <1>1, <3>2
      <4> HIDE DEF L
      <4>2. \A k \in (L - 2) + 1 .. L : k # 0 /\ (k = L - 1 \/ k = L)
        BY <1>1, <4>1
      <4>3. s[L].part = 2 /\ s[L - 1].part = 1
        BY <2>4, <3>2 DEF L
      <4> SUFFICES ASSUME NEW k \in (L - 2) + 1 .. L PROVE ~EndsLine(s, k)
        BY DEF L
      <4>4. k # 0 /\ s[k].part # 3
        BY <4>2, <4>3
      <4>. QED
        BY <4>4 DEF EndsLine
    <3>. QED
      BY <3>3, <3>4
  <2>5. L > 0 => s[L].part \in 1 .. 3
    <3>1. L > 0 => L \in 1 .. L
      BY <1>1
    <3>. QED
      BY <3>1, Before
  <2>6. L > 0 => s[L].part = 1 \/ s[L].part = 2 \/ s[L].part = 3
    BY <2>5
  <2>. QED
    BY <1>1, <2>1, <2>2, <2>3, <2>4, <2>6
<1>. QED
  BY <1>2 DEF TailStart

\* What only lacks its newline is the two halves of one event's line.
LEMMA TwoHalves ==
    ASSUME NEW t \in Seq(ChunkSet), OnlyLacksNewline(t)
    PROVE  /\ Len(t) = 2 /\ t[1].event \in Events
           /\ t[2].part = 2 /\ t[2].event = t[1].event
<1>1. t # <<>> /\ t = SubSeq(Chunks(t[1].event), 1, 2)
  BY DEF OnlyLacksNewline
<1>2. Len(t) \in Nat \ {0}
  BY <1>1, EmptySeq
<1>3. t[1] \in ChunkSet
  BY <1>2, ElementOfSeq
<1>4. PICK e \in Events : e = t[1].event
  BY <1>3 DEF ChunkSet
<1>5. PICK c \in Seq(ChunkSet) : c = Chunks(e)
  BY LineChunks
<1>6. Len(c) = 3
  BY <1>5, LineChunks
<1>7. c[2] = [event |-> e, part |-> 2]
  <2>1. 2 \in 1 .. 3
    OBVIOUS
  <2>2. Chunks(e)[2] = [event |-> e, part |-> 2]
    BY <2>1, LineChunks
  <2>. QED
    BY <1>5, <2>2
<1>8. t = SubSeq(c, 1, 2)
  BY <1>1, <1>4, <1>5
<1>9. Len(t) = 2 /\ t[2] = c[2]
  <2>1. 2 \in 0 .. Len(c) /\ 2 \in 1 .. 2
    BY <1>6
  <2>. QED
    BY <1>8, <2>1, Beginning
<1>. QED
  BY <1>4, <1>7, <1>9

\* prepare_event_stream leaves whole lines, and all that there were.
LEMMA MendedIsFine ==
    ASSUME NEW s \in Seq(ChunkSet), Fine(s)
    PROVE  /\ Mended(s) \in Seq(ChunkSet) /\ Fine(Mended(s)) /\ Closed(Mended(s))
           /\ Done(s) \subseteq Done(Mended(s))
<1> DEFINE n == TailStart(s)
           L == Len(s)
           tail == SubSeq(s, n + 1, L)
           m == Append(s, [event |-> tail[1].event, part |-> 3])
<1>1. L \in Nat /\ \A i \in 1 .. L : s[i] \in ChunkSet
  BY LenProperties, ElementOfSeq
<1>2. n \in 0 .. L /\ EndsLine(s, n) /\ \A k \in n + 1 .. L : ~EndsLine(s, k)
  BY TailStarts DEF Fine
<1>3. CASE OnlyLacksNewline(tail)
  <2>1. /\ tail \in Seq(ChunkSet) /\ Len(tail) = IF n + 1 <= L THEN L - (n + 1) + 1 ELSE 0
        /\ \A i \in 1 .. L - (n + 1) + 1 : tail[i] = s[n + 1 + i - 1]
    <3>1. n + 1 \in Int /\ L \in Int /\ \A i \in n + 1 .. L : s[i] \in ChunkSet
      BY <1>1, <1>2
    <3> HIDE DEF n, L
    <3>. QED
      BY <3>1, SubSeqProperties
  <2>2. /\ Len(tail) = 2 /\ tail[1].event \in Events
        /\ tail[2].part = 2 /\ tail[2].event = tail[1].event
    BY <1>3, <2>1, TwoHalves
  <2>3. PICK e \in Events : e = tail[1].event
    BY <2>2
  <2> HIDE DEF n, tail, m
  <2>4. n + 2 = L
    <3>1. n \in Nat /\ L \in Nat
      BY <1>1, <1>2
    <3>2. 2 = IF n + 1 <= L THEN L - (n + 1) + 1 ELSE 0
      BY <2>1, <2>2
    <3> HIDE DEF L
    <3>3. n + 1 <= L
      BY <3>2, 2 # 0
    <3>. QED
      BY <3>1, <3>2, <3>3
  <2>11. L \in 1 .. L /\ tail[2] = s[L]
    <3>1. 2 \in 1 .. L - (n + 1) + 1 /\ n + 1 + 2 - 1 = L /\ L \in 1 .. L
      BY <1>1, <1>2, <2>4
    <3>2. tail[2] = s[n + 1 + 2 - 1]
      BY <2>1, <3>1
    <3>. QED
      BY <3>1, <3>2
  <2>12. s[L].part = 2 /\ s[L].event = e
    BY <2>2, <2>3, <2>11
  <2> DEFINE last == [event |-> e, part |-> 3]
  <2>13. last \in ChunkSet /\ last.part = 3 /\ last.event = e
    BY DEF ChunkSet
  <2>14. m = Append(s, last)
    BY <2>3 DEF m
  <2> HIDE DEF last, m
  <2>15. /\ m \in Seq(ChunkSet) /\ Len(m) = L + 1 /\ m[L + 1] = last
         /\ \A i \in 1 .. L : m[i] = s[i]
    BY <2>13, <2>14, AppendProperties
  <2> HIDE DEF L, tail
  <2>16. Regular(m)
    <3>1. m[1].part = 1
      <4>1. s[1].part = 1
        BY <1>1, <2>11 DEF Fine, Regular, L
      <4>. QED
        BY <2>11, <2>15, <4>1
    <3>2. ASSUME NEW i \in 1 .. L PROVE Follows(m[i], m[i + 1])
      <4>1. CASE i < L
        <5>1. i \in 1 .. Len(s) - 1 /\ i + 1 \in 1 .. L
          BY <1>1, <4>1 DEF L
        <5>2. Follows(s[i], s[i + 1])
          BY <5>1 DEF Fine, Regular
        <5>. QED
          BY <2>15, <5>1, <5>2
      <4>2. CASE i = L
        BY <2>11, <2>12, <2>13, <2>15, <4>2 DEF Follows
      <4>. QED
        BY <1>1, <4>1, <4>2
    <3>3. Len(m) - 1 = L
      BY <1>1, <2>15
    <3>. QED
      BY <3>1, <3>2, <3>3 DEF Regular
  <2>17. Rising(m)
    <3> SUFFICES ASSUME NEW i \in 1 .. L + 1, NEW j \in 1 .. L + 1, i < j
                 PROVE  /\ m[i].event.sequence <= m[j].event.sequence
                        /\ m[i].part = 3 => m[i].event.sequence < m[j].event.sequence
      BY <2>15 DEF Rising
    <3>1. i \in 1 .. L /\ m[i] = s[i] /\ s[i] \in ChunkSet
      <4>1. i \in 1 .. L
        BY <1>1
      <4>. QED
        BY <1>1, <2>15, <4>1
    <3>2. s[i].event.sequence \in Nat
      BY <3>1 DEF ChunkSet, Events
    <3>3. \A k \in 1 .. L : i < k => /\ s[i].event.sequence <= s[k].event.sequence
                                     /\ s[i].part = 3 => s[i].event.sequence < s[k].event.sequence
      BY <3>1 DEF Fine, Rising, L
    <3>4. CASE j \in 1 .. L
      BY <2>15, <3>1, <3>3, <3>4
    <3>5. CASE j = L + 1
      <4>1. m[j].event = s[L].event
        BY <2>12, <2>13, <2>15, <3>5
      <4>2. i < L \/ i = L
        BY <1>1, <3>1
      <4>3. CASE i < L
        BY <2>11, <3>1, <3>3, <4>1, <4>3
      <4>4. CASE i = L
        BY <2>12, <3>1, <3>2, <4>1, <4>4
      <4>. QED
        BY <4>2, <4>3, <4>4
    <3>6. j \in 1 .. L \/ j = L + 1
      BY <1>1
    <3>. QED
      BY <3>4, <3>5, <3>6
  <2>18. Closed(m)
    BY <2>13, <2>15 DEF Closed
  <2>19. Done(s) \subseteq Done(m)
    <3>1. \A i \in 1 .. Len(s) : i \in 1 .. Len(m) /\ m[i] = s[i]
      BY <1>1, <2>15 DEF L
    <3>. QED
      BY <3>1 DEF Done
  <2>20. Mended(s) = m
    BY <1>3 DEF Mended, m, n, L, tail
  <2>. QED
    BY <2>15, <2>16, <2>17, <2>18, <2>19, <2>20 DEF Fine
<1>4. CASE ~OnlyLacksNewline(tail)
  <2>1. Mended(s) = SubSeq(s, 1, n)
    BY <1>4 DEF Mended
  <2> HIDE DEF n
  <2> DEFINE b == SubSeq(s, 1, n)
  <2>2. b \in Seq(ChunkSet) /\ Len(b) = n /\ (\A i \in 1 .. n : b[i] = s[i]) /\ Fine(b)
    BY <1>2, Beginning, BeginningIsFine
  <2> HIDE DEF b, L
  <2>3. Closed(b)
    <3>1. n > 0 => n \in 1 .. n /\ s[n].part = 3
      BY <1>1, <1>2 DEF EndsLine
    <3>. QED
      BY <2>2, <3>1 DEF Closed
  <2>4. Done(s) \subseteq Done(b)
    <3>1. \A i \in 1 .. L : s[i].part = 3 => EndsLine(s, i)
      BY DEF EndsLine
    <3>2. \A i \in 1 .. L : s[i].part = 3 => i \in 1 .. n /\ b[i] = s[i]
      BY <1>1, <1>2, <2>2, <3>1
    <3>. QED
      BY <2>2, <3>2 DEF Done, L
  <2>. QED
    BY <2>1, <2>2, <2>3, <2>4 DEF b
<1>. QED
  BY <1>3, <1>4

\* In a stream of whole lines the last one is the end, with the highest number.
LEMMA LastOfWhole ==
    ASSUME NEW s \in Seq(ChunkSet), Fine(s), Closed(s)
    PROVE  /\ LineEnds(s) = {} => s = <<>>
           /\ LineEnds(s) # {} => /\ LastEnd(s) = Len(s) /\ Len(s) \in 1 .. Len(s)
                                  /\ IsRecord(s, Len(s)) /\ UpTo(s, s[Len(s)].event.sequence)
<1>1. Len(s) \in Nat /\ \A i \in 1 .. Len(s) : s[i] \in ChunkSet
  BY LenProperties, ElementOfSeq
<1>2. /\ LineEnds(s) = {i \in 1 .. Len(s) : s[i].part = 3}
      /\ \A i \in LineEnds(s) : IsRecord(s, i)
  BY FineLines DEF Fine
<1>3. Len(s) > 0 => Len(s) \in LineEnds(s)
  BY <1>1, <1>2 DEF Closed
<1>4. LineEnds(s) # {} => Len(s) > 0
  BY <1>1, <1>2
<1>5. LineEnds(s) = {} => s = <<>>
  BY <1>1, <1>3, EmptySeq
<1>6. ASSUME LineEnds(s) # {} PROVE LastEnd(s) = Len(s)
  <2>1. Len(s) \in LineEnds(s) /\ \A j \in LineEnds(s) : j <= Len(s)
    BY <1>1, <1>2, <1>3, <1>4, <1>6
  <2>2. LastEnd(s) \in LineEnds(s) /\ \A j \in LineEnds(s) : j <= LastEnd(s)
    BY <2>1 DEF LastEnd
  <2>3. LastEnd(s) \in 1 .. Len(s) /\ Len(s) <= LastEnd(s)
    BY <1>2, <2>1, <2>2
  <2>. QED
    BY <1>1, <2>3
<1>7. ASSUME LineEnds(s) # {} PROVE UpTo(s, s[Len(s)].event.sequence)
  <2> DEFINE L == Len(s)
  <2>1. L \in 1 .. L
    BY <1>1, <1>4, <1>7
  <2>2. \A i \in 1 .. L : i = L \/ i < L
    BY <1>1
  <2>3. s[L].event.sequence \in Nat
    BY <1>1, <2>1 DEF ChunkSet, Events
  <2>4. \A i \in 1 .. L : i < L => s[i].event.sequence <= s[L].event.sequence
    BY <2>1 DEF Fine, Rising
  <2> HIDE DEF L
  <2>5. \A i \in 1 .. L : s[i].event.sequence <= s[L].event.sequence
    BY <2>2, <2>3, <2>4
  <2>. QED
    BY <2>5 DEF UpTo, L
<1>8. LineEnds(s) # {} => Len(s) \in 1 .. Len(s) /\ IsRecord(s, Len(s))
  BY <1>1, <1>2, <1>3, <1>4
<1>. QED
  BY <1>5, <1>6, <1>7, <1>8

\* A bounded non-empty set of naturals has a greatest element.
LEMMA GreatestOf ==
    ASSUME NEW n \in Nat, NEW S \in SUBSET (0 .. n), S # {}
    PROVE  \E m \in S : \A j \in S : j <= m
<1> DEFINE T == {n - j : j \in S}
<1>1. T \in SUBSET Nat /\ T # {}
  <2>1. \A j \in S : n - j \in Nat
    OBVIOUS
  <2>2. \E j \in S : n - j \in T
    OBVIOUS
  <2>. QED
    BY <2>1, <2>2
<1>2. PICK x \in T : \A y \in T : ~ (<<y, x>> \in OpToRel(<, Nat))
  BY <1>1, NatLessThanWellFounded, WFMin, Zenon
<1>3. PICK m \in S : x = n - m
  OBVIOUS
<1>4. ASSUME NEW j \in S PROVE j <= m
  <2>1. n - j \in T /\ n - j \in Nat /\ x \in Nat
    BY <1>1
  <2>2. ~(n - j < x)
    BY <1>2, <2>1, Zenon DEF OpToRel
  <2>3. m \in Nat /\ j \in Nat
    OBVIOUS
  <2>. QED
    BY <1>3, <2>1, <2>2, <2>3
<1>. QED
  BY <1>4

LEMMA MendedTyped ==
    ASSUME NEW s \in Seq(ChunkSet)
    PROVE  Mended(s) \in Seq(ChunkSet)
<1> DEFINE n == TailStart(s)
           L == Len(s)
           tail == SubSeq(s, n + 1, L)
<1>1. L \in Nat /\ \A i \in 1 .. L : s[i] \in ChunkSet
  BY LenProperties, ElementOfSeq
<1>2. n \in 0 .. L
  <2> DEFINE S == {j \in 0 .. L : EndsLine(s, j)}
  <2>1. S \in SUBSET (0 .. L) /\ 0 \in S
    BY <1>1 DEF EndsLine
  <2>2. PICK m \in S : \A j \in S : j <= m
    BY <1>1, <2>1, GreatestOf
  <2>3. m \in 0 .. L /\ EndsLine(s, m)
    OBVIOUS
  <2>4. \A k \in (m + 1) .. L : ~EndsLine(s, k)
    <3> SUFFICES ASSUME NEW k \in (m + 1) .. L, EndsLine(s, k) PROVE FALSE
      OBVIOUS
    <3>1. k \in 0 .. L /\ ~(k <= m)
      BY <1>1, <2>3
    <3>. QED
      BY <2>2, <3>1
  <2>. QED
    BY <2>3, <2>4 DEF TailStart
<1> HIDE DEF n
<1>3. CASE OnlyLacksNewline(tail)
  <2>1. tail \in Seq(ChunkSet)
    <3>1. n + 1 \in Int /\ L \in Int /\ \A i \in n + 1 .. L : s[i] \in ChunkSet
      BY <1>1, <1>2
    <3> HIDE DEF L
    <3>. QED
      BY <3>1, SubSeqProperties
  <2>2. tail[1].event \in Events
    BY <1>3, <2>1, TwoHalves
  <2>3. Mended(s) = Append(s, [event |-> tail[1].event, part |-> 3])
    BY <1>3 DEF Mended, n
  <2> HIDE DEF tail
  <2>4. [event |-> tail[1].event, part |-> 3] \in ChunkSet
    BY <2>2 DEF ChunkSet
  <2>. QED
    BY <2>3, <2>4, AppendProperties
<1>4. CASE ~OnlyLacksNewline(tail)
  <2>1. Mended(s) = SubSeq(s, 1, n)
    BY <1>4 DEF Mended, n
  <2>. QED
    BY <1>2, <2>1, Beginning
<1>. QED
  BY <1>3, <1>4

LEMMA LastTyped ==
    ASSUME NEW s \in Seq(ChunkSet), LineEnds(s) # {}
    PROVE  /\ LastEnd(s) \in 1 .. Len(s) /\ LastEnd(s) # 0
           /\ s[LastEnd(s)].event.sequence \in Nat
<1>1. Len(s) \in Nat /\ DOMAIN s = 1 .. Len(s)
  BY LenProperties
<1>2. LineEnds(s) \in SUBSET (1 .. Len(s)) /\ LineEnds(s) \in SUBSET (0 .. Len(s))
  BY <1>1 DEF LineEnds
<1>3. \E m \in LineEnds(s) : \A j \in LineEnds(s) : j <= m
  BY <1>1, <1>2, GreatestOf
<1>4. LastEnd(s) \in LineEnds(s)
  BY <1>3 DEF LastEnd
<1>5. LastEnd(s) \in 1 .. Len(s)
  BY <1>2, <1>4
<1>6. s[LastEnd(s)] \in ChunkSet
  BY <1>5, ElementOfSeq
<1>. QED
  BY <1>1, <1>5, <1>6 DEF ChunkSet, Events

-----------------------------------------------------------------------------
(***************************************************************************)
(* What each of the other actions does.                                    *)
(***************************************************************************)

\* The last number a session starts from, and whether it can.
Last(s) == IF LineEnds(s) = {} THEN 0 ELSE s[LastEnd(s)].event.sequence
Readable(s) == LineEnds(s) = {} \/ IsRecord(s, LastEnd(s))

LEMMA PrepareEffect ==
    ASSUME TypeInv, NEW p \in Procs, Prepare(p)
    PROVE  /\ At(p, "opening")
           /\ events' = Mended(events) /\ events' \in Seq(ChunkSet)
           /\ \/ ~Readable(events') /\ Moves(p, "closed")
              \/ /\ Readable(events')
                 /\ \E place \in {"running", "starting"} :
                        Carries(p, place, Last(events'), session[p].buffer)
           /\ UNCHANGED <<leaseVars, manifest, reported, late>>
<1>1. At(p, "opening") /\ events' = Mended(events) /\ UNCHANGED <<leaseVars, manifest, reported, late>>
  BY DEF Prepare
<1>2. Mended(events) \in Seq(ChunkSet)
  BY MendedTyped DEF TypeInv
<1>3. PICK m \in Seq(ChunkSet) : m = events'
  BY <1>1, <1>2
<1>4. Last(m) \in Nat
  BY LastTyped DEF Last
<1> DEFINE last == IF LineEnds(m) = {} THEN 0 ELSE LastEnd(m)
<1>5. last = 0 <=> LineEnds(m) = {}
  BY LastTyped
<1>6. Readable(m) <=> ~(last # 0 /\ ~IsRecord(m, last))
  BY <1>5 DEF Readable
<1>7. Last(m) = IF last = 0 THEN 0 ELSE m[last].event.sequence
  BY <1>5 DEF Last
<1>8. IF last # 0 /\ ~IsRecord(m, last)
      THEN GoTo(p, "closed")
      ELSE session' = [session EXCEPT
                ![p].at = IF session[p].appends THEN "running" ELSE "starting",
                ![p].last = IF last = 0 THEN 0 ELSE m[last].event.sequence,
                ![p].notes = IF Len(m) < Len(events) THEN @ + 1 ELSE @]
  BY <1>3 DEF Prepare
<1> HIDE DEF last
<1>9. CASE Readable(m)
  <2> DEFINE place == IF session[p].appends THEN "running" ELSE "starting"
             notes == IF Len(m) < Len(events) THEN session[p].notes + 1 ELSE session[p].notes
             r == [session[p] EXCEPT !.at = place, !.last = Last(m), !.notes = notes]
  <2>1. session[p] \in Sessions
    BY DEF TypeInv
  <2>2. notes \in Int /\ place \in {"running", "starting"}
    BY <2>1 DEF Sessions
  <2>3. session' = [session EXCEPT ![p] = r]
    <3>1. session' = [session EXCEPT
                ![p].at = IF session[p].appends THEN "running" ELSE "starting",
                ![p].last = Last(m),
                ![p].notes = IF Len(m) < Len(events) THEN @ + 1 ELSE @]
      BY <1>6, <1>7, <1>8, <1>9, Zenon
    <3>. QED
      BY <3>1
  <2> HIDE DEF notes, place
  <2>4. /\ r \in Sessions /\ r.at = place /\ r.buffer = session[p].buffer
        /\ r.last = Last(m) /\ r.adopted = session[p].adopted
    BY <1>4, <2>1, <2>2 DEF Sessions, Places
  <2> HIDE DEF r
  <2>5. Carries(p, place, Last(m), session[p].buffer)
    BY <2>3, <2>4, SessionReplaced DEF Carries
  <2>. QED
    BY <1>1, <1>3, <1>9, <2>2, <2>5
<1>10. CASE ~Readable(m)
  <2>1. GoTo(p, "closed")
    BY <1>6, <1>8, <1>10
  <2>2. Moves(p, "closed")
    BY <2>1, MovesOn DEF Places
  <2>. QED
    BY <1>1, <1>3, <1>10, <2>2
<1>. QED
  BY <1>9, <1>10

\* Emit takes the number, and the program goes on with what is left to write.
LEMMA AfterEmit ==
    ASSUME TypeInv, NEW p \in Procs, NEW place \in Places, NEW rest \in Seq(ChunkSet),
           NEW name,
           session' = [session EXCEPT
                ![p].last = @ + 1,
                ![p].buffer = rest,
                ![p].notes = IF name = "note" THEN @ - 1 ELSE @,
                ![p].work = IF name = "work" THEN @ + 1 ELSE @,
                ![p].at = place]
    PROVE  /\ Carries(p, place, session[p].last + 1, rest)
           /\ session'[p].outcome = session[p].outcome
<1> DEFINE notes == IF name = "note" THEN session[p].notes - 1 ELSE session[p].notes
           work == IF name = "work" THEN session[p].work + 1 ELSE session[p].work
           r == [session[p] EXCEPT !.last = session[p].last + 1, !.buffer = rest,
                                   !.notes = notes, !.work = work, !.at = place]
<1>1. session[p] \in Sessions
  BY DEF TypeInv
<1>2. notes \in Int /\ work \in Int /\ session[p].last + 1 \in Nat
  BY <1>1 DEF Sessions
<1>3. session' = [session EXCEPT ![p] = r]
  OBVIOUS
<1> HIDE DEF notes, work
<1>4. /\ r \in Sessions /\ r.at = place /\ r.buffer = rest /\ r.last = session[p].last + 1
      /\ r.adopted = session[p].adopted /\ r.outcome = session[p].outcome
  BY <1>1, <1>2 DEF Sessions
<1> HIDE DEF r
<1>. QED
  BY <1>3, <1>4, SessionReplaced DEF Carries

\* The event emitted, and what is to be written before the emit returns.
Emitted(p, name) ==
    [sequence |-> session[p].last + 1, run |-> session[p].adopted.run, name |-> name]
Pending(p, e) == session[p].buffer \o Chunks(e)

LEMMA PendingTyped ==
    ASSUME TypeInv, NEW p \in Procs, NEW name \in Names
    PROVE  /\ Emitted(p, name) \in Events /\ session[p].buffer \in Seq(ChunkSet)
           /\ Pending(p, Emitted(p, name)) \in Seq(ChunkSet)
<1>1. session[p] \in Sessions
  BY DEF TypeInv
<1>2. session[p].last \in Nat /\ session[p].adopted \in Manifests /\ session[p].buffer \in Seq(ChunkSet)
  BY <1>1 DEF Sessions
<1>3. PICK e \in Events : e = Emitted(p, name)
  <2>1. session[p].last + 1 \in Nat /\ session[p].adopted.run \in Runs
    BY <1>2 DEF Manifests
  <2>. QED
    BY <2>1 DEF Emitted, Events
<1>4. PICK c \in Seq(ChunkSet) : c = Chunks(e)
  BY LineChunks
<1>5. session[p].buffer \o c \in Seq(ChunkSet)
  BY <1>2, ConcatProperties
<1>. QED
  BY <1>2, <1>3, <1>4, <1>5 DEF Pending

\* The emit returns, is torn after k chunks, dies after k chunks, or loses its line.
Returns(p, name, next) ==
    /\ events' = events \o Pending(p, Emitted(p, name))
    /\ reported' = reported \cup {Emitted(p, name)}
    /\ Carries(p, next, session[p].last + 1, <<>>) /\ session'[p].outcome = session[p].outcome
    /\ UNCHANGED leaseVars
Torn(p, name, onError, k) ==
    /\ events' = events \o SubSeq(Pending(p, Emitted(p, name)), 1, k)
    /\ Carries(p, onError, session[p].last + 1,
               SubSeq(Pending(p, Emitted(p, name)), k + 1, Len(Pending(p, Emitted(p, name)))))
    /\ UNCHANGED <<leaseVars, reported>>
Dies(p, name, k) ==
    /\ events' = events \o SubSeq(Pending(p, Emitted(p, name)), 1, k)
    /\ LeaseDie(p) /\ Leaves(p)
    /\ UNCHANGED reported
Loses(p, onError) ==
    /\ Carries(p, onError, session[p].last + 1, session[p].buffer)
    /\ UNCHANGED <<leaseVars, events, reported>>

LEMMA EmitEffect ==
    ASSUME TypeInv, NEW p \in Procs, NEW name \in Names, NEW next \in Places,
           NEW onError \in Places, Emit(p, name, next, onError)
    PROVE  /\ \/ Returns(p, name, next)
              \/ \E k \in 0 .. Len(Pending(p, Emitted(p, name))) :
                    Torn(p, name, onError, k) \/ Dies(p, name, k)
              \/ Loses(p, onError)
           /\ UNCHANGED <<manifest, late>>
<1> DEFINE e == Emitted(p, name)
           pending == Pending(p, e)
           After(place, rest) ==
              session' = [session EXCEPT
                ![p].last = @ + 1,
                ![p].buffer = rest,
                ![p].notes = IF name = "note" THEN @ - 1 ELSE @,
                ![p].work = IF name = "work" THEN @ + 1 ELSE @,
                ![p].at = place]
           Goes(place, rest) ==
              /\ Carries(p, place, session[p].last + 1, rest)
              /\ session'[p].outcome = session[p].outcome
<1>1. /\ pending \in Seq(ChunkSet) /\ session[p].buffer \in Seq(ChunkSet)
      /\ Len(pending) \in Nat
  BY PendingTyped, LenProperties
<1>2. /\ \/ /\ events' = events \o pending
            /\ reported' = reported \cup {e}
            /\ After(next, <<>>)
            /\ UNCHANGED leaseVars
         \/ \E k \in 0 .. (Len(pending) - 1) :
              /\ events' = events \o SubSeq(pending, 1, k)
              /\ \/ After(onError, SubSeq(pending, k + 1, Len(pending))) /\ UNCHANGED leaseVars
                 \/ LeaseDie(p) /\ session' = [session EXCEPT ![p] = Away]
              /\ UNCHANGED reported
         \/ /\ After(onError, session[p].buffer)
            /\ UNCHANGED <<leaseVars, events, reported>>
      /\ UNCHANGED <<manifest, late>>
  BY DEF Emit, Pending, Emitted
<1>3. ASSUME NEW place \in Places, NEW rest \in Seq(ChunkSet), After(place, rest)
      PROVE  Goes(place, rest)
  BY <1>3, AfterEmit
<1> HIDE DEF e, pending, After
<1>4. CASE /\ events' = events \o pending
           /\ reported' = reported \cup {e}
           /\ After(next, <<>>)
           /\ UNCHANGED leaseVars
  <2>1. <<>> \in Seq(ChunkSet)
    OBVIOUS
  <2>2. Goes(next, <<>>)
    BY <1>3, <1>4, <2>1
  <2>. QED
    BY <1>2, <1>4, <2>2 DEF Returns, e, pending
<1>5. ASSUME NEW k \in 0 .. (Len(pending) - 1),
             events' = events \o SubSeq(pending, 1, k), UNCHANGED reported,
             After(onError, SubSeq(pending, k + 1, Len(pending))), UNCHANGED leaseVars
      PROVE  k \in 0 .. Len(pending) /\ Torn(p, name, onError, k)
  <2>1. k \in 0 .. Len(pending)
    BY <1>1
  <2>2. PICK rest \in Seq(ChunkSet) : rest = SubSeq(pending, k + 1, Len(pending))
    <3>1. pending \in Seq(ChunkSet) /\ <<>> \in Seq(ChunkSet)
      BY <1>1
    <3>. QED
      BY <2>1, <3>1, Written
  <2>3. Goes(onError, rest)
    BY <1>3, <1>5, <2>2
  <2>. QED
    BY <1>5, <2>1, <2>2, <2>3 DEF Torn, e, pending
<1>6. ASSUME NEW k \in 0 .. (Len(pending) - 1),
             events' = events \o SubSeq(pending, 1, k), UNCHANGED reported,
             LeaseDie(p), session' = [session EXCEPT ![p] = Away]
      PROVE  k \in 0 .. Len(pending) /\ Dies(p, name, k)
  <2>1. k \in 0 .. Len(pending)
    BY <1>1
  <2>2. Leaves(p)
    BY <1>6, LeavesIt
  <2>. QED
    BY <1>6, <2>1, <2>2 DEF Dies, e, pending
<1>7. CASE After(onError, session[p].buffer) /\ UNCHANGED <<leaseVars, events, reported>>
  <2>1. PICK rest \in Seq(ChunkSet) : rest = session[p].buffer
    BY <1>1
  <2>2. Goes(onError, rest)
    BY <1>3, <1>7, <2>1
  <2>. QED
    BY <1>2, <1>7, <2>1, <2>2 DEF Loses
<1>8. CASE \E k \in 0 .. (Len(pending) - 1) :
              /\ events' = events \o SubSeq(pending, 1, k)
              /\ \/ After(onError, SubSeq(pending, k + 1, Len(pending))) /\ UNCHANGED leaseVars
                 \/ LeaseDie(p) /\ session' = [session EXCEPT ![p] = Away]
              /\ UNCHANGED reported
  <2>1. PICK k \in 0 .. (Len(pending) - 1) :
              /\ events' = events \o SubSeq(pending, 1, k)
              /\ \/ After(onError, SubSeq(pending, k + 1, Len(pending))) /\ UNCHANGED leaseVars
                 \/ LeaseDie(p) /\ session' = [session EXCEPT ![p] = Away]
              /\ UNCHANGED reported
    BY <1>8
  <2>2. k \in 0 .. Len(pending) /\ (Torn(p, name, onError, k) \/ Dies(p, name, k))
    BY <1>5, <1>6, <2>1
  <2>. QED
    BY <1>2, <2>2 DEF pending, e
<1>. QED
  BY <1>2, <1>4, <1>7, <1>8

LEMMA StartEffect ==
    ASSUME TypeInv, NEW p \in Procs, Start(p)
    PROVE  /\ At(p, "starting")
           /\ \/ Moves(p, "closing") /\ UNCHANGED manifest
              \/ Moves(p, "announcing") /\ manifest' \in Manifests /\ manifest'.status = "running"
           /\ UNCHANGED <<leaseVars, events, reported, late>>
<1>1. At(p, "starting") /\ UNCHANGED <<leaseVars, events, reported, late>>
  BY DEF Start
<1>2. CASE session[p].adopted.status = "completed"
  <2>1. GoTo(p, "closing") /\ UNCHANGED manifest
    BY <1>2 DEF Start
  <2>. QED
    BY <1>1, <2>1, MovesOn DEF Places
<1>3. CASE session[p].adopted.status # "completed"
  <2> DEFINE m == [session[p].adopted EXCEPT !.status = "running"]
             r == [session[p] EXCEPT !.at = "announcing", !.adopted = m]
  <2>1. session[p] \in Sessions
    BY DEF TypeInv
  <2>2. m \in Manifests /\ m.status = "running" /\ m.run = session[p].adopted.run
    <3>1. session[p].adopted \in Manifests
      BY <2>1 DEF Sessions
    <3>. QED
      BY <3>1 DEF Manifests, Statuses
  <2>3. manifest' = m
    BY <1>3 DEF Start
  <2>4. session' = [session EXCEPT ![p] = r]
    <3>1. session' = [session EXCEPT ![p].at = "announcing", ![p].adopted.status = "running"]
      BY <1>3 DEF Start
    <3>. QED
      BY <3>1
  <2> HIDE DEF m
  <2>5. /\ r \in Sessions /\ r.at = "announcing" /\ r.buffer = session[p].buffer
        /\ r.last = session[p].last /\ r.adopted = m
    BY <2>1, <2>2 DEF Sessions, Places
  <2> HIDE DEF r
  <2>6. Moves(p, "announcing")
    BY <2>2, <2>4, <2>5, SessionReplaced DEF Moves, Carries
  <2>. QED
    BY <1>1, <2>2, <2>3, <2>6
<1>. QED
  BY <1>2, <1>3

LEMMA MovesToOutcome ==
    ASSUME TypeInv, NEW p \in Procs, NEW outcome \in Outcomes,
           session' = [session EXCEPT ![p].at = "ending", ![p].outcome = outcome]
    PROVE  Moves(p, "ending")
<1> DEFINE r == [session[p] EXCEPT !.at = "ending", !.outcome = outcome]
<1>1. session[p] \in Sessions
  BY DEF TypeInv
<1>2. session' = [session EXCEPT ![p] = r]
  OBVIOUS
<1>3. /\ r \in Sessions /\ r.at = "ending" /\ r.buffer = session[p].buffer
      /\ r.last = session[p].last /\ r.adopted = session[p].adopted
  BY <1>1 DEF Sessions, Places
<1> HIDE DEF r
<1>. QED
  BY <1>2, <1>3, SessionReplaced DEF Moves, Carries

LEMMA FinishWorkEffect ==
    ASSUME TypeInv, NEW p \in Procs, FinishWork(p)
    PROVE  /\ At(p, "running") /\ (Moves(p, "closing") \/ Moves(p, "ending"))
           /\ UNCHANGED <<leaseVars, manifest, events, reported, late>>
<1>1. At(p, "running") /\ UNCHANGED <<leaseVars, manifest, events, reported, late>>
  BY DEF FinishWork, Working
<1>2. CASE session[p].appends
  BY <1>1, <1>2, MovesOn DEF FinishWork, Places
<1>3. CASE ~session[p].appends
  BY <1>1, <1>3, MovesToOutcome DEF FinishWork, Outcomes
<1>. QED
  BY <1>2, <1>3

LEMMA FailWorkEffect ==
    ASSUME TypeInv, NEW p \in Procs, FailWork(p)
    PROVE  /\ At(p, "running") \/ At(p, "crashing")
           /\ Moves(p, "ending")
           /\ UNCHANGED <<leaseVars, manifest, events, reported, late>>
<1>1. At(p, "running") \/ At(p, "crashing")
  BY DEF FailWork, Working
<1>2. Moves(p, "ending")
  BY MovesToOutcome DEF FailWork, Outcomes
<1>. QED
  BY <1>1, <1>2 DEF FailWork

LEMMA WriteManifestEffect ==
    ASSUME TypeInv, NEW p \in Procs, WriteManifest(p)
    PROVE  /\ At(p, "ended") /\ Moves(p, "closing")
           /\ manifest' \in Manifests /\ manifest'.run = session[p].adopted.run
           /\ manifest'.status = StatusOf(session[p].outcome)
           /\ UNCHANGED <<leaseVars, events, reported, late>>
<1> DEFINE d == session[p].outcome = "stage_completed"
           r == [session[p] EXCEPT !.at = "closing", !.defers = d]
<1>1. session[p] \in Sessions
  BY DEF TypeInv
<1>2. session' = [session EXCEPT ![p] = r]
  BY DEF WriteManifest
<1>3. d \in BOOLEAN
  OBVIOUS
<1> HIDE DEF d
<1>4. /\ r \in Sessions /\ r.at = "closing" /\ r.buffer = session[p].buffer
      /\ r.last = session[p].last /\ r.adopted = session[p].adopted
  BY <1>1, <1>3 DEF Sessions, Places
<1> HIDE DEF r
<1>5. Moves(p, "closing")
  BY <1>2, <1>4, SessionReplaced DEF Moves, Carries
<1>6. session[p].adopted \in Manifests /\ StatusOf(session[p].outcome) \in Statuses
  <2>1. session[p].adopted \in Manifests /\ session[p].outcome \in Outcomes
    BY <1>1 DEF Sessions
  <2>. QED
    BY <2>1 DEF Outcomes, StatusOf, Statuses
<1>7. manifest' = [session[p].adopted EXCEPT !.status = StatusOf(session[p].outcome)]
  BY DEF WriteManifest
<1>8. /\ manifest' \in Manifests /\ manifest'.run = session[p].adopted.run
      /\ manifest'.status = StatusOf(session[p].outcome)
  BY <1>6, <1>7 DEF Manifests
<1>. QED
  BY <1>5, <1>8 DEF WriteManifest

LEMMA CloseEffect ==
    ASSUME TypeInv, NEW p \in Procs, Close(p)
    PROVE  /\ At(p, "closing")
           /\ session[p].buffer \in Seq(ChunkSet)
           /\ \E k \in 0 .. Len(session[p].buffer) :
                 /\ events' = events \o SubSeq(session[p].buffer, 1, k)
                 /\ Carries(p, "closed", session[p].last,
                            SubSeq(session[p].buffer, k + 1, Len(session[p].buffer)))
           /\ UNCHANGED <<leaseVars, manifest, reported, late>>
<1>1. session[p] \in Sessions
  BY DEF TypeInv
<1>2. PICK b \in Seq(ChunkSet) : b = session[p].buffer
  BY <1>1 DEF Sessions
<1>3. PICK k \in 0 .. Len(b) :
        /\ events' = events \o SubSeq(b, 1, k)
        /\ session' = [session EXCEPT ![p].buffer = SubSeq(@, k + 1, Len(@)), ![p].at = "closed"]
  BY <1>2 DEF Close
<1>4. <<>> \in Seq(ChunkSet)
  OBVIOUS
<1>5. PICK rest \in Seq(ChunkSet) : rest = SubSeq(b, k + 1, Len(b))
  BY <1>4, Written
<1> DEFINE r == [session[p] EXCEPT !.buffer = rest, !.at = "closed"]
<1>6. session' = [session EXCEPT ![p] = r]
  BY <1>2, <1>3, <1>5
<1>7. /\ r \in Sessions /\ r.at = "closed" /\ r.buffer = rest
      /\ r.last = session[p].last /\ r.adopted = session[p].adopted
  BY <1>1 DEF Sessions, Places
<1> HIDE DEF r
<1>8. Carries(p, "closed", session[p].last, rest)
  BY <1>6, <1>7, SessionReplaced DEF Carries
<1>. QED
  BY <1>2, <1>3, <1>5, <1>8 DEF Close

LEMMA ReleaseEffect ==
    ASSUME TypeInv, NEW p \in Procs, ReleaseLease(p)
    PROVE  /\ At(p, "closed") /\ Release(p)
           /\ \/ Moves(p, "lingering")
              \/ /\ session' \in [Procs -> Sessions]
                 /\ session'[p].at \in {"away", "downstream"} /\ session'[p].buffer = <<>>
                 /\ \A q \in Procs \ {p} : session'[q] = session[q]
           /\ UNCHANGED <<manifest, events, reported, late>>
<1>1. At(p, "closed") /\ Release(p) /\ UNCHANGED <<manifest, events, reported, late>>
  BY DEF ReleaseLease
<1>2. CASE GoTo(p, "lingering")
  BY <1>1, <1>2, MovesOn DEF Places
<1>3. CASE session' = [session EXCEPT
                ![p] = IF session[p].defers THEN [Away EXCEPT !.at = "downstream"] ELSE Away]
  <2> DEFINE r == IF session[p].defers THEN [Away EXCEPT !.at = "downstream"] ELSE Away
  <2>1. r \in Sessions /\ r.at \in {"away", "downstream"} /\ r.buffer = <<>>
    BY AwayTyped DEF Sessions, Places
  <2>2. session' = [session EXCEPT ![p] = r]
    BY <1>3
  <2> HIDE DEF r
  <2>3. PICK x \in Sessions : x = r
    BY <2>1
  <2>4. session' \in [Procs -> Sessions] /\ session'[p] = x /\ \A q \in Procs \ {p} : session'[q] = session[q]
    BY <2>2, <2>3, SessionReplaced
  <2>. QED
    BY <1>1, <2>1, <2>3, <2>4
<1>. QED
  BY <1>2, <1>3 DEF ReleaseLease

LEMMA FinalizeEffect ==
    ASSUME TypeInv, NEW p \in Procs, Finalize(p)
    PROVE  /\ At(p, "lingering") /\ Leaves(p) /\ events' \in Seq(ChunkSet) /\ late' = TRUE
           /\ UNCHANGED <<leaseVars, manifest, reported>>
<1>1. session[p] \in Sessions /\ events \in Seq(ChunkSet)
  BY DEF TypeInv
<1>2. PICK b \in Seq(ChunkSet) : b = session[p].buffer
  BY <1>1 DEF Sessions
<1>3. events \o b \in Seq(ChunkSet)
  BY <1>1, ConcatProperties
<1>4. Leaves(p)
  BY LeavesIt DEF Finalize
<1>. QED
  BY <1>2, <1>3, <1>4 DEF Finalize

LEMMA ReadForTransitionEffect ==
    ASSUME TypeInv, NEW p \in Procs, ReadForTransition(p)
    PROVE  /\ At(p, "downstream")
           /\ session' \in [Procs -> Sessions]
           /\ session'[p].at = "deciding" /\ session'[p].buffer = session[p].buffer
           /\ \A q \in Procs \ {p} : session'[q] = session[q]
           /\ UNCHANGED <<leaseVars, manifest, events, reported, late>>
<1> DEFINE r == [session[p] EXCEPT !.at = "deciding", !.adopted = manifest]
<1>1. session[p] \in Sessions /\ manifest \in Manifests
  BY DEF TypeInv
<1>2. session' = [session EXCEPT ![p] = r]
  BY DEF ReadForTransition
<1>3. r \in Sessions /\ r.at = "deciding" /\ r.buffer = session[p].buffer
  BY <1>1 DEF Sessions, Places
<1> HIDE DEF r
<1>4. PICK x \in Sessions : x = r
  BY <1>3
<1>5. session' \in [Procs -> Sessions] /\ session'[p] = x /\ \A q \in Procs \ {p} : session'[q] = session[q]
  BY <1>2, <1>4, SessionReplaced
<1>. QED
  BY <1>3, <1>4, <1>5 DEF ReadForTransition

LEMMA WriteTransitionEffect ==
    ASSUME TypeInv, NEW p \in Procs, WriteTransition(p)
    PROVE  /\ At(p, "deciding") /\ Leaves(p) /\ manifest' \in Manifests
           /\ UNCHANGED <<leaseVars, events, reported, late>>
<1>1. session[p] \in Sessions /\ manifest \in Manifests
  BY DEF TypeInv
<1>2. session[p].adopted \in Manifests
  BY <1>1 DEF Sessions
<1>3. PICK status \in {"completed", "failed", "interrupted"} :
        manifest' = IF status \in Allowed[session[p].adopted.status]
                    THEN [session[p].adopted EXCEPT !.status = status] ELSE manifest
  BY DEF WriteTransition
<1>4. [session[p].adopted EXCEPT !.status = status] \in Manifests
  BY <1>2 DEF Manifests, Statuses
<1>5. Leaves(p)
  BY LeavesIt DEF WriteTransition
<1>. QED
  BY <1>1, <1>3, <1>4, <1>5 DEF WriteTransition

LEMMA DieEffect ==
    ASSUME TypeInv, NEW p \in Procs, Die(p)
    PROVE  /\ LeaseDie(p) /\ Leaves(p)
           /\ UNCHANGED <<manifest, events, reported, late>>
  BY LeavesIt DEF Die

-----------------------------------------------------------------------------
(***************************************************************************)
(* Where a session is tells how it stands with the lease and what its      *)
(* buffer holds; a session whose outcome is emitted has its event.         *)
(***************************************************************************)

WritingPlaces == {"starting", "announcing", "running", "crashing", "ending", "ended", "closing"}

PlaceOK(p) ==
    /\ session[p].at \in WritingPlaces \cup {"opening", "closed"} => phase[p] = "in"
    /\ session[p].at = "away" => phase[p] \in {"out", "dead"}
    /\ session[p].at \in {"fresh", "lingering", "downstream", "deciding"} => phase[p] = "out"
    /\ session[p].at = "leasing" => phase[p] \notin {"in", "dead"}
    /\ session[p].at \in {"away", "fresh", "leasing", "opening", "downstream", "deciding"}
        => session[p].buffer = <<>>
    /\ session[p].at = "fresh" => session[p].adopted.status = "created"
    /\ session[p].at = "ended"
        => \E e \in reported : e.name = session[p].outcome /\ e.run = session[p].adopted.run

\* The lease of a living program that is not inside has no owner in it.
LeaseLeft == \A p \in Procs : file = CreatedBy(p, TRUE) => phase[p] \in {"in", "dead"}

SessionInv ==
    /\ TypeInv
    /\ LeaseLeft
    /\ \A p \in Procs : PlaceOK(p)

\* What a step does to the lease is one of the lease's steps.
LeaseStep(p) == Create(p) \/ TakeLease(p) \/ Release(p) \/ LeaseDie(p) \/ UNCHANGED leaseVars

LEMMA LeaseLeftKept ==
    ASSUME LeaseTypeOK, LeaseLeft, [LeaseNext]_leaseVars
    PROVE  LeaseLeft'
<1> USE RunLeaseAssumption DEF LeaseTypeOK, LeaseLeft, LeaseFile, Absent, CreatedBy, Go
<1>1. ASSUME UNCHANGED leaseVars PROVE LeaseLeft'
  BY <1>1 DEF leaseVars
<1>2. ASSUME NEW p \in Procs, Create(p) PROVE LeaseLeft'
  BY <1>2 DEF Create
<1>3. ASSUME NEW p \in Procs, ReadOwner(p) PROVE LeaseLeft'
  BY <1>3 DEF ReadOwner, Refuse
<1>4. ASSUME NEW p \in Procs, UnlinkDead(p) PROVE LeaseLeft'
  BY <1>4 DEF UnlinkDead, Refuse
<1>5. ASSUME NEW p \in Procs, Recreate(p) PROVE LeaseLeft'
  BY <1>5 DEF Recreate, Refuse
<1>6. ASSUME NEW p \in Procs, WriteOwner(p) PROVE LeaseLeft'
  BY <1>6 DEF WriteOwner
<1>7. ASSUME NEW p \in Procs, FailToWrite(p) PROVE LeaseLeft'
  BY <1>7 DEF FailToWrite
<1>8. ASSUME NEW p \in Procs, Release(p) PROVE LeaseLeft'
  BY <1>8 DEF Release
<1>9. ASSUME NEW p \in Procs, LeaseDie(p) PROVE LeaseLeft'
  BY <1>9 DEF LeaseDie
<1> QED
  BY LeaseStepCases, <1>1, <1>2, <1>3, <1>4, <1>5, <1>6, <1>7, <1>8, <1>9

\* A step of the lease moves one program, and a takeover, a death or a release
\* goes where it goes.
LEMMA LeaseStepPhase ==
    ASSUME LeaseTypeOK, NEW p \in Procs, LeaseStep(p)
    PROVE  /\ \A q \in Procs \ {p} : phase'[q] = phase[q]
           /\ Create(p) \/ TakeLease(p) => phase'[p] # "dead"
           /\ Release(p) => phase'[p] = "out"
           /\ LeaseDie(p) => phase'[p] = "dead"
           /\ UNCHANGED leaseVars => phase' = phase
           /\ raced => raced'
<1> USE DEF LeaseTypeOK, Go
<1>1. CASE Create(p)
  BY <1>1 DEF Create, Release, LeaseDie, leaseVars
<1>2. CASE TakeLease(p)
  BY <1>2 DEF TakeLease, ReadOwner, UnlinkDead, Recreate, WriteOwner, FailToWrite, Refuse,
      Release, LeaseDie, leaseVars
<1>3. CASE Release(p)
  BY <1>3 DEF Release, Create, TakeLease, ReadOwner, UnlinkDead, Recreate, WriteOwner, FailToWrite,
      Refuse, LeaseDie, leaseVars
<1>4. CASE LeaseDie(p)
  BY <1>4 DEF Release, Create, TakeLease, ReadOwner, UnlinkDead, Recreate, WriteOwner, FailToWrite,
      Refuse, LeaseDie, leaseVars, Alive
<1>5. CASE UNCHANGED leaseVars
  BY <1>5 DEF Release, Create, TakeLease, ReadOwner, UnlinkDead, Recreate, WriteOwner, FailToWrite,
      Refuse, LeaseDie, leaseVars, Alive
<1>. QED
  BY <1>1, <1>2, <1>3, <1>4, <1>5 DEF LeaseStep

LEMMA LeaseStepIsNext ==
    ASSUME NEW p \in Procs, LeaseStep(p)
    PROVE  [LeaseNext]_leaseVars
  BY DEF LeaseStep, LeaseNext

LEMMA SessionKept ==
    ASSUME SessionInv, NEW p \in Procs, LeaseStep(p),
           manifest' \in Manifests, events' \in Seq(ChunkSet), late' \in BOOLEAN,
           session' \in [Procs -> Sessions], reported' \in SUBSET Events,
           reported \subseteq reported',
           \A q \in Procs \ {p} : session'[q] = session[q],
           PlaceOK(p)'
    PROVE  SessionInv'
<1>1. LeaseTypeOK /\ LeaseLeft /\ [LeaseNext]_leaseVars
  BY LeaseStepIsNext DEF SessionInv, TypeInv
<1>2. LeaseTypeOK' /\ LeaseLeft'
  BY <1>1, LeaseTypeInductive, LeaseLeftKept
<1>3. \A q \in Procs \ {p} : phase'[q] = phase[q]
  BY <1>1, LeaseStepPhase
<1>4. ASSUME NEW q \in Procs PROVE PlaceOK(q)'
  <2>1. CASE q = p
    BY <2>1
  <2>2. CASE q # p
    <3>1. PlaceOK(q) /\ session'[q] = session[q] /\ phase'[q] = phase[q]
      BY <1>3, <2>2 DEF SessionInv
    <3>. QED
      BY <3>1 DEF PlaceOK
  <2>. QED
    BY <2>1, <2>2
<1>5. TypeInv'
  BY <1>2 DEF TypeInv
<1>. QED
  BY <1>2, <1>4, <1>5 DEF SessionInv

\* The usual cases: the program goes on, or leaves.
LEMMA CarriedOn ==
    ASSUME SessionInv, NEW p \in Procs, LeaseStep(p),
           manifest' \in Manifests, events' \in Seq(ChunkSet), UNCHANGED late,
           reported' \in SUBSET Events, reported \subseteq reported',
           NEW place \in Places \ {"fresh", "ended"}, NEW last, NEW buffer,
           Carries(p, place, last, buffer),
           place \in WritingPlaces \cup {"opening", "closed"} => phase'[p] = "in",
           place \in {"away", "lingering", "downstream", "deciding"} => phase'[p] = "out",
           place = "leasing" => phase'[p] \notin {"in", "dead"},
           place \in {"away", "leasing", "opening", "downstream", "deciding"} => buffer = <<>>
    PROVE  SessionInv'
<1>1. PlaceOK(p)'
  BY DEF PlaceOK, Carries
<1>2. late' \in BOOLEAN
  BY DEF SessionInv, TypeInv
<1>. QED
  BY <1>1, <1>2, SessionKept DEF Carries

LEMMA Left ==
    ASSUME SessionInv, NEW p \in Procs, LeaseStep(p), Leaves(p),
           manifest' \in Manifests, events' \in Seq(ChunkSet), late' \in BOOLEAN,
           UNCHANGED reported, phase'[p] \in {"out", "dead"}
    PROVE  SessionInv'
<1>1. PlaceOK(p)'
  BY AwayTyped DEF PlaceOK, Leaves, WritingPlaces
<1>2. reported' \in SUBSET Events /\ reported \subseteq reported'
  BY DEF SessionInv, TypeInv
<1>. QED
  BY <1>1, <1>2, SessionKept DEF Leaves

LEMMA StaysTyped ==
    ASSUME SessionInv
    PROVE  /\ TypeInv /\ manifest \in Manifests /\ events \in Seq(ChunkSet)
           /\ reported \in SUBSET Events /\ late \in BOOLEAN
           /\ \A p \in Procs : PlaceOK(p) /\ session[p] \in Sessions
           /\ LeaseTypeOK
  BY DEF SessionInv, TypeInv

LEMMA NoLeaseStep ==
    ASSUME LeaseTypeOK, NEW p \in Procs, UNCHANGED leaseVars
    PROVE  LeaseStep(p) /\ phase' = phase
  BY DEF LeaseStep, leaseVars

LEMMA ReadManifestKeeps ==
    ASSUME SessionInv, NEW p \in Procs, NEW appends \in BOOLEAN, ReadManifest(p, appends)
    PROVE  LeaseStep(p) /\ SessionInv'
<1> USE StaysTyped
<1>1. /\ At(p, "away") /\ Alive(p)
      /\ session' \in [Procs -> Sessions]
      /\ session'[p].at \in {"fresh", "leasing"} /\ session'[p].buffer = <<>>
      /\ session'[p].at = "fresh" => session'[p].adopted = [run |-> p, status |-> "created"]
      /\ \A q \in Procs \ {p} : session'[q] = session[q]
      /\ UNCHANGED <<leaseVars, manifest, events, reported, late>>
  BY ReadManifestEffect
<1>2. LeaseStep(p) /\ phase' = phase
  BY <1>1, NoLeaseStep
<1>3. phase[p] = "out"
  BY <1>1 DEF PlaceOK, At, Alive
<1>4. PlaceOK(p)'
  BY <1>1, <1>2, <1>3 DEF PlaceOK, WritingPlaces
<1>. QED
  BY <1>1, <1>2, <1>4, SessionKept

LEMMA FreshKeeps ==
    ASSUME SessionInv, NEW p \in Procs, WriteFreshManifest(p)
    PROVE  LeaseStep(p) /\ SessionInv'
<1> USE StaysTyped
<1>1. /\ At(p, "fresh") /\ Moves(p, "leasing") /\ manifest' \in Manifests
      /\ UNCHANGED <<leaseVars, events, reported, late>>
  BY FreshEffect
<1>2. LeaseStep(p) /\ phase' = phase
  BY <1>1, NoLeaseStep
<1>3. phase[p] = "out" /\ session[p].buffer = <<>>
  BY <1>1 DEF PlaceOK, At
<1>. QED
  BY <1>1, <1>2, <1>3, CarriedOn DEF Moves, Places, WritingPlaces

LEMMA AcquireKeeps ==
    ASSUME SessionInv, NEW p \in Procs, AcquireLease(p)
    PROVE  LeaseStep(p) /\ SessionInv'
<1> USE StaysTyped
<1>1. /\ At(p, "leasing") /\ (Create(p) \/ TakeLease(p))
      /\ UNCHANGED <<manifest, events, reported, late>>
  BY AcquireEffect
<1>2. \/ phase'[p] = "out" /\ Leaves(p)
      \/ phase'[p] = "in" /\ Moves(p, "opening")
      \/ phase'[p] \notin {"out", "in"} /\ Moves(p, "leasing")
  BY AcquireEffect
<1>3. LeaseStep(p) /\ phase'[p] # "dead"
  BY <1>1, LeaseStepPhase DEF LeaseStep
<1>4. session[p].buffer = <<>>
  BY <1>1 DEF PlaceOK, At
<1>5. CASE phase'[p] = "out" /\ Leaves(p)
  BY <1>1, <1>3, <1>5, Left
<1>6. CASE phase'[p] = "in" /\ Moves(p, "opening")
  BY <1>1, <1>3, <1>4, <1>6, CarriedOn DEF Moves, Places, WritingPlaces
<1>7. CASE phase'[p] \notin {"out", "in"} /\ Moves(p, "leasing")
  BY <1>1, <1>3, <1>4, <1>7, CarriedOn DEF Moves, Places, WritingPlaces
<1>. QED
  BY <1>2, <1>3, <1>5, <1>6, <1>7

LEMMA PrepareKeeps ==
    ASSUME SessionInv, NEW p \in Procs, Prepare(p)
    PROVE  LeaseStep(p) /\ SessionInv'
<1> USE StaysTyped
<1>1. /\ At(p, "opening") /\ events' \in Seq(ChunkSet)
      /\ \/ Moves(p, "closed")
         \/ \E place \in {"running", "starting"} :
                Carries(p, place, Last(events'), session[p].buffer)
      /\ UNCHANGED <<leaseVars, manifest, reported, late>>
  BY PrepareEffect
<1>2. LeaseStep(p) /\ phase' = phase
  BY <1>1, NoLeaseStep
<1>3. phase[p] = "in"
  BY <1>1 DEF PlaceOK, At
<1>4. CASE Moves(p, "closed")
  BY <1>1, <1>2, <1>3, <1>4, CarriedOn DEF Moves, Places, WritingPlaces
<1>5. CASE \E place \in {"running", "starting"} :
                Carries(p, place, Last(events'), session[p].buffer)
  <2>1. PICK place \in {"running", "starting"} :
                Carries(p, place, Last(events'), session[p].buffer)
    BY <1>5
  <2>2. PICK n, b : n = Last(events') /\ b = session[p].buffer
    OBVIOUS
  <2>3. Carries(p, place, n, b)
    BY <2>1, <2>2
  <2>4. place \in Places \ {"fresh", "ended"} /\ place \in WritingPlaces
    BY DEF Places, WritingPlaces
  <2>5. place \notin {"away", "lingering", "downstream", "deciding", "leasing", "opening"}
    OBVIOUS
  <2>. QED
    BY <1>1, <1>2, <1>3, <2>3, <2>4, <2>5, CarriedOn
<1>. QED
  BY <1>1, <1>2, <1>4, <1>5

LEMMA StartKeeps ==
    ASSUME SessionInv, NEW p \in Procs, Start(p)
    PROVE  LeaseStep(p) /\ SessionInv'
<1> USE StaysTyped
<1>1. /\ At(p, "starting")
      /\ Moves(p, "closing") \/ Moves(p, "announcing")
      /\ manifest' \in Manifests
      /\ UNCHANGED <<leaseVars, events, reported, late>>
  BY StartEffect
<1>2. LeaseStep(p) /\ phase' = phase
  BY <1>1, NoLeaseStep
<1>3. phase[p] = "in"
  BY <1>1 DEF PlaceOK, At, WritingPlaces
<1>4. CASE Moves(p, "closing")
  BY <1>1, <1>2, <1>3, <1>4, CarriedOn DEF Moves, Places, WritingPlaces
<1>5. CASE Moves(p, "announcing")
  BY <1>1, <1>2, <1>3, <1>5, CarriedOn DEF Moves, Places, WritingPlaces
<1>. QED
  BY <1>1, <1>2, <1>4, <1>5

LEMMA FinishWorkKeeps ==
    ASSUME SessionInv, NEW p \in Procs, FinishWork(p) \/ FailWork(p)
    PROVE  LeaseStep(p) /\ SessionInv'
<1> USE StaysTyped
<1>1. /\ At(p, "running") \/ At(p, "crashing")
      /\ Moves(p, "closing") \/ Moves(p, "ending")
      /\ UNCHANGED <<leaseVars, manifest, events, reported, late>>
  BY FinishWorkEffect, FailWorkEffect
<1>2. LeaseStep(p) /\ phase' = phase
  BY <1>1, NoLeaseStep
<1>3. phase[p] = "in"
  BY <1>1 DEF PlaceOK, At, WritingPlaces
<1>4. CASE Moves(p, "closing")
  BY <1>1, <1>2, <1>3, <1>4, CarriedOn DEF Moves, Places, WritingPlaces
<1>5. CASE Moves(p, "ending")
  BY <1>1, <1>2, <1>3, <1>5, CarriedOn DEF Moves, Places, WritingPlaces
<1>. QED
  BY <1>1, <1>2, <1>4, <1>5

LEMMA WriteManifestKeeps ==
    ASSUME SessionInv, NEW p \in Procs, WriteManifest(p)
    PROVE  LeaseStep(p) /\ SessionInv'
<1> USE StaysTyped
<1>1. /\ At(p, "ended") /\ Moves(p, "closing") /\ manifest' \in Manifests
      /\ UNCHANGED <<leaseVars, events, reported, late>>
  BY WriteManifestEffect
<1>2. LeaseStep(p) /\ phase' = phase
  BY <1>1, NoLeaseStep
<1>3. phase[p] = "in"
  BY <1>1 DEF PlaceOK, At, WritingPlaces
<1>. QED
  BY <1>1, <1>2, <1>3, CarriedOn DEF Moves, Places, WritingPlaces

\* What is written of a typed buffer leaves the stream typed.
LEMMA StreamTyped ==
    ASSUME SessionInv, NEW b \in Seq(ChunkSet), NEW k \in 0 .. Len(b)
    PROVE  events \o SubSeq(b, 1, k) \in Seq(ChunkSet)
<1>1. events \in Seq(ChunkSet)
  BY StaysTyped
<1>2. PICK c \in Seq(ChunkSet) : c = SubSeq(b, 1, k)
  BY Beginning
<1>. QED
  BY <1>1, <1>2, ConcatProperties

LEMMA CloseKeeps ==
    ASSUME SessionInv, NEW p \in Procs, Close(p)
    PROVE  LeaseStep(p) /\ SessionInv'
<1> USE StaysTyped
<1>1. /\ At(p, "closing") /\ session[p].buffer \in Seq(ChunkSet)
      /\ UNCHANGED <<leaseVars, manifest, reported, late>>
  BY CloseEffect
<1>2. PICK k \in 0 .. Len(session[p].buffer) :
        /\ events' = events \o SubSeq(session[p].buffer, 1, k)
        /\ Carries(p, "closed", session[p].last,
                   SubSeq(session[p].buffer, k + 1, Len(session[p].buffer)))
  BY CloseEffect
<1>3. PICK n, b : n = session[p].last /\ b = SubSeq(session[p].buffer, k + 1, Len(session[p].buffer))
  OBVIOUS
<1>4. Carries(p, "closed", n, b)
  BY <1>2, <1>3
<1>5. events' \in Seq(ChunkSet)
  BY <1>1, <1>2, StreamTyped
<1>6. LeaseStep(p) /\ phase' = phase
  BY <1>1, NoLeaseStep
<1>7. phase[p] = "in"
  BY <1>1 DEF PlaceOK, At, WritingPlaces
<1>. QED
  BY <1>1, <1>4, <1>5, <1>6, <1>7, CarriedOn DEF Places, WritingPlaces

LEMMA ReleaseKeeps ==
    ASSUME SessionInv, NEW p \in Procs, ReleaseLease(p)
    PROVE  LeaseStep(p) /\ SessionInv'
<1> USE StaysTyped
<1>1. /\ At(p, "closed") /\ Release(p)
      /\ \/ Moves(p, "lingering")
         \/ /\ session' \in [Procs -> Sessions]
            /\ session'[p].at \in {"away", "downstream"} /\ session'[p].buffer = <<>>
            /\ \A q \in Procs \ {p} : session'[q] = session[q]
      /\ UNCHANGED <<manifest, events, reported, late>>
  BY ReleaseEffect
<1>2. LeaseStep(p) /\ phase'[p] = "out"
  BY <1>1, LeaseStepPhase DEF LeaseStep
<1>3. CASE Moves(p, "lingering")
  BY <1>1, <1>2, <1>3, CarriedOn DEF Moves, Places, WritingPlaces
<1>4. CASE /\ session' \in [Procs -> Sessions]
           /\ session'[p].at \in {"away", "downstream"} /\ session'[p].buffer = <<>>
           /\ \A q \in Procs \ {p} : session'[q] = session[q]
  <2>1. PlaceOK(p)'
    BY <1>2, <1>4 DEF PlaceOK, WritingPlaces
  <2>. QED
    BY <1>1, <1>2, <1>4, <2>1, SessionKept
<1>. QED
  BY <1>1, <1>2, <1>3, <1>4

LEMMA FinalizeKeeps ==
    ASSUME SessionInv, NEW p \in Procs, Finalize(p)
    PROVE  LeaseStep(p) /\ SessionInv'
<1> USE StaysTyped
<1>1. /\ At(p, "lingering") /\ Leaves(p) /\ events' \in Seq(ChunkSet) /\ late' = TRUE
      /\ UNCHANGED <<leaseVars, manifest, reported>>
  BY FinalizeEffect
<1>2. LeaseStep(p) /\ phase' = phase
  BY <1>1, NoLeaseStep
<1>3. phase[p] = "out"
  BY <1>1 DEF PlaceOK, At
<1>. QED
  BY <1>1, <1>2, <1>3, Left

LEMMA TransitionKeeps ==
    ASSUME SessionInv, NEW p \in Procs, ReadForTransition(p) \/ WriteTransition(p)
    PROVE  LeaseStep(p) /\ SessionInv'
<1> USE StaysTyped
<1>1. CASE ReadForTransition(p)
  <2>1. /\ At(p, "downstream")
        /\ session' \in [Procs -> Sessions]
        /\ session'[p].at = "deciding" /\ session'[p].buffer = session[p].buffer
        /\ \A q \in Procs \ {p} : session'[q] = session[q]
        /\ UNCHANGED <<leaseVars, manifest, events, reported, late>>
    BY <1>1, ReadForTransitionEffect
  <2>2. LeaseStep(p) /\ phase' = phase
    BY <2>1, NoLeaseStep
  <2>3. phase[p] = "out" /\ session[p].buffer = <<>>
    BY <2>1 DEF PlaceOK, At
  <2>4. PlaceOK(p)'
    BY <2>1, <2>2, <2>3 DEF PlaceOK, WritingPlaces
  <2>. QED
    BY <2>1, <2>2, <2>4, SessionKept
<1>2. CASE WriteTransition(p)
  <2>1. /\ At(p, "deciding") /\ Leaves(p) /\ manifest' \in Manifests
        /\ UNCHANGED <<leaseVars, events, reported, late>>
    BY <1>2, WriteTransitionEffect
  <2>2. LeaseStep(p) /\ phase' = phase
    BY <2>1, NoLeaseStep
  <2>3. phase[p] = "out"
    BY <2>1 DEF PlaceOK, At
  <2>. QED
    BY <2>1, <2>2, <2>3, Left
<1>. QED
  BY <1>1, <1>2

LEMMA DieKeeps ==
    ASSUME SessionInv, NEW p \in Procs, Die(p)
    PROVE  LeaseStep(p) /\ SessionInv'
<1> USE StaysTyped
<1>1. LeaseDie(p) /\ Leaves(p) /\ UNCHANGED <<manifest, events, reported, late>>
  BY DieEffect
<1>2. LeaseStep(p) /\ phase'[p] = "dead"
  BY <1>1, LeaseStepPhase DEF LeaseStep
<1>. QED
  BY <1>1, <1>2, Left

\* The four emits: where they are, what they emit and where they go.
EmitsAny(p) == EmitNote(p) \/ EmitStarted(p) \/ EmitWork(p) \/ EmitOutcome(p)

LEMMA EmitCases ==
    ASSUME SessionInv, NEW p \in Procs, EmitsAny(p)
    PROVE  /\ session[p].at \in WritingPlaces
           /\ \E name \in Names, next \in WritingPlaces, onError \in {"closing", "crashing"} :
                /\ Emit(p, name, next, onError)
                /\ next = "ended" => name = session[p].outcome
<1> DEFINE Known(name, next, onError) ==
              /\ Emit(p, name, next, onError)
              /\ next = "ended" => name = session[p].outcome
<1>1. CASE EmitNote(p)
  <2>1. session[p].at \in {"starting", "running"} /\ Emit(p, "note", session[p].at, "closing")
    BY <1>1 DEF EmitNote
  <2>2. Known("note", session[p].at, "closing")
    BY <2>1
  <2>3. "note" \in Names /\ session[p].at \in WritingPlaces
    BY <2>1 DEF Names, WritingPlaces
  <2> HIDE DEF Known
  <2>4. \E name \in Names, next \in WritingPlaces, onError \in {"closing", "crashing"} :
            Known(name, next, onError)
    BY <2>2, <2>3
  <2>. QED
    BY <2>3, <2>4 DEF Known
<1>2. CASE EmitStarted(p)
  <2>1. Known("started", "running", "closing") /\ session[p].at = "announcing"
    BY <1>2 DEF EmitStarted, At
  <2>2. "started" \in Names /\ "running" \in WritingPlaces /\ session[p].at \in WritingPlaces
    BY <2>1 DEF Names, WritingPlaces
  <2> HIDE DEF Known
  <2>3. \E name \in Names, next \in WritingPlaces, onError \in {"closing", "crashing"} :
            Known(name, next, onError)
    BY <2>1, <2>2
  <2>. QED
    BY <2>2, <2>3 DEF Known
<1>3. CASE EmitWork(p)
  <2> DEFINE onError == IF session[p].appends THEN "closing" ELSE "crashing"
  <2>1. Known("work", "running", onError) /\ session[p].at = "running"
    BY <1>3 DEF EmitWork, Working, At
  <2>2. /\ "work" \in Names /\ "running" \in WritingPlaces /\ session[p].at \in WritingPlaces
        /\ onError \in {"closing", "crashing"}
    BY <2>1 DEF Names, WritingPlaces
  <2> HIDE DEF Known, onError
  <2>3. \E name \in Names, next \in WritingPlaces, x \in {"closing", "crashing"} :
            Known(name, next, x)
    BY <2>1, <2>2
  <2>. QED
    BY <2>2, <2>3 DEF Known
<1>4. CASE EmitOutcome(p)
  <2>1. Known(session[p].outcome, "ended", "closing") /\ session[p].at = "ending"
    BY <1>4 DEF EmitOutcome, At
  <2>2. session[p].outcome \in Names /\ "ended" \in WritingPlaces /\ session[p].at \in WritingPlaces
    <3>1. session[p] \in Sessions
      BY StaysTyped
    <3>. QED
      BY <2>1, <3>1 DEF Names, WritingPlaces, Sessions
  <2> HIDE DEF Known
  <2>3. \E name \in Names, next \in WritingPlaces, onError \in {"closing", "crashing"} :
            Known(name, next, onError)
    BY <2>1, <2>2
  <2>. QED
    BY <2>2, <2>3 DEF Known
<1>. QED
  BY <1>1, <1>2, <1>3, <1>4 DEF EmitsAny

LEMMA EmitKeeps ==
    ASSUME SessionInv, NEW p \in Procs, EmitsAny(p)
    PROVE  LeaseStep(p) /\ SessionInv'
<1> USE StaysTyped
<1>1. session[p].at \in WritingPlaces
  BY EmitCases
<1>2. PICK name \in Names, next \in WritingPlaces, onError \in {"closing", "crashing"} :
        Emit(p, name, next, onError) /\ (next = "ended" => name = session[p].outcome)
  BY EmitCases
<1>3. next \in Places /\ onError \in Places /\ onError \in WritingPlaces
  BY DEF Places, WritingPlaces
<1>4. PICK e \in Events : e = Emitted(p, name)
  BY PendingTyped
<1>5. PICK b \in Seq(ChunkSet) : b = Pending(p, e)
  BY <1>4, PendingTyped
<1>6. /\ \/ Returns(p, name, next)
         \/ \E k \in 0 .. Len(b) : Torn(p, name, onError, k) \/ Dies(p, name, k)
         \/ Loses(p, onError)
      /\ UNCHANGED <<manifest, late>>
  BY <1>2, <1>3, <1>4, <1>5, EmitEffect
<1>7. phase[p] = "in"
  BY <1>1 DEF PlaceOK
<1>8. CASE Returns(p, name, next)
  <2>1. /\ events' = events \o b /\ reported' = reported \cup {e}
        /\ Carries(p, next, session[p].last + 1, <<>>) /\ session'[p].outcome = session[p].outcome
        /\ UNCHANGED leaseVars
    BY <1>4, <1>5, <1>8 DEF Returns
  <2>2. events' \in Seq(ChunkSet)
    BY <2>1, ConcatProperties
  <2>3. LeaseStep(p) /\ phase' = phase
    BY <2>1, NoLeaseStep
  <2>4. next = "ended" => e.name = session'[p].outcome /\ e.run = session'[p].adopted.run
    BY <1>2, <1>4, <2>1 DEF Emitted, Carries
  <2>5. PlaceOK(p)'
    <3>1. session'[p].at = next /\ session'[p].buffer = <<>> /\ e \in reported' /\ phase'[p] = "in"
      BY <1>7, <2>1, <2>3 DEF Carries
    <3>. QED
      BY <2>4, <3>1 DEF PlaceOK, WritingPlaces
  <2>. QED
    BY <1>6, <2>1, <2>2, <2>3, <2>5, SessionKept DEF Carries
<1>9. ASSUME NEW k \in 0 .. Len(b), Torn(p, name, onError, k) PROVE LeaseStep(p) /\ SessionInv'
  <2>1. /\ events' = events \o SubSeq(b, 1, k)
        /\ Carries(p, onError, session[p].last + 1, SubSeq(b, k + 1, Len(b)))
        /\ UNCHANGED <<leaseVars, reported>>
    BY <1>4, <1>5, <1>9 DEF Torn
  <2>2. events' \in Seq(ChunkSet)
    BY <2>1, StreamTyped
  <2>3. PICK n, rest : n = session[p].last + 1 /\ rest = SubSeq(b, k + 1, Len(b))
    OBVIOUS
  <2>4. Carries(p, onError, n, rest)
    BY <2>1, <2>3
  <2>5. LeaseStep(p) /\ phase' = phase
    BY <2>1, NoLeaseStep
  <2>. QED
    BY <1>3, <1>6, <1>7, <2>1, <2>2, <2>4, <2>5, CarriedOn
<1>10. ASSUME NEW k \in 0 .. Len(b), Dies(p, name, k) PROVE LeaseStep(p) /\ SessionInv'
  <2>1. /\ events' = events \o SubSeq(b, 1, k)
        /\ LeaseDie(p) /\ Leaves(p) /\ UNCHANGED reported
    BY <1>4, <1>5, <1>10 DEF Dies
  <2>2. events' \in Seq(ChunkSet)
    BY <2>1, StreamTyped
  <2>3. LeaseStep(p) /\ phase'[p] = "dead"
    BY <2>1, LeaseStepPhase DEF LeaseStep
  <2>. QED
    BY <1>6, <2>1, <2>2, <2>3, Left
<1>11. CASE Loses(p, onError)
  <2>1. /\ Carries(p, onError, session[p].last + 1, session[p].buffer)
        /\ UNCHANGED <<leaseVars, events, reported>>
    BY <1>11 DEF Loses
  <2>2. PICK n, rest : n = session[p].last + 1 /\ rest = session[p].buffer
    OBVIOUS
  <2>3. Carries(p, onError, n, rest)
    BY <2>1, <2>2
  <2>4. LeaseStep(p) /\ phase' = phase
    BY <2>1, NoLeaseStep
  <2>. QED
    BY <1>3, <1>6, <1>7, <2>1, <2>3, <2>4, CarriedOn
<1>. QED
  BY <1>6, <1>8, <1>9, <1>10, <1>11

LEMMA SessionInductive ==
    ASSUME SessionInv, [Next]_vars
    PROVE  [LeaseNext]_leaseVars /\ SessionInv'
<1>1. CASE UNCHANGED vars
  <2>1. UNCHANGED <<leaseVars, manifest, events, session, reported, late>>
    BY <1>1 DEF vars, sessionVars
  <2>2. TypeInv'
    BY <2>1, StaysTyped DEF TypeInv, LeaseTypeOK, leaseVars
  <2>3. LeaseLeft'
    BY <2>1 DEF SessionInv, LeaseLeft, leaseVars
  <2>4. \A q \in Procs : PlaceOK(q)'
    BY <2>1 DEF SessionInv, PlaceOK, leaseVars
  <2>. QED
    BY <2>1, <2>2, <2>3, <2>4 DEF SessionInv
<1>2. ASSUME NEW p \in Procs, Operate(p) PROVE LeaseStep(p) /\ SessionInv'
  BY <1>2, ReadManifestKeeps, FreshKeeps, AcquireKeeps, PrepareKeeps, EmitKeeps, StartKeeps,
     FinishWorkKeeps, WriteManifestKeeps, CloseKeeps, ReleaseKeeps, FinalizeKeeps,
     TransitionKeeps, DieKeeps DEF Operate, EmitsAny
<1>. QED
  BY <1>1, <1>2, LeaseStepIsNext DEF Next, vars

LEMMA SessionInit ==
    ASSUME Init
    PROVE  LeaseInit /\ SessionInv
<1>1. LeaseTypeOK
  BY LeaseTypeInit DEF Init
<1>2. NoManifest \in Manifests /\ <<>> \in Seq(ChunkSet)
  BY DEF NoManifest, Manifests, Runs, Statuses
<1>3. session \in [Procs -> Sessions] /\ \A p \in Procs : session[p] = Away
  BY AwayTyped DEF Init
<1>4. TypeInv
  BY <1>1, <1>2, <1>3 DEF Init, TypeInv
<1>5. LeaseLeft
  BY RunLeaseAssumption DEF Init, LeaseInit, LeaseLeft, Absent, CreatedBy
<1>6. \A p \in Procs : PlaceOK(p)
  BY <1>3, AwayTyped DEF PlaceOK, Init, LeaseInit, WritingPlaces
<1>. QED
  BY <1>4, <1>5, <1>6 DEF Init, SessionInv

LEMMA SessionInvHolds == Spec => [](SessionInv)
  BY SessionInit, SessionInductive, PTL DEF Spec

(***************************************************************************)
(* Whatever sessions and workflows do, what happens to the lease file is   *)
(* what RunLease allows: its theorems hold of every run of the sessions.   *)
(***************************************************************************)
THEOREM SessionsUseTheLease == Spec => UsesTheLease
<1>1. Init => LeaseInit
  BY SessionInit
<1>2. SessionInv /\ [Next]_vars => [LeaseNext]_leaseVars
  BY SessionInductive
<1>. QED
  BY <1>1, <1>2, SessionInvHolds, PTL DEF Spec, UsesTheLease, LeaseSpec

LEMMA WritersAreInside == SessionInv => Writing \subseteq Inside
  BY DEF SessionInv, PlaceOK, Writing, Inside, WritingPlaces

(***************************************************************************)
(* One program at a time mends the stream's end, appends to it and flushes *)
(* it, for any number of programs, hosts, deaths and failed writes, as     *)
(* long as no two takeovers of a dead owner's lease have raced.            *)
(***************************************************************************)
THEOREM OneWriter == Spec => []SoleWriter
<1>1. SoleOwner /\ SessionInv => SoleWriter
  <2> SUFFICES ASSUME SoleOwner, SessionInv, ~raced PROVE Cardinality(Writing) <= 1
    BY DEF SoleWriter
  <2>1. \A p, q \in Writing : p = q
    BY WritersAreInside DEF SoleOwner
  <2>2. CASE Writing = {}
    BY <2>2, FS_EmptySet
  <2>3. CASE Writing # {}
    <3>1. PICK p \in Writing : Writing = {p}
      BY <2>1, <2>3
    <3>. QED
      BY <3>1, FS_Singleton
  <2>. QED
    BY <2>2, <2>3
<1>2. Spec => []SoleOwner
  BY SessionsUseTheLease, OneOwner, PTL DEF UsesTheLease
<1>. QED
  BY <1>1, <1>2, SessionInvHolds, PTL

(***************************************************************************)
(* However a session ended, a refusal, an error, a failed flush or a       *)
(* failed write of the owner, its living program has left no lease behind  *)
(* that names it as the owner and would refuse the next start, races       *)
(* included.                                                               *)
(***************************************************************************)
THEOREM NoLeaseIsLeft == Spec => []NoLeaseLeft
<1>1. SessionInv => NoLeaseLeft
  <2> SUFFICES ASSUME SessionInv, NEW p \in Over, Alive(p) PROVE file # CreatedBy(p, TRUE)
    BY DEF NoLeaseLeft
  <2>1. p \in Procs /\ session[p].at \in {"away", "lingering", "downstream", "deciding"}
    BY DEF Over
  <2>2. phase[p] = "out"
    BY <2>1 DEF SessionInv, PlaceOK, Alive
  <2>. QED
    BY <2>1, <2>2 DEF SessionInv, LeaseLeft
<1>. QED
  BY <1>1, SessionInvHolds, PTL

-----------------------------------------------------------------------------
(***************************************************************************)
(* The stream.  While nothing is written to it but under the lease, the    *)
(* stream is regular, every event reported is in it, and what the writer   *)
(* has in the file and in its buffer is whole lines under its numbers.     *)
(***************************************************************************)

Carried(p) ==
    /\ Fine(events \o session[p].buffer) /\ Closed(events \o session[p].buffer)
    /\ UpTo(events \o session[p].buffer, session[p].last)

StreamInv ==
    Orderly => /\ Fine(events)
               /\ reported \subseteq Done(events)
               /\ \A p \in Procs : session[p].at \in WritingPlaces => Carried(p)

StoryInv == SessionInv /\ LeaseInv /\ StreamInv

LEMMA StaysOrderly ==
    ASSUME LeaseTypeOK, NEW p \in Procs, LeaseStep(p), UNCHANGED late, Orderly'
    PROVE  Orderly /\ ~raced
<1>1. raced => raced'
  BY LeaseStepPhase
<1>. QED
  BY <1>1 DEF Orderly

\* A step that writes nothing, of a program that does not become a writer.
LEMMA QuietStep ==
    ASSUME StreamInv, Orderly' => Orderly, NEW p \in Procs,
           UNCHANGED <<events, reported>>,
           \A q \in Procs \ {p} : session'[q] = session[q],
           session'[p].at \in WritingPlaces =>
                /\ session[p].at \in WritingPlaces
                /\ session'[p].buffer = session[p].buffer /\ session'[p].last = session[p].last
    PROVE  StreamInv'
<1> SUFFICES ASSUME Orderly' PROVE /\ Fine(events') /\ reported' \subseteq Done(events')
                                   /\ \A q \in Procs : session'[q].at \in WritingPlaces => Carried(q)'
  BY DEF StreamInv
<1>1. /\ Fine(events) /\ reported \subseteq Done(events)
      /\ \A q \in Procs : session[q].at \in WritingPlaces => Carried(q)
  BY DEF StreamInv
<1>2. ASSUME NEW q \in Procs, session'[q].at \in WritingPlaces PROVE Carried(q)'
  <2>1. /\ session[q].at \in WritingPlaces
        /\ session'[q].buffer = session[q].buffer /\ session'[q].last = session[q].last
    BY <1>2
  <2>2. Carried(q)
    BY <1>1, <2>1
  <2>. QED
    BY <2>1, <2>2 DEF Carried
<1>. QED
  BY <1>1, <1>2

\* A step of the program that is inside, which is the only writer.
LEMMA WriterStep ==
    ASSUME SessionInv, LeaseInv, ~raced, NEW p \in Procs, phase[p] = "in",
           \A q \in Procs \ {p} : session'[q] = session[q],
           Fine(events'), reported' \subseteq Done(events'),
           session'[p].at \in WritingPlaces => Carried(p)'
    PROVE  StreamInv'
<1>1. ASSUME NEW q \in Procs \ {p} PROVE session'[q].at \notin WritingPlaces
  <2>1. session[q].at \in WritingPlaces => phase[q] = "in"
    BY DEF SessionInv, PlaceOK
  <2>2. phase[q] = "in" => CreatedBy(q, TRUE) = CreatedBy(p, TRUE)
    BY DEF LeaseInv, TakeoverInv
  <2>. QED
    BY <2>1, <2>2 DEF CreatedBy
<1>2. \A q \in Procs : session'[q].at \in WritingPlaces => Carried(q)'
  <2> SUFFICES ASSUME NEW q \in Procs, session'[q].at \in WritingPlaces PROVE Carried(q)'
    OBVIOUS
  <2>1. q = p
    BY <1>1
  <2>. QED
    BY <2>1
<1>. QED
  BY <1>2 DEF StreamInv

\* What an emit writes, in one piece or torn.
LEMMA EmittedStream ==
    ASSUME SessionInv, NEW p \in Procs, Carried(p), NEW name \in Names, NEW e \in Events,
           NEW b \in Seq(ChunkSet), e = Emitted(p, name), b = Pending(p, e)
    PROVE  /\ events \o b \in Seq(ChunkSet)
           /\ Fine(events \o b) /\ Closed(events \o b) /\ UpTo(events \o b, session[p].last + 1)
           /\ e \in Done(events \o b)
<1>1. /\ events \in Seq(ChunkSet) /\ session[p].buffer \in Seq(ChunkSet) /\ session[p].last \in Nat
  <2>1. session[p] \in Sessions
    BY StaysTyped
  <2>. QED
    BY <2>1, StaysTyped DEF Sessions
<1>2. PICK s \in Seq(ChunkSet) : s = events \o session[p].buffer
  BY <1>1, ConcatProperties
<1>3. PICK n \in Nat : n = session[p].last
  BY <1>1
<1>4. Fine(s) /\ Closed(s) /\ UpTo(s, n) /\ e.sequence = n + 1
  BY <1>2, <1>3 DEF Carried, Emitted
<1>5. PICK c \in Seq(ChunkSet) : c = Chunks(e)
  BY LineChunks
<1>6. events \o b = s \o c
  <2>1. b = session[p].buffer \o c
    BY <1>5 DEF Pending
  <2>2. PICK x, y \in Seq(ChunkSet) : x = events /\ y = session[p].buffer
    BY <1>1
  <2>3. (x \o y) \o c = x \o (y \o c)
    BY ConcatAssociative
  <2>. QED
    BY <1>2, <2>1, <2>2, <2>3, Zenon
<1>7. /\ s \o c \in Seq(ChunkSet) /\ Fine(s \o c) /\ Closed(s \o c) /\ UpTo(s \o c, n + 1)
      /\ e \in Done(s \o c)
  BY <1>4, <1>5, LineAdded
<1>. QED
  BY <1>3, <1>6, <1>7

\* A stream that a part of whole lines is written to.
LEMMA PartWritten ==
    ASSUME NEW s \in Seq(ChunkSet), NEW b \in Seq(ChunkSet), NEW k \in 0 .. Len(b),
           Fine(s \o b)
    PROVE  /\ Fine(s \o SubSeq(b, 1, k)) /\ Done(s) \subseteq Done(s \o SubSeq(b, 1, k))
           /\ (s \o SubSeq(b, 1, k)) \o SubSeq(b, k + 1, Len(b)) = s \o b
<1>1. /\ SubSeq(b, 1, k) \in Seq(ChunkSet)
      /\ Len(s) + k \in 0 .. Len(s \o b)
      /\ s \o SubSeq(b, 1, k) = SubSeq(s \o b, 1, Len(s) + k)
  BY Written
<1>2. (s \o SubSeq(b, 1, k)) \o SubSeq(b, k + 1, Len(b)) = s \o b
  BY Written, Zenon
<1>3. PICK t \in Seq(ChunkSet) : t = s \o b
  BY ConcatProperties
<1>4. PICK n \in 0 .. Len(t) : n = Len(s) + k
  BY <1>1, <1>3
<1>5. Fine(SubSeq(t, 1, n))
  BY <1>3, BeginningIsFine
<1>6. Done(s) \subseteq Done(s \o SubSeq(b, 1, k))
  BY <1>1, DoneGrows
<1>. QED
  BY <1>1, <1>2, <1>3, <1>4, <1>5, <1>6

LEMMA EmitKeepsStream ==
    ASSUME StoryInv, NEW p \in Procs, EmitsAny(p)
    PROVE  StreamInv'
<1> USE DEF StoryInv
<1>0. LeaseStep(p) /\ SessionInv' /\ LeaseTypeOK /\ events \in Seq(ChunkSet)
  BY EmitKeeps, StaysTyped
<1>1. session[p].at \in WritingPlaces
  BY EmitCases
<1>2. PICK name \in Names, next \in WritingPlaces, onError \in {"closing", "crashing"} :
        Emit(p, name, next, onError)
  BY EmitCases
<1>3. next \in Places /\ onError \in Places /\ onError \in WritingPlaces
  BY DEF Places, WritingPlaces
<1>4. PICK e \in Events : e = Emitted(p, name)
  BY PendingTyped, StaysTyped
<1>5. PICK b \in Seq(ChunkSet) : b = Pending(p, e)
  BY <1>4, PendingTyped, StaysTyped
<1>6. /\ \/ Returns(p, name, next)
         \/ \E k \in 0 .. Len(b) : Torn(p, name, onError, k) \/ Dies(p, name, k)
         \/ Loses(p, onError)
      /\ UNCHANGED late
  BY <1>2, <1>3, <1>4, <1>5, EmitEffect, StaysTyped
<1> SUFFICES ASSUME Orderly' PROVE StreamInv'
  BY DEF StreamInv
<1>7. Orderly /\ ~raced /\ phase[p] = "in"
  BY <1>0, <1>1, <1>6, StaysOrderly, StaysTyped DEF PlaceOK
<1>8. Fine(events) /\ reported \subseteq Done(events) /\ Carried(p)
  BY <1>1, <1>7 DEF StreamInv
<1>9. /\ events \o b \in Seq(ChunkSet)
      /\ Fine(events \o b) /\ Closed(events \o b) /\ UpTo(events \o b, session[p].last + 1)
      /\ e \in Done(events \o b)
  BY <1>4, <1>5, <1>8, EmittedStream
<1>10. CASE Returns(p, name, next)
  <2>1. /\ events' = events \o b /\ reported' = reported \cup {e}
        /\ Carries(p, next, session[p].last + 1, <<>>)
    BY <1>4, <1>5, <1>10 DEF Returns
  <2>2. events' \o session'[p].buffer = events \o b
    <3>1. (events \o b) \o <<>> = events \o b
      BY <1>9, ConcatEmptySeq
    <3>. QED
      BY <2>1, <3>1 DEF Carries
  <2>3. Carried(p)'
    BY <1>9, <2>1, <2>2 DEF Carried, Carries
  <2>4. reported' \subseteq Done(events')
    <3>1. Done(events) \subseteq Done(events \o b)
      BY <1>0, DoneGrows
    <3>. QED
      BY <1>8, <1>9, <2>1, <3>1
  <2>. QED
    BY <1>7, <1>9, <2>1, <2>3, <2>4, WriterStep DEF Carries
<1>11. ASSUME NEW k \in 0 .. Len(b), Torn(p, name, onError, k) PROVE StreamInv'
  <2>1. /\ events' = events \o SubSeq(b, 1, k)
        /\ Carries(p, onError, session[p].last + 1, SubSeq(b, k + 1, Len(b)))
        /\ UNCHANGED reported
    BY <1>4, <1>5, <1>11 DEF Torn
  <2>2. /\ Fine(events') /\ Done(events) \subseteq Done(events')
        /\ events' \o session'[p].buffer = events \o b
    BY <1>0, <1>9, <2>1, PartWritten DEF Carries
  <2>3. Carried(p)'
    BY <1>9, <2>1, <2>2 DEF Carried, Carries
  <2>4. reported' \subseteq Done(events')
    BY <1>8, <2>1, <2>2
  <2>. QED
    BY <1>7, <2>1, <2>2, <2>3, <2>4, WriterStep DEF Carries
<1>12. ASSUME NEW k \in 0 .. Len(b), Dies(p, name, k) PROVE StreamInv'
  <2>1. /\ events' = events \o SubSeq(b, 1, k)
        /\ Leaves(p) /\ UNCHANGED reported
    BY <1>4, <1>5, <1>12 DEF Dies
  <2>2. Fine(events') /\ Done(events) \subseteq Done(events')
    BY <1>0, <1>9, <2>1, PartWritten
  <2>3. session'[p].at \notin WritingPlaces
    BY <2>1, AwayTyped DEF Leaves, WritingPlaces
  <2>. QED
    BY <1>7, <1>8, <2>1, <2>2, <2>3, WriterStep DEF Leaves
<1>13. CASE Loses(p, onError)
  <2>1. /\ Carries(p, onError, session[p].last + 1, session[p].buffer)
        /\ UNCHANGED <<events, reported>>
    BY <1>13 DEF Loses
  <2>2. PICK s \in Seq(ChunkSet), n \in Nat : s = events \o session[p].buffer /\ n = session[p].last
    <3>1. session[p] \in Sessions
      BY StaysTyped
    <3>2. session[p].buffer \in Seq(ChunkSet) /\ session[p].last \in Nat
      BY <3>1 DEF Sessions
    <3>. QED
      BY <1>0, <3>2, ConcatProperties
  <2>3. UpTo(s, n + 1)
    <3>1. \A i \in 1 .. Len(s) : s[i].event.sequence \in Nat
      <4>1. \A i \in 1 .. Len(s) : s[i] \in ChunkSet
        BY ElementOfSeq
      <4>. QED
        BY <4>1 DEF ChunkSet, Events
    <3>2. UpTo(s, n)
      BY <1>8, <2>2 DEF Carried
    <3>. QED
      BY <3>1, <3>2 DEF UpTo
  <2>4. Carried(p)'
    BY <1>8, <2>1, <2>2, <2>3 DEF Carried, Carries
  <2>. QED
    BY <1>7, <1>8, <2>1, <2>4, WriterStep DEF Carries
<1>. QED
  BY <1>6, <1>10, <1>11, <1>12, <1>13

\* The writer mends the end first: its numbers go on from the last line's.
LEMMA PrepareKeepsStream ==
    ASSUME StoryInv, NEW p \in Procs, Prepare(p)
    PROVE  StreamInv'
<1> USE DEF StoryInv
<1>0. LeaseStep(p) /\ LeaseTypeOK /\ events \in Seq(ChunkSet)
  BY PrepareKeeps, StaysTyped
<1>1. /\ At(p, "opening") /\ events' = Mended(events) /\ UNCHANGED <<reported, late>>
      /\ \/ Moves(p, "closed")
         \/ /\ Readable(events')
            /\ \E place \in {"running", "starting"} :
                  Carries(p, place, Last(events'), session[p].buffer)
  BY PrepareEffect, StaysTyped
<1>2. phase[p] = "in" /\ session[p].buffer = <<>>
  BY <1>1, StaysTyped DEF PlaceOK, At
<1> SUFFICES ASSUME Orderly' PROVE StreamInv'
  BY DEF StreamInv
<1>3. Orderly /\ ~raced
  BY <1>0, <1>1, StaysOrderly
<1>4. Fine(events) /\ reported \subseteq Done(events)
  BY <1>3 DEF StreamInv
<1>5. PICK m \in Seq(ChunkSet) : m = events'
  BY <1>0, <1>1, MendedTyped
<1>6. Fine(m) /\ Closed(m) /\ Done(events) \subseteq Done(m)
  BY <1>0, <1>1, <1>4, <1>5, MendedIsFine
<1>7. UpTo(m, Last(m))
  <2>1. CASE LineEnds(m) = {}
    <3>1. m = <<>>
      BY <1>6, <2>1, LastOfWhole
    <3>2. Len(m) = 0
      BY <3>1
    <3>. QED
      BY <3>2 DEF UpTo
  <2>2. CASE LineEnds(m) # {}
    BY <1>6, <2>2, LastOfWhole DEF Last
  <2>. QED
    BY <2>1, <2>2
<1>8. session'[p].at \in WritingPlaces => Carried(p)'
  <2>1. CASE Moves(p, "closed")
    BY <2>1 DEF Moves, Carries, WritingPlaces
  <2>2. CASE \E place \in {"running", "starting"} :
                  Carries(p, place, Last(events'), session[p].buffer)
    <3>1. session'[p].buffer = <<>> /\ session'[p].last = Last(m)
      BY <1>2, <1>5, <2>2 DEF Carries
    <3>2. m \o <<>> = m
      BY ConcatEmptySeq
    <3>3. events' \o session'[p].buffer = m
      BY <1>5, <3>1, <3>2
    <3>. QED
      BY <1>6, <1>7, <3>1, <3>3 DEF Carried
  <2>. QED
    BY <1>1, <2>1, <2>2
<1>9. \A q \in Procs \ {p} : session'[q] = session[q]
  BY <1>1 DEF Moves, Carries
<1>. QED
  BY <1>1, <1>2, <1>3, <1>4, <1>5, <1>6, <1>8, <1>9, WriterStep

LEMMA CloseKeepsStream ==
    ASSUME StoryInv, NEW p \in Procs, Close(p)
    PROVE  StreamInv'
<1> USE DEF StoryInv
<1>0. LeaseStep(p) /\ LeaseTypeOK /\ events \in Seq(ChunkSet)
  BY CloseKeeps, StaysTyped
<1>1. /\ At(p, "closing") /\ session[p].buffer \in Seq(ChunkSet)
      /\ UNCHANGED <<reported, late>>
  BY CloseEffect, StaysTyped
<1>2. PICK k \in 0 .. Len(session[p].buffer) :
        /\ events' = events \o SubSeq(session[p].buffer, 1, k)
        /\ Carries(p, "closed", session[p].last,
                   SubSeq(session[p].buffer, k + 1, Len(session[p].buffer)))
  BY CloseEffect, StaysTyped
<1>3. phase[p] = "in" /\ session[p].at \in WritingPlaces
  BY <1>1, StaysTyped DEF PlaceOK, At, WritingPlaces
<1> SUFFICES ASSUME Orderly' PROVE StreamInv'
  BY DEF StreamInv
<1>4. Orderly /\ ~raced
  BY <1>0, <1>1, StaysOrderly
<1>5. reported \subseteq Done(events) /\ Fine(events \o session[p].buffer)
  BY <1>3, <1>4 DEF StreamInv, Carried
<1>6. Fine(events') /\ Done(events) \subseteq Done(events')
  BY <1>0, <1>1, <1>2, <1>5, PartWritten
<1>7. session'[p].at \notin WritingPlaces
  BY <1>2 DEF Carries, WritingPlaces
<1>. QED
  BY <1>1, <1>2, <1>3, <1>4, <1>5, <1>6, <1>7, WriterStep DEF Carries

\* The actions that write nothing.
LEMMA QuietKeepsStream ==
    ASSUME StoryInv, NEW p \in Procs, LeaseStep(p), UNCHANGED <<events, reported, late>>,
           \A q \in Procs \ {p} : session'[q] = session[q],
           session'[p].at \in WritingPlaces =>
                /\ session[p].at \in WritingPlaces
                /\ session'[p].buffer = session[p].buffer /\ session'[p].last = session[p].last
    PROVE  StreamInv'
<1>1. Orderly' => Orderly
  BY StaysOrderly, StaysTyped DEF StoryInv
<1>. QED
  BY <1>1, QuietStep DEF StoryInv

LEMMA OthersKeepStream ==
    ASSUME StoryInv, NEW p \in Procs,
           \/ \E appends \in BOOLEAN : ReadManifest(p, appends)
           \/ WriteFreshManifest(p) \/ AcquireLease(p) \/ Start(p) \/ FinishWork(p) \/ FailWork(p)
           \/ WriteManifest(p) \/ ReleaseLease(p) \/ ReadForTransition(p) \/ WriteTransition(p)
           \/ Die(p)
    PROVE  StreamInv'
<1> USE StaysTyped DEF StoryInv
<1>1. CASE \E appends \in BOOLEAN : ReadManifest(p, appends)
  <2>1. PICK appends \in BOOLEAN : ReadManifest(p, appends)
    BY <1>1
  <2>2. LeaseStep(p)
    BY <2>1, ReadManifestKeeps
  <2>3. /\ session'[p].at \in {"fresh", "leasing"} /\ \A q \in Procs \ {p} : session'[q] = session[q]
        /\ UNCHANGED <<events, reported, late>>
    BY <2>1, ReadManifestEffect
  <2>. QED
    BY <2>2, <2>3, QuietKeepsStream DEF WritingPlaces
<1>2. CASE WriteFreshManifest(p)
  <2>1. LeaseStep(p) /\ Moves(p, "leasing") /\ UNCHANGED <<events, reported, late>>
    BY <1>2, FreshKeeps, FreshEffect
  <2>. QED
    BY <2>1, QuietKeepsStream DEF WritingPlaces, Moves, Carries
<1>3. CASE AcquireLease(p)
  <2>1. LeaseStep(p) /\ (Leaves(p) \/ Moves(p, "opening") \/ Moves(p, "leasing"))
        /\ UNCHANGED <<events, reported, late>>
    BY <1>3, AcquireKeeps, AcquireEffect
  <2>2. session'[p].at \notin WritingPlaces /\ \A q \in Procs \ {p} : session'[q] = session[q]
    BY <2>1, AwayTyped DEF WritingPlaces, Moves, Carries, Leaves
  <2>. QED
    BY <2>1, <2>2, QuietKeepsStream
<1>4. CASE Start(p)
  <2>1. LeaseStep(p) /\ At(p, "starting") /\ (Moves(p, "closing") \/ Moves(p, "announcing"))
        /\ UNCHANGED <<events, reported, late>>
    BY <1>4, StartKeeps, StartEffect
  <2>. QED
    BY <2>1, QuietKeepsStream DEF WritingPlaces, Moves, Carries, At
<1>5. CASE FinishWork(p) \/ FailWork(p)
  <2>1. LeaseStep(p) /\ (At(p, "running") \/ At(p, "crashing"))
        /\ (Moves(p, "closing") \/ Moves(p, "ending")) /\ UNCHANGED <<events, reported, late>>
    BY <1>5, FinishWorkKeeps, FinishWorkEffect, FailWorkEffect
  <2>. QED
    BY <2>1, QuietKeepsStream DEF WritingPlaces, Moves, Carries, At
<1>6. CASE WriteManifest(p)
  <2>1. LeaseStep(p) /\ At(p, "ended") /\ Moves(p, "closing") /\ UNCHANGED <<events, reported, late>>
    BY <1>6, WriteManifestKeeps, WriteManifestEffect
  <2>. QED
    BY <2>1, QuietKeepsStream DEF WritingPlaces, Moves, Carries, At
<1>7. CASE ReleaseLease(p)
  <2>1. LeaseStep(p) /\ UNCHANGED <<events, reported, late>>
        /\ \/ Moves(p, "lingering")
           \/ /\ session'[p].at \in {"away", "downstream"}
              /\ \A q \in Procs \ {p} : session'[q] = session[q]
    BY <1>7, ReleaseKeeps, ReleaseEffect
  <2>. QED
    BY <2>1, QuietKeepsStream DEF WritingPlaces, Moves, Carries
<1>8. CASE ReadForTransition(p)
  <2>1. LeaseStep(p) /\ UNCHANGED <<events, reported, late>>
        /\ session'[p].at = "deciding" /\ \A q \in Procs \ {p} : session'[q] = session[q]
    BY <1>8, TransitionKeeps, ReadForTransitionEffect
  <2>. QED
    BY <2>1, QuietKeepsStream DEF WritingPlaces
<1>9. CASE WriteTransition(p) \/ Die(p)
  <2>1. LeaseStep(p) /\ UNCHANGED <<events, reported, late>> /\ Leaves(p)
    BY <1>9, TransitionKeeps, WriteTransitionEffect, DieKeeps, DieEffect
  <2>. QED
    BY <2>1, AwayTyped, QuietKeepsStream DEF WritingPlaces, Leaves
<1>. QED
  BY <1>1, <1>2, <1>3, <1>4, <1>5, <1>6, <1>7, <1>8, <1>9

LEMMA StoryInductive ==
    ASSUME StoryInv, [Next]_vars
    PROVE  StoryInv'
<1>1. SessionInv' /\ [LeaseNext]_leaseVars
  BY SessionInductive DEF StoryInv
<1>2. LeaseInv'
  BY <1>1, StaysTyped, LeaseInvInductive DEF StoryInv
<1>3. ASSUME UNCHANGED vars PROVE StreamInv'
  <2>1. UNCHANGED <<events, session, reported, late, raced>>
    BY <1>3 DEF vars, sessionVars, leaseVars
  <2>. QED
    BY <2>1 DEF StoryInv, StreamInv, Carried, Orderly
<1>4. ASSUME NEW p \in Procs, Finalize(p) PROVE StreamInv'
  BY <1>4, StaysTyped, FinalizeEffect DEF StoryInv, StreamInv, Orderly
<1>5. ASSUME NEW p \in Procs, Operate(p) PROVE StreamInv'
  BY <1>4, <1>5, PrepareKeepsStream, EmitKeepsStream, CloseKeepsStream, OthersKeepStream
     DEF Operate, EmitsAny
<1>. QED
  BY <1>1, <1>2, <1>3, <1>5 DEF StoryInv, Next

LEMMA StoryInit ==
    ASSUME Init
    PROVE  StoryInv
<1>1. LeaseInv
  BY RunLeaseAssumption DEF Init, LeaseInit, LeaseInv, TakeoverInv, Taking
<1>2. events = <<>> /\ reported = {} /\ Len(<<>>) = 0
  BY DEF Init
<1>3. Fine(<<>>)
  BY DEF Fine, Regular, Rising
<1>4. \A p \in Procs : session[p].at \notin WritingPlaces
  BY AwayTyped DEF Init, WritingPlaces
<1>. QED
  BY <1>1, <1>2, <1>3, <1>4, SessionInit DEF StoryInv, StreamInv

LEMMA StoryInvHolds == Spec => []StoryInv
  BY StoryInit, StoryInductive, PTL DEF Spec

(***************************************************************************)
(* Whatever sessions follow each other in the run directory, however they  *)
(* end (failed writes after any part of a line, deaths, lines that cannot  *)
(* be encoded, failed flushes), every complete line of the stream is one   *)
(* record and the sequence numbers grow from line to line, as long as      *)
(* nothing is written but under the lease.                                 *)
(***************************************************************************)
THEOREM StreamIsWhole == Spec => []LinesAreWhole
<1>1. StoryInv => LinesAreWhole
  <2> SUFFICES ASSUME StoryInv, Orderly, NEW i \in LineEnds(events)
               PROVE  /\ IsRecord(events, i)
                      /\ \A j \in LineEnds(events) : j < i =>
                            events[j].event.sequence < events[i].event.sequence
    BY DEF LinesAreWhole
  <2>1. events \in Seq(ChunkSet) /\ Regular(events) /\ Rising(events)
    BY StaysTyped DEF StoryInv, StreamInv, Fine
  <2>2. /\ LineEnds(events) = {k \in 1 .. Len(events) : events[k].part = 3}
        /\ IsRecord(events, i)
    BY <2>1, FineLines
  <2>. QED
    BY <2>1, <2>2 DEF Rising
<1>. QED
  BY <1>1, StoryInvHolds, PTL

LEMMA ReportedIsKept == StoryInv => ReportedStays
<1> SUFFICES ASSUME StoryInv, Orderly PROVE reported \subseteq Kept(events)
  BY DEF ReportedStays
<1>1. events \in Seq(ChunkSet) /\ Regular(events) /\ reported \subseteq Done(events)
  BY StaysTyped DEF StoryInv, StreamInv, Fine
<1>. QED
  BY <1>1, FineLines

(***************************************************************************)
(* Under the same condition what emit returned for is never lost: no       *)
(* recovery cuts it off and no later line spoils it.                       *)
(***************************************************************************)
THEOREM ReportedIsNeverLost == Spec => []ReportedStays
  BY ReportedIsKept, StoryInvHolds, PTL

\* What a step that completes the run finds in the stream.
Says ==
    manifest'.status = "completed" /\ manifest.status # "completed" /\ Orderly =>
        \/ \E p \in Procs : At(p, "deciding")
        \/ \E e \in Kept(events) : e.name = "completed" /\ e.run = manifest'.run

LEMMA StepSays ==
    ASSUME StoryInv, [Next]_vars
    PROVE  Says
<1> USE StaysTyped DEF StoryInv
<1>1. ASSUME NEW p \in Procs, UNCHANGED manifest PROVE Says
  BY <1>1 DEF Says
<1>2. ASSUME NEW p \in Procs, WriteFreshManifest(p) PROVE Says
  <2>1. manifest' = session[p].adopted /\ At(p, "fresh")
    BY <1>2, FreshEffect
  <2>2. manifest'.status = "created"
    BY <2>1 DEF PlaceOK, At
  <2>. QED
    BY <2>2 DEF Says
<1>3. ASSUME NEW p \in Procs, Start(p) PROVE Says
  <2>1. UNCHANGED manifest \/ manifest'.status = "running"
    BY <1>3, StartEffect
  <2>. QED
    BY <2>1 DEF Says
<1>4. ASSUME NEW p \in Procs, WriteManifest(p) PROVE Says
  <2>1. /\ At(p, "ended") /\ manifest'.run = session[p].adopted.run
        /\ manifest'.status = StatusOf(session[p].outcome)
    BY <1>4, WriteManifestEffect
  <2>2. PICK e \in reported : e.name = session[p].outcome /\ e.run = session[p].adopted.run
    BY <2>1 DEF PlaceOK, At
  <2>3. manifest'.status = "completed" => e.name = "completed" /\ e.run = manifest'.run
    BY <2>1, <2>2 DEF StatusOf
  <2>4. Orderly => e \in Kept(events)
    BY ReportedIsKept DEF ReportedStays
  <2>. QED
    BY <2>3, <2>4 DEF Says
<1>5. ASSUME NEW p \in Procs, WriteTransition(p) PROVE Says
  BY <1>5, WriteTransitionEffect DEF Says
<1>6. ASSUME NEW p \in Procs, Operate(p) PROVE
          \/ WriteFreshManifest(p) \/ Start(p) \/ WriteManifest(p) \/ WriteTransition(p)
          \/ UNCHANGED manifest
  <2>1. ASSUME EmitsAny(p) PROVE UNCHANGED manifest
    BY <2>1 DEF EmitsAny, EmitNote, EmitStarted, EmitWork, EmitOutcome, Emit
  <2>. QED
    BY <1>6, <2>1 DEF Operate, EmitsAny, ReadManifest, AcquireLease, Prepare, FinishWork, FailWork,
       Close, ReleaseLease, Finalize, ReadForTransition, Die
<1>7. ASSUME UNCHANGED vars PROVE Says
  BY <1>7 DEF vars, sessionVars, Says
<1>. QED
  BY <1>1, <1>2, <1>3, <1>4, <1>5, <1>6, <1>7 DEF Next

(***************************************************************************)
(* A session marks the run completed only when the stream has the event    *)
(* that says so; who writes it without the event is a workflow that has    *)
(* deferred the completion and goes on after its session.                  *)
(***************************************************************************)
THEOREM CompletionIsInTheStream == Spec => CompletesWhatItSays
<1>1. StoryInv /\ [Next]_vars => [Says]_vars
  BY StepSays
<1>. QED
  BY <1>1, StoryInvHolds, PTL DEF Spec, CompletesWhatItSays, Says
=============================================================================
