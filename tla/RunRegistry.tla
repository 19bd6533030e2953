----------------------------- MODULE RunRegistry -----------------------------
(***************************************************************************)
(* The registry of the runs that live outside a run root: registry.jsonl   *)
(* and the lock beside it.  A program registers its own run when it opens  *)
(* a session (register_external_run) or rebuilds the registry              *)
(* (rebuild_registry).  The lock's owner is written after the file is      *)
(* created; a lock that cannot be read, or that is older than a minute,    *)
(* is unlinked, and whoever waits too long gives up (RUN002).              *)
(*                                                                         *)
(* A registry file is a sequence of lines, the last one still open.  A     *)
(* line holds halves of records: <<p, 1>> and <<p, 2>> are the record of   *)
(* p's run.  A program opens a file in one step and reads or writes it in  *)
(* a later one: a rebuild that puts a new file in its place leaves the     *)
(* program with the old one.  Manifests are always there and valid; runs   *)
(* inside the root, which are found by a scan, are left out.               *)
(***************************************************************************)
EXTENDS Integers, Sequences, FiniteSets, Functions

CONSTANTS
    Procs,      \* the programs, each with one run
    Nobody,     \* the owner of a lock that is not there
    MaxCalls,   \* bound: registrations and rebuilds
    MaxFaults   \* bound: deaths and failed writes

ASSUME RegistryAssumption ==
    /\ Nobody \notin Procs
    /\ MaxCalls \in Nat /\ MaxFaults \in Nat

VARIABLES
    lock,        \* the lock file: whose it is, whether that is written, its age
    files,       \* the files that were registry.jsonl one after the other; the last one is
    call,        \* what each program is doing: which call, and where in it
    opened,      \* the file each program has open; 0: none
    seen,        \* the runs each program has read from the registry
    registered,  \* the programs that have found or written their record
    dropped,     \* of these, the ones that may be lost: says nothing to the code
    taken,       \* a lock was taken from a program at work: says nothing to the code
    calls, faults

registry == <<files, opened, seen, registered, dropped>>
vars == <<lock, call, taken, calls, faults, registry>>

Absent == [by |-> Nobody, written |-> FALSE, old |-> FALSE]
OwnedBy(p, written) == [by |-> p, written |-> written, old |-> FALSE]
There == lock.by # Nobody
Out == [does |-> "nothing", at |-> "out"]

At(p, place) == call[p].at = place
GoTo(p, place) == call' = [call EXCEPT ![p].at = place]
Alive(p) == ~At(p, "dead")
Leave(p) == call' = [call EXCEPT ![p] = Out]
Fault == faults < MaxFaults /\ faults' = faults + 1

\* Between the creation of the lock and its release.
AtWork(p) ==
    call[p].at \in {"writing", "locked", "reading", "missing", "appending", "releasing"}

Current == Len(files)
OpenFile(p) == opened' = [opened EXCEPT ![p] = Current]
CloseFile(p) == opened' = [opened EXCEPT ![p] = 0]

Init ==
    /\ lock = Absent
    /\ files = << << <<>> >> >>
    /\ call = [p \in Procs |-> Out]
    /\ opened = [p \in Procs |-> 0]
    /\ seen = [p \in Procs |-> {}]
    /\ registered = {} /\ dropped = {} /\ taken = FALSE
    /\ calls = 0 /\ faults = 0

-----------------------------------------------------------------------------
Record(p) == << <<p, 1>>, <<p, 2>> >>
HasRecord(line) == {p \in Procs : line = Record(p)}

\* read_registry skips the lines that hold no record.
RecordedIn(file) == UNION {HasRecord(file[i]) : i \in DOMAIN file}
ReadRegistry(p) == RecordedIn(files[opened[p]])
Recorded == RecordedIn(files[Current])

-----------------------------------------------------------------------------
(***************************************************************************)
(* RegistryLock.acquire and release.                                       *)
(***************************************************************************)

Register(p) ==
    /\ At(p, "out") /\ calls < MaxCalls
    /\ calls' = calls + 1
    /\ call' = [call EXCEPT ![p] = [does |-> "register", at |-> "asking"]]
    /\ UNCHANGED <<lock, registry, taken, faults>>

\* rebuild_registry reads before it asks for the lock.
Rebuild(p) ==
    /\ At(p, "out") /\ calls < MaxCalls
    /\ calls' = calls + 1
    /\ call' = [call EXCEPT ![p] = [does |-> "rebuild", at |-> "scanning"]]
    /\ OpenFile(p)
    /\ UNCHANGED <<lock, files, seen, registered, dropped, taken, faults>>

Scan(p) ==
    /\ At(p, "scanning")
    /\ seen' = [seen EXCEPT ![p] = ReadRegistry(p)]
    /\ CloseFile(p) /\ GoTo(p, "asking")
    /\ UNCHANGED <<lock, files, registered, dropped, taken, calls, faults>>

CreateLock(p) ==
    /\ At(p, "asking")
    /\ IF There
       THEN GoTo(p, "looking") /\ UNCHANGED lock
       ELSE GoTo(p, "writing") /\ lock' = OwnedBy(p, FALSE)
    /\ UNCHANGED <<registry, taken, calls, faults>>

\* The lock has gone, cannot be parsed, or is older than a minute.
Stale == ~There \/ ~lock.written \/ lock.old

\* A lock that is not stale is asked for again, or given up.
Look(p) ==
    /\ At(p, "looking")
    /\ \/ Stale /\ GoTo(p, "unlinking")
       \/ ~Stale /\ GoTo(p, "asking")
       \/ ~Stale /\ Leave(p)
    /\ UNCHANGED <<lock, registry, taken, calls, faults>>

\* Broken form of UnlinkStale: a lock whose owner cannot be read is left.
UnlinkReadable(p) ==
    /\ At(p, "unlinking")
    /\ lock' = IF lock.written THEN Absent ELSE lock
    /\ GoTo(p, "asking")
    /\ UNCHANGED <<registry, taken, calls, faults>>

\* Whatever lock is there by now.
UnlinkStale(p) ==
    /\ At(p, "unlinking")
    /\ lock' = Absent
    /\ taken' = (taken \/ \E q \in Procs : lock.by = q /\ AtWork(q))
    /\ GoTo(p, "asking")
    /\ UNCHANGED <<registry, calls, faults>>

WriteOwner(p) ==
    /\ At(p, "writing")
    /\ lock' = IF lock = OwnedBy(p, FALSE) THEN OwnedBy(p, TRUE) ELSE lock
    /\ GoTo(p, "locked")
    /\ UNCHANGED <<registry, taken, calls, faults>>

FailToWrite(p) ==
    /\ At(p, "writing") /\ Fault
    /\ Leave(p)
    /\ UNCHANGED <<lock, registry, taken, calls>>

Release(p) ==
    /\ At(p, "releasing")
    /\ lock' = Absent
    /\ Leave(p)
    /\ UNCHANGED <<registry, taken, calls, faults>>

\* A minute passes, for a slow program that still holds the lock, too.
Age ==
    /\ lock.written /\ ~lock.old
    /\ lock' = [lock EXCEPT !.old = TRUE]
    /\ UNCHANGED <<call, registry, taken, calls, faults>>

-----------------------------------------------------------------------------
Locked(p, does) == At(p, "locked") /\ call[p].does = does

OpenToRead(p) ==
    /\ Locked(p, "register")
    /\ OpenFile(p) /\ GoTo(p, "reading")
    /\ UNCHANGED <<lock, files, seen, registered, dropped, taken, calls, faults>>

\* A program that has a replaced file open, because its lock was taken.
Astray(p) == IF taken /\ opened[p] # Current THEN {p} ELSE {}

LookUp(p) ==
    /\ At(p, "reading")
    /\ seen' = [seen EXCEPT ![p] = ReadRegistry(p)]
    /\ CloseFile(p)
    /\ IF p \in ReadRegistry(p)
       THEN /\ registered' = registered \cup {p}
            /\ dropped' = IF opened[p] = Current THEN dropped \ {p} ELSE dropped \cup Astray(p)
            /\ GoTo(p, "releasing")
       ELSE GoTo(p, "missing") /\ UNCHANGED <<registered, dropped>>
    /\ UNCHANGED <<lock, files, taken, calls, faults>>

OpenToAppend(p) ==
    /\ At(p, "missing")
    /\ OpenFile(p) /\ GoTo(p, "appending")
    /\ UNCHANGED <<lock, files, seen, registered, dropped, taken, calls, faults>>

Last(file) == file[Len(file)]
Put(file, halves) == [file EXCEPT ![Len(file)] = Last(file) \o halves]

\* Broken form of AppendRecord: the file is opened anew.
AppendAnew(p) ==
    /\ At(p, "appending")
    /\ files' = [files EXCEPT ![opened[p]] = <<Record(p), <<>> >>]
    /\ registered' = registered \cup {p}
    /\ CloseFile(p) /\ GoTo(p, "releasing")
    /\ UNCHANGED <<lock, seen, dropped, taken, calls, faults>>

\* Behind an open line the new record is lost, and with it what that line held.
AppendRecord(p) ==
    /\ At(p, "appending")
    /\ files' = [files EXCEPT ![opened[p]] = Append(Put(@, Record(p)), <<>>)]
    /\ registered' = registered \cup {p}
    /\ dropped' = CASE opened[p] # Current -> dropped \cup Astray(p)
                    [] opened[p] = Current /\ Last(files[Current]) = <<>> -> dropped \ {p}
                    [] OTHER -> dropped \cup {p} \cup HasRecord(Last(files[Current]))
    /\ CloseFile(p) /\ GoTo(p, "releasing")
    /\ UNCHANGED <<lock, seen, taken, calls, faults>>

\* The write is cut short by an error, which releases the lock, or by a crash.
TearAppend(p) ==
    /\ At(p, "appending") /\ Fault
    /\ \E k \in 1 .. 2 : files' = [files EXCEPT ![opened[p]] = Put(@, SubSeq(Record(p), 1, k))]
    /\ dropped' = IF opened[p] = Current
                  THEN dropped \cup HasRecord(Last(files[Current])) ELSE dropped
    /\ CloseFile(p)
    /\ GoTo(p, "releasing") \/ GoTo(p, "dead")
    /\ UNCHANGED <<lock, seen, registered, taken, calls>>

\* rebuild_registry replaces the file by what it read before it had the lock,
\* in the order of the runs' creation.
Replace(p) ==
    /\ Locked(p, "rebuild")
    /\ \E order \in [1 .. Cardinality(seen[p]) -> seen[p]] :
        /\ IsInjective(order)
        /\ files' = Append(files, Append([i \in DOMAIN order |-> Record(order[i])], <<>>))
    /\ dropped' = dropped \cup (registered \ seen[p])
    /\ GoTo(p, "releasing")
    /\ UNCHANGED <<lock, opened, seen, registered, taken, calls, faults>>

\* An open, a read, a write or a replacement raises: the lock is released.
Fail(p) ==
    /\ call[p].at \in {"locked", "reading", "missing", "appending"} /\ Fault
    /\ CloseFile(p) /\ GoTo(p, "releasing")
    /\ UNCHANGED <<lock, files, seen, registered, dropped, taken, calls>>

Die(p) ==
    /\ Alive(p) /\ Fault
    /\ call' = [call EXCEPT ![p] = [Out EXCEPT !.at = "dead"]]
    /\ CloseFile(p)
    /\ UNCHANGED <<lock, files, seen, registered, dropped, taken, calls>>

-----------------------------------------------------------------------------
Go(p) ==
    \/ Scan(p)
    \/ CreateLock(p) \/ Look(p) \/ UnlinkStale(p) \/ WriteOwner(p) \/ FailToWrite(p)
    \/ OpenToRead(p) \/ LookUp(p) \/ OpenToAppend(p) \/ AppendRecord(p) \/ TearAppend(p)
    \/ Replace(p) \/ Fail(p) \/ Release(p)

Next == Age \/ \E p \in Procs : Register(p) \/ Rebuild(p) \/ Go(p) \/ Die(p)

Spec == Init /\ [][Next]_vars

\* The programs run, and one that waits gives up.
GivesUp(p) == Look(p) /\ call'[p] # [call[p] EXCEPT !.at = "asking"]
LiveSpec == Spec /\ \A p \in Procs : WF_vars(Go(p)) /\ SF_vars(GivesUp(p))

-----------------------------------------------------------------------------
TypeOK ==
    /\ lock \in {Absent} \cup [by : Procs, written : BOOLEAN, old : BOOLEAN]
    /\ files \in Seq(Seq(Seq(Procs \X {1, 2})) \ {<<>>}) /\ files # <<>>
    /\ call \in [Procs -> [does : {"nothing", "register", "rebuild"},
                           at : {"out", "scanning", "asking", "looking", "unlinking", "writing",
                                 "locked", "reading", "missing", "appending", "releasing", "dead"}]]
    /\ opened \in [Procs -> 0 .. Current]
    /\ seen \in [Procs -> SUBSET Procs]
    /\ registered \subseteq Procs /\ dropped \subseteq Procs /\ taken \in BOOLEAN
    /\ calls \in 0 .. MaxCalls /\ faults \in 0 .. MaxFaults

\* A run whose registration has found or written its record is found in the
\* registry from then on, except in the three ways the code loses it: a rebuild
\* that read the registry before the run was in it, an append behind an open
\* line, and, after a lock was taken from a program at work, a record read from
\* or written to a file that a rebuild replaced since it was opened.  Deaths,
\* failed writes, locks the dead left and two programs at work lose nothing else.
RegistrationsSurvive == registered \subseteq Recorded \cup dropped

\* Every registration and every rebuild ends, whatever lock is in its way:
\* one whose owner died or was never written is unlinked, a busy one is given up.
CallsEnd == \A p \in Procs : ~At(p, "out") ~> call[p].at \in {"out", "dead"}
=============================================================================
