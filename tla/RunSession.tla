----------------------------- MODULE RunSession -----------------------------
(***************************************************************************)
(* A session of a run: open_run_session reads or writes the manifest,      *)
(* takes the run's lease, mends the end of events.jsonl and appends to it; *)
(* the workflow inside moves the manifest's status; the session flushes    *)
(* and releases the lease whatever happened.  open_run_event_append_session*)
(* only appends.                                                           *)
(*                                                                         *)
(* events.jsonl is a sequence of chunks: a line is written as the chunks   *)
(* 1, 2 and 3 (two halves of the JSON and the newline), and a crash or a   *)
(* failed write may come between any two of them.  Events below the        *)
(* session's level, the console and the rendered logs are left out; what   *)
(* is cut off the stream goes to a file nothing reads.                     *)
(***************************************************************************)
EXTENDS RunLease, Sequences

CONSTANTS
    MaxStarts,    \* bound: how many sessions are opened
    MaxWork,      \* bound: events of one session's work
    MaxFailures   \* bound: failed emits and failures of the work

ASSUME SessionAssumption ==
    MaxStarts \in Nat /\ MaxWork \in Nat /\ MaxFailures \in Nat

VARIABLES
    manifest,  \* the run's manifest: whose run it is and its status
    events,    \* the chunks of events.jsonl
    session,   \* what each program is doing
    reported,  \* the events whose emit has returned
    late,      \* a file has been finalized after its session was over
    starts, failures

sessionVars == <<manifest, events, session, reported, late, starts, failures>>
vars == <<leaseVars, sessionVars>>

NoManifest == [run |-> Nobody, status |-> "none"]

\* at: where the program is; adopted: the manifest it works with; last: the last
\* sequence number; buffer: chunks not written yet; notes: warnings to emit;
\* work: events of its work; outcome: how the work ended; defers: the workflow
\* goes on when the session is closed.
Away == [at |-> "away", appends |-> FALSE, adopted |-> NoManifest, last |-> 0,
         buffer |-> <<>>, notes |-> 0, work |-> 0, outcome |-> "none",
         defers |-> FALSE]

At(p, place) == session[p].at = place
Set(p, field, value) == session' = [session EXCEPT ![p][field] = value]
GoTo(p, place) == Set(p, "at", place)

Init ==
    /\ LeaseInit
    /\ manifest = NoManifest
    /\ events = <<>>
    /\ session = [p \in Procs |-> Away]
    /\ reported = {}
    /\ late = FALSE
    /\ starts = 0
    /\ failures = 0

-----------------------------------------------------------------------------
(***************************************************************************)
(* The stream.                                                             *)
(***************************************************************************)

Chunks(e) == [part \in 1 .. 3 |-> [event |-> e, part |-> part]]

EndsLine(s, i) == i = 0 \/ s[i].part = 3

\* Where the lines that are not blank end, and which of them hold one record.
LineEnds(s) == {i \in DOMAIN s : EndsLine(s, i) /\ ~EndsLine(s, i - 1)}
IsRecord(s, i) ==
    i >= 3 /\ EndsLine(s, i - 3) /\ SubSeq(s, i - 2, i) = Chunks(s[i].event)

\* The events in the stream, wherever they are.
Kept(s) == {s[i].event : i \in {j \in LineEnds(s) : IsRecord(s, j)}}

TailStart(s) == CHOOSE j \in 0 .. Len(s) :
    EndsLine(s, j) /\ \A k \in (j + 1) .. Len(s) : ~EndsLine(s, k)

\* A record that only lacks its newline.
OnlyLacksNewline(tail) == tail # <<>> /\ tail = SubSeq(Chunks(tail[1].event), 1, 2)

\* Broken forms of Mended: the record that lacks its newline is left as it is,
\* and the last line is cut off with what is torn.
MendedUnlessWhole(s) ==
    IF OnlyLacksNewline(SubSeq(s, TailStart(s) + 1, Len(s))) THEN s
    ELSE SubSeq(s, 1, TailStart(s))
MendedTooFar(s) ==
    IF EndsLine(s, Len(s)) THEN s
    ELSE SubSeq(s, 1, IF TailStart(s) >= 3 THEN TailStart(s) - 3 ELSE 0)

\* prepare_event_stream: a torn end is cut off, a whole one gets its newline.
Mended(s) ==
    LET tail == SubSeq(s, TailStart(s) + 1, Len(s))
    IN  IF OnlyLacksNewline(tail)
        THEN Append(s, [event |-> tail[1].event, part |-> 3])
        ELSE SubSeq(s, 1, TailStart(s))

LastEnd(s) == CHOOSE i \in LineEnds(s) : \A j \in LineEnds(s) : j <= i

-----------------------------------------------------------------------------
(***************************************************************************)
(* Opening a session.                                                      *)
(***************************************************************************)

ReadManifest(p, appends) ==
    /\ At(p, "away") /\ Alive(p)
    /\ starts < MaxStarts
    /\ appends => manifest # NoManifest
    /\ starts' = starts + 1
    /\ session' = [session EXCEPT ![p] =
            [Away EXCEPT !.at = IF manifest = NoManifest THEN "fresh" ELSE "leasing",
                         !.appends = appends,
                         !.adopted = IF manifest = NoManifest
                                     THEN [run |-> p, status |-> "created"] ELSE manifest]]
    /\ UNCHANGED <<leaseVars, manifest, events, reported, late, failures>>

WriteFreshManifest(p) ==
    /\ At(p, "fresh")
    /\ manifest' = session[p].adopted
    /\ GoTo(p, "leasing")
    /\ UNCHANGED <<leaseVars, events, reported, late, starts, failures>>

\* What the session is when the lease's next step is done: an append session does
\* not mention that it took the lease over.
Leasing(p) ==
    IF phase'[p] = "out" THEN Away
    ELSE [session[p] EXCEPT
            !.at = IF phase'[p] = "in" THEN "opening" ELSE "leasing",
            !.notes = IF phase'[p] = "recreate" /\ ~session[p].appends THEN @ + 1 ELSE @]

\* Broken form of AcquireLease: a refused start releases the lease, too.
AcquireReleasingAnyway(p) ==
    /\ At(p, "leasing")
    /\ \/ Create(p) \/ TakeLease(p)
       \/ phase[p] = "read" /\ file' = Absent /\ Go(p, "out") /\ UNCHANGED <<faults, raced>>
    /\ session' = [session EXCEPT ![p] = Leasing(p)]
    /\ UNCHANGED <<manifest, events, reported, late, starts, failures>>

\* Broken form of AcquireLease: whoever holds it is taken for dead.
AcquireFromAnyone(p) ==
    /\ At(p, "leasing")
    /\ \/ Create(p) \/ TakeLease(p)
       \/ phase[p] = "read" /\ There /\ Go(p, "unlink") /\ UNCHANGED <<file, faults, raced>>
    /\ session' = [session EXCEPT ![p] = Leasing(p)]
    /\ UNCHANGED <<manifest, events, reported, late, starts, failures>>

\* The steps of RunLease.acquire; a refusal ends the start.
AcquireLease(p) ==
    /\ At(p, "leasing")
    /\ Create(p) \/ TakeLease(p)
    /\ session' = [session EXCEPT ![p] = Leasing(p)]
    /\ UNCHANGED <<manifest, events, reported, late, starts, failures>>

\* A stream whose last line is no event ends the session.
Prepare(p) ==
    /\ At(p, "opening")
    /\ events' = Mended(events)
    /\ LET last == IF LineEnds(events') = {} THEN 0 ELSE LastEnd(events')
       IN  IF last # 0 /\ ~IsRecord(events', last)
           THEN GoTo(p, "closed")
           ELSE session' = [session EXCEPT
                    ![p].at = IF session[p].appends THEN "running" ELSE "starting",
                    ![p].last = IF last = 0 THEN 0 ELSE events'[last].event.sequence,
                    ![p].notes = IF Len(events') < Len(events) THEN @ + 1 ELSE @]
    /\ UNCHANGED <<leaseVars, manifest, reported, late, starts, failures>>

-----------------------------------------------------------------------------
(***************************************************************************)
(* EventRouter.emit takes the next sequence number, puts the line into the *)
(* file's buffer and writes the buffer.  A write may fail after any part,  *)
(* and what is left stays in the buffer for the next one; a line that      *)
(* cannot be encoded leaves only the number taken; and the program may die.*)
(* next and onError are where it goes.                                     *)
(***************************************************************************)
Emit(p, name, next, onError) ==
    LET e == [sequence |-> session[p].last + 1, run |-> session[p].adopted.run, name |-> name]
        pending == session[p].buffer \o Chunks(e)
        After(place, rest) ==
            session' = [session EXCEPT
                ![p].last = @ + 1,
                ![p].buffer = rest,
                ![p].notes = IF name = "note" THEN @ - 1 ELSE @,
                ![p].work = IF name = "work" THEN @ + 1 ELSE @,
                ![p].at = place]
        Fail == failures < MaxFailures /\ failures' = failures + 1
    IN  /\ \/ /\ events' = events \o pending
              /\ reported' = reported \cup {e}
              /\ After(next, <<>>)
              /\ UNCHANGED <<leaseVars, failures>>
           \/ \E k \in 0 .. (Len(pending) - 1) :
              /\ events' = events \o SubSeq(pending, 1, k)
              /\ \/ Fail /\ After(onError, SubSeq(pending, k + 1, Len(pending))) /\ UNCHANGED leaseVars
                 \/ LeaseDie(p) /\ session' = [session EXCEPT ![p] = Away] /\ UNCHANGED failures
              /\ UNCHANGED reported
           \/ /\ Fail
              /\ After(onError, session[p].buffer)
              /\ UNCHANGED <<leaseVars, events, reported>>
        /\ UNCHANGED <<manifest, late, starts>>

\* The warnings of the opening: the stream was mended, the lease was taken over.
EmitNote(p) ==
    /\ session[p].at \in {"starting", "running"}
    /\ session[p].notes > 0
    /\ Emit(p, "note", session[p].at, "closing")

\* _start_resident_manifest: a completed run is not run again.
Start(p) ==
    /\ At(p, "starting")
    /\ session[p].notes = 0
    /\ IF session[p].adopted.status = "completed"
       THEN GoTo(p, "closing") /\ UNCHANGED manifest
       ELSE /\ manifest' = [session[p].adopted EXCEPT !.status = "running"]
            /\ session' = [session EXCEPT ![p].at = "announcing",
                                          ![p].adopted.status = "running"]
    /\ UNCHANGED <<leaseVars, events, reported, late, starts, failures>>

\* The events of the start and of the memory plan, before the work's try.
EmitStarted(p) == At(p, "announcing") /\ Emit(p, "started", "running", "closing")

Working(p) == At(p, "running") /\ session[p].notes = 0

EmitWork(p) ==
    /\ Working(p)
    /\ session[p].work < MaxWork
    /\ Emit(p, "work", "running", IF session[p].appends THEN "closing" ELSE "crashing")

\* The work ends; an append session ends with it.  With defer_run_completion the
\* session ends and the run is not completed yet.
FinishWork(p) ==
    /\ Working(p)
    /\ IF session[p].appends
       THEN GoTo(p, "closing")
       ELSE \E outcome \in {"completed", "stage_completed"} :
            session' = [session EXCEPT ![p].at = "ending", ![p].outcome = outcome]
    /\ UNCHANGED <<leaseVars, manifest, events, reported, late, starts, failures>>

\* The work raises, an emit in it or anything else.
FailWork(p) ==
    /\ \/ At(p, "crashing") /\ UNCHANGED failures
       \/ /\ Working(p) /\ ~session[p].appends
          /\ failures < MaxFailures
          /\ failures' = failures + 1
    /\ \E outcome \in {"failed", "interrupted"} :
        session' = [session EXCEPT ![p].at = "ending", ![p].outcome = outcome]
    /\ UNCHANGED <<leaseVars, manifest, events, reported, late, starts>>

EmitOutcome(p) == At(p, "ending") /\ Emit(p, session[p].outcome, "ended", "closing")

StatusOf(outcome) == IF outcome = "stage_completed" THEN "running" ELSE outcome

\* Broken form of WriteManifest: the status is written before the event.
WriteManifestFirst(p) ==
    /\ At(p, "ending")
    /\ manifest' = [session[p].adopted EXCEPT !.status = StatusOf(session[p].outcome)]
    /\ GoTo(p, "closing")
    /\ UNCHANGED <<leaseVars, events, reported, late, starts, failures>>

\* The status is written to the manifest once the event of the outcome is emitted.
WriteManifest(p) ==
    /\ At(p, "ended")
    /\ manifest' = [session[p].adopted EXCEPT !.status = StatusOf(session[p].outcome)]
    /\ session' = [session EXCEPT ![p].at = "closing",
                                  ![p].defers = session[p].outcome = "stage_completed"]
    /\ UNCHANGED <<leaseVars, events, reported, late, starts, failures>>

-----------------------------------------------------------------------------
\* Broken form of Close: a flush that fails ends the session there.
CloseOrRaise(p) ==
    /\ At(p, "closing")
    /\ \E k \in 0 .. Len(session[p].buffer) :
        /\ events' = events \o SubSeq(session[p].buffer, 1, k)
        /\ session' = [session EXCEPT
                ![p] = IF k = Len(session[p].buffer) THEN [@ EXCEPT !.buffer = <<>>, !.at = "closed"]
                       ELSE Away]
    /\ UNCHANGED <<leaseVars, manifest, reported, late, starts, failures>>

\* router.flush and close; when the flush fails, the file is not closed.
Close(p) ==
    /\ At(p, "closing")
    /\ \E k \in 0 .. Len(session[p].buffer) :
        /\ events' = events \o SubSeq(session[p].buffer, 1, k)
        /\ session' = [session EXCEPT
                ![p].buffer = SubSeq(@, k + 1, Len(@)),
                ![p].at = "closed"]
    /\ UNCHANGED <<leaseVars, manifest, reported, late, starts, failures>>

\* What is left in the buffer is lost, or the file stays open with it; a workflow
\* that deferred the completion goes on without the lease.
ReleaseLease(p) ==
    /\ At(p, "closed")
    /\ Release(p)
    /\ \/ /\ session[p].buffer # <<>>
          /\ GoTo(p, "lingering")
       \/ session' = [session EXCEPT
                ![p] = IF session[p].defers THEN [Away EXCEPT !.at = "downstream"] ELSE Away]
    /\ UNCHANGED <<manifest, events, reported, late, starts, failures>>

\* The file that was not closed is finalized, at the latest when the program ends.
Finalize(p) ==
    /\ At(p, "lingering")
    /\ events' = events \o session[p].buffer
    /\ late' = TRUE
    /\ session' = [session EXCEPT ![p] = Away]
    /\ UNCHANGED <<leaseVars, manifest, reported, starts, failures>>

\* runs.transition.
Allowed == [created |-> {"running", "interrupted"},
            running |-> {"completed", "failed", "interrupted"},
            interrupted |-> {"running", "failed"},
            failed |-> {"running"},
            completed |-> {}]

\* _transition_workflow_manifest: after the distillation the manifest is read ...
ReadForTransition(p) ==
    /\ At(p, "downstream")
    /\ session' = [session EXCEPT ![p].at = "deciding", ![p].adopted = manifest]
    /\ UNCHANGED <<leaseVars, manifest, events, reported, late, starts, failures>>

\* ... and written, when transition allows the step.
WriteTransition(p) ==
    /\ At(p, "deciding")
    /\ \E status \in {"completed", "failed", "interrupted"} :
        manifest' = IF status \in Allowed[session[p].adopted.status]
                    THEN [session[p].adopted EXCEPT !.status = status] ELSE manifest
    /\ session' = [session EXCEPT ![p] = Away]
    /\ UNCHANGED <<leaseVars, events, reported, late, starts, failures>>

Die(p) ==
    /\ LeaseDie(p)
    /\ session' = [session EXCEPT ![p] = Away]
    /\ UNCHANGED <<manifest, events, reported, late, starts, failures>>

Operate(p) ==
    \/ \E appends \in BOOLEAN : ReadManifest(p, appends)
    \/ WriteFreshManifest(p) \/ AcquireLease(p) \/ Prepare(p)
    \/ EmitNote(p) \/ Start(p) \/ EmitStarted(p)
    \/ EmitWork(p) \/ FinishWork(p) \/ FailWork(p)
    \/ EmitOutcome(p) \/ WriteManifest(p) \/ Close(p) \/ ReleaseLease(p)
    \/ Finalize(p) \/ ReadForTransition(p) \/ WriteTransition(p) \/ Die(p)

Next == \E p \in Procs : Operate(p)

Spec == Init /\ [][Next]_vars

-----------------------------------------------------------------------------
Writing == {p \in Procs : session[p].at \in
                {"starting", "announcing", "running", "crashing", "ending", "ended", "closing"}}
Over == {p \in Procs : session[p].at \in {"away", "lingering", "downstream", "deciding"}}

TypeOK ==
    /\ LeaseTypeOK
    /\ manifest \in [run : Procs \cup {Nobody},
                     status : {"none"} \cup DOMAIN Allowed]
    /\ \A i \in DOMAIN events : events[i].part \in 1 .. 3 /\ events[i].event.run \in Procs
    /\ \A p \in Procs : session[p].last \in Nat /\ session[p].notes \in 0 .. 2
    /\ reported \subseteq {events[i].event : i \in DOMAIN events}
    /\ late \in BOOLEAN
    /\ starts \in 0 .. MaxStarts /\ failures \in 0 .. MaxFailures

\* The sessions use the lease as it is meant to be used: what they do to it is
\* what RunLease allows.
UsesTheLease == LeaseSpec

\* At most one program has the stream open to append to it, from the mending of
\* its end to the flush.
SoleWriter == ~raced => Cardinality(Writing) <= 1

\* However a session ended, its living program has left no lease in its own name,
\* which would refuse every start for as long as the program lives.
NoLeaseLeft == \A p \in Over : Alive(p) => file # CreatedBy(p, TRUE)

\* Nothing is written to the stream but under the lease.
Orderly == ~late /\ ~raced

\* However sessions end and follow each other, every complete line of the stream
\* is one record, and the numbers grow; only its end may be torn.
LinesAreWhole ==
    Orderly =>
        LET ends == LineEnds(events)
        IN  \A i \in ends :
                /\ IsRecord(events, i)
                /\ \A j \in ends : j < i => events[j].event.sequence < events[i].event.sequence

\* What emit returned for is never lost: no recovery cuts it off, no later line
\* spoils it.
ReportedStays == Orderly => reported \subseteq Kept(events)

\* A session marks the run completed only when the stream has the event that says
\* so (a workflow that deferred it does so later, without the lease).
CompletesWhatItSays ==
    [][manifest'.status = "completed" /\ manifest.status # "completed" /\ Orderly =>
        \/ \E p \in Procs : At(p, "deciding")
        \/ \E e \in Kept(events) : e.name = "completed" /\ e.run = manifest'.run]_vars

=============================================================================
