---------------------------- MODULE ArtifactStore ----------------------------
(***************************************************************************)
(* One LocalArtifactStore directory, the processes that commit, import,    *)
(* retire and clean up in it, and the mark-and-sweep collector that is run *)
(* beside them.  A store has no lock: every step below is one call on the  *)
(* file system, any two steps of two processes may come in either order,   *)
(* and any process may die between two of its steps.                       *)
(*                                                                         *)
(* A content is what an artifact id stands for, so it also fixes the ids   *)
(* written inside the artifact (Refs).  Hashes, descriptors' fields and    *)
(* the advisory validation cache are left out: damaged bytes are the       *)
(* subject of ResidentRun.                                                 *)
(***************************************************************************)
EXTENDS Integers, FiniteSets

CONSTANTS
    Procs,        \* processes that use the store
    Contents,     \* contents that are ever made
    Files,        \* the files of an artifact, its descriptor included
    Refs,         \* contents whose ids are written in a content
    Makers,       \* processes that make a content
    Transient,    \* activation generations: they are retired after use
    Imported,     \* contents that also exist in a donor store
    MinAge,       \* minimum age of what the collector may delete
    MaxFlight,    \* bound: ticks from the first write of a batch to the file
                  \* that refers to it
    MaxScan,      \* bound: ticks between the collector's listing and marking
    MaxClock,     \* bound of the clock
    MaxDeaths,    \* bound: how often a process may die
    MaxSweeps     \* bound: how often the collector is run

ASSUME StoreAssumption ==
    /\ Refs \in [Contents -> SUBSET Contents]
    /\ Makers \in [Contents -> SUBSET Procs]
    /\ Transient \subseteq Contents
    /\ Imported \subseteq Contents
    /\ Files # {}
    /\ {MinAge, MaxFlight, MaxScan, MaxClock, MaxDeaths, MaxSweeps} \subseteq Nat

VARIABLES
    object,      \* the directory at a content's destination path
    stamp,       \* the newest modification time of the files in it
    aged,        \* contents whose latest commit the collector may take for garbage
                 \* (Adopt): says nothing to the code
    quarantine,  \* retired directories that were not removed yet
    litter,      \* staging directories of processes that died: their lease
    evidence,    \* contents named by a run's own files (journal, pointers)
    retired,     \* contents removed on purpose
    job,         \* what each process is doing
    held,        \* contents a process committed and nothing refers to yet
    since,       \* when it began the batch they belong to
    gc,          \* the collector
    clock,
    deaths,
    sweeps

store == <<object, stamp, aged, quarantine, litter>>
procs == <<job, held, since>>
vars == <<store, evidence, retired, procs, gc, clock, deaths, sweeps>>

NoObject == [exists |-> FALSE, files |-> {}]
Whole(c) == object[c].files = Files

Idle == [pc |-> "idle"]
GcIdle == [pc |-> "idle"]

Init ==
    /\ object = [c \in Contents |-> NoObject]
    /\ stamp = [c \in Contents |-> 0]
    /\ aged = {} /\ quarantine = {} /\ litter = {}
    /\ evidence = {} /\ retired = {}
    /\ job = [p \in Procs |-> Idle]
    /\ held = [p \in Procs |-> {}]
    /\ since = [p \in Procs |-> 0]
    /\ gc = GcIdle
    /\ clock = 0 /\ deaths = 0 /\ sweeps = 0

\* The contents a set of contents leads to, in so far as their files are there:
\* the least set that holds the roots and what its members refer to.
LeadsTo(roots, present, S) ==
    /\ roots \cap present \subseteq S
    /\ \A d \in S : Refs[d] \cap present \subseteq S

Reach(roots, present) ==
    {c \in present : \A S \in SUBSET present : LeadsTo(roots, present, S) => c \in S}

-----------------------------------------------------------------------------
(***************************************************************************)
(* A process that writes an artifact: begin_write, then commit step by     *)
(* step.  An exception ends the process' work; its staging directory goes  *)
(* with it (LocalArtifactWriter.__exit__).                                 *)
(***************************************************************************)

At(p, pc) == job[p].pc = pc
Content(p) == job[p].content
Busy == {p \in Procs : ~At(p, "idle")}
GoTo(p, pc) == job' = [job EXCEPT ![p].pc = pc]

InBatch(p) == held[p] # {} \/ job[p].pc \notin {"idle", "removing"}

Rest(p) == job' = [job EXCEPT ![p] = Idle]

\* The call raises, and the process gives up what it had in flight.
Raise(p) ==
    /\ Rest(p)
    /\ held' = [held EXCEPT ![p] = {}]
    /\ UNCHANGED <<store, evidence, retired, since, gc, clock, deaths, sweeps>>

\* The process begins, or goes on with, a batch of artifacts.
OpenBatch(p) ==
    since' = [since EXCEPT ![p] = IF held[p] = {} THEN clock ELSE since[p]]

MayMake(p, c) ==
    /\ At(p, "idle")
    /\ p \in Makers[c]
    /\ c \notin held[p]
    /\ Refs[c] \subseteq held[p]

Planned == IF gc.pc \in {"apply", "delete"} THEN gc.victims ELSE {}
Deleting == IF gc.pc = "delete" THEN {gc.victim} ELSE {}

\* A content is committed now, and its object has a time from before that (it was
\* there, or is an import), or a plan that holds its id is being carried out.
Unnoticed(c, time, now) == time < now \/ c \in Planned \cup Deleting
Adopt(c, now) == aged' = IF Unnoticed(c, stamp[c], now) THEN aged \cup {c} ELSE aged

\* begin_write: mkdtemp; the lease file is written afterwards.
BeginWrite(p, c) ==
    /\ MayMake(p, c)
    /\ OpenBatch(p)
    /\ job' = [job EXCEPT ![p] = [pc |-> "opened", content |-> c, staging |-> TRUE,
                                  born |-> clock, time |-> clock]]
    /\ UNCHANGED <<store, evidence, retired, held, gc, clock, deaths, sweeps>>

WriteLease(p) ==
    /\ At(p, "opened")
    /\ IF job[p].staging
       THEN /\ GoTo(p, "writing")
            /\ UNCHANGED <<store, evidence, retired, held, since, gc, clock, deaths, sweeps>>
       ELSE Raise(p)

\* commit: the files are hashed, the lease is unlinked, the descriptor written.
Stage(p) ==
    /\ At(p, "writing")
    /\ IF job[p].staging
       THEN /\ job' = [job EXCEPT ![p].pc = "staged", ![p].time = clock]
            /\ UNCHANGED <<store, evidence, retired, held, since, gc, clock, deaths, sweeps>>
       ELSE Raise(p)

\* Is the destination there?  Then the own copy is dropped.
Check(p) ==
    /\ At(p, "staged")
    /\ IF object[Content(p)].exists
       THEN /\ job' = [job EXCEPT ![p].pc = "published", ![p].staging = FALSE]
            /\ Adopt(Content(p), job[p].born)
       ELSE GoTo(p, "publish") /\ UNCHANGED aged
    /\ UNCHANGED <<object, stamp, quarantine, litter, evidence, retired, held, since, gc,
                   clock, deaths, sweeps>>

\* Broken form of Publish: the files are copied into the destination.
PublishByCopy(p) ==
    /\ At(p, "publish")
    /\ \E f \in Files \ object[Content(p)].files :
            LET files == object[Content(p)].files \cup {f}
            IN  /\ object' = [object EXCEPT ![Content(p)] = [exists |-> TRUE, files |-> files]]
                /\ IF files = Files
                   THEN job' = [job EXCEPT ![p].pc = "published", ![p].staging = FALSE]
                   ELSE UNCHANGED job
    /\ stamp' = [stamp EXCEPT ![Content(p)] = job[p].time]
    /\ UNCHANGED <<aged, quarantine, litter, evidence, retired, held, since, gc, clock, deaths, sweeps>>

\* safe_replace: os.replace refuses a destination that is a non-empty directory.
Publish(p) ==
    /\ At(p, "publish")
    /\ IF object[Content(p)].files # {}
       THEN Raise(p)
       ELSE /\ object' = [object EXCEPT ![Content(p)] = [exists |-> TRUE, files |-> Files]]
            /\ stamp' = [stamp EXCEPT ![Content(p)] = job[p].time]
            /\ aged' = IF Unnoticed(Content(p), job[p].time, job[p].born)
                       THEN aged \cup {Content(p)} ELSE aged \ {Content(p)}
            /\ job' = [job EXCEPT ![p].pc = "published", ![p].staging = FALSE]
            /\ UNCHANGED <<quarantine, litter, evidence, retired, held, since, gc, clock,
                           deaths, sweeps>>

\* _remember_validation of a commit, validate of an import: every file is
\* looked at, and one that is missing raises.
Remember(p) ==
    /\ At(p, "published")
    /\ IF Whole(Content(p))
       THEN /\ Rest(p)
            /\ held' = [held EXCEPT ![p] = held[p] \cup {Content(p)}]
            /\ retired' = retired \ {Content(p)}
            /\ UNCHANGED <<store, evidence, since, gc, clock, deaths, sweeps>>
       ELSE Raise(p)

\* import_validated: the files keep the modification times they have in the
\* donor store, and the staging directory has no lease.
BeginImport(p, c) ==
    /\ MayMake(p, c)
    /\ c \in Imported
    /\ OpenBatch(p)
    /\ job' = [job EXCEPT ![p] =
            [pc |-> IF object[c].exists THEN "published" ELSE "staged", content |-> c,
             staging |-> ~object[c].exists, born |-> clock, time |-> 0]]
    /\ IF object[c].exists THEN Adopt(c, clock) ELSE UNCHANGED aged
    /\ UNCHANGED <<object, stamp, quarantine, litter, evidence, retired, held, gc, clock,
                   deaths, sweeps>>

\* The batch is named by a file of the run: a journal line or a pointer.
Refer(p) ==
    /\ At(p, "idle")
    /\ \E c \in held[p] :
            /\ held[p] \subseteq Reach({c}, Contents)
            /\ evidence' = evidence \cup {c}
    /\ held' = [held EXCEPT ![p] = {}]
    /\ UNCHANGED <<store, retired, job, since, gc, clock, deaths, sweeps>>

\* remove_artifact: the object is validated and renamed into the quarantine ...
Retire(p, c) ==
    /\ At(p, "idle") /\ held[p] = {}
    /\ c \in Transient \cap Reach(evidence, Contents)
    /\ Makers[c] = {p}
    /\ c \notin retired
    /\ IF ~Whole(c) \/ c \in quarantine
       THEN Raise(p)
       ELSE /\ object' = [object EXCEPT ![c] = NoObject]
            /\ quarantine' = quarantine \cup {c}
            /\ retired' = retired \cup {c}
            /\ job' = [job EXCEPT ![p] = [pc |-> "removing", content |-> c, staging |-> FALSE,
                                          born |-> clock, time |-> clock]]
            /\ UNCHANGED <<stamp, aged, litter, evidence, held, since, gc, clock, deaths, sweeps>>

\* ... and removed from there.
Remove(p) ==
    /\ At(p, "removing")
    /\ quarantine' = quarantine \ {Content(p)}
    /\ Rest(p)
    /\ UNCHANGED <<object, stamp, aged, litter, evidence, retired, held, since, gc, clock, deaths, sweeps>>

\* The lease file of a staging directory, as the steps of its writer left it.
LeaseOf(pc) == CASE pc = "opened" -> {"none", "empty"}
                 [] pc = "writing" -> {"written"}
                 [] OTHER -> {"none"}

Die(p) ==
    /\ p \in Busy \/ held[p] # {}
    /\ deaths < MaxDeaths
    /\ deaths' = deaths + 1
    /\ IF p \in Busy /\ job[p].staging
       THEN \E l \in LeaseOf(job[p].pc) :
                litter' = litter \cup {[lease |-> l, born |-> job[p].born]}
       ELSE UNCHANGED litter
    /\ Rest(p)
    /\ held' = [held EXCEPT ![p] = {}]
    /\ UNCHANGED <<object, stamp, aged, quarantine, evidence, retired, since, gc, clock, sweeps>>

-----------------------------------------------------------------------------
(***************************************************************************)
(* cleanup_abandoned: staging directories whose lease is old, or cannot be *)
(* read, are removed; those without a lease are not looked at.             *)
(***************************************************************************)

Expired(lease, born, age) ==
    \/ lease = "empty"
    \/ lease = "written" /\ born < clock - age

CleanupAbandoned(age) ==
    /\ litter' = {d \in litter : ~Expired(d.lease, d.born, age)}
    /\ \E seen \in [Procs -> {"none", "empty", "written"}] :
            /\ \A p \in Procs : seen[p] \in IF p \in Busy THEN LeaseOf(job[p].pc) ELSE {"none"}
            /\ job' = [p \in Procs |->
                        IF p \in Busy /\ Expired(seen[p], job[p].born, age)
                        THEN [job[p] EXCEPT !.staging = FALSE] ELSE job[p]]
    /\ litter' # litter \/ job' # job
    /\ UNCHANGED <<object, stamp, aged, quarantine, evidence, retired, held, since, gc, clock,
                   deaths, sweeps>>

-----------------------------------------------------------------------------
(***************************************************************************)
(* The collector: plan_artifact_gc lists the store, then reads the         *)
(* evidence and the references; apply_artifact_gc deletes file by file.    *)
(***************************************************************************)

GcList ==
    /\ gc.pc = "idle"
    /\ sweeps < MaxSweeps
    /\ sweeps' = sweeps + 1
    /\ gc' = [pc |-> "mark", listed |-> {c \in Contents : object[c].exists}, at |-> clock]
    /\ UNCHANGED <<store, evidence, retired, procs, clock, deaths>>


\* Broken forms of Candidates: of any age; without what is referred to indirectly.
YoungCandidates(listed) == listed \ Reach(evidence, listed)
UnnamedCandidates(listed) == {c \in listed \ evidence : stamp[c] <= clock - MinAge}

\* What is not reachable and old enough.
Candidates(listed) ==
    {c \in listed \ Reach(evidence, listed) : stamp[c] <= clock - MinAge}

GcMark ==
    /\ gc.pc = "mark"
    /\ gc' = [pc |-> "apply", victims |-> Candidates(gc.listed)]
    /\ UNCHANGED <<store, evidence, retired, procs, clock, deaths, sweeps>>

\* Broken form of GcOpen: one file of the object is overlooked.
GcOpenMissingAFile(c) ==
    /\ gc.pc = "apply"
    /\ c \in gc.victims
    /\ \E f \in Files :
            gc' = IF object[c].exists
                  THEN [pc |-> "delete", victims |-> gc.victims \ {c}, victim |-> c,
                        files |-> object[c].files \ {f}]
                  ELSE [gc EXCEPT !.victims = @ \ {c}]
    /\ UNCHANGED <<store, evidence, retired, procs, clock, deaths, sweeps>>

GcOpen(c) ==
    /\ gc.pc = "apply"
    /\ c \in gc.victims
    /\ gc' = IF object[c].exists
             THEN [pc |-> "delete", victims |-> gc.victims \ {c}, victim |-> c,
                   files |-> object[c].files]
             ELSE [gc EXCEPT !.victims = @ \ {c}]
    /\ UNCHANGED <<store, evidence, retired, procs, clock, deaths, sweeps>>

\* A file that has gone ends the collector.
GcUnlink(f) ==
    /\ gc.pc = "delete"
    /\ f \in gc.files
    /\ IF f \in object[gc.victim].files
       THEN /\ gc' = [gc EXCEPT !.files = @ \ {f}]
            /\ object' = [object EXCEPT ![gc.victim].files = @ \ {f}]
       ELSE /\ gc' = GcIdle
            /\ UNCHANGED object
    /\ UNCHANGED <<stamp, aged, quarantine, litter, evidence, retired, procs, clock, deaths,
                   sweeps>>

\* rmdir raises when the directory is not empty, and ends the collector.
GcRemoveDirectory ==
    /\ gc.pc = "delete"
    /\ gc.files = {}
    /\ IF object[gc.victim].files = {}
       THEN /\ object' = [object EXCEPT ![gc.victim] = NoObject]
            /\ gc' = [pc |-> "apply", victims |-> gc.victims]
       ELSE /\ gc' = GcIdle
            /\ UNCHANGED object
    /\ UNCHANGED <<stamp, aged, quarantine, litter, evidence, retired, procs, clock, deaths, sweeps>>

GcEnd ==
    /\ gc.pc = "apply"
    /\ gc.victims = {}
    /\ gc' = GcIdle
    /\ UNCHANGED <<store, evidence, retired, procs, clock, deaths, sweeps>>

GcDie ==
    /\ gc.pc # "idle"
    /\ deaths < MaxDeaths
    /\ deaths' = deaths + 1
    /\ gc' = GcIdle
    /\ UNCHANGED <<store, evidence, retired, procs, clock, sweeps>>

-----------------------------------------------------------------------------
\* Time passes; no batch and no scan takes longer than its bound.
Tick ==
    /\ clock < MaxClock
    /\ \A p \in Procs : InBatch(p) => clock - since[p] < MaxFlight
    /\ gc.pc = "mark" => clock - gc.at < MaxScan
    /\ clock' = clock + 1
    /\ UNCHANGED <<store, evidence, retired, procs, gc, deaths, sweeps>>

Operate(p) ==
    \/ \E c \in Contents : BeginWrite(p, c) \/ BeginImport(p, c) \/ Retire(p, c)
    \/ WriteLease(p) \/ Stage(p) \/ Check(p) \/ Publish(p) \/ Remember(p)
    \/ Refer(p) \/ Remove(p)

Collect ==
    \/ GcList \/ GcMark \/ GcRemoveDirectory \/ GcEnd
    \/ \E c \in Contents : GcOpen(c)
    \/ \E f \in Files : GcUnlink(f)

Next ==
    \/ \E p \in Procs : Operate(p) \/ Die(p)
    \/ Collect \/ GcDie
    \/ CleanupAbandoned(MinAge)
    \/ Tick

Spec == Init /\ [][Next]_vars

-----------------------------------------------------------------------------
(***************************************************************************)
(* What is said about it.                                                  *)
(***************************************************************************)

TypeOK ==
    /\ object \in [Contents -> [exists : BOOLEAN, files : SUBSET Files]]
    /\ stamp \in [Contents -> 0 .. MaxClock]
    /\ aged \subseteq Contents
    /\ quarantine \subseteq Contents
    /\ litter \subseteq [lease : {"none", "empty", "written"}, born : 0 .. MaxClock]
    /\ evidence \subseteq Contents /\ retired \subseteq Contents
    /\ held \in [Procs -> SUBSET Contents]
    /\ since \in [Procs -> 0 .. MaxClock]
    /\ clock \in 0 .. MaxClock

\* A commit is atomic: whatever two writers of the same content, a retirement
\* and a crash do, a directory at a destination path is complete.
VisibleIsWhole == \A c \in Contents : object[c].exists => Whole(c)

\* What a process has committed, and not retired, is there when it refers to it,
\* unless the collector could not know of the commit (aged).
HeldIsThere == \A p \in Procs : \A c \in held[p] \ aged : Whole(c)

\* Everything a run's files lead to is there until it is retired on purpose: the
\* collector, whose plan is made and applied while processes commit, never takes
\* an object that is in flight or in use; nor does a death, at any call, of a
\* writer or of the collector.  Objects whose latest commit kept a time from
\* before it (a repeated commit, an import), or came when the plan stood, are the
\* ones it does take, and with them what is referred to by nothing else.
EvidenceIsThere == \A c \in Reach(evidence, Contents \ (retired \cup aged)) : Whole(c)

\* The collector takes nothing by halves: when it is done with a plan, no object
\* of it is left in part, unless a process died.
SweepLeavesNoParts ==
    gc.pc # "delete" /\ deaths = 0 =>
        \A c \in Contents \ aged : object[c].exists => Whole(c)
=============================================================================
