------------------------ MODULE ArtifactStore_proofs ------------------------
(***************************************************************************)
(* Theorems about ArtifactStore for any number of processes, contents,     *)
(* sweeps and deaths.                                                      *)
(*                                                                         *)
(* The argument is about ages.  What a process has claimed (committed and  *)
(* not yet referred to) is at most two flights old, so a collector that    *)
(* spares what is younger than two flights and a scan leaves it alone; and *)
(* what is named while the collector scans was claimed a moment before.    *)
(***************************************************************************)
EXTENDS ArtifactStore, TLAPS

Jobs == [pc : {"opened", "writing", "staged", "publish", "published", "removing"},
         content : Contents, staging : BOOLEAN, born : Nat, time : Nat]

Listing == [pc : {"mark"}, listed : SUBSET Contents, at : Nat]
Applying == [pc : {"apply"}, victims : SUBSET Contents]
Unlinking == [pc : {"delete"}, victims : SUBSET Contents, victim : Contents,
              files : SUBSET Files]

TypeInv ==
    /\ object \in [Contents -> [exists : BOOLEAN, files : SUBSET Files]]
    /\ stamp \in [Contents -> Nat]
    /\ aged \subseteq Contents /\ evidence \subseteq Contents /\ retired \subseteq Contents
    /\ job \in [Procs -> {Idle} \cup Jobs]
    /\ held \in [Procs -> SUBSET Contents]
    /\ since \in [Procs -> Nat]
    /\ gc \in {GcIdle} \cup Listing \cup Applying \cup Unlinking
    /\ clock \in Nat /\ deaths \in Nat /\ sweeps \in Nat

\* The actions one by one.
LEMMA StoreStepCases ==
    ASSUME [Next]_vars
    PROVE  \/ \E p \in Procs :
                \/ \E c \in Contents : BeginWrite(p, c) \/ BeginImport(p, c) \/ Retire(p, c)
                \/ WriteLease(p) \/ Stage(p) \/ Check(p) \/ Publish(p) \/ Remember(p)
                \/ Refer(p) \/ Remove(p) \/ Die(p)
           \/ GcList \/ GcMark \/ GcRemoveDirectory \/ GcEnd \/ GcDie
           \/ \E c \in Contents : GcOpen(c)
           \/ \E f \in Files : GcUnlink(f)
           \/ CleanupAbandoned(MinAge) \/ Tick
           \/ UNCHANGED vars
  BY DEF Next, Operate, Collect

LEMMA Constants ==
    /\ Refs \in [Contents -> SUBSET Contents]
    /\ Makers \in [Contents -> SUBSET Procs]
    /\ Files # {}
    /\ MinAge \in Nat /\ MaxFlight \in Nat /\ MaxScan \in Nat /\ MaxSweeps \in Nat
  BY StoreAssumption

LEMMA BusyJob ==
    ASSUME TypeInv, NEW p \in Procs, job[p].pc # "idle"
    PROVE  job[p] \in Jobs
<1>1. job[p] \in {Idle} \cup Jobs
  BY DEF TypeInv
<1>2. job[p] # Idle
  BY DEF Idle
<1>. QED
  BY <1>1, <1>2

LEMMA PhaseTyped ==
    ASSUME TypeInv, NEW p \in Procs
    PROVE  job[p].pc \in {"idle", "opened", "writing", "staged", "publish", "published", "removing"}
<1>1. CASE job[p] = Idle
  BY <1>1 DEF Idle
<1>2. CASE job[p] \in Jobs
  BY <1>2 DEF Jobs
<1>. QED
  BY <1>1, <1>2 DEF TypeInv

\* What the process p does now is done by no other process.
LEMMA JobStep ==
    ASSUME TypeInv, NEW p \in Procs, NEW j \in {Idle} \cup Jobs, job' = [job EXCEPT ![p] = j]
    PROVE  /\ job' \in [Procs -> {Idle} \cup Jobs]
           /\ job'[p] = j
           /\ \A q \in Procs \ {p} : job'[q] = job[q]
  BY DEF TypeInv

LEMMA IdleStep ==
    ASSUME TypeInv, NEW p \in Procs, Rest(p)
    PROVE  /\ job' \in [Procs -> {Idle} \cup Jobs]
           /\ job'[p] = Idle /\ job'[p].pc = "idle"
           /\ \A q \in Procs \ {p} : job'[q] = job[q]
<1>1. Idle.pc = "idle"
  BY DEF Idle
<1>. QED
  BY <1>1, JobStep DEF Rest

LEMMA BusyFields ==
    ASSUME TypeInv, NEW p \in Procs, job[p].pc # "idle"
    PROVE  job[p].time \in Nat /\ job[p].content \in Contents /\ job[p].born \in Nat
  BY BusyJob DEF Jobs

-----------------------------------------------------------------------------
\* The process p goes on with its call, the others do nothing.
Goes(p, pc) ==
    /\ job' \in [Procs -> {Idle} \cup Jobs]
    /\ job'[p].pc = pc /\ job'[p].content = job[p].content /\ job'[p].born = job[p].born
    /\ \A q \in Procs \ {p} : job'[q] = job[q]

Begins(p, pc, c) ==
    /\ job' \in [Procs -> {Idle} \cup Jobs]
    /\ job'[p].pc = pc /\ job'[p].content = c /\ job'[p].born = clock
    /\ \A q \in Procs \ {p} : job'[q] = job[q]

Rests(p) ==
    /\ job' \in [Procs -> {Idle} \cup Jobs]
    /\ job'[p].pc = "idle"
    /\ \A q \in Procs \ {p} : job'[q] = job[q]

\* The forms in which the calls go on.
LEMMA CallGoesOn ==
    ASSUME TypeInv, NEW p \in Procs, job[p].pc # "idle",
           NEW pc \in {"writing", "publish"}, job' = [job EXCEPT ![p].pc = pc]
    PROVE  Goes(p, pc)
<1>1. job[p] \in Jobs /\ clock \in Nat
  BY BusyJob DEF TypeInv
<1>2. /\ DOMAIN job' = Procs
      /\ job' = [q \in Procs |-> job'[q]]
      /\ job'[p] = [job[p] EXCEPT !.pc = pc]
      /\ \A q \in Procs \ {p} : job'[q] = job[q]
  BY DEF TypeInv
<1>3. /\ job'[p] \in Jobs
      /\ job'[p].pc = pc /\ job'[p].content = job[p].content /\ job'[p].born = job[p].born
  BY <1>1, <1>2 DEF Jobs
<1>4. \A q \in Procs : job'[q] \in {Idle} \cup Jobs
  BY <1>2, <1>3 DEF TypeInv
<1>5. job' \in [Procs -> {Idle} \cup Jobs]
  BY <1>2, <1>4
<1>. QED
  BY <1>2, <1>3, <1>5 DEF Goes

LEMMA CallStages ==
    ASSUME TypeInv, NEW p \in Procs, job[p].pc # "idle",
           job' = [job EXCEPT ![p].pc = "staged", ![p].time = clock]
    PROVE  Goes(p, "staged")
<1>1. job[p] \in Jobs /\ clock \in Nat
  BY BusyJob DEF TypeInv
<1>2. /\ DOMAIN job' = Procs
      /\ job' = [q \in Procs |-> job'[q]]
      /\ job'[p] = [job[p] EXCEPT !.pc = "staged", !.time = clock]
      /\ \A q \in Procs \ {p} : job'[q] = job[q]
  BY DEF TypeInv
<1>3. /\ job'[p] \in Jobs
      /\ job'[p].pc = "staged" /\ job'[p].content = job[p].content /\ job'[p].born = job[p].born
  BY <1>1, <1>2 DEF Jobs
<1>4. \A q \in Procs : job'[q] \in {Idle} \cup Jobs
  BY <1>2, <1>3 DEF TypeInv
<1>5. job' \in [Procs -> {Idle} \cup Jobs]
  BY <1>2, <1>4
<1>. QED
  BY <1>2, <1>3, <1>5 DEF Goes

LEMMA CallPublishes ==
    ASSUME TypeInv, NEW p \in Procs, job[p].pc # "idle",
           job' = [job EXCEPT ![p].pc = "published", ![p].staging = FALSE]
    PROVE  Goes(p, "published")
<1>1. job[p] \in Jobs /\ clock \in Nat
  BY BusyJob DEF TypeInv
<1>2. /\ DOMAIN job' = Procs
      /\ job' = [q \in Procs |-> job'[q]]
      /\ job'[p] = [job[p] EXCEPT !.pc = "published", !.staging = FALSE]
      /\ \A q \in Procs \ {p} : job'[q] = job[q]
  BY DEF TypeInv
<1>3. /\ job'[p] \in Jobs
      /\ job'[p].pc = "published" /\ job'[p].content = job[p].content /\ job'[p].born = job[p].born
  BY <1>1, <1>2 DEF Jobs
<1>4. \A q \in Procs : job'[q] \in {Idle} \cup Jobs
  BY <1>2, <1>3 DEF TypeInv
<1>5. job' \in [Procs -> {Idle} \cup Jobs]
  BY <1>2, <1>4
<1>. QED
  BY <1>2, <1>3, <1>5 DEF Goes

\* The batch of p is given up, or goes over to the run.
Drops(p) ==
    /\ held' \in [Procs -> SUBSET Contents]
    /\ held'[p] = {}
    /\ \A q \in Procs \ {p} : held'[q] = held[q]

StoreStays == UNCHANGED <<object, stamp, evidence, retired, gc, clock, sweeps>>

LEMMA RaiseEffect ==
    ASSUME TypeInv, NEW p \in Procs, Raise(p)
    PROVE  Rests(p) /\ Drops(p) /\ StoreStays /\ UNCHANGED <<aged, since, deaths>>
<1>1. Rests(p)
  BY IdleStep DEF Raise, Rests
<1>2. Drops(p)
  BY DEF Raise, Drops, TypeInv
<1>. QED
  BY <1>1, <1>2 DEF Raise, StoreStays, store

LEMMA OpenBatchEffect ==
    ASSUME TypeInv, NEW p \in Procs, OpenBatch(p)
    PROVE  /\ since' \in [Procs -> Nat]
           /\ since'[p] = IF held[p] = {} THEN clock ELSE since[p]
           /\ \A q \in Procs \ {p} : since'[q] = since[q]
  BY DEF OpenBatch, TypeInv

LEMMA BeginWriteEffect ==
    ASSUME TypeInv, NEW p \in Procs, NEW c \in Contents, BeginWrite(p, c)
    PROVE  /\ MayMake(p, c) /\ OpenBatch(p) /\ Begins(p, "opened", c)
           /\ StoreStays /\ UNCHANGED <<aged, held, deaths>>
<1> DEFINE j == [pc |-> "opened", content |-> c, staging |-> TRUE, born |-> clock, time |-> clock]
<1>1. j \in {Idle} \cup Jobs /\ j.pc = "opened" /\ j.content = c /\ j.born = clock
  BY DEF Jobs, TypeInv
<1>2. job' = [job EXCEPT ![p] = j]
  BY DEF BeginWrite
<1> HIDE DEF j
<1>3. Begins(p, "opened", c)
  BY <1>1, <1>2, JobStep DEF Begins
<1>. QED
  BY <1>3 DEF BeginWrite, StoreStays, store

LEMMA BeginImportEffect ==
    ASSUME TypeInv, NEW p \in Procs, NEW c \in Contents, BeginImport(p, c)
    PROVE  /\ MayMake(p, c) /\ OpenBatch(p)
           /\ \/ Begins(p, "published", c) /\ Adopt(c, clock)
              \/ Begins(p, "staged", c) /\ UNCHANGED aged
           /\ StoreStays /\ UNCHANGED <<held, deaths>>
<1>1. CASE object[c].exists
  <2> DEFINE j == [pc |-> "published", content |-> c, staging |-> FALSE, born |-> clock, time |-> 0]
  <2>1. j \in {Idle} \cup Jobs /\ j.pc = "published" /\ j.content = c /\ j.born = clock
    BY DEF Jobs, TypeInv
  <2>2. job' = [job EXCEPT ![p] = j] /\ Adopt(c, clock)
    BY <1>1 DEF BeginImport
  <2> HIDE DEF j
  <2>3. Begins(p, "published", c)
    BY <2>1, <2>2, JobStep DEF Begins
  <2>. QED
    BY <2>2, <2>3 DEF BeginImport, StoreStays
<1>2. CASE ~object[c].exists
  <2> DEFINE j == [pc |-> "staged", content |-> c, staging |-> TRUE, born |-> clock, time |-> 0]
  <2>1. j \in {Idle} \cup Jobs /\ j.pc = "staged" /\ j.content = c /\ j.born = clock
    BY DEF Jobs, TypeInv
  <2>2. job' = [job EXCEPT ![p] = j] /\ UNCHANGED aged
    BY <1>2 DEF BeginImport, TypeInv
  <2> HIDE DEF j
  <2>3. Begins(p, "staged", c)
    BY <2>1, <2>2, JobStep DEF Begins
  <2>. QED
    BY <2>2, <2>3 DEF BeginImport, StoreStays
<1>. QED
  BY <1>1, <1>2

LEMMA WriteLeaseEffect ==
    ASSUME TypeInv, NEW p \in Procs, WriteLease(p)
    PROVE  \/ Raise(p)
           \/ /\ At(p, "opened") /\ Goes(p, "writing")
              /\ StoreStays /\ UNCHANGED <<aged, held, since, deaths>>
<1>1. CASE ~job[p].staging
  BY <1>1 DEF WriteLease
<1>2. CASE job[p].staging
  <2>1. job' = [job EXCEPT ![p].pc = "writing"] /\ At(p, "opened")
    BY <1>2 DEF WriteLease, GoTo
  <2>2. Goes(p, "writing")
    BY <2>1, CallGoesOn DEF At
  <2>. QED
    BY <1>2, <2>1, <2>2 DEF WriteLease, StoreStays, store
<1>. QED
  BY <1>1, <1>2

LEMMA StageEffect ==
    ASSUME TypeInv, NEW p \in Procs, Stage(p)
    PROVE  \/ Raise(p)
           \/ /\ At(p, "writing") /\ Goes(p, "staged")
              /\ StoreStays /\ UNCHANGED <<aged, held, since, deaths>>
<1>1. CASE ~job[p].staging
  BY <1>1 DEF Stage
<1>2. CASE job[p].staging
  <2>1. job' = [job EXCEPT ![p].pc = "staged", ![p].time = clock] /\ At(p, "writing")
    BY <1>2 DEF Stage
  <2>2. clock \in Nat
    BY DEF TypeInv
  <2>3. Goes(p, "staged")
    BY <2>1, CallStages DEF At
  <2>. QED
    BY <1>2, <2>1, <2>3 DEF Stage, StoreStays, store
<1>. QED
  BY <1>1, <1>2

LEMMA CheckEffect ==
    ASSUME TypeInv, NEW p \in Procs, Check(p)
    PROVE  /\ At(p, "staged")
           /\ \/ Goes(p, "published") /\ Adopt(Content(p), job[p].born)
              \/ Goes(p, "publish") /\ UNCHANGED aged
           /\ StoreStays /\ UNCHANGED <<held, since, deaths>>
<1>1. CASE object[Content(p)].exists
  <2>1. /\ job' = [job EXCEPT ![p].pc = "published", ![p].staging = FALSE] /\ At(p, "staged")
        /\ Adopt(Content(p), job[p].born)
    BY <1>1 DEF Check
  <2>2. Goes(p, "published")
    BY <2>1, CallPublishes DEF At
  <2>. QED
    BY <2>1, <2>2 DEF Check, StoreStays
<1>2. CASE ~object[Content(p)].exists
  <2>1. job' = [job EXCEPT ![p].pc = "publish"] /\ At(p, "staged") /\ UNCHANGED aged
    BY <1>2 DEF Check, GoTo
  <2>2. Goes(p, "publish")
    BY <2>1, CallGoesOn DEF At
  <2>. QED
    BY <2>1, <2>2 DEF Check, StoreStays
<1>. QED
  BY <1>1, <1>2

LEMMA PublishEffect ==
    ASSUME TypeInv, NEW p \in Procs, Publish(p)
    PROVE  \/ Raise(p)
           \/ /\ At(p, "publish") /\ Goes(p, "published")
              /\ Content(p) \in Contents /\ job[p].time \in Nat /\ job[p].born \in Nat
              /\ object[Content(p)].files = {}
              /\ object' = [object EXCEPT ![Content(p)] = [exists |-> TRUE, files |-> Files]]
              /\ stamp' = [stamp EXCEPT ![Content(p)] = job[p].time]
              /\ aged' = IF Unnoticed(Content(p), job[p].time, job[p].born)
                         THEN aged \cup {Content(p)} ELSE aged \ {Content(p)}
              /\ UNCHANGED <<evidence, retired, held, since, gc, clock, deaths, sweeps>>
<1>1. CASE object[Content(p)].files # {}
  BY <1>1 DEF Publish
<1>2. CASE object[Content(p)].files = {}
  <2>1. job' = [job EXCEPT ![p].pc = "published", ![p].staging = FALSE] /\ At(p, "publish")
    BY <1>2 DEF Publish
  <2>2. Goes(p, "published")
    BY <2>1, CallPublishes DEF At
  <2>3. Content(p) \in Contents /\ job[p].time \in Nat /\ job[p].born \in Nat
    BY <2>1, BusyFields DEF At, Content
  <2>. QED
    BY <1>2, <2>1, <2>2, <2>3 DEF Publish
<1>. QED
  BY <1>1, <1>2

LEMMA RememberEffect ==
    ASSUME TypeInv, NEW p \in Procs, Remember(p)
    PROVE  \/ Raise(p)
           \/ /\ At(p, "published") /\ Rests(p) /\ Whole(Content(p)) /\ Content(p) \in Contents
              /\ held' \in [Procs -> SUBSET Contents]
              /\ held'[p] = held[p] \cup {Content(p)}
              /\ \A q \in Procs \ {p} : held'[q] = held[q]
              /\ retired' = retired \ {Content(p)}
              /\ UNCHANGED <<object, stamp, aged, evidence, since, gc, clock, deaths, sweeps>>
<1>1. CASE ~Whole(Content(p))
  BY <1>1 DEF Remember
<1>2. CASE Whole(Content(p))
  <2>1. At(p, "published") /\ Rest(p)
    BY <1>2 DEF Remember
  <2>2. Rests(p)
    BY <2>1, IdleStep DEF Rests
  <2>3. Content(p) \in Contents
    BY <2>1, BusyFields DEF At, Content
  <2>4. held' = [held EXCEPT ![p] = held[p] \cup {Content(p)}]
    BY <1>2 DEF Remember
  <2>5. /\ held' \in [Procs -> SUBSET Contents]
        /\ held'[p] = held[p] \cup {Content(p)}
        /\ \A q \in Procs \ {p} : held'[q] = held[q]
    BY <2>3, <2>4 DEF TypeInv
  <2>. QED
    BY <1>2, <2>1, <2>2, <2>3, <2>5 DEF Remember, store
<1>. QED
  BY <1>1, <1>2

LEMMA ReferEffect ==
    ASSUME TypeInv, NEW p \in Procs, Refer(p)
    PROVE  /\ At(p, "idle") /\ Drops(p)
           /\ \E c \in held[p] : evidence' = evidence \cup {c}
           /\ UNCHANGED <<object, stamp, aged, retired, job, since, gc, clock, deaths, sweeps>>
<1>1. Drops(p)
  BY DEF Refer, Drops, TypeInv
<1>. QED
  BY <1>1 DEF Refer, store

LEMMA RetireEffect ==
    ASSUME TypeInv, NEW p \in Procs, NEW c \in Contents, Retire(p, c)
    PROVE  \/ Raise(p)
           \/ /\ At(p, "idle") /\ held[p] = {} /\ Makers[c] = {p}
              /\ Begins(p, "removing", c)
              /\ object' = [object EXCEPT ![c] = NoObject]
              /\ retired' = retired \cup {c}
              /\ UNCHANGED <<stamp, aged, evidence, held, since, gc, clock, deaths, sweeps>>
<1>1. CASE ~Whole(c) \/ c \in quarantine
  BY <1>1 DEF Retire
<1>2. CASE ~(~Whole(c) \/ c \in quarantine)
  <2> DEFINE j == [pc |-> "removing", content |-> c, staging |-> FALSE, born |-> clock, time |-> clock]
  <2>1. j \in {Idle} \cup Jobs /\ j.pc = "removing" /\ j.content = c /\ j.born = clock
    BY DEF Jobs, TypeInv
  <2>2. job' = [job EXCEPT ![p] = j]
    BY <1>2 DEF Retire
  <2> HIDE DEF j
  <2>3. Begins(p, "removing", c)
    BY <2>1, <2>2, JobStep DEF Begins
  <2>. QED
    BY <1>2, <2>3 DEF Retire
<1>. QED
  BY <1>1, <1>2

LEMMA RemoveEffect ==
    ASSUME TypeInv, NEW p \in Procs, Remove(p)
    PROVE  /\ At(p, "removing") /\ Rests(p)
           /\ StoreStays /\ UNCHANGED <<aged, held, since, deaths>>
<1>1. Rests(p)
  BY IdleStep DEF Remove, Rests
<1>. QED
  BY <1>1 DEF Remove, StoreStays

LEMMA DieEffect ==
    ASSUME TypeInv, NEW p \in Procs, Die(p)
    PROVE  Rests(p) /\ Drops(p) /\ StoreStays /\ deaths' = deaths + 1 /\ UNCHANGED <<aged, since>>
<1>1. Rests(p)
  BY IdleStep DEF Die, Rests
<1>2. Drops(p)
  BY DEF Die, Drops, TypeInv
<1>. QED
  BY <1>1, <1>2 DEF Die, StoreStays

\* The cleanup takes staging directories away, and nothing else.
LEMMA CleanupEffect ==
    ASSUME TypeInv, CleanupAbandoned(MinAge)
    PROVE  /\ job' \in [Procs -> {Idle} \cup Jobs]
           /\ \A p \in Procs :
                /\ job'[p].pc = job[p].pc
                /\ job[p].pc # "idle" => /\ job'[p].content = job[p].content
                                         /\ job'[p].born = job[p].born
           /\ StoreStays /\ UNCHANGED <<aged, held, since, deaths>>
<1>1. PICK seen \in [Procs -> {"none", "empty", "written"}] :
            job' = [p \in Procs |->
                        IF p \in Busy /\ Expired(seen[p], job[p].born, MinAge)
                        THEN [job[p] EXCEPT !.staging = FALSE] ELSE job[p]]
  BY DEF CleanupAbandoned
<1>2. ASSUME NEW p \in Procs
      PROVE  /\ job'[p] \in {Idle} \cup Jobs
             /\ job'[p].pc = job[p].pc
             /\ job[p].pc # "idle" => /\ job'[p].content = job[p].content
                                      /\ job'[p].born = job[p].born
  <2>1. CASE p \in Busy /\ Expired(seen[p], job[p].born, MinAge)
    <3>1. job'[p] = [job[p] EXCEPT !.staging = FALSE]
      BY <1>1, <2>1
    <3>2. job[p] \in Jobs
      BY <2>1, BusyJob DEF Busy, At
    <3>. QED
      BY <3>1, <3>2 DEF Jobs
  <2>2. CASE ~(p \in Busy /\ Expired(seen[p], job[p].born, MinAge))
    <3>1. job'[p] = job[p]
      BY <1>1, <2>2
    <3>. QED
      BY <3>1 DEF TypeInv
  <2>. QED
    BY <2>1, <2>2
<1>3. job' \in [Procs -> {Idle} \cup Jobs]
  BY <1>1, <1>2
<1>. QED
  BY <1>2, <1>3 DEF CleanupAbandoned, StoreStays

-----------------------------------------------------------------------------
\* What the collector's steps leave alone.
ProcsStay == UNCHANGED <<stamp, aged, evidence, retired, job, held, since, clock>>

LEMMA GcPhases ==
    ASSUME TypeInv
    PROVE  /\ gc.pc \in {"idle", "mark", "apply", "delete"}
           /\ gc.pc = "mark" => gc \in Listing /\ gc.listed \in SUBSET Contents /\ gc.at \in Nat
           /\ gc.pc = "apply" => gc \in Applying /\ gc.victims \in SUBSET Contents
           /\ gc.pc = "delete" => /\ gc \in Unlinking
                                  /\ gc.victims \in SUBSET Contents /\ gc.victim \in Contents
                                  /\ gc.files \in SUBSET Files
           /\ Planned \subseteq Contents /\ Deleting \subseteq Contents
<1>1. CASE gc = GcIdle
  BY <1>1 DEF GcIdle, Planned, Deleting
<1>2. CASE gc \in Listing
  BY <1>2 DEF Listing, Planned, Deleting
<1>3. CASE gc \in Applying
  BY <1>3 DEF Applying, Planned, Deleting
<1>4. CASE gc \in Unlinking
  BY <1>4 DEF Unlinking, Planned, Deleting
<1>. QED
  BY <1>1, <1>2, <1>3, <1>4 DEF TypeInv

LEMMA GcListEffect ==
    ASSUME TypeInv, GcList
    PROVE  /\ ProcsStay /\ UNCHANGED <<object, deaths>>
           /\ sweeps < MaxSweeps /\ sweeps' = sweeps + 1
           /\ gc.pc = "idle" /\ gc' \in Listing /\ gc'.pc = "mark"
           /\ gc'.listed = {c \in Contents : object[c].exists} /\ gc'.at = clock
<1>1. gc' = [pc |-> "mark", listed |-> {c \in Contents : object[c].exists}, at |-> clock]
  BY DEF GcList
<1>2. clock \in Nat
  BY DEF TypeInv
<1>3. gc' \in Listing
  BY <1>1, <1>2 DEF Listing
<1>. QED
  BY <1>1, <1>3 DEF GcList, ProcsStay, store, procs

LEMMA GcMarkEffect ==
    ASSUME TypeInv, GcMark
    PROVE  /\ ProcsStay /\ UNCHANGED <<object, deaths, sweeps>>
           /\ gc.pc = "mark" /\ gc' \in Applying /\ gc'.pc = "apply"
           /\ gc'.victims = Candidates(gc.listed)
<1>1. gc' = [pc |-> "apply", victims |-> Candidates(gc.listed)] /\ gc.pc = "mark"
  BY DEF GcMark
<1>2. Candidates(gc.listed) \in SUBSET Contents
  BY <1>1, GcPhases DEF Candidates
<1>3. gc' \in Applying
  BY <1>1, <1>2 DEF Applying
<1>. QED
  BY <1>1, <1>3 DEF GcMark, ProcsStay, store, procs

LEMMA GcOpenEffect ==
    ASSUME TypeInv, NEW c \in Contents, GcOpen(c)
    PROVE  /\ ProcsStay /\ UNCHANGED <<object, deaths, sweeps>>
           /\ gc.pc = "apply" /\ c \in gc.victims
           /\ \/ /\ gc' \in Unlinking /\ gc'.pc = "delete"
                 /\ gc'.victims = gc.victims \ {c} /\ gc'.victim = c
                 /\ gc'.files = object[c].files
              \/ gc' \in Applying /\ gc'.pc = "apply" /\ gc'.victims = gc.victims \ {c}
<1>1. gc.pc = "apply" /\ c \in gc.victims /\ gc \in Applying
  BY GcPhases DEF GcOpen
<1>2. CASE object[c].exists
  <2>1. gc' = [pc |-> "delete", victims |-> gc.victims \ {c}, victim |-> c, files |-> object[c].files]
    BY <1>2 DEF GcOpen
  <2>2. object[c].files \in SUBSET Files
    BY DEF TypeInv
  <2>3. gc' \in Unlinking
    BY <1>1, <2>1, <2>2 DEF Unlinking, Applying
  <2>. QED
    BY <1>1, <2>1, <2>3 DEF GcOpen, ProcsStay, store, procs
<1>3. CASE ~object[c].exists
  <2>1. gc' = [gc EXCEPT !.victims = gc.victims \ {c}]
    BY <1>3 DEF GcOpen
  <2>2. gc' \in Applying /\ gc'.pc = "apply" /\ gc'.victims = gc.victims \ {c}
    BY <1>1, <2>1 DEF Applying
  <2>. QED
    BY <1>1, <2>2 DEF GcOpen, ProcsStay, store, procs
<1>. QED
  BY <1>2, <1>3

LEMMA GcUnlinkEffect ==
    ASSUME TypeInv, NEW f \in Files, GcUnlink(f)
    PROVE  /\ ProcsStay /\ UNCHANGED <<deaths, sweeps>>
           /\ gc.pc = "delete" /\ f \in gc.files
           /\ \/ /\ f \in object[gc.victim].files
                 /\ gc' \in Unlinking /\ gc'.pc = "delete" /\ gc'.victims = gc.victims
                 /\ gc'.victim = gc.victim /\ gc'.files = gc.files \ {f}
                 /\ object' = [object EXCEPT ![gc.victim].files = object[gc.victim].files \ {f}]
              \/ /\ f \notin object[gc.victim].files
                 /\ gc' = GcIdle /\ gc'.pc = "idle"
                 /\ object' = object
<1>1. gc.pc = "delete" /\ f \in gc.files /\ gc \in Unlinking
  BY GcPhases DEF GcUnlink
<1>2. CASE f \in object[gc.victim].files
  <2>1. /\ gc' = [gc EXCEPT !.files = gc.files \ {f}]
        /\ object' = [object EXCEPT ![gc.victim].files = object[gc.victim].files \ {f}]
    BY <1>2 DEF GcUnlink
  <2>2. /\ gc' \in Unlinking /\ gc'.pc = "delete" /\ gc'.victims = gc.victims
        /\ gc'.victim = gc.victim /\ gc'.files = gc.files \ {f}
    BY <1>1, <2>1 DEF Unlinking
  <2>. QED
    BY <1>1, <1>2, <2>1, <2>2 DEF GcUnlink, ProcsStay, procs
<1>3. CASE f \notin object[gc.victim].files
  BY <1>1, <1>3 DEF GcUnlink, ProcsStay, procs, GcIdle
<1>. QED
  BY <1>2, <1>3

LEMMA GcRemoveDirectoryEffect ==
    ASSUME TypeInv, GcRemoveDirectory
    PROVE  /\ ProcsStay /\ UNCHANGED <<deaths, sweeps>>
           /\ gc.pc = "delete" /\ gc.files = {}
           /\ \/ /\ object[gc.victim].files = {}
                 /\ gc' \in Applying /\ gc'.pc = "apply" /\ gc'.victims = gc.victims
                 /\ object' = [object EXCEPT ![gc.victim] = NoObject]
              \/ /\ object[gc.victim].files # {}
                 /\ gc' = GcIdle /\ gc'.pc = "idle"
                 /\ object' = object
<1>1. gc.pc = "delete" /\ gc.files = {} /\ gc \in Unlinking /\ gc.victims \in SUBSET Contents
  BY GcPhases DEF GcRemoveDirectory
<1>2. CASE object[gc.victim].files = {}
  <2>1. gc' = [pc |-> "apply", victims |-> gc.victims] /\ object' = [object EXCEPT ![gc.victim] = NoObject]
    BY <1>2 DEF GcRemoveDirectory
  <2>2. gc' \in Applying /\ gc'.pc = "apply" /\ gc'.victims = gc.victims
    BY <1>1, <2>1 DEF Applying
  <2>. QED
    BY <1>1, <1>2, <2>1, <2>2 DEF GcRemoveDirectory, ProcsStay, procs
<1>3. CASE object[gc.victim].files # {}
  BY <1>1, <1>3 DEF GcRemoveDirectory, ProcsStay, procs, GcIdle
<1>. QED
  BY <1>2, <1>3

LEMMA GcStops ==
    ASSUME GcEnd \/ GcDie
    PROVE  /\ ProcsStay /\ UNCHANGED <<object, sweeps>>
           /\ deaths' = deaths \/ deaths' = deaths + 1
           /\ gc' = GcIdle /\ gc'.pc = "idle"
  BY DEF GcEnd, GcDie, ProcsStay, store, procs, GcIdle

LEMMA TickEffect ==
    ASSUME Tick
    PROVE  /\ \A p \in Procs : InBatch(p) => clock - since[p] < MaxFlight
           /\ gc.pc = "mark" => clock - gc.at < MaxScan
           /\ clock' = clock + 1
           /\ UNCHANGED <<object, stamp, aged, evidence, retired, job, held, since, gc, deaths, sweeps>>
  BY DEF Tick, store, procs

LEMMA AgedTyped ==
    ASSUME TypeInv, NEW c \in Contents, NEW now, Adopt(c, now)
    PROVE  aged \subseteq aged' /\ aged' \subseteq aged \cup {c} /\ aged' \subseteq Contents
  BY DEF Adopt, TypeInv

-----------------------------------------------------------------------------
(***************************************************************************)
(* Types.                                                                  *)
(***************************************************************************)

LEMMA ObjectUnlinked ==
    ASSUME TypeInv, NEW c \in Contents, NEW F \in SUBSET Files,
           object' = [object EXCEPT ![c].files = F]
    PROVE  /\ object' \in [Contents -> [exists : BOOLEAN, files : SUBSET Files]]
           /\ object'[c].files = F /\ object'[c].exists = object[c].exists
           /\ \A d \in Contents \ {c} : object'[d] = object[d]
<1>1. object[c] \in [exists : BOOLEAN, files : SUBSET Files]
  BY DEF TypeInv
<1>2. object' = [object EXCEPT ![c] = [object[c] EXCEPT !.files = F]]
  OBVIOUS
<1>3. [object[c] EXCEPT !.files = F] \in [exists : BOOLEAN, files : SUBSET Files]
  BY <1>1
<1>. QED
  BY <1>1, <1>2, <1>3 DEF TypeInv

LEMMA ObjectReplaced ==
    ASSUME TypeInv, NEW c \in Contents, NEW o \in [exists : BOOLEAN, files : SUBSET Files],
           object' = [object EXCEPT ![c] = o]
    PROVE  /\ object' \in [Contents -> [exists : BOOLEAN, files : SUBSET Files]]
           /\ object'[c] = o
           /\ \A d \in Contents \ {c} : object'[d] = object[d]
  BY DEF TypeInv

\* One file of the victim is unlinked.
LEMMA VictimUnlinked ==
    ASSUME TypeInv, NEW f \in Files, GcUnlink(f)
    PROVE  /\ object' \in [Contents -> [exists : BOOLEAN, files : SUBSET Files]]
           /\ gc.victim \in Contents
           /\ object'[gc.victim].exists = object[gc.victim].exists
           /\ object'[gc.victim].files \subseteq object[gc.victim].files
           /\ \A d \in Contents \ {gc.victim} : object'[d] = object[d]
<1>1. gc.victim \in Contents
  BY GcUnlinkEffect, GcPhases
<1>2. CASE object' = object
  BY <1>1, <1>2 DEF TypeInv
<1>3. CASE object' = [object EXCEPT ![gc.victim].files = object[gc.victim].files \ {f}]
  <2>1. PICK v \in Contents : v = gc.victim
    BY <1>1
  <2>2. PICK F \in SUBSET Files : F = object[v].files \ {f}
    BY <2>1 DEF TypeInv
  <2>3. object' = [object EXCEPT ![v].files = F]
    BY <1>3, <2>1, <2>2
  <2>4. /\ object' \in [Contents -> [exists : BOOLEAN, files : SUBSET Files]]
        /\ object'[v].files = F /\ object'[v].exists = object[v].exists
        /\ \A d \in Contents \ {v} : object'[d] = object[d]
    BY <2>3, ObjectUnlinked
  <2>. QED
    BY <2>1, <2>2, <2>4
<1>. QED
  BY <1>2, <1>3, GcUnlinkEffect

LEMMA TypeInit == Init => TypeInv
<1> SUFFICES ASSUME Init PROVE TypeInv
  OBVIOUS
<1>1. object \in [Contents -> [exists : BOOLEAN, files : SUBSET Files]]
  BY DEF Init, NoObject
<1>2. job \in [Procs -> {Idle} \cup Jobs] /\ gc \in {GcIdle} \cup Listing \cup Applying \cup Unlinking
  BY DEF Init
<1>3. /\ stamp \in [Contents -> Nat] /\ since \in [Procs -> Nat]
      /\ held \in [Procs -> SUBSET Contents]
      /\ clock \in Nat /\ deaths \in Nat /\ sweeps \in Nat
      /\ aged \subseteq Contents /\ evidence \subseteq Contents /\ retired \subseteq Contents
  BY DEF Init
<1>. QED
  BY <1>1, <1>2, <1>3 DEF TypeInv

LEMMA TypeInductive ==
    ASSUME TypeInv, [Next]_vars
    PROVE  TypeInv'
<1> USE DEF TypeInv, StoreStays
<1>1. ASSUME NEW p \in Procs, Raise(p) PROVE TypeInv'
  BY <1>1, RaiseEffect DEF Rests, Drops
<1>2. ASSUME NEW p \in Procs, NEW c \in Contents, BeginWrite(p, c) PROVE TypeInv'
  BY <1>2, BeginWriteEffect, OpenBatchEffect DEF Begins
<1>3. ASSUME NEW p \in Procs, NEW c \in Contents, BeginImport(p, c) PROVE TypeInv'
  BY <1>3, BeginImportEffect, OpenBatchEffect, AgedTyped DEF Begins
<1>4. ASSUME NEW p \in Procs, WriteLease(p) PROVE TypeInv'
  BY <1>1, <1>4, WriteLeaseEffect DEF Goes
<1>5. ASSUME NEW p \in Procs, Stage(p) PROVE TypeInv'
  BY <1>1, <1>5, StageEffect DEF Goes
<1>6. ASSUME NEW p \in Procs, Check(p) PROVE TypeInv'
  <2>1. Content(p) \in Contents
    BY <1>6, CheckEffect, BusyFields DEF At, Content
  <2>. QED
    BY <1>6, <2>1, CheckEffect, AgedTyped DEF Goes
<1>7. ASSUME NEW p \in Procs, Publish(p) PROVE TypeInv'
  <2>1. CASE Raise(p)
    BY <1>1, <2>1
  <2>2. CASE ~Raise(p)
    <3>1. /\ Goes(p, "published") /\ Content(p) \in Contents /\ job[p].time \in Nat
          /\ object' = [object EXCEPT ![Content(p)] = [exists |-> TRUE, files |-> Files]]
          /\ stamp' = [stamp EXCEPT ![Content(p)] = job[p].time]
          /\ aged' \subseteq aged \cup {Content(p)}
          /\ UNCHANGED <<evidence, retired, held, since, gc, clock, deaths, sweeps>>
      BY <1>7, <2>2, PublishEffect
    <3>2. object' \in [Contents -> [exists : BOOLEAN, files : SUBSET Files]]
      BY <3>1, ObjectReplaced
    <3>3. stamp' \in [Contents -> Nat]
      BY <3>1
    <3>4. job' \in [Procs -> {Idle} \cup Jobs]
      BY <3>1 DEF Goes
    <3>. QED
      BY <3>1, <3>2, <3>3, <3>4
  <2>. QED
    BY <2>1, <2>2
<1>8. ASSUME NEW p \in Procs, Remember(p) PROVE TypeInv'
  BY <1>1, <1>8, RememberEffect DEF Rests
<1>9. ASSUME NEW p \in Procs, Refer(p) PROVE TypeInv'
  BY <1>9, ReferEffect DEF Drops
<1>10. ASSUME NEW p \in Procs, NEW c \in Contents, Retire(p, c) PROVE TypeInv'
  <2>1. NoObject \in [exists : BOOLEAN, files : SUBSET Files]
    BY DEF NoObject
  <2>2. CASE Raise(p)
    BY <1>1, <2>2
  <2>3. CASE ~Raise(p)
    <3>1. /\ Begins(p, "removing", c)
          /\ object' = [object EXCEPT ![c] = NoObject] /\ retired' = retired \cup {c}
          /\ UNCHANGED <<stamp, aged, evidence, held, since, gc, clock, deaths, sweeps>>
      BY <1>10, <2>3, RetireEffect
    <3>2. object' \in [Contents -> [exists : BOOLEAN, files : SUBSET Files]]
      BY <2>1, <3>1, ObjectReplaced
    <3>3. job' \in [Procs -> {Idle} \cup Jobs]
      BY <3>1 DEF Begins
    <3>. QED
      BY <3>1, <3>2, <3>3
  <2>. QED
    BY <2>2, <2>3
<1>11. ASSUME NEW p \in Procs, Remove(p) PROVE TypeInv'
  BY <1>11, RemoveEffect DEF Rests
<1>12. ASSUME NEW p \in Procs, Die(p) PROVE TypeInv'
  BY <1>12, DieEffect DEF Rests, Drops
<1>13. ASSUME GcList PROVE TypeInv'
  BY <1>13, GcListEffect DEF ProcsStay
<1>14. ASSUME GcMark PROVE TypeInv'
  BY <1>14, GcMarkEffect DEF ProcsStay
<1>15. ASSUME NEW c \in Contents, GcOpen(c) PROVE TypeInv'
  BY <1>15, GcOpenEffect DEF ProcsStay
<1>16. ASSUME NEW f \in Files, GcUnlink(f) PROVE TypeInv'
  <2>1. object' \in [Contents -> [exists : BOOLEAN, files : SUBSET Files]]
    BY <1>16, VictimUnlinked
  <2>2. gc' \in {GcIdle} \cup Listing \cup Applying \cup Unlinking
    BY <1>16, GcUnlinkEffect
  <2>. QED
    BY <1>16, <2>1, <2>2, GcUnlinkEffect DEF ProcsStay
<1>17. ASSUME GcRemoveDirectory PROVE TypeInv'
  <2>1. NoObject \in [exists : BOOLEAN, files : SUBSET Files]
    BY DEF NoObject
  <2>2. object' \in [Contents -> [exists : BOOLEAN, files : SUBSET Files]]
    BY <1>17, <2>1, GcRemoveDirectoryEffect
  <2>. QED
    BY <1>17, <2>2, GcRemoveDirectoryEffect DEF ProcsStay
<1>18. ASSUME GcEnd \/ GcDie PROVE TypeInv'
  BY <1>18, GcStops DEF ProcsStay
<1>19. ASSUME CleanupAbandoned(MinAge) PROVE TypeInv'
  BY <1>19, CleanupEffect
<1>20. ASSUME Tick PROVE TypeInv'
  BY <1>20, TickEffect
<1>21. ASSUME UNCHANGED vars PROVE TypeInv'
  BY <1>21 DEF vars, store, procs
<1>. QED
  BY StoreStepCases, <1>2, <1>3, <1>4, <1>5, <1>6, <1>7, <1>8, <1>9, <1>10, <1>11, <1>12, <1>13,
     <1>14, <1>15, <1>16, <1>17, <1>18, <1>19, <1>20, <1>21

-----------------------------------------------------------------------------
(***************************************************************************)
(* The objects: what a step does to them.                                  *)
(***************************************************************************)

ObjectInv == \A c \in Contents : object[c].files # {} => object[c].exists

Publishes(p) ==
    /\ Content(p) \in Contents /\ object[Content(p)].files = {}
    /\ object' = [object EXCEPT ![Content(p)] = [exists |-> TRUE, files |-> Files]]
    /\ aged' = IF Unnoticed(Content(p), job[p].time, job[p].born)
               THEN aged \cup {Content(p)} ELSE aged \ {Content(p)}
    /\ UNCHANGED <<gc, deaths, sweeps>>

\* Only a publication, a retirement and the collector change objects; only a
\* publication makes a content one that the collector may know of again.
LEMMA ObjectSteps ==
    ASSUME TypeInv, [Next]_vars
    PROVE  \/ \E p \in Procs : Publishes(p)
           \/ /\ \E c \in Contents : object' = [object EXCEPT ![c] = NoObject]
              /\ UNCHANGED <<aged, gc, deaths, sweeps>>
           \/ GcList \/ GcMark \/ GcRemoveDirectory \/ GcEnd \/ GcDie
           \/ \E c \in Contents : GcOpen(c)
           \/ \E f \in Files : GcUnlink(f)
           \/ /\ UNCHANGED <<object, gc, sweeps>> /\ aged \subseteq aged'
              /\ deaths' = deaths \/ deaths' = deaths + 1
<1> DEFINE Calm == /\ UNCHANGED <<object, gc, sweeps>> /\ aged \subseteq aged'
                   /\ deaths' = deaths \/ deaths' = deaths + 1
           Change == \/ \E p \in Procs : Publishes(p)
                     \/ /\ \E c \in Contents : object' = [object EXCEPT ![c] = NoObject]
                        /\ UNCHANGED <<aged, gc, deaths, sweeps>>
                     \/ Calm
<1> USE DEF StoreStays
<1>1. ASSUME NEW p \in Procs, Raise(p) PROVE Calm
  BY <1>1, RaiseEffect
<1>2. ASSUME NEW p \in Procs, NEW c \in Contents, BeginWrite(p, c) PROVE Calm
  BY <1>2, BeginWriteEffect
<1>3. ASSUME NEW p \in Procs, NEW c \in Contents, BeginImport(p, c) PROVE Calm
  BY <1>3, BeginImportEffect, AgedTyped
<1>4. ASSUME NEW p \in Procs, WriteLease(p) PROVE Calm
  BY <1>1, <1>4, WriteLeaseEffect
<1>5. ASSUME NEW p \in Procs, Stage(p) PROVE Calm
  BY <1>1, <1>5, StageEffect
<1>6. ASSUME NEW p \in Procs, Check(p) PROVE Calm
  <2>1. Content(p) \in Contents
    BY <1>6, CheckEffect, BusyFields DEF At, Content
  <2>. QED
    BY <1>6, <2>1, CheckEffect, AgedTyped
<1>7. ASSUME NEW p \in Procs, Publish(p) PROVE Change
  BY <1>1, <1>7, PublishEffect DEF Publishes
<1>8. ASSUME NEW p \in Procs, Remember(p) PROVE Calm
  BY <1>1, <1>8, RememberEffect
<1>9. ASSUME NEW p \in Procs, Refer(p) PROVE Calm
  BY <1>9, ReferEffect
<1>10. ASSUME NEW p \in Procs, NEW c \in Contents, Retire(p, c) PROVE Change
  BY <1>1, <1>10, RetireEffect
<1>11. ASSUME NEW p \in Procs, Remove(p) PROVE Calm
  BY <1>11, RemoveEffect
<1>12. ASSUME NEW p \in Procs, Die(p) PROVE Calm
  BY <1>12, DieEffect
<1>19. ASSUME CleanupAbandoned(MinAge) PROVE Calm
  BY <1>19, CleanupEffect
<1>20. ASSUME Tick PROVE Calm
  BY <1>20, TickEffect
<1>21. ASSUME UNCHANGED vars PROVE Calm
  BY <1>21 DEF vars, store, procs
<1> HIDE DEF Calm
<1>22. \/ Change \/ GcList \/ GcMark \/ GcRemoveDirectory \/ GcEnd \/ GcDie
       \/ \E c \in Contents : GcOpen(c)
       \/ \E f \in Files : GcUnlink(f)
  BY StoreStepCases, <1>2, <1>3, <1>4, <1>5, <1>6, <1>7, <1>8, <1>9, <1>10, <1>11, <1>12,
     <1>19, <1>20, <1>21
<1>. QED
  BY <1>22 DEF Calm

LEMMA ObjectInductive ==
    ASSUME TypeInv, ObjectInv, [Next]_vars
    PROVE  ObjectInv'
<1> USE DEF ObjectInv
<1>1. ASSUME UNCHANGED object PROVE ObjectInv'
  BY <1>1
<1>2. ASSUME NEW p \in Procs, Publishes(p) PROVE ObjectInv'
  BY <1>2 DEF Publishes, TypeInv
<1>3. ASSUME NEW c \in Contents, object' = [object EXCEPT ![c] = NoObject] PROVE ObjectInv'
  BY <1>3 DEF TypeInv, NoObject
<1>4. ASSUME NEW f \in Files, GcUnlink(f) PROVE ObjectInv'
  BY <1>4, VictimUnlinked
<1>5. ASSUME GcRemoveDirectory PROVE ObjectInv'
  BY <1>1, <1>3, <1>5, GcRemoveDirectoryEffect, GcPhases
<1>. QED
  BY <1>1, <1>2, <1>3, <1>4, <1>5, ObjectSteps, GcListEffect, GcMarkEffect, GcOpenEffect, GcStops

\* Without a collector, a visible object is whole.
Uncollected ==
    /\ TypeInv /\ gc.pc = "idle" /\ sweeps = 0
    /\ VisibleIsWhole

LEMMA UncollectedInductive ==
    ASSUME MaxSweeps = 0, Uncollected, [Next]_vars
    PROVE  Uncollected'
<1>1. TypeInv'
  BY TypeInductive DEF Uncollected
<1>2. ~GcList
  BY GcListEffect DEF Uncollected
<1>3. gc' = gc /\ sweeps' = sweeps /\ ~GcRemoveDirectory /\ \A f \in Files : ~GcUnlink(f)
  BY <1>2, ObjectSteps DEF Uncollected, Publishes, GcMark, GcRemoveDirectory, GcEnd, GcDie,
     GcOpen, GcUnlink
<1>4. VisibleIsWhole'
  <2> USE DEF Uncollected, VisibleIsWhole, Whole
  <2>1. ASSUME UNCHANGED object PROVE VisibleIsWhole'
    BY <2>1
  <2>2. ASSUME NEW p \in Procs, Publishes(p) PROVE VisibleIsWhole'
    BY <2>2 DEF Publishes, TypeInv
  <2>3. ASSUME NEW c \in Contents, object' = [object EXCEPT ![c] = NoObject] PROVE VisibleIsWhole'
    BY <2>3 DEF TypeInv, NoObject
  <2>. QED
    BY <1>2, <1>3, <2>1, <2>2, <2>3, ObjectSteps, GcMarkEffect, GcOpenEffect, GcStops
<1>. QED
  BY <1>1, <1>3, <1>4 DEF Uncollected

\* In a store that no collector is run on, a commit is atomic: whatever any
\* number of writers of the same content, retirements, cleanups and deaths do, a
\* directory at a destination path is complete (artifacts.py, commit).
THEOREM VisibleObjectsAreWhole ==
    ASSUME MaxSweeps = 0
    PROVE  Spec => []VisibleIsWhole
<1>1. Init => Uncollected
  BY TypeInit DEF Init, Uncollected, VisibleIsWhole, NoObject, GcIdle
<1>2. Uncollected /\ [Next]_vars => Uncollected'
  BY UncollectedInductive
<1>3. Uncollected => VisibleIsWhole
  BY DEF Uncollected
<1>. QED
  BY <1>1, <1>2, <1>3, PTL DEF Spec

-----------------------------------------------------------------------------
(***************************************************************************)
(* The collector by itself: what it has begun, it ends.                    *)
(***************************************************************************)

\* An object that is not whole is the one that is being deleted, and what the
\* collector still has to unlink is what there is left of it.
PartsInv ==
    deaths = 0 =>
        \A c \in Contents \ aged : object[c].exists =>
            IF c \in Deleting THEN object[c].files = gc.files ELSE Whole(c)

LEMMA PartsInductive ==
    ASSUME TypeInv, PartsInv, [Next]_vars
    PROVE  PartsInv'
<1> SUFFICES ASSUME deaths' = 0, NEW c \in Contents, c \notin aged', object'[c].exists
             PROVE  IF c \in Deleting' THEN object'[c].files = gc'.files ELSE Whole(c)'
  BY DEF PartsInv
<1>1. deaths = 0
  <2>1. deaths' = deaths \/ deaths' = deaths + 1
    BY ObjectSteps, GcListEffect, GcMarkEffect, GcOpenEffect, GcUnlinkEffect,
       GcRemoveDirectoryEffect, GcStops DEF Publishes
  <2>. QED
    BY <2>1 DEF TypeInv
<1>2. c \notin aged /\ object[c].exists =>
          IF c \in Deleting THEN object[c].files = gc.files ELSE Whole(c)
  BY <1>1 DEF PartsInv
<1>3. ASSUME UNCHANGED <<object, gc>>, aged \subseteq aged'
      PROVE  IF c \in Deleting' THEN object'[c].files = gc'.files ELSE Whole(c)'
  BY <1>2, <1>3 DEF Deleting, Whole
<1>4. ASSUME NEW p \in Procs, Publishes(p)
      PROVE  IF c \in Deleting' THEN object'[c].files = gc'.files ELSE Whole(c)'
  <2>1. CASE c = Content(p)
    <3>1. ~Unnoticed(c, job[p].time, job[p].born)
      BY <1>4, <2>1 DEF Publishes
    <3>2. c \notin Deleting'
      BY <1>4, <3>1 DEF Unnoticed, Publishes, Deleting
    <3>3. Whole(c)'
      BY <1>4, <2>1 DEF Publishes, Whole, TypeInv
    <3>. QED
      BY <3>2, <3>3
  <2>2. CASE c # Content(p)
    <3>1. object'[c] = object[c] /\ gc' = gc /\ c \notin aged
      BY <1>4, <2>2 DEF Publishes, TypeInv
    <3>. QED
      BY <1>2, <3>1 DEF Deleting, Whole
  <2>. QED
    BY <2>1, <2>2
<1>5. ASSUME NEW d \in Contents, object' = [object EXCEPT ![d] = NoObject], UNCHANGED <<aged, gc>>
      PROVE  IF c \in Deleting' THEN object'[c].files = gc'.files ELSE Whole(c)'
  <2>1. c # d /\ object'[c] = object[c]
    BY <1>5 DEF TypeInv, NoObject
  <2>. QED
    BY <1>2, <1>5, <2>1 DEF Deleting, Whole
<1>6. ASSUME UNCHANGED <<object, aged>>, gc.pc # "delete", gc'.pc # "delete"
      PROVE  IF c \in Deleting' THEN object'[c].files = gc'.files ELSE Whole(c)'
  BY <1>2, <1>6 DEF Deleting, Whole
<1>7. ASSUME NEW d \in Contents, GcOpen(d)
      PROVE  IF c \in Deleting' THEN object'[c].files = gc'.files ELSE Whole(c)'
  <2>1. Whole(c) /\ UNCHANGED <<object, aged>>
    BY <1>2, <1>7, GcOpenEffect DEF Deleting, ProcsStay
  <2>. QED
    BY <1>7, <2>1, GcOpenEffect DEF Deleting, Whole
<1>8. ASSUME NEW f \in Files, GcUnlink(f)
      PROVE  IF c \in Deleting' THEN object'[c].files = gc'.files ELSE Whole(c)'
  <2>1. gc.pc = "delete" /\ f \in gc.files /\ UNCHANGED aged
    BY <1>8, GcUnlinkEffect DEF ProcsStay
  <2>2. CASE c = gc.victim
    <3>1. object'[c].exists = object[c].exists
      BY <1>8, <2>2, VictimUnlinked
    <3>2. object[c].files = gc.files
      BY <1>2, <2>1, <2>2, <3>1 DEF Deleting
    <3>3. /\ gc'.pc = "delete" /\ gc'.victim = gc.victim /\ gc'.files = gc.files \ {f}
          /\ object' = [object EXCEPT ![gc.victim].files = object[gc.victim].files \ {f}]
      BY <1>8, <2>1, <2>2, <3>2, GcUnlinkEffect
    <3>4. object'[c].files = gc'.files
      BY <2>2, <3>2, <3>3 DEF TypeInv
    <3>. QED
      BY <2>2, <3>3, <3>4 DEF Deleting
  <2>3. CASE c # gc.victim
    <3>1. object'[c] = object[c]
      BY <1>8, <2>3, GcUnlinkEffect DEF TypeInv
    <3>2. Whole(c)
      BY <1>2, <2>1, <2>3, <3>1 DEF Deleting
    <3>3. c \notin Deleting'
      BY <1>8, <2>3, GcUnlinkEffect DEF Deleting
    <3>. QED
      BY <3>1, <3>2, <3>3 DEF Whole
  <2>. QED
    BY <2>2, <2>3
<1>9. ASSUME GcRemoveDirectory
      PROVE  IF c \in Deleting' THEN object'[c].files = gc'.files ELSE Whole(c)'
  <2>1. gc.pc = "delete" /\ gc.files = {} /\ UNCHANGED aged /\ c \notin Deleting'
    BY <1>9, GcRemoveDirectoryEffect DEF ProcsStay, Deleting
  <2>2. c # gc.victim /\ object'[c] = object[c]
    <3>1. CASE /\ object[gc.victim].files = {}
               /\ object' = [object EXCEPT ![gc.victim] = NoObject]
      BY <3>1 DEF TypeInv, NoObject
    <3>2. CASE object[gc.victim].files # {} /\ object' = object
      <4>1. c # gc.victim
        BY <1>2, <2>1, <3>2 DEF Deleting
      <4>. QED
        BY <3>2, <4>1
    <3>. QED
      BY <1>9, <3>1, <3>2, GcRemoveDirectoryEffect
  <2>3. Whole(c)
    BY <1>2, <2>1, <2>2 DEF Deleting
  <2>. QED
    BY <2>1, <2>2, <2>3 DEF Whole
<1>10. ASSUME GcEnd
       PROVE  IF c \in Deleting' THEN object'[c].files = gc'.files ELSE Whole(c)'
  BY <1>6, <1>10, GcStops DEF GcEnd, ProcsStay
<1>11. ~GcDie
  BY <1>1 DEF GcDie, TypeInv
<1>12. ASSUME GcList \/ GcMark
       PROVE  IF c \in Deleting' THEN object'[c].files = gc'.files ELSE Whole(c)'
  BY <1>6, <1>12, GcListEffect, GcMarkEffect DEF ProcsStay
<1>. QED
  BY <1>3, <1>4, <1>5, <1>7, <1>8, <1>9, <1>10, <1>11, <1>12, ObjectSteps

\* The collector takes nothing by halves: unless a process has died, what is left
\* in part is the object it is just deleting (artifact_gc.py, _delete_artifact_directory).
THEOREM DeletionIsComplete == Spec => []SweepLeavesNoParts
<1>1. Init => TypeInv /\ PartsInv
  BY TypeInit DEF Init, PartsInv, NoObject
<1>2. TypeInv /\ PartsInv /\ [Next]_vars => TypeInv' /\ PartsInv'
  BY TypeInductive, PartsInductive
<1>3. PartsInv => SweepLeavesNoParts
  BY DEF PartsInv, SweepLeavesNoParts, Deleting
<1>. QED
  BY <1>1, <1>2, <1>3, PTL DEF Spec

-----------------------------------------------------------------------------
(***************************************************************************)
(* What a set of contents leads to.                                        *)
(***************************************************************************)

\* Reach is the least closed set that holds the roots.
LEMMA ReachIsLeast ==
    ASSUME NEW E, NEW P \in SUBSET Contents
    PROVE  /\ Reach(E, P) \subseteq P
           /\ E \cap P \subseteq Reach(E, P)
           /\ \A d \in Reach(E, P) : Refs[d] \cap P \subseteq Reach(E, P)
           /\ \A S \in SUBSET P : LeadsTo(E, P, S) => Reach(E, P) \subseteq S
  BY DEF Reach, LeadsTo

Closed(K) == \A c \in K : Refs[c] \subseteq K

\* What a closed set adds to the roots, or to what is there, it adds to the reach.
LEMMA ReachGrows ==
    ASSUME NEW E, NEW P \in SUBSET Contents, NEW F, NEW Q \in SUBSET Contents,
           NEW K \in SUBSET Contents, Closed(K), F \subseteq E \cup K, Q \subseteq P \cup K
    PROVE  Reach(F, Q) \subseteq Reach(E, P) \cup K
<1> DEFINE S == (Reach(E, P) \cup K) \cap Q
<1>1. F \cap Q \subseteq S
  BY ReachIsLeast
<1>2. \A d \in S : Refs[d] \cap Q \subseteq S
  <2> SUFFICES ASSUME NEW d \in S, NEW r \in Refs[d] \cap Q PROVE r \in Reach(E, P) \cup K
    OBVIOUS
  <2>1. CASE d \in K
    BY <2>1 DEF Closed
  <2>2. CASE d \notin K
    BY <2>2, ReachIsLeast
  <2>. QED
    BY <2>1, <2>2
<1>3. S \in SUBSET Q /\ LeadsTo(F, Q, S)
  BY <1>1, <1>2 DEF LeadsTo
<1>4. Reach(F, Q) \subseteq S
  BY <1>3, ReachIsLeast
<1>. QED
  BY <1>4

LEMMA ReachMonotone ==
    ASSUME NEW E, NEW P \in SUBSET Contents, NEW F, NEW Q \in SUBSET Contents,
           F \subseteq E, Q \subseteq P
    PROVE  Reach(F, Q) \subseteq Reach(E, P)
<1>1. Closed({})
  BY DEF Closed
<1>2. Reach(F, Q) \subseteq Reach(E, P) \cup {}
  BY <1>1, ReachGrows
<1>. QED
  BY <1>2

\* What is reached depends on no more than what is reached being there.
LEMMA ReachWithin ==
    ASSUME NEW E, NEW P \in SUBSET Contents, NEW Q \in SUBSET Contents, Reach(E, P) \subseteq Q
    PROVE  Reach(E, P) \subseteq Reach(E, Q)
<1> DEFINE S == Reach(E, P) \cap Reach(E, Q)
<1>1. E \cap P \subseteq S
  BY ReachIsLeast
<1>2. \A d \in S : Refs[d] \cap P \subseteq S
  BY ReachIsLeast
<1>3. S \in SUBSET P /\ LeadsTo(E, P, S)
  BY <1>1, <1>2, ReachIsLeast DEF LeadsTo
<1>. QED
  BY <1>3, ReachIsLeast

-----------------------------------------------------------------------------
(***************************************************************************)
(* Batches: a process commits what a content refers to before the content, *)
(* and takes no longer than a flight.                                      *)
(***************************************************************************)

BatchOf(p) ==
    /\ \A c \in held[p] : p \in Makers[c]
    /\ Closed(held[p])
    /\ job[p].pc = "removing" => held[p] = {}
    /\ InBatch(p) => since[p] <= clock /\ clock <= since[p] + MaxFlight
    /\ job[p].pc \notin {"idle", "removing"} =>
           /\ p \in Makers[Content(p)]
           /\ Refs[Content(p)] \subseteq held[p]
           /\ since[p] <= job[p].born

BatchInv == \A p \in Procs : BatchOf(p)

\* A process that does nothing now keeps its batch.
LEMMA OthersKeepBatches ==
    ASSUME NEW q, BatchOf(q), job'[q] = job[q], held'[q] = held[q], since'[q] = since[q],
           clock' = clock
    PROVE  BatchOf(q)'
  BY DEF BatchOf, InBatch, Content

LEMMA EmptyBatch ==
    ASSUME NEW q, held'[q] = {}, job'[q].pc \in {"idle", "removing"}
    PROVE  BatchOf(q)'
  BY DEF BatchOf, Closed, InBatch

\* What a call is about changes neither as it goes on nor when its directory goes.
LEMMA BatchGoesOn ==
    ASSUME NEW q, BatchOf(q), job[q].pc \notin {"idle", "removing"},
           job'[q].pc \notin {"idle", "removing"},
           job'[q].content = job[q].content, job'[q].born = job[q].born,
           held'[q] = held[q], since'[q] = since[q], clock' = clock
    PROVE  BatchOf(q)'
  BY DEF BatchOf, InBatch, Content

\* A call begins: the batch goes on, or starts now.
LEMMA BatchBegins ==
    ASSUME TypeInv, NEW p \in Procs, BatchOf(p), NEW c \in Contents, MayMake(p, c), OpenBatch(p),
           job'[p].pc \in {"opened", "staged", "published"}, job'[p].content = c,
           job'[p].born = clock, held' = held, clock' = clock
    PROVE  BatchOf(p)'
<1>1. since'[p] = IF held[p] = {} THEN clock ELSE since[p]
  BY OpenBatchEffect
<1>2. clock \in Nat /\ MaxFlight \in Nat /\ since[p] \in Nat
  BY Constants DEF TypeInv
<1>3. p \in Makers[c] /\ Refs[c] \subseteq held[p]
  BY DEF MayMake
<1>4. since'[p] <= clock /\ clock <= since'[p] + MaxFlight
  BY <1>1, <1>2 DEF BatchOf, InBatch
<1>. QED
  BY <1>3, <1>4 DEF BatchOf, Content

LEMMA BatchInductive ==
    ASSUME TypeInv, BatchInv, [Next]_vars
    PROVE  BatchInv'
<1> SUFFICES ASSUME NEW q \in Procs PROVE BatchOf(q)'
  BY DEF BatchInv
<1> USE DEF StoreStays
<1>0. BatchOf(q)
  BY DEF BatchInv
<1>1. ASSUME NEW p \in Procs, Raise(p) PROVE BatchOf(q)'
  <2>1. CASE q = p
    BY <1>1, <2>1, RaiseEffect, EmptyBatch DEF Rests, Drops
  <2>2. CASE q # p
    BY <1>0, <1>1, <2>2, RaiseEffect, OthersKeepBatches DEF Rests, Drops
  <2>. QED
    BY <2>1, <2>2
<1>2. ASSUME NEW p \in Procs, NEW c \in Contents, MayMake(p, c), OpenBatch(p),
             NEW pc \in {"opened", "staged", "published"}, Begins(p, pc, c), UNCHANGED <<held, clock>>
      PROVE  BatchOf(q)'
  <2>1. CASE q = p
    BY <1>0, <1>2, <2>1, BatchBegins DEF Begins
  <2>2. CASE q # p
    BY <1>0, <1>2, <2>2, OpenBatchEffect, OthersKeepBatches DEF Begins
  <2>. QED
    BY <2>1, <2>2
<1>3. ASSUME NEW p \in Procs, job[p].pc \notin {"idle", "removing"},
             NEW pc \in {"writing", "staged", "publish", "published"}, Goes(p, pc),
             UNCHANGED <<held, since, clock>>
      PROVE  BatchOf(q)'
  <2>1. CASE q = p
    BY <1>0, <1>3, <2>1, BatchGoesOn DEF Goes
  <2>2. CASE q # p
    BY <1>0, <1>3, <2>2, OthersKeepBatches DEF Goes
  <2>. QED
    BY <2>1, <2>2
<1>4. ASSUME NEW p \in Procs, NEW c \in Contents, BeginWrite(p, c) PROVE BatchOf(q)'
  BY <1>2, <1>4, BeginWriteEffect
<1>5. ASSUME NEW p \in Procs, NEW c \in Contents, BeginImport(p, c) PROVE BatchOf(q)'
  BY <1>2, <1>5, BeginImportEffect
<1>6. ASSUME NEW p \in Procs, WriteLease(p) PROVE BatchOf(q)'
  BY <1>1, <1>3, <1>6, WriteLeaseEffect DEF At
<1>7. ASSUME NEW p \in Procs, Stage(p) PROVE BatchOf(q)'
  BY <1>1, <1>3, <1>7, StageEffect DEF At
<1>8. ASSUME NEW p \in Procs, Check(p) PROVE BatchOf(q)'
  BY <1>3, <1>8, CheckEffect DEF At
<1>9. ASSUME NEW p \in Procs, Publish(p) PROVE BatchOf(q)'
  BY <1>1, <1>3, <1>9, PublishEffect DEF At
<1>10. ASSUME NEW p \in Procs, Remember(p) PROVE BatchOf(q)'
  <2>1. CASE Raise(p)
    BY <1>1, <2>1
  <2>2. CASE ~Raise(p)
    <3>1. /\ At(p, "published") /\ Rests(p)
          /\ held'[p] = held[p] \cup {Content(p)}
          /\ \A r \in Procs \ {p} : held'[r] = held[r]
          /\ UNCHANGED <<since, clock>>
      BY <1>10, <2>2, RememberEffect
    <3>2. CASE q = p
      <4>1. p \in Makers[Content(p)] /\ Refs[Content(p)] \subseteq held[p]
            /\ since[p] <= clock /\ clock <= since[p] + MaxFlight
        BY <1>0, <3>1, <3>2 DEF BatchOf, At, InBatch
      <4>2. Closed(held'[p]) /\ \A c \in held'[p] : p \in Makers[c]
        BY <1>0, <3>1, <3>2, <4>1 DEF BatchOf, Closed
      <4>. QED
        BY <3>1, <3>2, <4>1, <4>2 DEF BatchOf, Rests, Closed
    <3>3. CASE q # p
      BY <1>0, <3>1, <3>3, OthersKeepBatches DEF Rests
    <3>. QED
      BY <3>2, <3>3
  <2>. QED
    BY <2>1, <2>2
<1>11. ASSUME NEW p \in Procs, Refer(p) PROVE BatchOf(q)'
  <2>1. CASE q = p
    BY <1>11, <2>1, ReferEffect, EmptyBatch DEF Drops, At
  <2>2. CASE q # p
    BY <1>0, <1>11, <2>2, ReferEffect, OthersKeepBatches DEF Drops
  <2>. QED
    BY <2>1, <2>2
<1>12. ASSUME NEW p \in Procs, NEW c \in Contents, Retire(p, c) PROVE BatchOf(q)'
  <2>1. CASE Raise(p)
    BY <1>1, <2>1
  <2>2. CASE ~Raise(p)
    <3>1. held[p] = {} /\ Begins(p, "removing", c) /\ UNCHANGED <<held, since, clock>>
      BY <1>12, <2>2, RetireEffect
    <3>2. CASE q = p
      BY <3>1, <3>2, EmptyBatch DEF Begins
    <3>3. CASE q # p
      BY <1>0, <3>1, <3>3, OthersKeepBatches DEF Begins
    <3>. QED
      BY <3>2, <3>3
  <2>. QED
    BY <2>1, <2>2
<1>13. ASSUME NEW p \in Procs, Remove(p) PROVE BatchOf(q)'
  <2>1. CASE q = p
    BY <1>0, <1>13, <2>1, RemoveEffect, EmptyBatch DEF Rests, At, BatchOf
  <2>2. CASE q # p
    BY <1>0, <1>13, <2>2, RemoveEffect, OthersKeepBatches DEF Rests
  <2>. QED
    BY <2>1, <2>2
<1>14. ASSUME NEW p \in Procs, Die(p) PROVE BatchOf(q)'
  <2>1. CASE q = p
    BY <1>14, <2>1, DieEffect, EmptyBatch DEF Rests, Drops
  <2>2. CASE q # p
    BY <1>0, <1>14, <2>2, DieEffect, OthersKeepBatches DEF Rests, Drops
  <2>. QED
    BY <2>1, <2>2
<1>15. ASSUME UNCHANGED <<job, held, since, clock>> PROVE BatchOf(q)'
  BY <1>0, <1>15, OthersKeepBatches
<1>16. ASSUME CleanupAbandoned(MinAge) PROVE BatchOf(q)'
  <2>1. /\ job'[q].pc = job[q].pc
        /\ job[q].pc # "idle" => job'[q].content = job[q].content /\ job'[q].born = job[q].born
        /\ UNCHANGED <<held, since, clock>>
    BY <1>16, CleanupEffect
  <2>2. CASE job[q].pc \notin {"idle", "removing"}
    BY <1>0, <2>1, <2>2, BatchGoesOn
  <2>3. CASE job[q].pc \in {"idle", "removing"}
    BY <1>0, <2>1, <2>3 DEF BatchOf, InBatch, Closed
  <2>. QED
    BY <2>2, <2>3
<1>17. ASSUME Tick PROVE BatchOf(q)'
  <2>1. /\ InBatch(q) => clock - since[q] < MaxFlight
        /\ clock' = clock + 1
        /\ UNCHANGED <<job, held, since>>
    BY <1>17, TickEffect
  <2>2. clock \in Nat /\ since[q] \in Nat /\ MaxFlight \in Nat
    BY Constants DEF TypeInv
  <2>. QED
    BY <1>0, <2>1, <2>2 DEF BatchOf, InBatch, Content
<1>18. ASSUME GcList \/ GcMark \/ GcRemoveDirectory \/ GcEnd \/ GcDie
              \/ (\E c \in Contents : GcOpen(c)) \/ (\E f \in Files : GcUnlink(f))
       PROVE  BatchOf(q)'
  BY <1>15, <1>18, GcListEffect, GcMarkEffect, GcRemoveDirectoryEffect, GcStops, GcOpenEffect,
     GcUnlinkEffect DEF ProcsStay
<1>19. ASSUME UNCHANGED vars PROVE BatchOf(q)'
  BY <1>15, <1>19 DEF vars, procs
<1>. QED
  BY StoreStepCases, <1>4, <1>5, <1>6, <1>7, <1>8, <1>9, <1>10, <1>11, <1>12, <1>13, <1>14,
     <1>16, <1>17, <1>18, <1>19

-----------------------------------------------------------------------------
(***************************************************************************)
(* Claims: what a process has published or committed, and no file of a run *)
(* names yet.                                                              *)
(***************************************************************************)

Marked == Planned \cup Deleting

Published(p) == {c \in Contents : job[p].pc = "published" /\ job[p].content = c}

Claimed(p) == (held[p] \cup Published(p)) \ aged

ClaimOf(p) ==
    \A c \in Claimed(p) :
        /\ c \notin Marked
        /\ since[p] <= stamp[c] + MaxFlight
        /\ c \in held[p] => Whole(c)

ClaimInv == \A p \in Procs : ClaimOf(p)

\* A claim that does not grow is kept where the objects and the plan stay.
LEMMA ClaimShrinks ==
    ASSUME NEW q, ClaimOf(q), held'[q] \subseteq held[q],
           Published(q)' \subseteq Published(q) \/ job'[q].pc # "published",
           since'[q] = since[q], aged \subseteq aged', UNCHANGED <<object, stamp, gc>>
    PROVE  ClaimOf(q)'
<1>1. Claimed(q)' \subseteq Claimed(q)
  BY DEF Claimed, Published
<1>2. Marked' = Marked /\ \A c \in Contents : Whole(c)' = Whole(c)
  BY DEF Marked, Planned, Deleting, Whole
<1>. QED
  BY <1>1, <1>2 DEF ClaimOf, Whole

LEMMA OthersKeepClaims ==
    ASSUME NEW q, ClaimOf(q), job'[q] = job[q], held'[q] = held[q], since'[q] = since[q],
           aged \subseteq aged', UNCHANGED <<object, stamp, gc>>
    PROVE  ClaimOf(q)'
  BY ClaimShrinks DEF Published

LEMMA EmptyClaim ==
    ASSUME NEW q, held'[q] = {}, job'[q].pc # "published"
    PROVE  ClaimOf(q)'
  BY DEF ClaimOf, Claimed, Published

\* A content that is there already is claimed only if it is new.
LEMMA ClaimAdopted ==
    ASSUME TypeInv, NEW p \in Procs, NEW c \in Contents, NEW born \in Nat, ClaimOf(p),
           Adopt(c, born), since'[p] <= born, since'[p] \in Nat,
           held[p] # {} => since'[p] = since[p],
           Published(p)' \subseteq {c}, held'[p] = held[p], UNCHANGED <<object, stamp, gc>>
    PROVE  ClaimOf(p)'
<1>1. Marked' = Marked
  BY DEF Marked, Planned, Deleting
<1>2. aged \subseteq aged'
  BY AgedTyped
<1> SUFFICES ASSUME NEW d \in Claimed(p)'
             PROVE  d \notin Marked /\ since'[p] <= stamp[d] + MaxFlight
                    /\ (d \in held[p] => Whole(d))
  BY <1>1 DEF ClaimOf, Whole
<1>3. CASE d \in held[p]
  BY <1>2, <1>3 DEF ClaimOf, Claimed
<1>4. CASE d \notin held[p]
  <2>1. d = c /\ c \notin aged'
    BY <1>4 DEF Claimed
  <2>2. ~Unnoticed(c, stamp[c], born)
    BY <2>1 DEF Adopt
  <2>3. stamp[c] >= born /\ c \notin Marked
    BY <2>2 DEF Unnoticed, Marked, TypeInv
  <2>4. since'[p] <= stamp[c] + MaxFlight
    BY <2>3, Constants DEF TypeInv
  <2>. QED
    BY <1>4, <2>1, <2>3, <2>4
<1>. QED
  BY <1>3, <1>4

\* The claims on a content that is published now are as new as its publisher's.
LEMMA ClaimPublished ==
    ASSUME TypeInv, BatchInv, NEW p \in Procs, Publish(p), ~Raise(p), NEW q \in Procs, ClaimOf(q)
    PROVE  ClaimOf(q)'
<1>1. /\ At(p, "publish") /\ Goes(p, "published")
      /\ Content(p) \in Contents /\ job[p].time \in Nat /\ job[p].born \in Nat
      /\ object' = [object EXCEPT ![Content(p)] = [exists |-> TRUE, files |-> Files]]
      /\ stamp' = [stamp EXCEPT ![Content(p)] = job[p].time]
      /\ aged' = IF Unnoticed(Content(p), job[p].time, job[p].born)
                 THEN aged \cup {Content(p)} ELSE aged \ {Content(p)}
      /\ UNCHANGED <<held, since, gc, clock>>
  BY PublishEffect
<1>2. PICK c \in Contents : c = Content(p)
  BY <1>1
<1>3. Marked' = Marked
  BY <1>1 DEF Marked, Planned, Deleting
<1> SUFFICES ASSUME NEW d \in Claimed(q)'
             PROVE  d \notin Marked /\ since[q] <= stamp'[d] + MaxFlight
                    /\ (d \in held[q] => Whole(d)')
  BY <1>1, <1>3 DEF ClaimOf
<1>4. d \in Contents
  BY <1>1 DEF Claimed, Published, TypeInv
<1>5. CASE d = c
  <2>1. ~Unnoticed(c, job[p].time, job[p].born)
    BY <1>1, <1>2, <1>5 DEF Claimed
  <2>2. job[p].time >= job[p].born /\ c \notin Marked
    BY <1>1, <2>1 DEF Unnoticed, Marked
  <2>3. since[p] <= job[p].born /\ clock <= since[p] + MaxFlight
    BY <1>1 DEF BatchInv, BatchOf, InBatch, At
  <2>4. since[q] <= clock
    <3>1. held[q] # {} \/ q = p \/ job[q].pc = "published"
      BY <1>1 DEF Claimed, Published, Goes
    <3>2. InBatch(q)
      BY <1>1, <3>1 DEF InBatch, At
    <3>. QED
      BY <3>2 DEF BatchInv, BatchOf
  <2>5. since[q] <= job[p].time + MaxFlight
    BY <1>1, <2>2, <2>3, <2>4, Constants DEF TypeInv
  <2>6. stamp'[d] = job[p].time /\ Whole(d)'
    BY <1>1, <1>2, <1>5 DEF Whole, TypeInv
  <2>. QED
    BY <1>5, <2>2, <2>5, <2>6
<1>6. CASE d # c
  <2>1. stamp'[d] = stamp[d] /\ object'[d] = object[d]
    BY <1>1, <1>2, <1>4, <1>6 DEF TypeInv
  <2>2. d \in Claimed(q)
    <3>1. d \notin aged
      BY <1>1, <1>2, <1>6 DEF Claimed
    <3>2. CASE d \in held[q]
      BY <3>1, <3>2 DEF Claimed
    <3>3. CASE d \notin held[q]
      <4>1. job'[q].pc = "published" /\ job'[q].content = d
        BY <1>1, <3>3 DEF Claimed, Published
      <4>2. q # p
        BY <1>1, <1>2, <1>6, <4>1 DEF Goes, Content
      <4>3. job[q].pc = "published" /\ job[q].content = d
        BY <1>1, <4>1, <4>2 DEF Goes
      <4>. QED
        BY <1>4, <3>1, <4>3 DEF Claimed, Published
    <3>. QED
      BY <3>2, <3>3
  <2>. QED
    BY <2>1, <2>2 DEF ClaimOf, Whole
<1>. QED
  BY <1>5, <1>6

\* A claim is too new to be a candidate.
LEMMA ClaimIsYoung ==
    ASSUME TypeInv, BatchInv, MinAge > 2 * MaxFlight, NEW q \in Procs, ClaimOf(q),
           NEW d \in Claimed(q), NEW listed
    PROVE  d \notin Candidates(listed)
<1>1. InBatch(q)
  BY DEF Claimed, Published, InBatch
<1>2. clock <= since[q] + MaxFlight /\ since[q] <= stamp[d] + MaxFlight
  BY <1>1 DEF BatchInv, BatchOf, ClaimOf
<1>3. d \in Contents /\ stamp[d] \in Nat /\ clock \in Nat /\ since[q] \in Nat
  BY DEF Claimed, Published, TypeInv
<1>4. ~(stamp[d] <= clock - MinAge)
  BY <1>2, <1>3, Constants
<1>. QED
  BY <1>4 DEF Candidates

LEMMA ClaimInductive ==
    ASSUME TypeInv, BatchInv, ClaimInv, MinAge > 2 * MaxFlight, [Next]_vars
    PROVE  ClaimInv'
<1> SUFFICES ASSUME NEW q \in Procs PROVE ClaimOf(q)'
  BY DEF ClaimInv
<1> USE DEF StoreStays
<1>0. ClaimOf(q) /\ BatchOf(q)
  BY DEF ClaimInv, BatchInv
<1>1. ASSUME NEW p \in Procs, Raise(p) PROVE ClaimOf(q)'
  <2>1. CASE q = p
    BY <1>1, <2>1, RaiseEffect, EmptyClaim DEF Rests, Drops
  <2>2. CASE q # p
    BY <1>0, <1>1, <2>2, RaiseEffect, OthersKeepClaims DEF Rests, Drops
  <2>. QED
    BY <2>1, <2>2
<1>2. ASSUME NEW p \in Procs, NEW c \in Contents, OpenBatch(p),
             NEW pc \in {"opened", "staged"}, Begins(p, pc, c),
             UNCHANGED <<held, aged, object, stamp, gc>>
      PROVE  ClaimOf(q)'
  <2>1. CASE q = p /\ held[p] = {}
    BY <1>2, <2>1, EmptyClaim DEF Begins
  <2>2. CASE q = p /\ held[p] # {}
    BY <1>0, <1>2, <2>2, OpenBatchEffect, ClaimShrinks DEF Begins
  <2>3. CASE q # p
    BY <1>0, <1>2, <2>3, OpenBatchEffect, OthersKeepClaims DEF Begins
  <2>. QED
    BY <2>1, <2>2, <2>3
<1>3. ASSUME NEW p \in Procs, NEW pc \in {"writing", "staged", "publish"}, Goes(p, pc),
             UNCHANGED <<held, since, aged, object, stamp, gc>>
      PROVE  ClaimOf(q)'
  <2>1. CASE q = p
    BY <1>0, <1>3, <2>1, ClaimShrinks DEF Goes
  <2>2. CASE q # p
    BY <1>0, <1>3, <2>2, OthersKeepClaims DEF Goes
  <2>. QED
    BY <2>1, <2>2
<1>4. ASSUME NEW p \in Procs, NEW c \in Contents, BeginWrite(p, c) PROVE ClaimOf(q)'
  BY <1>2, <1>4, BeginWriteEffect
<1>5. ASSUME NEW p \in Procs, NEW c \in Contents, BeginImport(p, c) PROVE ClaimOf(q)'
  <2>1. OpenBatch(p) /\ UNCHANGED <<held, object, stamp, gc>>
    BY <1>5, BeginImportEffect
  <2>2. CASE Begins(p, "staged", c) /\ UNCHANGED aged
    BY <1>2, <2>1, <2>2
  <2>3. CASE Begins(p, "published", c) /\ Adopt(c, clock)
    <3>1. CASE q = p
      <4>1. since'[p] = IF held[p] = {} THEN clock ELSE since[p]
        BY <2>1, OpenBatchEffect
      <4>2. since'[p] <= clock /\ since'[p] \in Nat /\ clock \in Nat
        BY <1>0, <3>1, <4>1 DEF BatchOf, InBatch, TypeInv
      <4>3. Published(p)' \subseteq {c}
        BY <2>3 DEF Begins, Published
      <4>. QED
        BY <1>0, <2>1, <2>3, <3>1, <4>1, <4>2, <4>3, ClaimAdopted
    <3>2. CASE q # p
      <4>1. aged \subseteq aged'
        BY <2>3, AgedTyped
      <4>. QED
        BY <1>0, <2>1, <2>3, <3>2, <4>1, OpenBatchEffect, OthersKeepClaims DEF Begins
    <3>. QED
      BY <3>1, <3>2
  <2>. QED
    BY <1>5, <2>2, <2>3, BeginImportEffect
<1>6. ASSUME NEW p \in Procs, WriteLease(p) PROVE ClaimOf(q)'
  BY <1>1, <1>3, <1>6, WriteLeaseEffect
<1>7. ASSUME NEW p \in Procs, Stage(p) PROVE ClaimOf(q)'
  BY <1>1, <1>3, <1>7, StageEffect
<1>8. ASSUME NEW p \in Procs, Check(p) PROVE ClaimOf(q)'
  <2>1. At(p, "staged") /\ UNCHANGED <<held, since, object, stamp, gc>>
    BY <1>8, CheckEffect
  <2>2. CASE Goes(p, "publish") /\ UNCHANGED aged
    BY <1>3, <2>1, <2>2
  <2>3. CASE Goes(p, "published") /\ Adopt(Content(p), job[p].born)
    <3>1. Content(p) \in Contents /\ job[p].born \in Nat
      BY <2>1, BusyFields DEF At, Content
    <3>2. CASE q = p
      <4>1. since'[p] <= job[p].born /\ since'[p] \in Nat
        BY <1>0, <2>1, <3>2 DEF BatchOf, At, TypeInv
      <4>2. Published(p)' \subseteq {Content(p)}
        BY <2>3 DEF Goes, Published, Content
      <4>. QED
        BY <1>0, <2>1, <2>3, <3>1, <3>2, <4>1, <4>2, ClaimAdopted
    <3>3. CASE q # p
      <4>1. aged \subseteq aged'
        BY <2>3, <3>1, AgedTyped
      <4>. QED
        BY <1>0, <2>1, <2>3, <3>3, <4>1, OthersKeepClaims DEF Goes
    <3>. QED
      BY <3>2, <3>3
  <2>. QED
    BY <1>8, <2>2, <2>3, CheckEffect
<1>9. ASSUME NEW p \in Procs, Publish(p) PROVE ClaimOf(q)'
  BY <1>0, <1>1, <1>9, ClaimPublished
<1>10. ASSUME NEW p \in Procs, Remember(p) PROVE ClaimOf(q)'
  <2>1. CASE Raise(p)
    BY <1>1, <2>1
  <2>2. CASE ~Raise(p)
    <3>1. /\ At(p, "published") /\ Rests(p) /\ Whole(Content(p)) /\ Content(p) \in Contents
          /\ held'[p] = held[p] \cup {Content(p)}
          /\ \A r \in Procs \ {p} : held'[r] = held[r]
          /\ UNCHANGED <<object, stamp, aged, since, gc>>
      BY <1>10, <2>2, RememberEffect
    <3>2. CASE q = p
      <4>1. Claimed(p)' \subseteq Claimed(p)
        BY <3>1 DEF Claimed, Published, Rests, At, Content
      <4>2. Marked' = Marked
        BY <3>1 DEF Marked, Planned, Deleting
      <4>3. \A c \in held'[p] \ aged : Whole(c)
        BY <1>0, <3>1, <3>2 DEF ClaimOf, Claimed
      <4>. QED
        BY <1>0, <3>1, <3>2, <4>1, <4>2, <4>3 DEF ClaimOf, Whole, Claimed
    <3>3. CASE q # p
      BY <1>0, <3>1, <3>3, OthersKeepClaims DEF Rests
    <3>. QED
      BY <3>2, <3>3
  <2>. QED
    BY <2>1, <2>2
<1>11. ASSUME NEW p \in Procs, Refer(p) PROVE ClaimOf(q)'
  <2>1. CASE q = p
    BY <1>11, <2>1, ReferEffect, EmptyClaim DEF Drops, At
  <2>2. CASE q # p
    BY <1>0, <1>11, <2>2, ReferEffect, OthersKeepClaims DEF Drops
  <2>. QED
    BY <2>1, <2>2
<1>12. ASSUME NEW p \in Procs, NEW c \in Contents, Retire(p, c) PROVE ClaimOf(q)'
  <2>1. CASE Raise(p)
    BY <1>1, <2>1
  <2>2. CASE ~Raise(p)
    <3>1. /\ held[p] = {} /\ Makers[c] = {p} /\ Begins(p, "removing", c)
          /\ object' = [object EXCEPT ![c] = NoObject]
          /\ UNCHANGED <<stamp, aged, held, since, gc>>
      BY <1>12, <2>2, RetireEffect
    <3>2. CASE q = p
      BY <3>1, <3>2, EmptyClaim DEF Begins
    <3>3. CASE q # p
      <4>1. c \notin held[q]
        BY <1>0, <3>1, <3>3 DEF BatchOf
      <4>2. \A d \in held[q] : object'[d] = object[d]
        BY <3>1, <4>1 DEF TypeInv
      <4>3. Claimed(q)' = Claimed(q)
        BY <3>1, <3>3 DEF Claimed, Published, Begins
      <4>4. Marked' = Marked
        BY <3>1 DEF Marked, Planned, Deleting
      <4>. QED
        BY <1>0, <3>1, <4>2, <4>3, <4>4 DEF ClaimOf, Whole
    <3>. QED
      BY <3>2, <3>3
  <2>. QED
    BY <2>1, <2>2
<1>13. ASSUME NEW p \in Procs, Remove(p) PROVE ClaimOf(q)'
  <2>1. CASE q = p
    BY <1>0, <1>13, <2>1, RemoveEffect, EmptyClaim DEF Rests, At, BatchOf
  <2>2. CASE q # p
    BY <1>0, <1>13, <2>2, RemoveEffect, OthersKeepClaims DEF Rests
  <2>. QED
    BY <2>1, <2>2
<1>14. ASSUME NEW p \in Procs, Die(p) PROVE ClaimOf(q)'
  <2>1. CASE q = p
    BY <1>14, <2>1, DieEffect, EmptyClaim DEF Rests, Drops
  <2>2. CASE q # p
    BY <1>0, <1>14, <2>2, DieEffect, OthersKeepClaims DEF Rests, Drops
  <2>. QED
    BY <2>1, <2>2
<1>15. ASSUME UNCHANGED <<object, stamp, aged, job, held, since, gc>> PROVE ClaimOf(q)'
  BY <1>0, <1>15, OthersKeepClaims
<1>16. ASSUME CleanupAbandoned(MinAge) PROVE ClaimOf(q)'
  <2>1. /\ job'[q].pc = job[q].pc
        /\ job[q].pc # "idle" => job'[q].content = job[q].content
        /\ UNCHANGED <<object, stamp, aged, held, since, gc>>
    BY <1>16, CleanupEffect
  <2>2. Published(q)' \subseteq Published(q)
    BY <2>1 DEF Published
  <2>. QED
    BY <1>0, <2>1, <2>2, ClaimShrinks
<1>17. ASSUME Tick PROVE ClaimOf(q)'
  BY <1>15, <1>17, TickEffect
<1>18. ASSUME ProcsStay, NEW N, Marked' \subseteq N,
              \A d \in Claimed(q) : d \notin N /\ object'[d] = object[d]
       PROVE  ClaimOf(q)'
  <2>1. Claimed(q)' = Claimed(q)
    BY <1>18 DEF Claimed, Published, ProcsStay
  <2>. QED
    BY <1>0, <1>18, <2>1 DEF ClaimOf, Whole, ProcsStay
<1>19. \A d \in Claimed(q) : d \notin Marked
  BY <1>0 DEF ClaimOf
<1>20. ASSUME GcList \/ GcEnd \/ GcDie PROVE ClaimOf(q)'
  <2>1. ProcsStay /\ UNCHANGED object /\ gc'.pc \in {"idle", "mark"}
    BY <1>20, GcListEffect, GcStops
  <2>2. Marked' \subseteq {}
    BY <2>1 DEF Marked, Planned, Deleting
  <2>. QED
    BY <1>18, <2>1, <2>2
<1>21. ASSUME GcMark PROVE ClaimOf(q)'
  <2>1. ProcsStay /\ UNCHANGED object /\ gc'.pc = "apply" /\ gc'.victims = Candidates(gc.listed)
    BY <1>21, GcMarkEffect
  <2>2. Marked' \subseteq Candidates(gc.listed)
    BY <2>1 DEF Marked, Planned, Deleting
  <2>3. \A d \in Claimed(q) : d \notin Candidates(gc.listed)
    BY <1>0, ClaimIsYoung
  <2>. QED
    BY <1>18, <2>1, <2>2, <2>3
<1>22. ASSUME NEW c \in Contents, GcOpen(c) PROVE ClaimOf(q)'
  <2>1. ProcsStay /\ UNCHANGED object
    BY <1>22, GcOpenEffect
  <2>2. Marked' \subseteq Marked
    BY <1>22, GcOpenEffect DEF Marked, Planned, Deleting
  <2>. QED
    BY <1>18, <1>19, <2>1, <2>2
<1>23. ASSUME NEW f \in Files, GcUnlink(f) PROVE ClaimOf(q)'
  <2>1. ProcsStay /\ gc.victim \in Marked
    BY <1>23, GcUnlinkEffect DEF Marked, Deleting
  <2>2. Marked' \subseteq Marked
    BY <1>23, GcUnlinkEffect DEF Marked, Planned, Deleting
  <2>3. \A d \in Claimed(q) : object'[d] = object[d]
    BY <1>19, <1>23, <2>1, VictimUnlinked DEF Claimed, Published, TypeInv
  <2>. QED
    BY <1>18, <1>19, <2>1, <2>2, <2>3
<1>24. ASSUME GcRemoveDirectory PROVE ClaimOf(q)'
  <2>1. ProcsStay /\ gc.victim \in Marked
    BY <1>24, GcRemoveDirectoryEffect DEF Marked, Deleting
  <2>2. Marked' \subseteq Marked
    BY <1>24, GcRemoveDirectoryEffect DEF Marked, Planned, Deleting
  <2>3. \A d \in Claimed(q) : object'[d] = object[d]
    BY <1>19, <1>24, <2>1, GcRemoveDirectoryEffect DEF Claimed, Published, TypeInv
  <2>. QED
    BY <1>18, <1>19, <2>1, <2>2, <2>3
<1>25. ASSUME UNCHANGED vars PROVE ClaimOf(q)'
  BY <1>15, <1>25 DEF vars, store, procs
<1>. QED
  BY StoreStepCases, <1>4, <1>5, <1>6, <1>7, <1>8, <1>9, <1>10, <1>11, <1>12, <1>13, <1>14,
     <1>16, <1>17, <1>20, <1>21, <1>22, <1>23, <1>24, <1>25

-----------------------------------------------------------------------------
(***************************************************************************)
(* Use: what the run's files lead to.                                      *)
(***************************************************************************)

Kept == Contents \ (retired \cup aged)
InUse == Reach(evidence, Kept)

ScanInv == gc.pc = "mark" => gc.at <= clock /\ clock <= gc.at + MaxScan

\* What is in use is there, and no plan has it; while the collector scans, it is
\* reached through what was listed, or it is too new to be a candidate.
UseInv ==
    \A c \in InUse :
        /\ Whole(c) /\ c \notin Marked
        /\ gc.pc = "mark" => \/ c \in Reach(evidence, gc.listed)
                             \/ gc.at <= stamp[c] + 2 * MaxFlight

LEMMA ScanInductive ==
    ASSUME TypeInv, ScanInv, [Next]_vars
    PROVE  ScanInv'
<1> USE DEF StoreStays, ScanInv
<1>1. ASSUME UNCHANGED <<gc, clock>> PROVE ScanInv'
  BY <1>1
<1>2. ASSUME gc'.pc # "mark" PROVE ScanInv'
  BY <1>2
<1>3. ASSUME GcList PROVE ScanInv'
  BY <1>3, GcListEffect, Constants DEF ProcsStay, TypeInv
<1>4. ASSUME Tick PROVE ScanInv'
  <2>1. gc.pc = "mark" => gc.at \in Nat
    BY GcPhases
  <2>. QED
    BY <1>4, <2>1, TickEffect, Constants DEF TypeInv
<1>5. ASSUME NEW p \in Procs,
             \/ \E c \in Contents : BeginWrite(p, c) \/ BeginImport(p, c) \/ Retire(p, c)
             \/ WriteLease(p) \/ Stage(p) \/ Check(p) \/ Publish(p) \/ Remember(p)
             \/ Refer(p) \/ Remove(p) \/ Die(p)
      PROVE  UNCHANGED <<gc, clock>>
  BY <1>5, RaiseEffect, BeginWriteEffect, BeginImportEffect, RetireEffect, WriteLeaseEffect,
     StageEffect, CheckEffect, PublishEffect, RememberEffect, ReferEffect, RemoveEffect, DieEffect
<1>6. ASSUME GcMark \/ GcRemoveDirectory \/ GcEnd \/ GcDie
             \/ (\E c \in Contents : GcOpen(c)) \/ (\E f \in Files : GcUnlink(f))
      PROVE  gc'.pc # "mark"
  BY <1>6, GcMarkEffect, GcRemoveDirectoryEffect, GcStops, GcOpenEffect, GcUnlinkEffect
<1>7. ASSUME CleanupAbandoned(MinAge) PROVE UNCHANGED <<gc, clock>>
  BY <1>7, CleanupEffect
<1>. QED
  BY StoreStepCases, <1>1, <1>2, <1>3, <1>4, <1>5, <1>6, <1>7 DEF vars

\* What comes into use was claimed a moment before: K is the claim.
LEMMA UseGrows ==
    ASSUME TypeInv, TypeInv', UseInv, ScanInv, NEW K \in SUBSET Contents, Closed(K),
           evidence \subseteq evidence', evidence' \subseteq evidence \cup K,
           Kept' \subseteq Kept \cup K, UNCHANGED <<gc, clock>>,
           \A c \in Kept' \ K : object'[c] = object[c] /\ stamp'[c] = stamp[c],
           \A c \in Kept' \cap K : /\ Whole(c)' /\ c \notin Marked
                                   /\ clock <= stamp'[c] + 2 * MaxFlight
    PROVE  UseInv'
<1>1. Kept \in SUBSET Contents /\ Kept' \in SUBSET Contents
  BY DEF Kept
<1>2. InUse' \subseteq InUse \cup K
  BY <1>1, ReachGrows DEF InUse
<1>3. InUse' \subseteq Kept'
  BY <1>1, ReachIsLeast DEF InUse
<1>4. Marked' = Marked
  BY DEF Marked, Planned, Deleting
<1>5. gc.pc = "mark" => Reach(evidence, gc.listed) \subseteq Reach(evidence', gc.listed)
  BY GcPhases, ReachMonotone
<1> SUFFICES ASSUME NEW c \in InUse'
             PROVE  /\ Whole(c)' /\ c \notin Marked
                    /\ gc.pc = "mark" => \/ c \in Reach(evidence', gc.listed)
                                         \/ gc.at <= stamp'[c] + 2 * MaxFlight
  BY <1>4 DEF UseInv
<1>6. CASE c \in K
  <2>1. Whole(c)' /\ c \notin Marked /\ clock <= stamp'[c] + 2 * MaxFlight
    BY <1>3, <1>6
  <2>2. gc.pc = "mark" => gc.at <= clock /\ gc.at \in Nat
    BY GcPhases DEF ScanInv
  <2>3. clock \in Nat /\ stamp'[c] \in Nat /\ MaxFlight \in Nat
    BY <1>6, Constants DEF TypeInv
  <2>4. gc.pc = "mark" => gc.at <= stamp'[c] + 2 * MaxFlight
    BY <2>1, <2>2, <2>3
  <2>. QED
    BY <2>1, <2>4
<1>7. CASE c \notin K
  <2>1. c \in InUse /\ object'[c] = object[c] /\ stamp'[c] = stamp[c]
    BY <1>2, <1>3, <1>7
  <2>2. /\ Whole(c) /\ c \notin Marked
        /\ gc.pc = "mark" => \/ c \in Reach(evidence, gc.listed)
                             \/ gc.at <= stamp[c] + 2 * MaxFlight
    BY <2>1 DEF UseInv
  <2>3. Whole(c)'
    BY <2>1, <2>2 DEF Whole
  <2>. QED
    BY <1>5, <2>1, <2>2, <2>3
<1>. QED
  BY <1>6, <1>7

\* Most steps bring nothing into use and change no object.
LEMMA UseShrinks ==
    ASSUME TypeInv, TypeInv', UseInv, ScanInv, UNCHANGED <<object, stamp, evidence, gc, clock>>,
           retired \subseteq retired', aged \subseteq aged'
    PROVE  UseInv'
<1>1. Closed({}) /\ Kept' \subseteq Kept
  BY DEF Closed, Kept
<1>. QED
  BY <1>1, UseGrows

\* A claim is at most two flights old.
LEMMA ClaimAge ==
    ASSUME TypeInv, BatchInv, ClaimInv, NEW p \in Procs, NEW c \in Claimed(p)
    PROVE  clock <= stamp[c] + 2 * MaxFlight /\ c \notin Marked
<1>1. InBatch(p)
  BY DEF Claimed, Published, InBatch
<1>2. clock <= since[p] + MaxFlight /\ since[p] <= stamp[c] + MaxFlight /\ c \notin Marked
  BY <1>1 DEF BatchInv, BatchOf, ClaimInv, ClaimOf
<1>3. c \in Contents /\ stamp[c] \in Nat /\ clock \in Nat /\ since[p] \in Nat
  BY DEF Claimed, Published, TypeInv
<1>. QED
  BY <1>2, <1>3, Constants

LEMMA ClaimAgeAfter == (\A p \in Procs : TypeInv /\ BatchInv /\ ClaimInv =>
    \A c \in Claimed(p) : clock <= stamp[c] + 2 * MaxFlight /\ c \notin Marked)'
<1>1. \A p \in Procs : TypeInv /\ BatchInv /\ ClaimInv =>
          \A c \in Claimed(p) : clock <= stamp[c] + 2 * MaxFlight /\ c \notin Marked
  BY ClaimAge
<1>. QED
  BY <1>1, PTL

\* The batch goes over to the run.
LEMMA UseReferred ==
    ASSUME TypeInv, TypeInv', BatchInv, ClaimInv, UseInv, ScanInv, NEW p \in Procs, Refer(p)
    PROVE  UseInv'
<1>1. /\ \E c \in held[p] : evidence' = evidence \cup {c}
      /\ UNCHANGED <<object, stamp, aged, retired, gc, clock>>
  BY ReferEffect
<1>2. PICK K \in SUBSET Contents : K = held[p]
  BY DEF TypeInv
<1>3. Closed(K) /\ evidence \subseteq evidence' /\ evidence' \subseteq evidence \cup K
  BY <1>1, <1>2 DEF BatchInv, BatchOf
<1>4. Kept' = Kept
  BY <1>1 DEF Kept
<1>5. \A c \in Kept' \cap K : /\ Whole(c)' /\ c \notin Marked
                              /\ clock <= stamp'[c] + 2 * MaxFlight
  <2> SUFFICES ASSUME NEW c \in Kept \cap K
               PROVE  Whole(c) /\ c \notin Marked /\ clock <= stamp[c] + 2 * MaxFlight
    BY <1>1, <1>4 DEF Whole
  <2>1. c \in Claimed(p) /\ c \in held[p]
    BY <1>2 DEF Claimed, Kept
  <2>. QED
    BY <2>1, ClaimAge DEF ClaimInv, ClaimOf
<1>6. \A c \in Kept' \ K : object'[c] = object[c] /\ stamp'[c] = stamp[c]
  BY <1>1
<1>. QED
  BY <1>1, <1>3, <1>4, <1>5, <1>6, UseGrows

\* A content that is committed again is no longer one that was removed on purpose.
LEMMA UseRemembered ==
    ASSUME TypeInv, TypeInv', BatchInv, ClaimInv, UseInv, ScanInv,
           NEW p \in Procs, Remember(p), ~Raise(p)
    PROVE  UseInv'
<1>1. /\ At(p, "published") /\ Whole(Content(p)) /\ Content(p) \in Contents
      /\ retired' = retired \ {Content(p)}
      /\ UNCHANGED <<object, stamp, aged, evidence, gc, clock>>
  BY RememberEffect
<1>2. PICK K \in SUBSET Contents : K = held[p] \cup {Content(p)}
  BY <1>1 DEF TypeInv
<1>3. Closed(K)
  BY <1>1, <1>2 DEF BatchInv, BatchOf, Closed, At
<1>4. Kept' \subseteq Kept \cup K
  BY <1>1, <1>2 DEF Kept
<1>5. \A c \in Kept' \cap K : /\ Whole(c)' /\ c \notin Marked
                              /\ clock <= stamp'[c] + 2 * MaxFlight
  <2> SUFFICES ASSUME NEW c \in Kept' \cap K
               PROVE  Whole(c) /\ c \notin Marked /\ clock <= stamp[c] + 2 * MaxFlight
    BY <1>1 DEF Whole
  <2>1. c \in Claimed(p)
    BY <1>1, <1>2 DEF Claimed, Kept, Published, At, Content
  <2>2. Whole(c)
    BY <1>1, <1>2, <2>1 DEF ClaimInv, ClaimOf
  <2>. QED
    BY <2>1, <2>2, ClaimAge
<1>6. \A c \in Kept' \ K : object'[c] = object[c] /\ stamp'[c] = stamp[c]
  BY <1>1
<1>. QED
  BY <1>1, <1>3, <1>4, <1>5, <1>6, UseGrows

\* A content that is published again may be one that the run's files lead to.
LEMMA UsePublished ==
    ASSUME TypeInv, TypeInv', BatchInv, BatchInv', ClaimInv, ClaimInv', UseInv, ScanInv,
           NEW p \in Procs, Publish(p), ~Raise(p)
    PROVE  UseInv'
<1>1. /\ At(p, "publish") /\ Goes(p, "published") /\ Content(p) \in Contents
      /\ object' = [object EXCEPT ![Content(p)] = [exists |-> TRUE, files |-> Files]]
      /\ stamp' = [stamp EXCEPT ![Content(p)] = job[p].time]
      /\ aged \ {Content(p)} \subseteq aged'
      /\ UNCHANGED <<evidence, retired, held, gc, clock>>
  BY PublishEffect
<1>2. PICK c \in Contents : c = Content(p)
  BY <1>1
<1>3. PICK K \in SUBSET Contents : K = held[p] \cup {c}
  BY <1>2 DEF TypeInv
<1>4. Closed(K)
  BY <1>1, <1>2, <1>3 DEF BatchInv, BatchOf, Closed, At
<1>5. Kept' \subseteq Kept \cup K
  BY <1>1, <1>2, <1>3 DEF Kept
<1>6. \A d \in Kept' \cap K : /\ Whole(d)' /\ d \notin Marked
                              /\ clock <= stamp'[d] + 2 * MaxFlight
  <2> SUFFICES ASSUME NEW d \in Kept' \cap K
               PROVE  /\ Whole(d)' /\ d \notin Marked
                      /\ clock <= stamp'[d] + 2 * MaxFlight
    OBVIOUS
  <2>1. d \in Claimed(p)'
    BY <1>1, <1>2, <1>3 DEF Claimed, Kept, Published, Goes, Content
  <2>2. (clock <= stamp[d] + 2 * MaxFlight /\ d \notin Marked)'
    BY <2>1, ClaimAgeAfter
  <2>3. Marked' = Marked
    BY <1>1 DEF Marked, Planned, Deleting
  <2>4. CASE d = c
    BY <1>1, <1>2, <2>2, <2>3, <2>4 DEF Whole, TypeInv
  <2>5. CASE d # c
    BY <1>1, <1>3, <2>1, <2>2, <2>3, <2>5 DEF ClaimInv, ClaimOf
  <2>. QED
    BY <2>4, <2>5
<1>7. \A d \in Kept' \ K : object'[d] = object[d] /\ stamp'[d] = stamp[d]
  BY <1>1, <1>2, <1>3 DEF TypeInv, Kept
<1>. QED
  BY <1>1, <1>4, <1>5, <1>6, <1>7, UseGrows

LEMMA UseInductive ==
    ASSUME TypeInv, TypeInv', ObjectInv, BatchInv, BatchInv', ClaimInv, ClaimInv', UseInv, ScanInv,
           MinAge > 2 * MaxFlight + MaxScan, [Next]_vars
    PROVE  UseInv'
<1> USE DEF StoreStays
<1>1. ASSUME NEW p \in Procs, Raise(p) PROVE UseInv'
  BY <1>1, RaiseEffect, UseShrinks
<1>2. ASSUME NEW p \in Procs, NEW c \in Contents, BeginWrite(p, c) PROVE UseInv'
  BY <1>2, BeginWriteEffect, UseShrinks
<1>3. ASSUME NEW p \in Procs, NEW c \in Contents, BeginImport(p, c) PROVE UseInv'
  BY <1>3, BeginImportEffect, AgedTyped, UseShrinks
<1>4. ASSUME NEW p \in Procs, WriteLease(p) PROVE UseInv'
  BY <1>1, <1>4, WriteLeaseEffect, UseShrinks
<1>5. ASSUME NEW p \in Procs, Stage(p) PROVE UseInv'
  BY <1>1, <1>5, StageEffect, UseShrinks
<1>6. ASSUME NEW p \in Procs, Check(p) PROVE UseInv'
  <2>1. Content(p) \in Contents
    BY <1>6, CheckEffect, BusyFields DEF At, Content
  <2>. QED
    BY <1>6, <2>1, CheckEffect, AgedTyped, UseShrinks
<1>7. ASSUME NEW p \in Procs, Publish(p) PROVE UseInv'
  BY <1>1, <1>7, UsePublished
<1>8. ASSUME NEW p \in Procs, Remember(p) PROVE UseInv'
  BY <1>1, <1>8, UseRemembered
<1>9. ASSUME NEW p \in Procs, Refer(p) PROVE UseInv'
  BY <1>9, UseReferred
<1>10. ASSUME NEW p \in Procs, NEW c \in Contents, Retire(p, c) PROVE UseInv'
  <2>1. CASE Raise(p)
    BY <1>1, <2>1
  <2>2. CASE ~Raise(p)
    <3>1. /\ object' = [object EXCEPT ![c] = NoObject] /\ retired' = retired \cup {c}
          /\ UNCHANGED <<stamp, aged, evidence, gc, clock>>
      BY <1>10, <2>2, RetireEffect
    <3>2. Kept' = Kept \ {c} /\ Closed({})
      BY <3>1 DEF Kept, Closed
    <3>3. \A d \in Kept' : object'[d] = object[d]
      BY <3>1, <3>2 DEF Kept, TypeInv
    <3>. QED
      BY <3>1, <3>2, <3>3, UseGrows
  <2>. QED
    BY <2>1, <2>2
<1>11. ASSUME NEW p \in Procs, Remove(p) PROVE UseInv'
  BY <1>11, RemoveEffect, UseShrinks
<1>12. ASSUME NEW p \in Procs, Die(p) PROVE UseInv'
  BY <1>12, DieEffect, UseShrinks
<1>13. ASSUME CleanupAbandoned(MinAge) PROVE UseInv'
  BY <1>13, CleanupEffect, UseShrinks
<1>14. ASSUME UNCHANGED vars PROVE UseInv'
  BY <1>14, UseShrinks DEF vars, store
<1>15. ASSUME Tick PROVE UseInv'
  <2>1. InUse' = InUse /\ Marked' = Marked /\ UNCHANGED <<object, stamp, evidence, gc>>
    BY <1>15, TickEffect DEF InUse, Kept, Marked, Planned, Deleting
  <2>. QED
    BY <2>1 DEF UseInv, Whole
<1>16. ASSUME ProcsStay, gc'.pc # "mark", NEW N, Marked' \subseteq N,
              \A d \in InUse : d \notin N /\ object'[d] = object[d]
       PROVE  UseInv'
  <2>1. InUse' = InUse
    BY <1>16 DEF InUse, Kept, ProcsStay
  <2>. QED
    BY <1>16, <2>1 DEF UseInv, Whole
<1>17. InUse \subseteq Contents /\ \A d \in InUse : d \notin Marked /\ Whole(d)
  BY ReachIsLeast DEF UseInv, InUse, Kept
<1>18. ASSUME GcList PROVE UseInv'
  <2>1. /\ ProcsStay /\ UNCHANGED object /\ gc'.pc = "mark"
        /\ gc'.listed = {c \in Contents : object[c].exists}
    BY <1>18, GcListEffect
  <2>2. InUse \subseteq gc'.listed
    BY <1>17, <2>1, Constants DEF Whole, ObjectInv
  <2>3. InUse \subseteq Reach(evidence, gc'.listed)
    BY <2>1, <2>2, ReachWithin DEF InUse, Kept
  <2>4. InUse' = InUse /\ Marked' = {}
    BY <2>1 DEF InUse, Kept, ProcsStay, Marked, Planned, Deleting
  <2>. QED
    BY <1>17, <2>1, <2>3, <2>4 DEF UseInv, Whole, ProcsStay
<1>19. ASSUME GcMark PROVE UseInv'
  <2>1. /\ ProcsStay /\ UNCHANGED object /\ gc.pc = "mark" /\ gc'.pc = "apply"
        /\ gc'.victims = Candidates(gc.listed)
    BY <1>19, GcMarkEffect
  <2>2. Marked' \subseteq Candidates(gc.listed)
    BY <2>1 DEF Marked, Planned, Deleting
  <2>3. \A d \in InUse : d \notin Candidates(gc.listed)
    <3> SUFFICES ASSUME NEW d \in InUse, d \in Candidates(gc.listed) PROVE FALSE
      OBVIOUS
    <3>1. d \notin Reach(evidence, gc.listed) /\ stamp[d] <= clock - MinAge
      BY DEF Candidates
    <3>2. gc.at <= stamp[d] + 2 * MaxFlight
      BY <2>1, <3>1 DEF UseInv
    <3>3. gc.at \in Nat /\ clock <= gc.at + MaxScan
      BY <2>1, GcPhases DEF ScanInv
    <3>4. stamp[d] \in Nat /\ clock \in Nat
      BY <1>17 DEF TypeInv
    <3>. QED
      BY <3>1, <3>2, <3>3, <3>4, Constants
  <2>. QED
    BY <1>16, <2>1, <2>2, <2>3
<1>20. ASSUME GcEnd \/ GcDie PROVE UseInv'
  <2>1. ProcsStay /\ UNCHANGED object /\ gc'.pc = "idle"
    BY <1>20, GcStops
  <2>2. Marked' \subseteq {}
    BY <2>1 DEF Marked, Planned, Deleting
  <2>. QED
    BY <1>16, <2>1, <2>2
<1>21. ASSUME NEW c \in Contents, GcOpen(c) PROVE UseInv'
  <2>1. ProcsStay /\ UNCHANGED object /\ gc'.pc # "mark"
    BY <1>21, GcOpenEffect
  <2>2. Marked' \subseteq Marked
    BY <1>21, GcOpenEffect DEF Marked, Planned, Deleting
  <2>. QED
    BY <1>16, <1>17, <2>1, <2>2
<1>22. ASSUME NEW f \in Files, GcUnlink(f) PROVE UseInv'
  <2>1. ProcsStay /\ gc.victim \in Marked /\ gc'.pc # "mark"
    BY <1>22, GcUnlinkEffect DEF Marked, Deleting
  <2>2. Marked' \subseteq Marked
    BY <1>22, GcUnlinkEffect DEF Marked, Planned, Deleting
  <2>3. \A d \in InUse : object'[d] = object[d]
    BY <1>17, <1>22, <2>1, VictimUnlinked
  <2>. QED
    BY <1>16, <1>17, <2>1, <2>2, <2>3
<1>23. ASSUME GcRemoveDirectory PROVE UseInv'
  <2>1. ProcsStay /\ gc.victim \in Marked /\ gc'.pc # "mark"
    BY <1>23, GcRemoveDirectoryEffect DEF Marked, Deleting
  <2>2. Marked' \subseteq Marked
    BY <1>23, GcRemoveDirectoryEffect DEF Marked, Planned, Deleting
  <2>3. \A d \in InUse : object'[d] = object[d]
    BY <1>17, <1>23, <2>1, GcRemoveDirectoryEffect DEF TypeInv
  <2>. QED
    BY <1>16, <1>17, <2>1, <2>2, <2>3
<1>. QED
  BY StoreStepCases, <1>2, <1>3, <1>4, <1>5, <1>6, <1>7, <1>8, <1>9, <1>10, <1>11, <1>12, <1>13,
     <1>14, <1>15, <1>18, <1>19, <1>20, <1>21, <1>22, <1>23

-----------------------------------------------------------------------------
ClaimsKept == TypeInv /\ BatchInv /\ ClaimInv
StoreInv == ClaimsKept /\ ObjectInv /\ ScanInv /\ UseInv

LEMMA StoreInit == Init => StoreInv
<1> SUFFICES ASSUME Init PROVE StoreInv
  OBVIOUS
<1>1. TypeInv
  BY TypeInit
<1>2. \A p \in Procs : job[p].pc = "idle" /\ held[p] = {}
  BY DEF Init, Idle
<1>3. BatchInv /\ ClaimInv
  BY <1>2 DEF BatchInv, BatchOf, Closed, InBatch, ClaimInv, ClaimOf, Claimed, Published
<1>4. ObjectInv /\ ScanInv
  BY DEF Init, ObjectInv, ScanInv, NoObject, GcIdle
<1>5. InUse \subseteq {}
  <2>1. {} \in SUBSET Kept /\ LeadsTo(evidence, Kept, {})
    BY DEF Init, LeadsTo
  <2>2. Kept \in SUBSET Contents
    BY DEF Kept
  <2>. QED
    BY <2>1, <2>2, ReachIsLeast DEF InUse
<1>. QED
  BY <1>1, <1>3, <1>4, <1>5 DEF StoreInv, ClaimsKept, UseInv

\* What a process has committed is there when it refers to it, however many
\* processes, sweeps and deaths there are: the collector spares what is younger than
\* two flights (plan_artifact_gc, minimum_age_seconds).
THEOREM CommittedIsThere ==
    ASSUME MinAge > 2 * MaxFlight
    PROVE  Spec => []HeldIsThere
<1>1. Init => ClaimsKept
  BY StoreInit DEF StoreInv
<1>2. ClaimsKept /\ [Next]_vars => ClaimsKept'
  BY TypeInductive, BatchInductive, ClaimInductive DEF ClaimsKept
<1>3. ClaimsKept => HeldIsThere
  BY DEF ClaimsKept, ClaimInv, ClaimOf, Claimed, HeldIsThere
<1>. QED
  BY <1>1, <1>2, <1>3, PTL DEF Spec

\* Everything a run's files lead to is there until it is retired on purpose, as long as
\* two flights and a scan together are shorter than the collector's minimum age.
THEOREM EvidenceIsKept ==
    ASSUME MinAge > 2 * MaxFlight + MaxScan
    PROVE  Spec => []EvidenceIsThere
<1>1. MinAge > 2 * MaxFlight
  BY Constants
<1>2. StoreInv /\ [Next]_vars => StoreInv'
  BY <1>1, TypeInductive, BatchInductive, ClaimInductive, ObjectInductive, ScanInductive,
     UseInductive DEF StoreInv, ClaimsKept
<1>3. StoreInv => EvidenceIsThere
  BY DEF StoreInv, UseInv, InUse, Kept, EvidenceIsThere
<1>. QED
  BY StoreInit, <1>2, <1>3, PTL DEF Spec
=============================================================================
