----------------------------- MODULE DeviceLease -----------------------------
(***************************************************************************)
(* The lease on a device that keeps two resident programs from using it at *)
(* the same time: a directory with the owner's process id and token in it. *)
(* mkdir is atomic; the file inside is written afterwards, a directory     *)
(* without a live owner is renamed away, and every step is one call on the *)
(* file system.  On Windows a kernel mutex takes the directory's place;    *)
(* that branch is not modelled.                                            *)
(*                                                                         *)
(* A process is one program, so one process id: a dead one does not come   *)
(* back.                                                                   *)
(***************************************************************************)
EXTENDS Integers, FiniteSets

CONSTANTS
    Procs,     \* the programs that use the device
    MaxTurns,  \* bound: how often a program uses the device
    MaxDeaths  \* bound: how many programs die

ASSUME LeaseAssumption ==
    /\ MaxTurns \in Nat
    /\ MaxDeaths \in Nat

VARIABLES
    there,    \* the lease directory exists
    owner,    \* what owner.json in it holds
    writing,  \* the programs that have that very file open for writing
    pc,       \* where each program is
    attempt,  \* the pass of acquire_device_lease's loop it is in
    turn,     \* how many leases it has asked for: its token
    deaths,
    overlapped  \* two calls of acquire_device_lease or close have overlapped

lease == <<there, owner, writing>>
vars == <<lease, pc, attempt, turn, deaths, overlapped>>

None == [kind |-> "none"]      \* no file
Torn == [kind |-> "torn"]      \* an empty or half-written file
OwnedBy(p, t) == [kind |-> "owner", pid |-> p, token |-> t]
OwnerFile == {None, Torn} \cup {OwnedBy(p, t) : p \in Procs, t \in 1 .. MaxTurns}

At(p, label) == pc[p] = label
AtRest(p) == pc[p] \in {"idle", "hold", "dead", "crashed"}
Alive(p) == ~At(p, "dead") /\ ~At(p, "crashed")
Holders == {p \in Procs : At(p, "hold")}

Init ==
    /\ there = FALSE /\ owner = None /\ writing = {}
    /\ pc = [p \in Procs |-> "idle"]
    /\ attempt = [p \in Procs |-> 1]
    /\ turn = [p \in Procs |-> 0]
    /\ deaths = 0
    /\ overlapped = FALSE

\* A call begins.
Begin == overlapped' = (overlapped \/ \E q \in Procs : ~AtRest(q))

GoTo(p, label) == pc' = [pc EXCEPT ![p] = label]

\* The directory and the file in it disappear from the path.
Gone == there' = FALSE /\ owner' = None /\ writing' = {}

-----------------------------------------------------------------------------
\* acquire_device_lease is called, for the first time or by the waiting loop.
Ask(p) ==
    /\ At(p, "idle")
    /\ turn[p] < MaxTurns
    /\ Begin
    /\ GoTo(p, "mkdir")
    /\ attempt' = [attempt EXCEPT ![p] = 1]
    /\ UNCHANGED <<lease, turn, deaths>>

MakeDirectory(p) ==
    /\ At(p, "mkdir")
    /\ IF there
       THEN GoTo(p, "read") /\ UNCHANGED <<lease, turn>>
       ELSE /\ there' = TRUE
            /\ GoTo(p, "open")
            /\ turn' = [turn EXCEPT ![p] = @ + 1]
            /\ UNCHANGED <<owner, writing>>
    /\ UNCHANGED <<attempt, deaths, overlapped>>

\* The program gives up for now: DeviceLeaseError.
Refused(p) ==
    /\ GoTo(p, "idle")
    /\ UNCHANGED attempt

\* Broken forms of OwnerIsAlive: a directory without an owner counts as held; a
\* lease is stale unless it is the program's own.
OwnerlessIsAlive(p) == owner.kind # "owner" \/ Alive(owner.pid)
OthersAreStale(p) == owner.kind = "owner" /\ owner.pid = p

\* _process_exists of the recorded id; 0 when nothing can be read.
OwnerIsAlive(p) == owner.kind = "owner" /\ Alive(owner.pid)

ReadOwner(p) ==
    /\ At(p, "read")
    /\ IF OwnerIsAlive(p) THEN Refused(p) ELSE GoTo(p, "rename") /\ UNCHANGED attempt
    /\ UNCHANGED <<lease, turn, deaths, overlapped>>

\* The directory is renamed out of the way, where nobody else sees it removed,
\* or it has disappeared in the meantime; the second attempt is the last.
RenameStale(p) ==
    /\ At(p, "rename")
    /\ IF there THEN Gone ELSE UNCHANGED lease
    /\ IF attempt[p] < 2
       THEN GoTo(p, "mkdir") /\ attempt' = [attempt EXCEPT ![p] = @ + 1]
       ELSE Refused(p)
    /\ UNCHANGED <<turn, deaths, overlapped>>

\* owner.json is opened, which empties it; it cannot be where the directory has gone.
OpenOwner(p) ==
    /\ At(p, "open")
    /\ IF there
       THEN /\ owner' = Torn
            /\ writing' = writing \cup {p}
            /\ GoTo(p, "write")
            /\ UNCHANGED there
       ELSE GoTo(p, "undo") /\ UNCHANGED lease
    /\ UNCHANGED <<attempt, turn, deaths, overlapped>>

\* The handler removes the directory, or another one that is empty, and raises
\* an OSError, which the waiting loop does not catch.
UndoDirectory(p) ==
    /\ At(p, "undo")
    /\ there' = (there /\ owner # None)
    /\ GoTo(p, "crashed")
    /\ UNCHANGED <<owner, writing, attempt, turn, deaths, overlapped>>

\* What is written goes to the file that was opened, wherever it is by now.
WriteOwner(p) ==
    /\ At(p, "write")
    /\ IF p \in writing THEN owner' = OwnedBy(p, turn[p]) ELSE UNCHANGED owner
    /\ writing' = writing \ {p}
    /\ GoTo(p, "hold")
    /\ UNCHANGED <<there, attempt, turn, deaths, overlapped>>

\* close: a lease that is not there or not its own is left alone.
Close(p) ==
    /\ At(p, "hold")
    /\ Begin
    /\ IF owner = OwnedBy(p, turn[p]) THEN GoTo(p, "unlink") ELSE GoTo(p, "idle")
    /\ UNCHANGED <<lease, attempt, turn, deaths>>

UnlinkOwner(p) ==
    /\ At(p, "unlink")
    /\ IF owner = None
       THEN GoTo(p, "idle") /\ UNCHANGED lease
       ELSE /\ owner' = None /\ writing' = {}
            /\ GoTo(p, "rmdir")
            /\ UNCHANGED there
    /\ UNCHANGED <<attempt, turn, deaths, overlapped>>

\* rmdir leaves a directory that is not empty.
RemoveDirectory(p) ==
    /\ At(p, "rmdir")
    /\ there' = (there /\ owner # None)
    /\ GoTo(p, "idle")
    /\ UNCHANGED <<owner, writing, attempt, turn, deaths, overlapped>>

Die(p) ==
    /\ Alive(p)
    /\ deaths < MaxDeaths
    /\ deaths' = deaths + 1
    /\ GoTo(p, "dead")
    /\ writing' = writing \ {p}
    /\ UNCHANGED <<there, owner, attempt, turn, overlapped>>

Acquire(p) ==
    \/ MakeDirectory(p) \/ ReadOwner(p) \/ RenameStale(p)
    \/ OpenOwner(p) \/ UndoDirectory(p) \/ WriteOwner(p)

Release(p) == Close(p) \/ UnlinkOwner(p) \/ RemoveDirectory(p)

Next == \E p \in Procs : Ask(p) \/ Acquire(p) \/ Release(p) \/ Die(p)

Spec == Init /\ [][Next]_vars

(***************************************************************************)
(* wait_for_device_lease asks again and again; a program that holds the    *)
(* device ends its work; nothing says that a program dies.                 *)
(***************************************************************************)
Fairness == \A p \in Procs : WF_vars(Ask(p)) /\ WF_vars(Acquire(p)) /\ WF_vars(Release(p))

LiveSpec == Spec /\ Fairness

-----------------------------------------------------------------------------
TypeOK ==
    /\ there \in BOOLEAN
    /\ owner \in OwnerFile
    /\ writing \subseteq Procs
    /\ pc \in [Procs -> {"idle", "mkdir", "read", "rename", "open", "undo", "write",
                         "hold", "unlink", "rmdir", "dead", "crashed"}]
    /\ attempt \in [Procs -> 1 .. 2]
    /\ turn \in [Procs -> 0 .. MaxTurns]
    /\ deaths \in 0 .. MaxDeaths
    /\ overlapped \in BOOLEAN

\* Two resident programs do not hold the device at the same time, wherever their
\* predecessors died, as long as no two calls have overlapped.
SerialExclusion == ~overlapped => \A p, q \in Holders : p = q

\* As long as no two calls have overlapped nobody is refused a device that no
\* other program holds: what a dead program left never keeps it.
RefusedByTheLiving ==
    [][~overlapped => \A p \in Procs : ~AtRest(p) /\ Acquire(p) /\ pc'[p] = "idle" =>
            \E q \in Procs \ {p} : Alive(q) /\ ~At(q, "idle")]_vars

\* The wait for a device ends: a program that may ask gets the lease again and
\* again until it has had its turns, or ends otherwise, whoever dies on the way.
WaitEnds == \A p \in Procs : <>(turn[p] = MaxTurns \/ ~Alive(p))

\* The module's first line: two resident programs never hold the device at the
\* same time.
MutualExclusion == \A p, q \in Holders : p = q
=============================================================================
