------------------------------ MODULE RunLease ------------------------------
(***************************************************************************)
(* The lease file of a run directory, created exclusively by the program   *)
(* that writes the run.  The owner's process id and host are written after *)
(* the file is created; a program that finds the file reads them, and when *)
(* the owner is a dead process of its own host it unlinks the file and     *)
(* creates another.  Each step is one call on the file system.             *)
(*                                                                         *)
(* A program is one process: a dead one does not come back, a living one   *)
(* may open the run again.                                                 *)
(***************************************************************************)
EXTENDS Integers, FiniteSets

CONSTANTS
    Procs,      \* the programs
    Nobody,     \* who created a file that is not there
    Host,       \* the host each of them runs on
    MaxFaults   \* bound: deaths and failed writes

ASSUME RunLeaseAssumption ==
    /\ Nobody \notin Procs
    /\ MaxFaults \in Nat

VARIABLES
    file,    \* the lease file: who created it and whether its owner is written
    phase,   \* where each program is in RunLease.acquire and release
    faults,
    raced    \* two programs have been taking over a dead owner's lease at a time

leaseVars == <<file, phase, faults, raced>>

Absent == [by |-> Nobody, written |-> FALSE]
LeaseFile == {Absent} \cup [by : Procs, written : BOOLEAN]
CreatedBy(p, written) == [by |-> p, written |-> written]
There == file.by # Nobody

Alive(p) == phase[p] # "dead"
Inside == {p \in Procs : phase[p] = "in"}
Go(p, next) == phase' = [phase EXCEPT ![p] = next]

LeaseInit ==
    /\ file = Absent
    /\ phase = [p \in Procs |-> "out"]
    /\ faults = 0
    /\ raced = FALSE

-----------------------------------------------------------------------------
\* open(O_CREAT | O_EXCL).
Create(p) ==
    /\ phase[p] = "out"
    /\ IF There
       THEN Go(p, "read") /\ UNCHANGED file
       ELSE Go(p, "write") /\ file' = CreatedBy(p, FALSE)
    /\ UNCHANGED <<faults, raced>>

\* RUN001 is raised.
Refuse(p) == Go(p, "out") /\ UNCHANGED <<file, faults, raced>>

\* Broken forms of OwnerIsDead: any process that cannot be signalled from here
\* counts as dead, and none does.
UnseenIsDead(p) == file.written /\ (Host[file.by] # Host[p] \/ ~Alive(file.by))
NobodyIsDead(p) == FALSE

\* The recorded owner is a process of this host that is not alive.
OwnerIsDead(p) == file.written /\ Host[file.by] = Host[p] /\ ~Alive(file.by)

Taking == {p \in Procs : phase[p] \in {"unlink", "recreate"}}

\* The file is read; one that has gone or cannot be parsed refuses the start too.
ReadOwner(p) ==
    /\ phase[p] = "read"
    /\ IF There /\ OwnerIsDead(p)
       THEN /\ Go(p, "unlink")
            /\ raced' = (raced \/ Taking # {})
            /\ UNCHANGED <<file, faults>>
       ELSE Refuse(p)

UnlinkDead(p) ==
    /\ phase[p] = "unlink"
    /\ IF There
       THEN /\ file' = Absent
            /\ Go(p, "recreate")
            /\ UNCHANGED <<faults, raced>>
       ELSE Refuse(p)

Recreate(p) ==
    /\ phase[p] = "recreate"
    /\ IF There
       THEN Refuse(p)
       ELSE /\ file' = CreatedBy(p, FALSE)
            /\ Go(p, "write")
            /\ UNCHANGED <<faults, raced>>

\* The owner is written to the file that was created, wherever it is by now.
WriteOwner(p) ==
    /\ phase[p] = "write"
    /\ file' = IF file = CreatedBy(p, FALSE) THEN CreatedBy(p, TRUE) ELSE file
    /\ Go(p, "in")
    /\ UNCHANGED <<faults, raced>>

\* The write fails: acquire raises, and nobody removes the file.
FailToWrite(p) ==
    /\ phase[p] = "write"
    /\ faults < MaxFaults
    /\ faults' = faults + 1
    /\ Go(p, "out")
    /\ UNCHANGED <<file, raced>>

\* release unlinks the path, whoever's file is there.
Release(p) ==
    /\ phase[p] = "in"
    /\ file' = Absent
    /\ Go(p, "out")
    /\ UNCHANGED <<faults, raced>>

LeaseDie(p) ==
    /\ Alive(p)
    /\ faults < MaxFaults
    /\ faults' = faults + 1
    /\ Go(p, "dead")
    /\ UNCHANGED <<file, raced>>

TakeLease(p) ==
    ReadOwner(p) \/ UnlinkDead(p) \/ Recreate(p) \/ WriteOwner(p) \/ FailToWrite(p)

LeaseNext == \E p \in Procs : Create(p) \/ TakeLease(p) \/ Release(p) \/ LeaseDie(p)

LeaseSpec == LeaseInit /\ [][LeaseNext]_leaseVars

\* The run is started again and again, and a started program goes on.
LeaseLiveSpec ==
    LeaseSpec /\ \A p \in Procs : WF_leaseVars(Create(p)) /\ WF_leaseVars(TakeLease(p))

-----------------------------------------------------------------------------
LeaseTypeOK ==
    /\ file \in LeaseFile
    /\ phase \in [Procs -> {"out", "read", "unlink", "recreate", "write", "in", "dead"}]
    /\ faults \in 0 .. MaxFaults
    /\ raced \in BOOLEAN

\* One program at a time has the run open, whatever the others' deaths leave, as
\* long as no two takeovers have raced.
SoleOwner == ~raced => \A p, q \in Inside : p = q

\* Under the same condition a program that has the run open has its own record in
\* the lease file, so that its release removes its own lease and others see that
\* it is alive.
OwnRecord == ~raced => \A p \in Inside : file = CreatedBy(p, TRUE)

\* The readable lease of a dead program does not stay as long as a program of its
\* host, one that has not got past the lease in a race, is started again and again.
StaleIsTaken ==
    \A d \in Procs :
        file = CreatedBy(d, TRUE) /\ ~Alive(d)
            ~> \/ file # CreatedBy(d, TRUE)
               \/ \A p \in Procs : Alive(p) /\ phase[p] # "in" => Host[p] # Host[d]
=============================================================================
