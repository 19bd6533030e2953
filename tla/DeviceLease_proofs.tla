-------------------------- MODULE DeviceLease_proofs --------------------------
(***************************************************************************)
(* Proofs about DeviceLease, for any number of programs, turns and deaths. *)
(*                                                                         *)
(* TypeInv strengthens TypeOK by what the tokens are at each step.  While  *)
(* no calls have overlapped SerialInv is inductive: a holder's record      *)
(* is the one in the directory, and while one program is inside a call     *)
(* that may remove or replace the directory nobody holds it.               *)
(*                                                                         *)
(* A refusal names a living program for two reasons: a living owner in the *)
(* record is one that holds the device or gives it up (OwnerInv), and the  *)
(* second pass finds no directory in its way (SecondPassInv).              *)
(***************************************************************************)
EXTENDS DeviceLease, TLAPS

TypeInv ==
    /\ TypeOK
    /\ \A p \in Procs :
        /\ pc[p] \in {"mkdir", "read", "rename"} => turn[p] < MaxTurns
        /\ pc[p] \in {"open", "undo", "write", "hold"} => turn[p] >= 1

\* The programs' steps, apart from each other.
LEMMA StepCases ==
    ASSUME [Next]_vars
    PROVE  \/ \E p \in Procs : \/ Ask(p) \/ MakeDirectory(p) \/ ReadOwner(p)
                               \/ RenameStale(p) \/ OpenOwner(p) \/ UndoDirectory(p)
                               \/ WriteOwner(p) \/ Close(p) \/ UnlinkOwner(p)
                               \/ RemoveDirectory(p) \/ Die(p)
           \/ UNCHANGED vars
  BY DEF Next, Acquire, Release

LEMMA OwnerFiles ==
    /\ None \in OwnerFile /\ Torn \in OwnerFile
    /\ \A p \in Procs, t \in 1 .. MaxTurns : OwnedBy(p, t) \in OwnerFile
  BY DEF OwnerFile

LEMMA TypeInvInductive ==
    ASSUME TypeInv, [Next]_vars
    PROVE  TypeInv'
<1> USE LeaseAssumption, OwnerFiles
<1>1. ASSUME UNCHANGED vars PROVE TypeInv'
  BY <1>1 DEF TypeInv, TypeOK, vars, lease
<1>2. ASSUME NEW p \in Procs, Ask(p) PROVE TypeInv'
  BY <1>2 DEF TypeInv, TypeOK, Ask, Begin, At, GoTo, lease
<1>3. ASSUME NEW p \in Procs, MakeDirectory(p) PROVE TypeInv'
  <2>1. CASE there
    BY <1>3, <2>1 DEF TypeInv, TypeOK, MakeDirectory, At, GoTo, lease
  <2>2. CASE ~there
    <3>1. /\ turn[p] \in 0 .. MaxTurns - 1
          /\ turn' = [turn EXCEPT ![p] = turn[p] + 1]
      BY <1>3, <2>2 DEF TypeInv, TypeOK, MakeDirectory, At
    <3>2. turn' \in [Procs -> 0 .. MaxTurns] /\ turn'[p] >= 1
      BY <3>1 DEF TypeInv, TypeOK
    <3> QED
      BY <1>3, <2>2, <3>1, <3>2 DEF TypeInv, TypeOK, MakeDirectory, At, GoTo
  <2> QED
    BY <2>1, <2>2
<1>4. ASSUME NEW p \in Procs, ReadOwner(p) PROVE TypeInv'
  BY <1>4 DEF TypeInv, TypeOK, ReadOwner, Refused, At, GoTo, lease
<1>5. ASSUME NEW p \in Procs, RenameStale(p) PROVE TypeInv'
  <2>1. attempt[p] \in {1, 2}
    BY DEF TypeInv, TypeOK
  <2>2. attempt' \in [Procs -> 1 .. 2]
    BY <1>5, <2>1 DEF TypeInv, TypeOK, RenameStale, Refused
  <2>3. /\ there' \in BOOLEAN /\ writing' \subseteq Procs
        /\ owner' \in OwnerFile
    <3>1. CASE there
      BY <1>5, <3>1 DEF TypeInv, TypeOK, RenameStale, Gone
    <3>2. CASE ~there
      BY <1>5, <3>2 DEF TypeInv, TypeOK, RenameStale, lease
    <3> QED
      BY <3>1, <3>2
  <2> QED
    BY <1>5, <2>2, <2>3 DEF TypeInv, TypeOK, RenameStale, Refused, At, GoTo
<1>6. ASSUME NEW p \in Procs, OpenOwner(p) PROVE TypeInv'
  BY <1>6 DEF TypeInv, TypeOK, OpenOwner, At, GoTo, lease
<1>7. ASSUME NEW p \in Procs, UndoDirectory(p) PROVE TypeInv'
  BY <1>7 DEF TypeInv, TypeOK, UndoDirectory, At, GoTo
<1>8. ASSUME NEW p \in Procs, WriteOwner(p) PROVE TypeInv'
  <2>1. turn[p] \in 1 .. MaxTurns
    BY <1>8 DEF TypeInv, TypeOK, WriteOwner, At
  <2> QED
    BY <1>8, <2>1 DEF TypeInv, TypeOK, WriteOwner, At, GoTo
<1>9. ASSUME NEW p \in Procs, Close(p) PROVE TypeInv'
  BY <1>9 DEF TypeInv, TypeOK, Close, Begin, At, GoTo, lease
<1>10. ASSUME NEW p \in Procs, UnlinkOwner(p) PROVE TypeInv'
  BY <1>10 DEF TypeInv, TypeOK, UnlinkOwner, At, GoTo, lease
<1>11. ASSUME NEW p \in Procs, RemoveDirectory(p) PROVE TypeInv'
  BY <1>11 DEF TypeInv, TypeOK, RemoveDirectory, At, GoTo
<1>12. ASSUME NEW p \in Procs, Die(p) PROVE TypeInv'
  BY <1>12 DEF TypeInv, TypeOK, Die, Alive, At, GoTo
<1> QED
  BY StepCases, <1>1, <1>2, <1>3, <1>4, <1>5, <1>6, <1>7, <1>8, <1>9, <1>10, <1>11, <1>12

LEMMA TypeInvHolds == Spec => []TypeInv
<1>1. ASSUME Init PROVE TypeInv
  <2>1. 0 \in 0 .. MaxTurns /\ 0 \in 0 .. MaxDeaths
    BY LeaseAssumption
  <2>2. TypeOK
    <3>1. /\ turn \in [Procs -> 0 .. MaxTurns]
          /\ attempt \in [Procs -> 1 .. 2]
          /\ deaths \in 0 .. MaxDeaths
      BY <1>1, <2>1 DEF Init
    <3> QED
      BY <1>1, <3>1, OwnerFiles DEF Init, TypeOK
  <2>3. \A p \in Procs : pc[p] = "idle"
    BY <1>1 DEF Init
  <2> QED
    BY <2>2, <2>3 DEF TypeInv
<1> QED
  BY <1>1, TypeInvInductive, PTL DEF Spec

(***************************************************************************)
(* Whatever the programs do, in whatever order, the lease and their own    *)
(* records keep their types: no token is asked for beyond the bound, no    *)
(* call makes a third attempt.                                             *)
(***************************************************************************)
THEOREM TypeCorrect == Spec => []TypeOK
  BY TypeInvHolds, PTL DEF TypeInv

-----------------------------------------------------------------------------
SerialInv ==
    /\ \A p, q \in Procs : ~AtRest(p) /\ ~AtRest(q) => p = q
    /\ \A p \in Procs : At(p, "hold") => there /\ owner = OwnedBy(p, turn[p])
    /\ \A p \in Procs :
        pc[p] \in {"rename", "open", "undo", "write", "unlink", "rmdir"} => Holders = {}
    /\ \A p \in Procs : At(p, "open") => there
    /\ \A p \in Procs : At(p, "write") => there /\ p \in writing

ExclusionInv == ~overlapped => SerialInv

LEMMA OneHolder ==
    ASSUME ExclusionInv
    PROVE  SerialExclusion
  BY DEF ExclusionInv, SerialInv, SerialExclusion, Holders, OwnedBy

LEMMA SerialInductive ==
    ASSUME TypeInv, SerialInv, [Next]_vars, ~overlapped'
    PROVE  SerialInv'
<1> USE DEF TypeInv, TypeOK, SerialInv, AtRest, At, GoTo, Holders
<1>1. ASSUME UNCHANGED vars PROVE SerialInv'
  BY <1>1 DEF vars, lease
<1>2. ASSUME NEW p \in Procs, Ask(p) PROVE SerialInv'
  BY <1>2 DEF Ask, Begin, lease
<1>3. ASSUME NEW p \in Procs, MakeDirectory(p) PROVE SerialInv'
  BY <1>3 DEF MakeDirectory, lease
<1>4. ASSUME NEW p \in Procs, ReadOwner(p) PROVE SerialInv'
  <2>1. CASE OwnerIsAlive(p)
    BY <1>4, <2>1 DEF ReadOwner, Refused, lease
  <2>2. CASE ~OwnerIsAlive(p)
    <3>1. Holders = {}
      BY <2>2 DEF OwnerIsAlive, OwnedBy, Alive
    <3> QED
      BY <1>4, <2>2, <3>1 DEF ReadOwner, lease
  <2> QED
    BY <2>1, <2>2
<1>5. ASSUME NEW p \in Procs, RenameStale(p) PROVE SerialInv'
  BY <1>5 DEF RenameStale, Refused, Gone, lease
<1>6. ASSUME NEW p \in Procs, OpenOwner(p) PROVE SerialInv'
  BY <1>6 DEF OpenOwner, lease
<1>7. ASSUME NEW p \in Procs, UndoDirectory(p) PROVE SerialInv'
  BY <1>7 DEF UndoDirectory
<1>8. ASSUME NEW p \in Procs, WriteOwner(p) PROVE SerialInv'
  BY <1>8 DEF WriteOwner
<1>9. ASSUME NEW p \in Procs, Close(p) PROVE SerialInv'
  <2>1. owner = OwnedBy(p, turn[p]) /\ Holders = {p}
    BY <1>9 DEF Close, OwnedBy
  <2> QED
    BY <1>9, <2>1 DEF Close, Begin, lease
<1>10. ASSUME NEW p \in Procs, UnlinkOwner(p) PROVE SerialInv'
  BY <1>10 DEF UnlinkOwner, lease
<1>11. ASSUME NEW p \in Procs, RemoveDirectory(p) PROVE SerialInv'
  BY <1>11 DEF RemoveDirectory
<1>12. ASSUME NEW p \in Procs, Die(p) PROVE SerialInv'
  BY <1>12 DEF Die, Alive
<1> QED
  BY StepCases, <1>1, <1>2, <1>3, <1>4, <1>5, <1>6, <1>7, <1>8, <1>9, <1>10, <1>11, <1>12

LEMMA ExclusionInductive ==
    ASSUME TypeInv, ExclusionInv, [Next]_vars
    PROVE  ExclusionInv'
<1> SUFFICES ASSUME ~overlapped' PROVE SerialInv'
  BY DEF ExclusionInv
<1>1. ~overlapped
  BY DEF TypeInv, TypeOK, Next, Acquire, Release, vars, Ask, MakeDirectory, ReadOwner,
         RenameStale, OpenOwner, UndoDirectory, WriteOwner, Close, UnlinkOwner,
         RemoveDirectory, Die, Begin
<1> QED
  BY <1>1, SerialInductive DEF ExclusionInv

(***************************************************************************)
(* As long as calls of acquire_device_lease and close do not overlap, the  *)
(* device has at most one holder, however many programs ask for it and at  *)
(* whatever step of acquiring, holding or closing any of them dies.        *)
(***************************************************************************)
THEOREM NoTwoHolders == Spec => []SerialExclusion
<1>1. Init => ExclusionInv
  BY DEF Init, ExclusionInv, SerialInv, AtRest, At, Holders
<1>2. TypeInv /\ ExclusionInv /\ [Next]_vars => ExclusionInv'
  BY ExclusionInductive
<1>3. Spec => []ExclusionInv
  BY <1>1, <1>2, TypeInvHolds, PTL DEF Spec
<1>4. ExclusionInv => SerialExclusion
  BY OneHolder
<1> QED
  BY <1>3, <1>4, PTL

-----------------------------------------------------------------------------
(***************************************************************************)
(* A program that is refused has read a live owner, or has found a stale   *)
(* lease twice.  While calls do not overlap the first is a holder or in    *)
(* close, and the second does not happen: what the first pass renamed away *)
(* nobody has made again.                                                  *)
(***************************************************************************)
Labels ==
    {"idle", "mkdir", "read", "rename", "open", "undo", "write", "hold", "unlink", "rmdir",
     "dead", "crashed"}

OwnerInv ==
    owner.kind = "owner" /\ Alive(owner.pid) => pc[owner.pid] \in {"hold", "unlink"}

SecondPassInv ==
    \A p \in Procs : attempt[p] = 2 =>
        pc[p] \notin {"read", "rename"} /\ (pc[p] = "mkdir" => ~there)

RefusalInv == ~overlapped => SerialInv /\ OwnerInv /\ SecondPassInv

LEMMA OwnersAreProcs ==
    ASSUME TypeInv, owner.kind = "owner"
    PROVE  /\ owner.pid \in Procs
           /\ \E t \in 1 .. MaxTurns : owner = OwnedBy(owner.pid, t)
  BY DEF TypeInv, TypeOK, OwnerFile, OwnedBy, None, Torn

LEMMA OwnerInductive ==
    ASSUME TypeInv, SerialInv, OwnerInv, [Next]_vars, ~overlapped'
    PROVE  OwnerInv'
<1> USE DEF At, GoTo
<1>0. pc \in [Procs -> Labels] /\ turn \in [Procs -> Int]
  BY LeaseAssumption DEF TypeInv, TypeOK, Labels
<1>1. ASSUME UNCHANGED vars PROVE OwnerInv'
  BY <1>1 DEF vars, lease, OwnerInv, Alive
\* The record stays, and its owner's step is none of these.
<1>2. ASSUME NEW p \in Procs, NEW label, owner' = owner, pc' = [pc EXCEPT ![p] = label],
             pc[p] \notin {"hold", "unlink"} \/ label \in {"hold", "unlink", "dead"},
             Alive(p)
      PROVE  OwnerInv'
  <2> SUFFICES ASSUME owner.kind = "owner", Alive(owner.pid)'
               PROVE  pc'[owner.pid] \in {"hold", "unlink"}
    BY <1>2 DEF OwnerInv
  <2>1. owner.pid \in Procs
    BY OwnersAreProcs
  <2>2. CASE owner.pid = p
    BY <1>0, <1>2, <2>1, <2>2 DEF OwnerInv, Alive
  <2>3. CASE owner.pid # p
    BY <1>0, <1>2, <2>1, <2>3 DEF OwnerInv, Alive
  <2> QED BY <2>2, <2>3
<1>3. ASSUME NEW p \in Procs, Ask(p) PROVE OwnerInv'
  BY <1>2, <1>3 DEF Ask, lease, Alive
<1>4. ASSUME NEW p \in Procs, MakeDirectory(p) PROVE OwnerInv'
  BY <1>2, <1>4 DEF MakeDirectory, lease, Alive
<1>5. ASSUME NEW p \in Procs, ReadOwner(p) PROVE OwnerInv'
  BY <1>2, <1>5 DEF ReadOwner, Refused, lease, Alive
<1>6. ASSUME NEW p \in Procs, RenameStale(p) PROVE OwnerInv'
  <2>1. CASE there
    BY <1>6, <2>1 DEF RenameStale, Gone, None, OwnerInv
  <2>2. CASE ~there
    BY <1>2, <1>6, <2>2 DEF RenameStale, Refused, lease, Alive
  <2> QED BY <2>1, <2>2
<1>7. ASSUME NEW p \in Procs, OpenOwner(p) PROVE OwnerInv'
  <2>1. CASE there
    BY <1>7, <2>1 DEF OpenOwner, Torn, OwnerInv
  <2>2. CASE ~there
    BY <1>2, <1>7, <2>2 DEF OpenOwner, lease, Alive
  <2> QED BY <2>1, <2>2
<1>8. ASSUME NEW p \in Procs, UndoDirectory(p) PROVE OwnerInv'
  BY <1>2, <1>8 DEF UndoDirectory, Alive
<1>9. ASSUME NEW p \in Procs, WriteOwner(p) PROVE OwnerInv'
  <2>1. owner' = OwnedBy(p, turn[p]) /\ pc'[p] = "hold"
    BY <1>0, <1>9 DEF WriteOwner, SerialInv
  <2>2. owner'.pid = p
    BY <2>1 DEF OwnedBy
  <2> QED BY <2>1, <2>2 DEF OwnerInv
<1>10. ASSUME NEW p \in Procs, Close(p) PROVE OwnerInv'
  <2>1. owner = OwnedBy(p, turn[p])
    BY <1>10 DEF Close, SerialInv
  <2> QED BY <1>2, <1>10, <2>1 DEF Close, lease, Alive
<1>11. ASSUME NEW p \in Procs, UnlinkOwner(p) PROVE OwnerInv'
  <2>1. owner' = None
    BY <1>11 DEF UnlinkOwner, lease
  <2> QED BY <2>1 DEF OwnerInv, None
<1>12. ASSUME NEW p \in Procs, RemoveDirectory(p) PROVE OwnerInv'
  BY <1>2, <1>12 DEF RemoveDirectory, Alive
<1>13. ASSUME NEW p \in Procs, Die(p) PROVE OwnerInv'
  BY <1>2, <1>13 DEF Die
<1> QED
  BY StepCases, <1>1, <1>3, <1>4, <1>5, <1>6, <1>7, <1>8, <1>9, <1>10, <1>11, <1>12, <1>13

LEMMA SecondPassInductive ==
    ASSUME TypeInv, SerialInv, SecondPassInv, [Next]_vars, ~overlapped'
    PROVE  SecondPassInv'
<1> USE DEF At, GoTo, SecondPassInv
<1>0. /\ pc \in [Procs -> Labels] /\ attempt \in [Procs -> 1 .. 2] /\ there \in BOOLEAN
  BY DEF TypeInv, TypeOK, Labels
<1>1. ASSUME UNCHANGED vars PROVE SecondPassInv'
  BY <1>1 DEF vars, lease
<1>2. ASSUME NEW p \in Procs, Ask(p) PROVE SecondPassInv'
  BY <1>0, <1>2 DEF Ask, lease
<1>3. ASSUME NEW p \in Procs, MakeDirectory(p) PROVE SecondPassInv'
  <2>1. \A q \in Procs : q # p => AtRest(q)
    BY <1>3 DEF MakeDirectory, SerialInv, AtRest
  <2>2. \A q \in Procs : q # p => pc[q] # "mkdir"
    BY <2>1 DEF AtRest
  <2> QED BY <1>0, <1>3, <2>2 DEF MakeDirectory, lease
<1>4. ASSUME NEW p \in Procs, ReadOwner(p) PROVE SecondPassInv'
  BY <1>0, <1>4 DEF ReadOwner, Refused, lease
<1>5. ASSUME NEW p \in Procs, RenameStale(p) PROVE SecondPassInv'
  <2>1. ~there'
    BY <1>0, <1>5 DEF RenameStale, Gone, lease
  <2>2. pc'[p] \notin {"read", "rename"} /\ \A q \in Procs : q # p => pc'[q] = pc[q]
    BY <1>0, <1>5 DEF RenameStale, Refused
  <2>3. \A q \in Procs : q # p => attempt'[q] = attempt[q]
    BY <1>0, <1>5 DEF RenameStale, Refused
  <2> QED BY <2>1, <2>2, <2>3
<1>6. ASSUME NEW p \in Procs, OpenOwner(p) PROVE SecondPassInv'
  BY <1>0, <1>6 DEF OpenOwner, lease
<1>7. ASSUME NEW p \in Procs, UndoDirectory(p) PROVE SecondPassInv'
  BY <1>0, <1>7 DEF UndoDirectory
<1>8. ASSUME NEW p \in Procs, WriteOwner(p) PROVE SecondPassInv'
  BY <1>0, <1>8 DEF WriteOwner
<1>9. ASSUME NEW p \in Procs, Close(p) PROVE SecondPassInv'
  BY <1>0, <1>9 DEF Close, lease
<1>10. ASSUME NEW p \in Procs, UnlinkOwner(p) PROVE SecondPassInv'
  BY <1>0, <1>10 DEF UnlinkOwner, lease
<1>11. ASSUME NEW p \in Procs, RemoveDirectory(p) PROVE SecondPassInv'
  BY <1>0, <1>11 DEF RemoveDirectory
<1>12. ASSUME NEW p \in Procs, Die(p) PROVE SecondPassInv'
  BY <1>0, <1>12 DEF Die
<1> QED
  BY StepCases, <1>1, <1>2, <1>3, <1>4, <1>5, <1>6, <1>7, <1>8, <1>9, <1>10, <1>11, <1>12

LEMMA StaysApart == ASSUME TypeInv, [Next]_vars, ~overlapped' PROVE ~overlapped
  BY DEF TypeInv, TypeOK, Next, Acquire, Release, vars, Ask, MakeDirectory, ReadOwner,
         RenameStale, OpenOwner, UndoDirectory, WriteOwner, Close, UnlinkOwner,
         RemoveDirectory, Die, Begin

LEMMA RefusalInvHolds == Spec => []RefusalInv
<1>1. Init => RefusalInv
  <2> SUFFICES ASSUME Init PROVE SerialInv /\ OwnerInv /\ SecondPassInv
    BY DEF RefusalInv
  <2>1. SerialInv
    BY DEF Init, SerialInv, AtRest, At, Holders
  <2>2. OwnerInv /\ SecondPassInv
    BY DEF Init, OwnerInv, None, SecondPassInv
  <2> QED BY <2>1, <2>2
<1>2. TypeInv /\ RefusalInv /\ [Next]_vars => RefusalInv'
  <2> SUFFICES ASSUME TypeInv, RefusalInv, [Next]_vars, ~overlapped'
               PROVE  (SerialInv /\ OwnerInv /\ SecondPassInv)'
    BY DEF RefusalInv
  <2>1. SerialInv /\ OwnerInv /\ SecondPassInv
    BY StaysApart DEF RefusalInv
  <2> QED BY <2>1, SerialInductive, OwnerInductive, SecondPassInductive
<1> QED
  BY <1>1, <1>2, TypeInvHolds, PTL DEF Spec

(***************************************************************************)
(* As long as calls do not overlap, a program is refused the device only   *)
(* because another one that lives holds it or is closing: what a dead      *)
(* owner left behind, at any step, keeps nobody out.                       *)
(***************************************************************************)
THEOREM OnlyTheLivingRefuse == Spec => RefusedByTheLiving
<1> DEFINE Refusal ==
        ~overlapped => \A p \in Procs : ~AtRest(p) /\ Acquire(p) /\ pc'[p] = "idle" =>
            \E q \in Procs \ {p} : Alive(q) /\ ~At(q, "idle")
<1>1. TypeInv /\ RefusalInv => Refusal
  <2> SUFFICES ASSUME TypeInv, RefusalInv, ~overlapped,
                      NEW p \in Procs, Acquire(p), pc'[p] = "idle"
               PROVE  \E q \in Procs \ {p} : Alive(q) /\ ~At(q, "idle")
    OBVIOUS
  <2>1. pc \in [Procs -> Labels] /\ attempt \in [Procs -> 1 .. 2]
    BY DEF TypeInv, TypeOK, Labels
  <2>2. ReadOwner(p) /\ OwnerIsAlive(p)
    <3>1. attempt[p] = 2 => pc[p] \notin {"read", "rename"}
      BY DEF RefusalInv, SecondPassInv
    <3>2. ~RenameStale(p)
      BY <2>1, <3>1 DEF RenameStale, At, GoTo
    <3> QED
      BY <2>1, <3>2 DEF Acquire, MakeDirectory, ReadOwner, OpenOwner, UndoDirectory,
                        WriteOwner, GoTo
  <2>3. owner.kind = "owner" /\ Alive(owner.pid) /\ pc[p] = "read"
    BY <2>2 DEF OwnerIsAlive, ReadOwner, At
  <2>4. owner.pid \in Procs /\ pc[owner.pid] \in {"hold", "unlink"}
    BY <2>3, OwnersAreProcs DEF RefusalInv, OwnerInv
  <2>5. owner.pid # p /\ ~At(owner.pid, "idle")
    BY <2>3, <2>4 DEF At
  <2> QED BY <2>3, <2>4, <2>5
<1>2. TypeInv /\ RefusalInv /\ [Next]_vars => [Refusal]_vars
  BY <1>1
<1> QED
  BY <1>2, TypeInvHolds, RefusalInvHolds, PTL DEF Spec, RefusedByTheLiving
=============================================================================
