---------------------------- MODULE SlotsProofs ----------------------------
(***************************************************************************)
(* Theorems of Slots for every number of processes and every lane width.   *)
(***************************************************************************)
EXTENDS Slots, FunctionTheorems, FiniteSetTheorems, TLAPS

(* The files that the code writes are lock files.                          *)
LEMMA Files ==
  /\ NoFile \in LockFiles /\ NeutralFile \in LockFiles
  /\ \A p \in Procs \cup {Nobody} :
       HalfFile(p) \in LockFiles /\ FullFile(p) \in LockFiles
  /\ \A f \in LockFiles :
       f.age < AgeBound => [f EXCEPT !.age = @ + 1] \in LockFiles
BY SlotsAssumption DEF LockFiles, NoFile, NeutralFile, HalfFile, FullFile

(* The indices a scan meets are slots, and one past the last.              *)
LEMMA Indices ==
  /\ 0 \in SlotIds /\ 0 \in 0..MaxSlots
  /\ \A i \in SlotIds : i \in 0..MaxSlots /\ i + 1 \in 0..MaxSlots
BY SlotsAssumption DEF SlotIds

(* A process that moves to a location stays well placed.                   *)
LEMMA Placed ==
  ASSUME PlacedOK, NEW p \in Procs, NEW l \in Locations, NEW i \in 0..MaxSlots,
         l \in OnFile => i \in SlotIds, Scan(p, l, i)
  PROVE  PlacedOK'
BY DEF PlacedOK, Scan, Goto

(* Who goes on at the same slot is at a place of the scan.                 *)
LEMMA PlacedInPlace ==
  ASSUME PlacedOK, NEW p \in Procs, NEW l \in Locations,
         l \in OnFile => slot[p] \in SlotIds, Goto(p, l), UNCHANGED slot
  PROVE  PlacedOK'
BY DEF PlacedOK, Goto

(* One file replaced by another leaves the bucket well typed.              *)
LEMMA Stored ==
  ASSUME lock \in [SlotIds -> LockFiles], NEW i \in SlotIds, NEW f \in LockFiles,
         Put(i, f)
  PROVE  lock' \in [SlotIds -> LockFiles]
BY DEF Put

(* Every update of the files, the locations and the verdicts is typed.     *)
LEMMA TypeCorrect == Spec => []TypeOK
<1>1. Init => TypeOK
  BY SlotsAssumption, Files, Indices
     DEF Init, TypeOK, PlacedOK, Locations, OnFile
<1>2. TypeOK /\ [Next]_vars => TypeOK'
  <2> SUFFICES ASSUME TypeOK, [Next]_vars PROVE TypeOK'
    OBVIOUS
  <2>0. \A p \in Procs : /\ slot[p] \in 0..MaxSlots
                         /\ pc[p] \in OnFile => slot[p] \in SlotIds
    BY DEF TypeOK, PlacedOK
  <2> USE SlotsAssumption, Files, Indices, Placed, PlacedInPlace, Stored, <2>0
      DEF TypeOK, Locations, OnFile
  <2>1. ASSUME NEW p \in Procs, Enter(p) PROVE TypeOK'
    BY <2>1 DEF Enter
  <2>2. ASSUME NEW p \in Procs, Acquiring(p) PROVE TypeOK'
    <3>1. CASE Create(p)
      BY <3>1 DEF Create
    <3>2. CASE Occupied(p)
      BY <3>2 DEF Occupied
    <3>3. CASE WritePayload(p)
      BY <3>3 DEF WritePayload
    <3>4. CASE WriteFails(p)
      BY <3>4 DEF WriteFails
    <3>5. CASE AllBusy(p)
      BY <3>5 DEF AllBusy
    <3>6. QED
      BY <2>2, <3>1, <3>2, <3>3, <3>4, <3>5 DEF Acquiring
  <2>3. ASSUME NEW p \in Procs, Reaping(p) PROVE TypeOK'
    <3>1. CASE ReapExists(p)
      BY <3>1 DEF ReapExists
    <3>2. CASE ReapOpen(p)
      BY <3>2 DEF ReapOpen
    <3>3. CASE ReapJudge(p)
      BY <3>3 DEF ReapJudge
    <3>4. CASE ReapRemoves(p)
      BY <3>4 DEF ReapRemoves, Victims, Forget
    <3>5. CASE ReapRefused(p)
      BY <3>5 DEF ReapRefused, Forget
    <3>6. CASE ReapDone(p)
      <4>1. PlacedOK'
        BY <3>6 DEF ReapDone
      <4>2. QED
        BY <3>6, <4>1 DEF ReapDone
    <3>7. CASE Retry(p)
      BY <3>7 DEF Retry
    <3>8. CASE TimeOut(p)
      BY <3>8 DEF TimeOut
    <3>9. QED
      BY <2>3, <3>1, <3>2, <3>3, <3>4, <3>5, <3>6, <3>7, <3>8 DEF Reaping
  <2>4. ASSUME NEW p \in Procs, Releasing(p) PROVE TypeOK'
    <3>1. CASE Finish(p)
      BY <3>1 DEF Finish
    <3>2. CASE Release(p)
      BY <3>2 DEF Release, Victims
    <3>3. CASE ReleaseRefused(p)
      BY <3>3 DEF ReleaseRefused
    <3>4. CASE Truncate(p)
      BY <3>4 DEF Truncate, Victims
    <3>5. CASE Neutralise(p)
      BY <3>5 DEF Neutralise, Victims
    <3>6. CASE LeakLock(p)
      BY <3>6 DEF LeakLock
    <3>7. QED
      BY <2>4, <3>1, <3>2, <3>3, <3>4, <3>5, <3>6 DEF Releasing
  <2>5. ASSUME NEW p \in Procs, Crash(p) PROVE TypeOK'
    BY <2>5 DEF Crash, Forget
  <2>6. ASSUME NEW p \in Procs, Respawn(p) PROVE TypeOK'
    BY <2>6 DEF Respawn
  <2>7. ASSUME NEW i \in SlotIds, Age(i) PROVE TypeOK'
    BY <2>7 DEF Age, PlacedOK
  <2>8. CASE UNCHANGED vars
    BY <2>8 DEF vars, PlacedOK
  <2>9. QED
    BY <2>1, <2>2, <2>3, <2>4, <2>5, <2>6, <2>7, <2>8 DEF Next, Running
<1>3. QED
  BY <1>1, <1>2, PTL DEF Spec

----------------------------------------------------------------------------
(* Whoever finds its own name in a file that it owns is not robbed of it:  *)
(* a holder in good standing takes nobody's lane when it gives up its own. *)
LEMMA OwnersRobNobody ==
  ASSUME OwnFile, NEW p \in Procs, pc[p] \in Believing, p \notin stolen
  PROVE  Victims(p, slot[p]) = {}
BY DEF OwnFile, Victims

(* The initial bucket is empty and nobody is in hold().                    *)
LEMMA LaneInvInit == Init => OwnFile /\ WriterAlone /\ VerdictOnDead /\ StolenHold
BY DEF Init, OwnFile, WriterAlone, VerdictOnDead, StolenHold, Believing

(* A step that moves p, and writes at most the file of p's slot, keeps the *)
(* invariant when it keeps it for p and for the others at that file.       *)
LEMMA LaneInvStep ==
  TypeOK /\ OwnFile /\ WriterAlone /\ VerdictOnDead /\ StolenHold /\ [Next]_vars
    => OwnFile' /\ WriterAlone' /\ VerdictOnDead' /\ StolenHold'
<1> SUFFICES ASSUME TypeOK, OwnFile, WriterAlone, VerdictOnDead, StolenHold, [Next]_vars
             PROVE  OwnFile' /\ WriterAlone' /\ VerdictOnDead' /\ StolenHold'
  OBVIOUS
<1>0. /\ lock \in [SlotIds -> LockFiles] /\ pc \in [Procs -> Locations]
      /\ slot \in [Procs -> 0..MaxSlots] /\ seen \in [Procs -> LockFiles]
      /\ \A p \in Procs : pc[p] \in OnFile => slot[p] \in SlotIds
      /\ stolen \subseteq Procs
  BY DEF TypeOK, PlacedOK
<1> USE <1>0, SlotsAssumption
    DEF OwnFile, WriterAlone, VerdictOnDead, StolenHold, ReadAlive, Believing, OnFile, Goto, Scan, Put
<1>1. ASSUME NEW p \in Procs, Enter(p)
      PROVE  OwnFile' /\ WriterAlone' /\ VerdictOnDead' /\ StolenHold'
  BY <1>1 DEF Enter
<1>2. ASSUME NEW p \in Procs, Create(p)
      PROVE  OwnFile' /\ WriterAlone' /\ VerdictOnDead' /\ StolenHold'
  BY <1>2 DEF Create, HalfFile
<1>3. ASSUME NEW p \in Procs, Occupied(p)
      PROVE  OwnFile' /\ WriterAlone' /\ VerdictOnDead' /\ StolenHold'
  BY <1>3 DEF Occupied
<1>4. ASSUME NEW p \in Procs, WritePayload(p)
      PROVE  OwnFile' /\ WriterAlone' /\ VerdictOnDead' /\ StolenHold'
  BY <1>4 DEF WritePayload, FullFile
<1>5. ASSUME NEW p \in Procs, WriteFails(p)
      PROVE  OwnFile' /\ WriterAlone' /\ VerdictOnDead' /\ StolenHold'
  BY <1>5 DEF WriteFails, OpenByOther, NoFile
<1>6. ASSUME NEW p \in Procs, AllBusy(p) \/ ReapExists(p) \/ Retry(p) \/ ReapDone(p) \/ TimeOut(p)
      PROVE  OwnFile' /\ WriterAlone' /\ VerdictOnDead' /\ StolenHold'
  BY <1>6 DEF AllBusy, ReapExists, Retry, ReapDone, TimeOut
<1>7. ASSUME NEW p \in Procs, ReapOpen(p)
      PROVE  OwnFile' /\ WriterAlone' /\ VerdictOnDead' /\ StolenHold'
  BY <1>7 DEF ReapOpen, NoFile
<1>8. ASSUME NEW p \in Procs, ReapJudge(p)
      PROVE  OwnFile' /\ WriterAlone' /\ VerdictOnDead' /\ StolenHold'
  BY <1>8 DEF ReapJudge, IsStale, PidAlive
<1>9. ASSUME NEW p \in Procs, ReapRemoves(p)
      PROVE  OwnFile' /\ WriterAlone' /\ VerdictOnDead' /\ StolenHold'
  BY <1>9 DEF ReapRemoves, OpenByOther, Victims, NoFile, Forget
<1>10. ASSUME NEW p \in Procs, ReapRefused(p)
      PROVE  OwnFile' /\ WriterAlone' /\ VerdictOnDead' /\ StolenHold'
  BY <1>10 DEF ReapRefused, Forget, NoFile
<1>11. ASSUME NEW p \in Procs, Finish(p) \/ ReleaseRefused(p)
      PROVE  OwnFile' /\ WriterAlone' /\ VerdictOnDead' /\ StolenHold'
  BY <1>11 DEF Finish, ReleaseRefused
<1>12. ASSUME NEW p \in Procs, Release(p)
      PROVE  OwnFile' /\ WriterAlone' /\ VerdictOnDead' /\ StolenHold'
  BY <1>12 DEF Release, OpenByOther, Victims, NoFile
<1>13. ASSUME NEW p \in Procs, Truncate(p)
      PROVE  OwnFile' /\ WriterAlone' /\ VerdictOnDead' /\ StolenHold'
  BY <1>13 DEF Truncate, HalfFile, Victims
<1>14. ASSUME NEW p \in Procs, Neutralise(p)
      PROVE  OwnFile' /\ WriterAlone' /\ VerdictOnDead' /\ StolenHold'
  BY <1>14 DEF Neutralise, NeutralFile, Victims
<1>15. ASSUME NEW p \in Procs, LeakLock(p)
      PROVE  OwnFile' /\ WriterAlone' /\ VerdictOnDead' /\ StolenHold'
  BY <1>15 DEF LeakLock
<1>16. ASSUME NEW p \in Procs, Crash(p)
      PROVE  OwnFile' /\ WriterAlone' /\ VerdictOnDead' /\ StolenHold'
  BY <1>16 DEF Crash, Forget, NoFile
<1>17. ASSUME NEW p \in Procs, Respawn(p)
      PROVE  OwnFile' /\ WriterAlone' /\ VerdictOnDead' /\ StolenHold'
  BY <1>17 DEF Respawn
<1>18. ASSUME NEW i \in SlotIds, Age(i)
      PROVE  OwnFile' /\ WriterAlone' /\ VerdictOnDead' /\ StolenHold'
  BY <1>18 DEF Age
<1>19. CASE UNCHANGED vars
  BY <1>19 DEF vars
<1>20. QED
  BY <1>1, <1>2, <1>3, <1>4, <1>5, <1>6, <1>7, <1>8, <1>9, <1>10, <1>11, <1>12,
     <1>13, <1>14, <1>15, <1>16, <1>17, <1>18, <1>19
     DEF Next, Running, Acquiring, Reaping, Releasing

(* The strengthening LaneInv is invariant.                                 *)
THEOREM LaneInvariant == Spec => []LaneInv
<1>1. Init => OwnFile /\ WriterAlone /\ VerdictOnDead /\ StolenHold
  BY LaneInvInit
<1>2. TypeOK /\ OwnFile /\ WriterAlone /\ VerdictOnDead /\ StolenHold /\ [Next]_vars
        => OwnFile' /\ WriterAlone' /\ VerdictOnDead' /\ StolenHold'
  BY LaneInvStep
<1>3. QED
  BY <1>1, <1>2, TypeCorrect, PTL DEF Spec, LaneInv

(* Exclusive creation never gives one slot to two holders in good standing.*)
THEOREM NoSharedSlot == Spec => []SlotExclusive
<1>1. LaneInv => SlotExclusive
  BY DEF LaneInv, OwnFile, SlotExclusive, Holding, Believing
<1>2. QED
  BY <1>1, LaneInvariant, PTL

(* There are MaxSlots slots.                                               *)
LEMMA SlotCount == IsFiniteSet(SlotIds) /\ Cardinality(SlotIds) = MaxSlots
BY SlotsAssumption, FS_Interval DEF SlotIds

(* Holders in good standing have different slots, so there are no more of  *)
(* them than slots they may have.                                          *)
LEMMA OneLaneEach ==
  ASSUME LaneInv, NEW S, S \subseteq Holders \ stolen,
         NEW T, T \subseteq SlotIds, \A p \in S : slot[p] \in T
  PROVE  /\ IsFiniteSet(S) /\ IsFiniteSet(T)
         /\ Cardinality(S) \in Nat /\ Cardinality(S) <= Cardinality(T)
<1> DEFINE lane == [p \in S |-> slot[p]]
<1>1. lane \in Injection(S, T)
  <2>1. lane \in [S -> T]
    OBVIOUS
  <2>2. \A p, q \in S : lane[p] = lane[q] => p = q
    BY DEF LaneInv, OwnFile, Holders
  <2>3. QED
    BY <2>1, <2>2 DEF Injection, IsInjective
<1>2. IsFiniteSet(T)
  BY SlotCount, FS_Subset
<1>3. QED
  BY <1>1, <1>2, FS_Injection, FS_CardinalityType

(* slots.py's bound, as far as the code keeps it: only a robbed holder can *)
(* be one too many.                                                        *)
THEOREM LaneBound == Spec => []BoundUnlessStolen
<1>1. LaneInv => BoundUnlessStolen
  <2> SUFFICES ASSUME LaneInv PROVE BoundUnlessStolen
    OBVIOUS
  <2>1. Holding \ stolen \subseteq Holders \ stolen
    BY DEF Holding, Holders, Believing
  <2>2. \A p \in Holding : slot[p] \in SlotIds
    BY DEF LaneInv, TypeOK, PlacedOK, Holding, OnFile
  <2>3. QED
    BY <2>1, <2>2, OneLaneEach, SlotCount DEF BoundUnlessStolen
<1>2. QED
  BY <1>1, LaneInvariant, PTL

----------------------------------------------------------------------------
(* Who can take a file away from a holder.                                 *)
TheftStep ==
  \A v \in stolen' \ stolen : \E q \in Procs \ {v} :
    /\ slot[q] = slot[v]
    /\ \/ pc[q] = "unlink" /\ (PidReuse \/ ~ReadAlive(q, v))
       \/ pc[q] \in {"release", "neutralise", "zeroing"} /\ q \in stolen

(* Only four actions remove or overwrite a file that may be another's.     *)
LEMMA RobbersAre ==
  ASSUME [Next]_vars
  PROVE  \/ stolen' \subseteq stolen
         \/ \E p \in Procs :
              /\ stolen' \subseteq stolen \cup Victims(p, slot[p])
              /\ \/ ReapRemoves(p) \/ Release(p) \/ Truncate(p) \/ Neutralise(p)
<1> DEFINE Spares == stolen' \subseteq stolen
           Robs(p) == /\ stolen' \subseteq stolen \cup Victims(p, slot[p])
                      /\ ReapRemoves(p) \/ Release(p) \/ Truncate(p) \/ Neutralise(p)
<1>1. ASSUME NEW p \in Procs, Acquiring(p) PROVE Spares
  BY <1>1 DEF Acquiring, Create, Occupied, WritePayload, WriteFails, AllBusy
<1>2. ASSUME NEW p \in Procs, Reaping(p) PROVE Spares \/ Robs(p)
  <2>1. CASE ReapRemoves(p)
    BY <2>1 DEF ReapRemoves
  <2>2. CASE ~ReapRemoves(p)
    BY <1>2, <2>2 DEF Reaping, ReapExists, ReapOpen, ReapJudge, ReapRefused, ReapDone, Retry, TimeOut
  <2>3. QED
    BY <2>1, <2>2
<1>3. ASSUME NEW p \in Procs, Releasing(p) PROVE Spares \/ Robs(p)
  <2>1. CASE Release(p) \/ Truncate(p) \/ Neutralise(p)
    BY <2>1 DEF Release, Truncate, Neutralise
  <2>2. CASE Finish(p) \/ ReleaseRefused(p) \/ LeakLock(p)
    BY <2>2 DEF Finish, ReleaseRefused, LeakLock
  <2>3. QED
    BY <1>3, <2>1, <2>2 DEF Releasing
<1>4. ASSUME NEW p \in Procs, Enter(p) \/ Crash(p) \/ Respawn(p) PROVE Spares
  BY <1>4 DEF Enter, Crash, Respawn
<1>5. ASSUME NEW i \in SlotIds, Age(i) PROVE Spares
  BY <1>5 DEF Age
<1>6. UNCHANGED vars => Spares
  BY DEF vars
<1> HIDE DEF Spares
<1>7. QED
  BY <1>1, <1>2, <1>3, <1>4, <1>5, <1>6 DEF Next, Running, Spares

(* A holder in good standing loses its file only to a reap that did not    *)
(* read that file as its own, or to the release of a robbed process.       *)
THEOREM TheftsAreJustified == Spec => TheftJustified
<1>1. LaneInv /\ [Next]_vars => TheftStep
  <2> SUFFICES ASSUME LaneInv, [Next]_vars, NEW v \in stolen' \ stolen
               PROVE  \E q \in Procs \ {v} :
                        /\ slot[q] = slot[v]
                        /\ \/ pc[q] = "unlink" /\ (PidReuse \/ ~ReadAlive(q, v))
                           \/ /\ pc[q] \in {"release", "neutralise", "zeroing"}
                              /\ q \in stolen
    BY DEF TheftStep
  <2>1. PICK p \in Procs :
          /\ v \in Victims(p, slot[p])
          /\ ReapRemoves(p) \/ Release(p) \/ Truncate(p) \/ Neutralise(p)
    BY RobbersAre
  <2>2. /\ v \in Procs \ {p} /\ slot[p] = slot[v]
        /\ pc[v] \in Believing /\ v \notin stolen
    BY <2>1 DEF Victims
  <2>3. CASE ReapRemoves(p)
    BY <2>2, <2>3 DEF ReapRemoves, LaneInv, VerdictOnDead, Believing
  <2>4. CASE Release(p) \/ Truncate(p)
    <3>1. p \in stolen
      BY <2>1, <2>4, OwnersRobNobody DEF Release, Truncate, LaneInv, Believing
    <3>2. QED
      BY <2>2, <2>4, <3>1 DEF Release, Truncate
  <2>5. CASE Neutralise(p)
    BY <2>2, <2>5 DEF Neutralise, LaneInv, WriterAlone
  <2>6. QED
    BY <2>1, <2>3, <2>4, <2>5
<1>2. LaneInv /\ [Next]_vars => [TheftStep]_vars
  BY <1>1
<1>3. QED
  BY <1>2, LaneInvariant, PTL DEF Spec, TheftJustified, TheftStep

----------------------------------------------------------------------------
(* The lock files implement the semaphore with robbable holders.           *)
Robbed == stolen \cap Holders

(* A slot whose file is absent is free: no more than MaxSlots - 1 of the   *)
(* others are in good standing.                                            *)
LEMMA FreeSlotFreeLane ==
  ASSUME LaneInv, NEW i \in SlotIds, lock[i].kind = "absent"
  PROVE  Cardinality(Holders \ Robbed) < MaxSlots
<1>1. /\ Holders \ Robbed \subseteq Holders \ stolen
      /\ \A p \in Holders \ Robbed : slot[p] \in SlotIds \ {i}
  BY DEF LaneInv, TypeOK, PlacedOK, OwnFile, Holders, Robbed, Believing, OnFile
<1>2. Cardinality(SlotIds \ {i}) = MaxSlots - 1
  BY SlotCount, FS_RemoveElement
<1>3. QED
  BY <1>1, <1>2, OneLaneEach, SlotsAssumption

(* Every step is a step of the bucket or leaves it alone.                  *)
LEMMA BucketStep ==
  LaneInv /\ [Next]_vars => [Bucket!BucketNext]_(Bucket!bucket)
<1> SUFFICES ASSUME LaneInv, [Next]_vars
             PROVE  [Bucket!BucketNext]_(Bucket!bucket)
  OBVIOUS
<1>0. pc \in [Procs -> Locations] /\ stolen \subseteq Procs
  BY DEF LaneInv, TypeOK, PlacedOK
<1>a. ASSUME UNCHANGED <<Holders, Robbed>> PROVE UNCHANGED Bucket!bucket
  BY <1>a DEF Bucket!bucket, Robbed
<1>b. ASSUME NEW p \in Procs, NEW V \in SUBSET Holders,
             p \in Holders, p \notin Robbed => V = {}, V \subseteq Holders \ {p},
             Holders' = Holders \ {p}, Robbed' = (Robbed \cup V) \ {p}
      PROVE  Bucket!BucketNext
  BY <1>b DEF Bucket!BucketNext, Bucket!Leave, Robbed
<1>c. ASSUME NEW p \in Procs, NEW V \in SUBSET Holders,
             p \notin Holders, Robbed' = Robbed \cup V, UNCHANGED Holders
      PROVE  Bucket!BucketNext
  BY <1>c DEF Bucket!BucketNext, Bucket!Rob, Robbed
<1> USE <1>0 DEF Goto, Scan
<1>1. ASSUME NEW p \in Procs,
             \/ Enter(p) \/ Occupied(p) \/ WritePayload(p) \/ AllBusy(p)
             \/ ReapExists(p) \/ ReapOpen(p) \/ ReapJudge(p) \/ ReapRefused(p)
             \/ ReapDone(p) \/ Retry(p) \/ TimeOut(p) \/ Finish(p)
             \/ ReleaseRefused(p) \/ Respawn(p)
      PROVE  UNCHANGED Bucket!bucket
  <2>1. UNCHANGED stolen /\ UNCHANGED Holders
    BY <1>1 DEF Enter, Occupied, WritePayload, AllBusy, ReapExists, ReapOpen,
                ReapJudge, ReapRefused, ReapDone, Retry, TimeOut, Finish,
                ReleaseRefused, Respawn, Holders, Believing
  <2>2. QED
    BY <2>1, <1>a DEF Robbed
<1>2. ASSUME NEW p \in Procs, Create(p) PROVE Bucket!BucketNext
  <2>1. Holders' = Holders \cup {p} /\ p \notin Holders
    BY <1>2 DEF Create, Holders, Believing
  <2>2. Robbed' = Robbed
    BY <1>2, <2>1 DEF Create, Robbed, LaneInv, StolenHold, Believing
  <2>3. Cardinality(Holders \ Robbed) < MaxSlots
    BY <1>2, FreeSlotFreeLane DEF Create
  <2>4. Bucket!Acquire(p)
    BY <2>1, <2>2, <2>3
       DEF Bucket!Acquire, Bucket!InGoodStanding, Robbed, Bucket!Cardinality, Cardinality
  <2>5. QED
    BY <2>4 DEF Bucket!BucketNext
<1>3. ASSUME NEW p \in Procs, WriteFails(p) \/ LeakLock(p) \/ Crash(p)
      PROVE  [Bucket!BucketNext]_(Bucket!bucket)
  <2>1. Holders' = Holders \ {p} /\ Robbed' = Robbed \ {p}
    BY <1>3 DEF WriteFails, LeakLock, Crash, Holders, Robbed, Believing
  <2>2. CASE p \in Holders
    <3> DEFINE V == {}
    <3>1. V \in SUBSET Holders /\ V \subseteq Holders \ {p} /\ Robbed' = (Robbed \cup V) \ {p}
      BY <2>1
    <3> HIDE DEF V
    <3>2. QED
      BY <2>1, <2>2, <3>1, <1>b DEF V
  <2>3. CASE p \notin Holders
    BY <2>1, <2>3, <1>a DEF Robbed
  <2>4. QED
    BY <2>2, <2>3
<1>4. ASSUME NEW p \in Procs, Release(p) \/ Truncate(p) PROVE Bucket!BucketNext
  <2> DEFINE V == Victims(p, slot[p])
  <2>1. p \in Holders /\ V \subseteq Holders \ {p} /\ (p \notin Robbed => V = {})
    BY <1>4, OwnersRobNobody
       DEF Release, Truncate, Holders, Robbed, Believing, Victims, LaneInv
  <2>2. Holders' = Holders \ {p}
    BY <1>4 DEF Release, Truncate, Holders, Believing
  <2>3. Robbed' = (Robbed \cup V) \ {p}
    BY <1>4, <2>1, <2>2 DEF Release, Truncate, Robbed
  <2>4. QED
    BY <2>1, <2>2, <2>3, <1>b
<1>5. ASSUME NEW p \in Procs, ReapRemoves(p) \/ Neutralise(p)
      PROVE  Bucket!BucketNext
  <2> DEFINE V == Victims(p, slot[p])
  <2>1. p \notin Holders /\ V \subseteq Holders
    BY <1>5 DEF ReapRemoves, Neutralise, Holders, Believing, Victims
  <2>2. UNCHANGED Holders
    BY <1>5 DEF ReapRemoves, Neutralise, Holders, Believing
  <2>3. Robbed' = Robbed \cup V
    BY <1>5, <2>1, <2>2 DEF ReapRemoves, Neutralise, Robbed
  <2>4. QED
    BY <2>1, <2>2, <2>3, <1>c
<1>6. ASSUME NEW i \in SlotIds, Age(i) PROVE UNCHANGED Bucket!bucket
  BY <1>6, <1>a DEF Age, Holders, Robbed
<1>7. CASE UNCHANGED vars
  BY <1>7, <1>a DEF vars, Holders, Robbed
<1>8. QED
  BY <1>1, <1>2, <1>3, <1>4, <1>5, <1>6, <1>7
     DEF Next, Running, Acquiring, Reaping, Releasing

(* slots.py is a lane bucket: a lane is given to a process only while      *)
(* fewer than MaxSlots holders are in good standing, and only waiters and  *)
(* robbed holders rob.                                                     *)
THEOREM SlotsIsABucket == Spec => ImplementsBucket
<1>1. Init => Bucket!BucketInit
  BY DEF Init, Bucket!BucketInit, Holders, Believing
<1>2. QED
  BY <1>1, BucketStep, LaneInvariant, PTL
     DEF Spec, ImplementsBucket, Bucket!BucketSpec
=============================================================================
