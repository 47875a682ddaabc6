------------------------------ MODULE TreeProofs ------------------------------
(***************************************************************************)
(* Theorems of what guards a working tree, for every number of runs, lanes *)
(* and files, every cap and however often something fails.  Of GitLock: one*)
(* git command at a time works in a tree, it keeps its index.lock, and a   *)
(* commit takes nothing that its checks could have refused.  Of Lanes: a   *)
(* run is given its lane alone, and no commit is lost.                     *)
(***************************************************************************)
EXTENDS GitLock, Lanes, FiniteSetTheorems, FunctionTheorems, TLAPS

----------------------------------------------------------------------------
(* The lock around the git commands of a tree.                             *)

RunOK == run \in [Runs -> RunStates]
LockOK == lock \in Locks
RestOK ==
  /\ ilock \in IndexLocks
  /\ outside \in BOOLEAN /\ merging \in BOOLEAN
  /\ staged \in SUBSET Files /\ edited \in SUBSET Files
  /\ claim \in [Files -> Runs \cup {Nobody}]
  /\ hit \in SUBSET {"hung", "raced"} /\ swept \in SUBSET Files /\ events \in 0 .. MaxEvents

(* The places of a run.                                                    *)
LEMMA LocationsAre ==
  {"off", "try", "half", "recheck", "unlink", "index", "rmindex", "check", "git", "writing",
   "release", "drop", "done"} \subseteq Locations
BY DEF Locations

(* The fields of the record of a run.                                      *)
LEMMA StateDomain == \A x \in RunStates : DOMAIN x = 
  {"at", "verb", "seen", "broke", "alone", "late"}
BY DEF RunStates

(* The fields of a lock.                                                   *)
LEMMA GitLockDomain == \A x \in Locks : DOMAIN x = {"by", "whole", "old"}
BY DEF Locks

(* What the steps make of a lock is one.                                   *)
LEMMA LocksAre ==
  /\ NoLock \in Locks
  /\ \A r \in Runs : [by |-> r, whole |-> FALSE, old |-> FALSE] \in Locks
  /\ \A x \in Locks :
         /\ [x EXCEPT !.old = TRUE] \in Locks
         /\ [x EXCEPT !.whole = TRUE, !.old = FALSE] \in Locks
BY DEF Locks, NoLock

(* What the steps make of an index.lock is one.                            *)
LEMMA IndexLocksAre ==
  /\ NoIndexLock \in IndexLocks
  /\ \A r \in Runs \cup {Outside} : [by |-> r, age |-> 0] \in IndexLocks
  /\ \A x \in IndexLocks : x.age < 2 => [x EXCEPT !.age = @ + 1] \in IndexLocks
BY DEF IndexLocks, NoIndexLock

(* What the steps make of the record of a run is one.                      *)
LEMMA States ==
  ASSUME NEW x \in RunStates, NEW p \in Locations
  PROVE  /\ [x EXCEPT !.at = p] \in RunStates /\ [Unborn EXCEPT !.at = p] \in RunStates
         /\ \A v \in Verbs : [x EXCEPT !.at = p, !.verb = v] \in RunStates
         /\ \A s \in Locks :
                /\ [x EXCEPT !.at = p, !.seen = s] \in RunStates
                /\ [x EXCEPT !.at = p, !.seen = s, !.broke = TRUE] \in RunStates
         /\ [x EXCEPT !.at = p, !.broke = FALSE] \in RunStates
         /\ [x EXCEPT !.alone = TRUE] \in RunStates
         /\ \A fs \in SUBSET Files :
                /\ [x EXCEPT !.at = p, !.late = fs] \in RunStates
                /\ [x EXCEPT !.late = @ \cup fs] \in RunStates
<1>1. NoLock \in Locks
  BY LocksAre
<1>2. QED
  BY <1>1 DEF RunStates, Unborn, Verbs, Commits

(* What a lock says.                                                       *)
LEMMA LockFields ==
  \A x \in Locks : x.by \in Runs \cup {Nobody} /\ x.whole \in BOOLEAN /\ x.old \in BOOLEAN
BY DEF Locks

(* What a run remembers.                                                   *)
LEMMA StateFields ==
  \A x \in RunStates : x.verb \in Verbs /\ x.late \in SUBSET Files /\ x.seen \in Locks
BY DEF RunStates

(* The record of r is replaced, and no other.                              *)
Own(r) == \E x \in RunStates : run' = [run EXCEPT ![r] = x]

(* The record of a run whose git is over is one.                           *)
LEMMA OverIs ==
  ASSUME RunOK, NEW r \in Runs
  PROVE  /\ Over(r) \in RunStates
         /\ Over(r).at \in {"release", "done"} /\ (run[r].alone => Over(r).at = "done")
<1>1. \A p \in Locations : [Unborn EXCEPT !.at = p] \in RunStates
  BY States DEF RunOK
<1>2. \A p : [Unborn EXCEPT !.at = p].at = p
  BY DEF Unborn
<1>3. QED
  BY <1>1, <1>2, LocationsAre DEF Over

(* What check reads and decides.                                           *)
LEMMA CheckIs ==
  ASSUME NEW r \in Runs, Check(r)
  PROVE  \/ Leave(r, "release")
         \/ \E cached \in {staged, {}}, dirty \in {edited, {}}, merged \in {Merged, {}} :
              /\ ~Refused(r, Listed(r, cached, dirty), merged)
              /\ run' = [run EXCEPT ![r] = [run[r] EXCEPT
                           !.at = "git", !.late = Blind(r, cached, dirty)]]
BY DEF Check

(* Where it goes.                                                          *)
LEMMA CheckTo ==
  ASSUME RunOK, NEW r \in Runs, Check(r) PROVE run'[r].at \in {"git", "release"}
<1>1. CASE Leave(r, "release")
  BY <1>1 DEF Leave, RunOK, Unborn
<1>2. CASE ~Leave(r, "release")
  <2>1. PICK l : run' = [run EXCEPT ![r] = [run[r] EXCEPT !.at = "git", !.late = l]]
    BY <1>2, CheckIs
  <2>2. [run[r] EXCEPT !.at = "git", !.late = l].at = "git"
    BY StateDomain DEF RunOK
  <2>3. QED
    BY <2>1, <2>2 DEF RunOK
<1>3. QED
  BY <1>1, <1>2

(* A step of one run replaces its record alone, but for a merge that stops.*)
LEMMA OwnStep ==
  ASSUME RunOK, LockOK, RestOK, NEW r \in Runs, Step(r) \/ Crash(r), ~GitEnds(r)
  PROVE  Own(r)
<1>1. \A p \in Locations : Go(r, p) => Own(r)
  BY States DEF Go, Own, RunOK
<1>2. \A p \in Locations : Leave(r, p) => Own(r)
  BY States DEF Leave, Own, RunOK
<1>3. CASE Start(r)
  <2>1. PICK v \in Verbs : run' = [run EXCEPT ![r] = [run[r] EXCEPT !.at = "try", !.verb = v]]
    BY <1>3 DEF Start
  <2>2. [run[r] EXCEPT !.at = "try", !.verb = v] \in RunStates
    BY States, LocationsAre DEF RunOK
  <2>3. QED
    BY <2>1, <2>2 DEF Own
<1>4. CASE Look(r)
  <2>1. [run[r] EXCEPT !.at = "recheck", !.seen = lock, !.broke = TRUE] \in RunStates
    BY States, LocationsAre DEF RunOK, LockOK
  <2>2. QED
    BY <1>4, <2>1 DEF Look, Own
<1>5. CASE Recheck(r)
  <2>1. /\ [run[r] EXCEPT !.at = "unlink"] \in RunStates
        /\ [run[r] EXCEPT !.at = "try", !.seen = NoLock] \in RunStates
    BY States, LocationsAre, LocksAre DEF RunOK
  <2>2. QED
    BY <1>5, <2>1 DEF Recheck, Own
<1>6. CASE Unlink(r)
  <2>1. [run[r] EXCEPT !.at = "try", !.seen = NoLock] \in RunStates
    BY States, LocationsAre, LocksAre DEF RunOK
  <2>2. QED
    BY <1>6, <2>1 DEF Unlink, Own
<1>7. CASE Check(r)
  <2>1. CASE Leave(r, "release")
    BY <1>2, <2>1, LocationsAre
  <2>2. CASE ~Leave(r, "release")
    <3>1. PICK cached \in {staged, {}}, dirty \in {edited, {}}, merged \in {Merged, {}} :
            run' = [run EXCEPT ![r] = [run[r] EXCEPT
                      !.at = "git", !.late = Blind(r, cached, dirty)]]
      BY <1>7, <2>2, CheckIs
    <3>2. Blind(r, cached, dirty) \in SUBSET Files
      BY GitLockAssumption DEF RestOK, Blind
    <3>3. [run[r] EXCEPT !.at = "git", !.late = Blind(r, cached, dirty)] \in RunStates
      BY <3>2, States, LocationsAre DEF RunOK
    <3>4. QED
      BY <3>1, <3>3 DEF Own
  <2>3. QED
    BY <2>1, <2>2
<1>8. CASE GitStart(r)
  BY <1>1, <1>8, LocationsAre, OverIs DEF GitStart, Own
<1>9. CASE Release(r)
  BY <1>1, <1>2, <1>9, LocationsAre DEF Release
<1>10. CASE Create(r)
  <2>1. [run[r] EXCEPT !.at = "half", !.broke = FALSE] \in RunStates
    BY States, LocationsAre DEF RunOK
  <2>2. QED
    BY <1>10, <2>1 DEF Create, Own
<1>11. CASE Crash(r)
  <2>1. [run[r] EXCEPT !.alone = TRUE] \in RunStates
    <3>1. PICK p \in Locations : TRUE
      BY LocationsAre
    <3>2. QED
      BY <3>1, States DEF RunOK
  <2>2. QED
    BY <1>2, <1>11, <2>1, LocationsAre DEF Crash, Own
<1>12. QED
  BY <1>1, <1>2, <1>3, <1>4, <1>5, <1>6, <1>7, <1>8, <1>9, <1>10, <1>11, LocationsAre
     DEF Step, FillIn, Refuse, IndexFree, JudgeIndex, RemoveIndex, RefuseIndex, Drop

(* What a run is, but for what is late for it.                             *)
Same(r) ==
  /\ run'[r].at = run[r].at /\ run'[r].verb = run[r].verb
  /\ run'[r].seen = run[r].seen /\ run'[r].alone = run[r].alone

(* What the others do makes files late, and moves no run.                  *)
LEMMA LateStep ==
  ASSUME RunOK, NEW fs \in SUBSET Files
  PROVE  /\ Late(fs) \in [Runs -> RunStates]
         /\ \A r \in Runs :
                /\ Late(fs)[r].at = run[r].at /\ Late(fs)[r].verb = run[r].verb
                /\ Late(fs)[r].seen = run[r].seen /\ Late(fs)[r].alone = run[r].alone
                /\ run[r].at \in InGit => Late(fs)[r].late = run[r].late \cup fs
<1>1. \A r \in Runs : run[r] \in RunStates /\ [run[r] EXCEPT !.late = @ \cup fs] \in RunStates
  <2>1. \A r \in Runs : run[r] \in RunStates
    BY DEF RunOK
  <2>2. PICK p \in Locations : TRUE
    BY LocationsAre
  <2>3. QED
    BY <2>1, <2>2, States
<1>2. Late(fs) \in [Runs -> RunStates]
  BY <1>1 DEF Late
<1>3. QED
  BY <1>1, <1>2, StateDomain DEF Late, RunOK

(* The end of a git: its run leaves it, and a merge that stops makes all   *)
(* files late for the others.                                              *)
LEMMA EndsIs ==
  ASSUME RunOK, NEW r \in Runs, GitEnds(r)
  PROVE  /\ RunOK' /\ run'[r] = Over(r) /\ \A q \in Runs \ {r} : Same(q)
         /\ \/ \A q \in Runs \ {r} : run'[q] = run[q]
            \/ \A q \in Runs \ {r} : run[q].at \in InGit => run'[q].late = Files \cup run[q].late
<1>1. \/ run' = [run EXCEPT ![r] = Over(r)]
      \/ run' = [Late(Files) EXCEPT ![r] = Over(r)]
  BY DEF GitEnds
<1>2. Over(r) \in RunStates
  BY OverIs
<1>3. CASE run' = [run EXCEPT ![r] = Over(r)]
  BY <1>2, <1>3 DEF RunOK, Same
<1>4. CASE run' = [Late(Files) EXCEPT ![r] = Over(r)]
  <2>1. Files \in SUBSET Files
    OBVIOUS
  <2>2. RunOK'
    BY <1>2, <1>4, <2>1, LateStep DEF RunOK
  <2>3. \A q \in Runs \ {r} : run'[q] = Late(Files)[q]
    BY <1>4, <2>1, LateStep
  <2>4. \A q \in Runs \ {r} : Same(q)
    BY <2>1, <2>3, LateStep DEF Same
  <2>5. \A q \in Runs \ {r} : run[q].at \in InGit => run'[q].late = Files \cup run[q].late
    BY <2>1, <2>3, LateStep
  <2>6. run'[r] = Over(r)
    BY <1>4, <2>1, LateStep
  <2>7. QED
    BY <2>2, <2>4, <2>5, <2>6
<1>5. QED
  BY <1>1, <1>3, <1>4

(* The types, in the parts that the actions disturb.                       *)
TypeInv == RunOK /\ LockOK /\ RestOK

(* Every step keeps the types.                                             *)
LEMMA TypeStep == ASSUME TypeInv, [Next]_vars PROVE TypeInv'
<1> USE GitLockAssumption DEF TypeInv
<1>r. ASSUME NEW r \in Runs, Step(r) \/ Crash(r) PROVE RunOK'
  BY <1>r, OwnStep, EndsIs DEF Own, RunOK
<1>e. ASSUME Event PROVE events' \in 0 .. MaxEvents
  BY <1>e DEF Event, RestOK
<1>1. ASSUME NEW r \in Runs, Start(r) PROVE TypeInv'
  BY <1>1, <1>r, LocksAre, IndexLocksAre DEF Start, Step, LockOK, RestOK
<1>2. ASSUME NEW r \in Runs, Create(r) PROVE TypeInv'
  BY <1>2, <1>r, LocksAre, IndexLocksAre DEF Create, Step, LockOK, RestOK
<1>3. ASSUME NEW r \in Runs, FillIn(r) PROVE TypeInv'
  BY <1>3, <1>r, LocksAre, IndexLocksAre DEF FillIn, Step, LockOK, RestOK
<1>4. ASSUME NEW r \in Runs, Look(r) PROVE TypeInv'
  BY <1>4, <1>r, LocksAre, IndexLocksAre DEF Look, Step, LockOK, RestOK
<1>5. ASSUME NEW r \in Runs, Recheck(r) PROVE TypeInv'
  BY <1>5, <1>r, LocksAre, IndexLocksAre DEF Recheck, Step, LockOK, RestOK
<1>6. ASSUME NEW r \in Runs, Unlink(r) PROVE TypeInv'
  BY <1>6, <1>r, LocksAre, IndexLocksAre DEF Unlink, Step, LockOK, RestOK
<1>7. ASSUME NEW r \in Runs, Refuse(r) PROVE TypeInv'
  BY <1>7, <1>r, LocksAre, IndexLocksAre DEF Refuse, Step, LockOK, RestOK
<1>8. ASSUME NEW r \in Runs, IndexFree(r) PROVE TypeInv'
  BY <1>8, <1>r, LocksAre, IndexLocksAre DEF IndexFree, Step, LockOK, RestOK
<1>9. ASSUME NEW r \in Runs, JudgeIndex(r) PROVE TypeInv'
  BY <1>9, <1>r, LocksAre, IndexLocksAre DEF JudgeIndex, Step, LockOK, RestOK
<1>10. ASSUME NEW r \in Runs, RemoveIndex(r) PROVE TypeInv'
  BY <1>10, <1>r, LocksAre, IndexLocksAre DEF RemoveIndex, Step, LockOK, RestOK
<1>11. ASSUME NEW r \in Runs, RefuseIndex(r) PROVE TypeInv'
  BY <1>11, <1>r, LocksAre, IndexLocksAre DEF RefuseIndex, Step, LockOK, RestOK
<1>12. ASSUME NEW r \in Runs, Check(r) PROVE TypeInv'
  BY <1>12, <1>r, LocksAre, IndexLocksAre DEF Check, Step, LockOK, RestOK
<1>13. ASSUME NEW r \in Runs, GitStart(r) PROVE TypeInv'
  BY <1>13, <1>r, LocksAre, IndexLocksAre DEF GitStart, Step, LockOK, RestOK
<1>14. ASSUME NEW r \in Runs, GitEnds(r) PROVE TypeInv'
  <2>r. Recorded(r) \subseteq Files
    BY DEF Recorded, RestOK
  <2>1. /\ staged' \in SUBSET Files /\ merging' \in BOOLEAN /\ swept' \in SUBSET Files
        /\ edited' \in SUBSET Files
    BY <1>14, <2>r DEF GitEnds, NotItsOwn, RestOK
  <2>2. ilock' \in IndexLocks
    BY <1>14, IndexLocksAre DEF GitEnds, RestOK
  <2>3. QED
    BY <1>14, <1>r, <2>1, <2>2 DEF GitEnds, Step, LockOK, RestOK
<1>15. ASSUME NEW r \in Runs, Release(r) PROVE TypeInv'
  BY <1>15, <1>r, LocksAre, IndexLocksAre DEF Release, Step, LockOK, RestOK
<1>16. ASSUME NEW r \in Runs, Drop(r) PROVE TypeInv'
  BY <1>16, <1>r, LocksAre, IndexLocksAre DEF Drop, Step, LockOK, RestOK
<1>17. ASSUME NEW r \in Runs, Crash(r) PROVE TypeInv'
  BY <1>17, <1>r, <1>e, LocksAre, IndexLocksAre DEF Crash, Step, LockOK, RestOK
<1>18. CASE AgeLock
  BY <1>18, <1>e, LocksAre DEF AgeLock, LockOK, RunOK, RestOK
<1>19. CASE AgeIndex
  BY <1>19, <1>e, IndexLocksAre DEF AgeIndex, LockOK, RunOK, RestOK
<1>20. CASE OutsideGit
  BY <1>20, <1>e, IndexLocksAre DEF OutsideGit, LockOK, RunOK, RestOK
<1>21. ASSUME NEW f \in Files, Stage(f) PROVE TypeInv'
  BY <1>21, <1>e, LateStep DEF Stage, LockOK, RestOK, RunOK
<1>22. ASSUME NEW f \in Files, Claim(f) PROVE TypeInv'
  BY <1>22, <1>e, LateStep DEF Claim, LockOK, RestOK, RunOK
<1>25. ASSUME NEW f \in Files, Change(f) PROVE TypeInv'
  BY <1>25, <1>e, LateStep DEF Change, LockOK, RestOK, RunOK
<1>23. CASE UNCHANGED vars
  BY <1>23 DEF vars, RunOK, LockOK, RestOK
<1>24. QED
  BY <1>1, <1>2, <1>3, <1>4, <1>5, <1>6, <1>7, <1>8, <1>9, <1>10, <1>11,
     <1>12, <1>13, <1>14, <1>15, <1>16, <1>17, <1>18, <1>19, <1>20, <1>21, <1>22, <1>23, <1>25
     DEF Next, Step

(* The lock's record is its writer's, who has not gone back; and what a    *)
(* breaker has judged is gone or past its limit while the lock holds it.   *)
Past == {"half", "index", "rmindex", "check", "git", "writing", "release", "drop", "done"}
HolderIs ==
  lock # NoLock =>
    lock.by # Nobody /\ run[lock.by].at \in Past /\ (lock.whole => run[lock.by].at # "half")
SeenOf(r) ==
  run[r].at \in {"recheck", "unlink"} =>
    LET x == run[r].seen
    IN  /\ x.by \in Runs /\ run[x.by].at \in Past /\ (x.whole => run[x.by].at # "half")
        /\ SameBytes(lock, x) => lock.old \/ ~Running(x.by)
Seen == \A r \in Runs : SeenOf(r)

(* The lock is held from its creation to the end of the command.           *)
HeldThroughout == hit = {} => \A r \in Runs : Works(r) => lock.by = r

(* The commit of a run that has been checked would take nothing foreign    *)
(* but what came late.                                                     *)
CheckedOf(r) ==
  /\ At(r, "check") => run[r].verb \in Commits
  /\ run[r].at \in InGit /\ run[r].verb \in Commits => NotItsOwn(r) \subseteq run[r].late
Checked == swept = {} /\ \A r \in Runs : CheckedOf(r)

(* A run that was killed has left no more than its git.                    *)
LeftAlone == \A r \in Runs : run[r].alone => run[r].at \in InGit

LockInv == TypeInv /\ LeftAlone /\ HolderIs /\ Seen /\ HeldThroughout /\ Checked

(* Whose the lock is.                                                      *)
LEMMA HolderStep ==
  ASSUME TypeInv, HolderIs, [Next]_vars
  PROVE  HolderIs'
<1>r. RunOK /\ LockOK /\ \A r \in Runs : run[r] \in RunStates
  BY DEF TypeInv, RunOK
<1>l. lock.by \in Runs \cup {Nobody}
  BY <1>r, LockFields DEF LockOK
<1>1. ASSUME NEW r \in Runs, Start(r) PROVE HolderIs'
  BY <1>1, <1>r, <1>l, StateDomain, GitLockDomain, GitLockAssumption
     DEF Start, Go, Leave, Unborn, RunOK, LockOK, At, HolderIs, Past, NoLock
<1>2. ASSUME NEW r \in Runs, Create(r) PROVE HolderIs'
  BY <1>2, <1>r, <1>l, StateDomain, GitLockDomain, GitLockAssumption
     DEF Create, Go, Leave, Unborn, RunOK, LockOK, At, HolderIs, Past, NoLock
<1>3. ASSUME NEW r \in Runs, FillIn(r) PROVE HolderIs'
  BY <1>3, <1>r, <1>l, StateDomain, GitLockDomain, GitLockAssumption
     DEF FillIn, Go, Leave, Unborn, RunOK, LockOK, At, HolderIs, Past, NoLock
<1>4. ASSUME NEW r \in Runs, Look(r) PROVE HolderIs'
  BY <1>4, <1>r, <1>l, StateDomain, GitLockDomain, GitLockAssumption
     DEF Look, Go, Leave, Unborn, RunOK, LockOK, At, HolderIs, Past, NoLock
<1>5. ASSUME NEW r \in Runs, Recheck(r) PROVE HolderIs'
  BY <1>5, <1>r, <1>l, StateDomain, GitLockDomain, GitLockAssumption
     DEF Recheck, Go, Leave, Unborn, RunOK, LockOK, At, HolderIs, Past, NoLock
<1>6. ASSUME NEW r \in Runs, Unlink(r) PROVE HolderIs'
  BY <1>6, <1>r, <1>l, StateDomain, GitLockDomain, GitLockAssumption
     DEF Unlink, Go, Leave, Unborn, RunOK, LockOK, At, HolderIs, Past, NoLock
<1>7. ASSUME NEW r \in Runs, Refuse(r) PROVE HolderIs'
  BY <1>7, <1>r, <1>l, StateDomain, GitLockDomain, GitLockAssumption
     DEF Refuse, Go, Leave, Unborn, RunOK, LockOK, At, HolderIs, Past, NoLock
<1>8. ASSUME NEW r \in Runs, IndexFree(r) PROVE HolderIs'
  BY <1>8, <1>r, <1>l, StateDomain, GitLockDomain, GitLockAssumption
     DEF IndexFree, Go, Leave, Unborn, RunOK, LockOK, At, HolderIs, Past, NoLock
<1>9. ASSUME NEW r \in Runs, JudgeIndex(r) PROVE HolderIs'
  BY <1>9, <1>r, <1>l, StateDomain, GitLockDomain, GitLockAssumption
     DEF JudgeIndex, Go, Leave, Unborn, RunOK, LockOK, At, HolderIs, Past, NoLock
<1>10. ASSUME NEW r \in Runs, RemoveIndex(r) PROVE HolderIs'
  BY <1>10, <1>r, <1>l, StateDomain, GitLockDomain, GitLockAssumption
     DEF RemoveIndex, Go, Leave, Unborn, RunOK, LockOK, At, HolderIs, Past, NoLock
<1>11. ASSUME NEW r \in Runs, RefuseIndex(r) PROVE HolderIs'
  BY <1>11, <1>r, <1>l, StateDomain, GitLockDomain, GitLockAssumption
     DEF RefuseIndex, Go, Leave, Unborn, RunOK, LockOK, At, HolderIs, Past, NoLock
<1>12. ASSUME NEW r \in Runs, Check(r) PROVE HolderIs'
  <2>1. \A q \in Runs : q # r => run'[q] = run[q]
    BY <1>12, <1>r, OwnStep DEF Own, RunOK, Step, TypeInv, GitEnds, At, Check
  <2>2. run'[r].at \in {"git", "release"}
    BY <1>12, <1>r, CheckTo
  <2>3. QED
    BY <1>12, <1>l, <2>1, <2>2 DEF Check, HolderIs, Past
<1>13. ASSUME NEW r \in Runs, GitStart(r) PROVE HolderIs'
  BY <1>13, <1>r, <1>l, StateDomain, GitLockDomain, GitLockAssumption
     DEF GitStart, Go, Leave, Over, Unborn, RunOK, LockOK, At, HolderIs, Past, NoLock
<1>14. ASSUME NEW r \in Runs, GitEnds(r) PROVE HolderIs'
  <2>1. /\ run'[r] = Over(r) /\ Over(r).at \in {"release", "done"}
        /\ \A q \in Runs \ {r} : Same(q)
    BY <1>14, <1>r, EndsIs, OverIs
  <2>2. QED
    BY <1>14, <1>l, <2>1, GitLockAssumption DEF GitEnds, Same, HolderIs, Past
<1>15. ASSUME NEW r \in Runs, Release(r) PROVE HolderIs'
  BY <1>15, <1>r, <1>l, StateDomain, GitLockDomain, GitLockAssumption
     DEF Release, Go, Leave, Unborn, RunOK, LockOK, At, HolderIs, Past, NoLock
<1>16. ASSUME NEW r \in Runs, Drop(r) PROVE HolderIs'
  BY <1>16, <1>r, <1>l, StateDomain, GitLockDomain, GitLockAssumption
     DEF Drop, Go, Leave, Unborn, RunOK, LockOK, At, HolderIs, Past, NoLock
<1>17. ASSUME NEW r \in Runs, Crash(r) PROVE HolderIs'
  BY <1>17, <1>r, <1>l, StateDomain, GitLockDomain, GitLockAssumption
     DEF Crash, Go, Leave, InGit, Unborn, RunOK, LockOK, At, HolderIs, Past, NoLock
<1>18. CASE AgeLock
  BY <1>18, <1>r, <1>l, GitLockDomain DEF AgeLock, LockOK, At, HolderIs, Past, NoLock
<1>19. CASE AgeIndex
  BY <1>19 DEF AgeIndex, At, HolderIs, Past, NoLock
<1>20. CASE OutsideGit
  BY <1>20 DEF OutsideGit, At, HolderIs, Past, NoLock
<1>21. ASSUME NEW f \in Files, Stage(f) PROVE HolderIs'
  <2>1. \A r \in Runs : Same(r) /\ (run[r].at \in InGit => run'[r].late = run[r].late \cup {f})
    BY <1>21, <1>r, LateStep DEF Stage, Same
  <2>2. QED
    BY <1>21, <2>1, <1>l, GitLockAssumption
       DEF Stage, Same, At, HolderIs, Past, NoLock
<1>22. ASSUME NEW f \in Files, Claim(f) PROVE HolderIs'
  <2>1. \A r \in Runs : Same(r) /\ (run[r].at \in InGit => run'[r].late = run[r].late \cup {f})
    BY <1>22, <1>r, LateStep DEF Claim, Same
  <2>2. QED
    BY <1>22, <2>1, <1>l, GitLockAssumption
       DEF Claim, Same, At, HolderIs, Past, NoLock
<1>25. ASSUME NEW f \in Files, Change(f) PROVE HolderIs'
  <2>1. \A r \in Runs : Same(r) /\ (run[r].at \in InGit => run'[r].late = run[r].late \cup {f})
    BY <1>25, <1>r, LateStep DEF Change, Same
  <2>2. QED
    BY <1>25, <2>1, <1>l, GitLockAssumption
       DEF Change, Same, At, HolderIs, Past, NoLock
<1>23. CASE UNCHANGED vars
  BY <1>23 DEF vars, At, HolderIs, Past, NoLock
<1>24. QED
  BY <1>1, <1>2, <1>3, <1>4, <1>5, <1>6, <1>7, <1>8, <1>9, <1>10, <1>11,
     <1>12, <1>13, <1>14, <1>15, <1>16, <1>17, <1>18, <1>19, <1>20, <1>21, <1>22, <1>23, <1>25
     DEF Next, Step

(* A run goes from one place to another, and remembers what it did or, as  *)
(* it leaves, nothing.                                                     *)
Moved(r, from, to) ==
  /\ run[r].at \in from /\ run'[r].at \in to /\ \A q \in Runs \ {r} : Same(q)
  /\ run[r].alone => run'[r].alone \/ run'[r].at = "done"

(* The two ways to go.                                                     *)
LEMMA MovedBy ==
  ASSUME RunOK, NEW r \in Runs, NEW place
  PROVE  /\ Go(r, place) => /\ run'[r].at = place /\ run'[r].alone = run[r].alone
                            /\ \A q \in Runs \ {r} : Same(q)
         /\ Leave(r, place) => /\ run'[r].at = place /\ ~run'[r].alone
                               /\ \A q \in Runs \ {r} : Same(q)
<1>1. run \in [Runs -> RunStates]
  BY DEF RunOK
<1>2. /\ [run[r] EXCEPT !.at = place].at = place
      /\ [run[r] EXCEPT !.at = place].alone = run[r].alone
      /\ [Unborn EXCEPT !.at = place].at = place /\ ~[Unborn EXCEPT !.at = place].alone
  BY <1>1, StateDomain DEF Unborn
<1>3. QED
  BY <1>1, <1>2 DEF Go, Leave, Same

(* Only a git is left alone.                                               *)
LEMMA AloneStep == ASSUME TypeInv, LeftAlone, [Next]_vars PROVE LeftAlone'
<1>r. RunOK /\ \A r \in Runs : run[r] \in RunStates
  BY DEF TypeInv, RunOK
<1>1. ASSUME NEW r \in Runs, Step(r), ~GitEnds(r), ~Check(r), ~GitStart(r) PROVE LeftAlone'
  <2>1. \A q \in Runs \ {r} : run'[q] = run[q]
    BY <1>1, <1>r
       DEF Step, Start, Create, FillIn, Look, Recheck, Unlink, Refuse, IndexFree, JudgeIndex,
           RemoveIndex, RefuseIndex, Release, Drop, Go, Leave, RunOK
  <2>2. run[r].at \notin InGit
    BY <1>1
       DEF Step, Start, Create, FillIn, Look, Recheck, Unlink, Refuse, IndexFree, JudgeIndex,
           RemoveIndex, RefuseIndex, Release, Drop, At, InGit
  <2>3. ~run'[r].alone
    <3>1. CASE Start(r) \/ Create(r) \/ Look(r) \/ Recheck(r) \/ Unlink(r)
      <4>1. run'[r].alone = run[r].alone
        BY <3>1, <1>r, StateDomain DEF Start, Create, Look, Recheck, Unlink, RunOK
      <4>2. QED
        BY <2>2, <4>1 DEF LeftAlone
    <3>2. CASE \/ FillIn(r) \/ Refuse(r) \/ IndexFree(r) \/ JudgeIndex(r) \/ RemoveIndex(r)
               \/ RefuseIndex(r) \/ Release(r) \/ Drop(r)
      <4>1. \/ run'[r].alone = run[r].alone
            \/ ~run'[r].alone
        BY <3>2, <1>r, MovedBy
           DEF FillIn, Refuse, IndexFree, JudgeIndex, RemoveIndex, RefuseIndex, Release, Drop
      <4>2. QED
        BY <2>2, <4>1 DEF LeftAlone
    <3>3. QED
      BY <1>1, <3>1, <3>2 DEF Step
  <2>4. QED
    BY <2>1, <2>3 DEF LeftAlone
<1>2. ASSUME NEW r \in Runs, GitEnds(r) PROVE LeftAlone'
  <2>1. ~Over(r).alone
    BY DEF Over, Unborn
  <2>2. QED
    BY <1>2, <1>r, <2>1, EndsIs DEF LeftAlone, Same
<1>3. ASSUME NEW r \in Runs, Check(r) PROVE LeftAlone'
  <2>1. CASE Leave(r, "release")
    BY <1>r, <2>1 DEF Leave, Unborn, LeftAlone, RunOK
  <2>2. CASE ~Leave(r, "release")
    <3>1. PICK l : run' = [run EXCEPT ![r] = [run[r] EXCEPT !.at = "git", !.late = l]]
      BY <1>3, <2>2, CheckIs
    <3>2. QED
      BY <1>r, <3>1, StateDomain DEF LeftAlone, RunOK, InGit
  <2>3. QED
    BY <2>1, <2>2
<1>4. ASSUME NEW r \in Runs, GitStart(r) PROVE LeftAlone'
  <2>1. ~Over(r).alone
    BY DEF Over, Unborn
  <2>2. QED
    BY <1>4, <1>r, <2>1, StateDomain DEF GitStart, Go, LeftAlone, RunOK, InGit
<1>5. ASSUME NEW r \in Runs, Crash(r) PROVE LeftAlone'
  BY <1>5, <1>r, StateDomain DEF Crash, Leave, Unborn, LeftAlone, RunOK
<1>6. ASSUME NEW f \in Files, Stage(f) \/ Claim(f) \/ Change(f) PROVE LeftAlone'
  BY <1>6, <1>r, LateStep DEF Stage, Claim, Change, LeftAlone
<1>7. CASE UNCHANGED run
  BY <1>7 DEF LeftAlone
<1>8. QED
  BY <1>1, <1>2, <1>3, <1>4, <1>5, <1>6, <1>7 DEF Next, AgeLock, AgeIndex, OutsideGit, vars

(* The steps that neither judge the lock nor make it: who goes where.      *)
LEMMA CalmMoves ==
  ASSUME RunOK, LeftAlone, NEW r \in Runs
  PROVE  /\ Refuse(r) => Moved(r, {"try"}, {"done"})
         /\ IndexFree(r) \/ JudgeIndex(r)
              => Moved(r, {"index"}, {"check", "git", "rmindex"})
         /\ RemoveIndex(r) => Moved(r, {"rmindex"}, {"index", "check", "git"})
         /\ GitStart(r) => Moved(r, {"git"}, {"writing", "release", "done"})
         /\ GitEnds(r) => Moved(r, {"writing"}, {"release", "done"})
         /\ Drop(r) => Moved(r, {"drop"}, {"done"})
         /\ Crash(r) => Moved(r, Locations \ {"off", "done"}, {"done"} \cup InGit)
         /\ Check(r) => Moved(r, {"check"}, {"git", "release"})
         /\ RefuseIndex(r) => Moved(r, {"index"}, {"release"})
         /\ Release(r) => Moved(r, {"release"}, {"drop", "done"})
<1>1. Refuse(r) => Moved(r, {"try"}, {"done"})
  BY MovedBy DEF Refuse, Moved, At
<1>2. IndexFree(r) \/ JudgeIndex(r) => Moved(r, {"index"}, {"check", "git", "rmindex"})
  BY MovedBy DEF IndexFree, JudgeIndex, Moved, At
<1>3. RemoveIndex(r) => Moved(r, {"rmindex"}, {"index", "check", "git"})
  BY MovedBy DEF RemoveIndex, Moved, At
<1>4. Check(r) => Moved(r, {"check"}, {"git", "release"})
  <2> SUFFICES ASSUME Check(r) PROVE Moved(r, {"check"}, {"git", "release"})
    OBVIOUS
  <2>a. ~run[r].alone
    BY DEF Check, At, LeftAlone, InGit
  <2>1. CASE Leave(r, "release")
    BY <2>a, <2>1, MovedBy DEF Check, Moved, At
  <2>2. CASE ~Leave(r, "release")
    <3>1. PICK l : run' = [run EXCEPT ![r] = [run[r] EXCEPT !.at = "git", !.late = l]]
      BY <2>2, CheckIs
    <3>2. [run[r] EXCEPT !.at = "git", !.late = l].at = "git"
      BY StateDomain DEF RunOK
    <3>3. QED
      BY <2>a, <3>1, <3>2 DEF Check, Moved, At, RunOK, Same
  <2>3. QED
    BY <2>1, <2>2
<1>5. GitStart(r) => Moved(r, {"git"}, {"writing", "release", "done"})
  BY MovedBy, OverIs DEF GitStart, Moved, At, RunOK, Same
<1>6. GitEnds(r) => Moved(r, {"writing"}, {"release", "done"})
  BY EndsIs, OverIs DEF GitEnds, Moved, At
<1>7. Release(r) => Moved(r, {"release"}, {"drop", "done"})
  BY MovedBy DEF Release, Moved, At
<1>8. Drop(r) => Moved(r, {"drop"}, {"done"})
  BY MovedBy DEF Drop, Moved, At
<1>9. Crash(r) => Moved(r, Locations \ {"off", "done"}, {"done"} \cup InGit)
  <2>1. run[r].at \in Locations
    BY DEF RunOK, RunStates
  <2>2. CASE Leave(r, "done")
    BY <2>1, <2>2, MovedBy DEF Crash, Moved
  <2>3. CASE run[r].at \in InGit /\ run' = [run EXCEPT ![r] = [run[r] EXCEPT !.alone = TRUE]]
    <3>1. /\ [run[r] EXCEPT !.alone = TRUE].at = run[r].at
          /\ [run[r] EXCEPT !.alone = TRUE].alone
      BY StateDomain DEF RunOK
    <3>2. QED
      BY <2>1, <2>3, <3>1 DEF Crash, Moved, RunOK, Same
  <2>4. QED
    BY <2>2, <2>3 DEF Crash
<1>10. RefuseIndex(r) => Moved(r, {"index"}, {"release"})
  BY MovedBy DEF RefuseIndex, Moved, At, LeftAlone, InGit
<1>11. QED
  BY <1>1, <1>2, <1>3, <1>4, <1>5, <1>6, <1>7, <1>8, <1>9, <1>10

(* A run that is over, or whose git goes on alone, does not come back.     *)
LEMMA StaysOver ==
  ASSUME NEW q \in Runs,
         \/ Same(q)
         \/ /\ run[q].at \notin {"off", "done"}
            /\ run[q].alone => run'[q].alone \/ run'[q].at = "done"
  PROVE  ~Running(q) => ~Running(q)'
<1>1. CASE Same(q)
  BY <1>1 DEF Same, Running
<1>2. CASE /\ run[q].at \notin {"off", "done"}
           /\ run[q].alone => run'[q].alone \/ run'[q].at = "done"
  BY <1>2 DEF Running
<1>3. QED
  BY <1>1, <1>2

(* A run that goes on, leaving the lock or taking it away, makes nobody's  *)
(* judgement wrong.                                                        *)
LEMMA SeenCalm ==
  ASSUME TypeInv, Seen, NEW r \in Runs, NEW from, NEW to, Moved(r, from, to),
         lock' \in {lock, NoLock},
         to \subseteq Past \ {"half"}, from \cap {"off", "done"} = {}
  PROVE  Seen'
<1>1. ASSUME NEW q \in Runs, run'[q].at \in {"recheck", "unlink"} PROVE SeenOf(q)'
  <2>1. q # r
    BY <1>1 DEF Moved, Past
  <2>2. Same(q) /\ run[q].at \in {"recheck", "unlink"}
    BY <1>1, <2>1 DEF Moved, Same
  <2>x. PICK x : x = run[q].seen
    OBVIOUS
  <2>3. /\ x.by \in Runs /\ run[x.by].at \in Past /\ (x.whole => run[x.by].at # "half")
        /\ SameBytes(lock, x) => lock.old \/ ~Running(x.by)
    BY <1>1, <2>2, <2>x DEF Seen, SeenOf
  <2>4. \/ Same(x.by)
        \/ x.by = r /\ run'[x.by].at \in to /\ run[x.by].at \in from
    BY <2>3 DEF Moved
  <2>5. run'[x.by].at \in Past /\ (x.whole => run'[x.by].at # "half")
    BY <2>3, <2>4 DEF Same
  <2>6. lock' = lock \/ ~SameBytes(lock', x)
    BY <2>3, GitLockAssumption DEF NoLock, SameBytes
  <2>7. ~Running(x.by) => ~Running(x.by)'
    <3>1. CASE Same(x.by)
      BY <2>3, <3>1, StaysOver
    <3>2. CASE x.by = r /\ run[x.by].at \in from
      <4>1. run[r].at \notin {"off", "done"}
        BY <3>2
      <4>2. run[r].alone => run'[r].alone \/ run'[r].at = "done"
        BY DEF Moved
      <4>3. ~Running(r) => ~Running(r)'
        BY <4>1, <4>2, StaysOver
      <4>4. QED
        BY <3>2, <4>3
    <3>3. QED
      BY <2>4, <3>1, <3>2
  <2>8. SameBytes(lock', x) => lock'.old \/ ~Running(x.by)'
    BY <2>3, <2>6, <2>7
  <2>9. run'[q].seen = x
    BY <2>2, <2>x DEF Same
  <2>10. QED
    BY <2>3, <2>5, <2>8, <2>9 DEF SeenOf, Running, SameBytes
<1>2. QED
  BY <1>1 DEF Seen, SeenOf

(* Nor do the others, who leave the runs where they are.                   *)
LEMMA SeenSame ==
  ASSUME RunOK, Seen, \A q \in Runs : Same(q), lock' = lock
  PROVE  Seen'
<1>1. ASSUME NEW q \in Runs, run'[q].at \in {"recheck", "unlink"} PROVE SeenOf(q)'
  <2> DEFINE x == run[q].seen
  <2>1. /\ x.by \in Runs /\ run[x.by].at \in Past /\ (x.whole => run[x.by].at # "half")
        /\ SameBytes(lock, x) => lock.old \/ ~Running(x.by)
    BY <1>1 DEF Seen, SeenOf, Same
  <2>2. Running(x.by)' <=> Running(x.by)
    BY <2>1 DEF Running, Same
  <2>3. run'[q].seen = x /\ run'[x.by].at = run[x.by].at
    BY <2>1 DEF Same
  <2>4. SameBytes(lock', x) => lock'.old \/ ~Running(x.by)'
    BY <2>1, <2>2
  <2>5. QED
    BY <2>1, <2>3, <2>4 DEF SeenOf, Running, SameBytes
<1>2. QED
  BY <1>1 DEF Seen, SeenOf

(* What has been judged stays so.                                          *)
LEMMA SeenStep ==
  ASSUME TypeInv, LeftAlone, HolderIs, Seen, [Next]_vars
  PROVE  Seen'
<1>r. RunOK /\ LockOK /\ \A r \in Runs : run[r] \in RunStates
  BY DEF TypeInv, RunOK
<1>l. lock.by \in Runs \cup {Nobody}
  BY <1>r, LockFields DEF LockOK
<1>1. ASSUME NEW r \in Runs, Start(r) PROVE Seen'
  BY <1>1, <1>r, <1>l, StateDomain, GitLockDomain, GitLockAssumption
     DEF Start, Go, Leave, Unborn, RunOK, LockOK, At, HolderIs, Past, Seen,
         SeenOf, SameBytes, Running, Gone, NoLock
<1>2. ASSUME NEW r \in Runs, Create(r) PROVE Seen'
  <2>1. /\ \A q \in Runs \ {r} : run'[q] = run[q]
        /\ run[r].at = "try" /\ run'[r].at = "half" /\ lock'.by = r
    BY <1>2, <1>r, <1>l, StateDomain, GitLockDomain, LocksAre
       DEF Create, Go, At, NoLock, RunOK, LockOK
  <2>2. ASSUME NEW q \in Runs PROVE SeenOf(q)'
    <3>1. SeenOf(q) /\ run[q].seen \in Locks
      BY <1>r, StateFields DEF Seen
    <3>2. QED
      BY <1>r, <1>l, <2>1, <3>1, LockFields, GitLockAssumption
         DEF SeenOf, SameBytes, Running, Past, HolderIs, Gone, NoLock
  <2>3. QED
    BY <2>2 DEF Seen
<1>3. ASSUME NEW r \in Runs, FillIn(r) PROVE Seen'
  <2>1. /\ \A q \in Runs \ {r} : run'[q] = run[q]
        /\ run[r].at = "half" /\ run'[r].at = "index"
        /\ \/ lock.by = r /\ lock'.by = r /\ lock'.whole
           \/ lock.by # r /\ lock' = lock
    BY <1>3, <1>r, <1>l, StateDomain, GitLockDomain, LocksAre
       DEF FillIn, Go, At, NoLock, RunOK, LockOK
  <2>2. ASSUME NEW q \in Runs PROVE SeenOf(q)'
    <3>1. SeenOf(q) /\ run[q].seen \in Locks
      BY <1>r, StateFields DEF Seen
    <3>2. QED
      BY <1>r, <1>l, <2>1, <3>1, LockFields, GitLockAssumption
         DEF SeenOf, SameBytes, Running, Past, HolderIs, Gone, NoLock
  <2>3. QED
    BY <2>2 DEF Seen
<1>4. ASSUME NEW r \in Runs, Look(r) PROVE Seen'
  <2>1. /\ \A q \in Runs \ {r} : run'[q] = run[q]
        /\ run[r].at = "try" /\ run'[r].at = "recheck" /\ run'[r].seen = lock /\ lock' = lock
        /\ Gone(lock) /\ lock # NoLock
    BY <1>4, <1>r, <1>l, StateDomain, GitLockDomain, LocksAre
       DEF Look, Go, At, NoLock, RunOK, LockOK
  <2>2. ASSUME NEW q \in Runs PROVE SeenOf(q)'
    <3>1. SeenOf(q) /\ run[q].seen \in Locks
      BY <1>r, StateFields DEF Seen
    <3>2. QED
      BY <1>r, <1>l, <2>1, <3>1, LockFields, GitLockAssumption
         DEF SeenOf, SameBytes, Running, Past, HolderIs, Gone, NoLock
  <2>3. QED
    BY <2>2 DEF Seen
<1>5. ASSUME NEW r \in Runs, Recheck(r) PROVE Seen'
  <2>1. /\ \A q \in Runs \ {r} : run'[q] = run[q]
        /\ run[r].at = "recheck" /\ lock' = lock
        /\ \/ run'[r].at = "unlink" /\ run'[r].seen = run[r].seen
           \/ run'[r].at = "try"
    BY <1>5, <1>r, <1>l, StateDomain, GitLockDomain, LocksAre
       DEF Recheck, Go, At, NoLock, RunOK, LockOK
  <2>2. ASSUME NEW q \in Runs PROVE SeenOf(q)'
    <3>1. SeenOf(q) /\ run[q].seen \in Locks
      BY <1>r, StateFields DEF Seen
    <3>2. QED
      BY <1>r, <1>l, <2>1, <3>1, LockFields, GitLockAssumption
         DEF SeenOf, SameBytes, Running, Past, HolderIs, Gone, NoLock
  <2>3. QED
    BY <2>2 DEF Seen
<1>6. ASSUME NEW r \in Runs, Unlink(r) PROVE Seen'
  <2>1. /\ \A q \in Runs \ {r} : run'[q] = run[q]
        /\ run[r].at = "unlink" /\ run'[r].at = "try" /\ lock' = NoLock
    BY <1>6, <1>r, <1>l, StateDomain, GitLockDomain, LocksAre
       DEF Unlink, Go, At, NoLock, RunOK, LockOK
  <2>2. ASSUME NEW q \in Runs PROVE SeenOf(q)'
    <3>1. SeenOf(q) /\ run[q].seen \in Locks
      BY <1>r, StateFields DEF Seen
    <3>2. QED
      BY <1>r, <1>l, <2>1, <3>1, LockFields, GitLockAssumption, ZenonT(40)
         DEF SeenOf, SameBytes, Running, Past, HolderIs, Gone, NoLock
  <2>3. QED
    BY <2>2 DEF Seen
<1>7. ASSUME NEW r \in Runs, Refuse(r) PROVE Seen'
  BY <1>7, <1>r, CalmMoves, SeenCalm DEF Refuse, Past
<1>8. ASSUME NEW r \in Runs, IndexFree(r) \/ JudgeIndex(r) PROVE Seen'
  BY <1>8, <1>r, CalmMoves, SeenCalm DEF IndexFree, JudgeIndex, Past
<1>9. ASSUME NEW r \in Runs, RefuseIndex(r) PROVE Seen'
  BY <1>9, <1>r, CalmMoves, SeenCalm DEF RefuseIndex, Past
<1>10. ASSUME NEW r \in Runs, RemoveIndex(r) PROVE Seen'
  BY <1>10, <1>r, CalmMoves, SeenCalm DEF RemoveIndex, Past
<1>12. ASSUME NEW r \in Runs, Check(r) PROVE Seen'
  BY <1>12, <1>r, CalmMoves, SeenCalm DEF Check, Past
<1>13. ASSUME NEW r \in Runs, GitStart(r) PROVE Seen'
  BY <1>13, <1>r, CalmMoves, SeenCalm DEF GitStart, Past
<1>14. ASSUME NEW r \in Runs, GitEnds(r) PROVE Seen'
  BY <1>14, <1>r, CalmMoves, SeenCalm DEF GitEnds, Past
<1>15. ASSUME NEW r \in Runs, Release(r) PROVE Seen'
  BY <1>15, <1>r, CalmMoves, SeenCalm DEF Release, Past
<1>16. ASSUME NEW r \in Runs, Drop(r) PROVE Seen'
  BY <1>16, <1>r, CalmMoves, SeenCalm DEF Drop, Past
<1>17. ASSUME NEW r \in Runs, Crash(r) PROVE Seen'
  BY <1>17, <1>r, CalmMoves, SeenCalm DEF Crash, Past, InGit
<1>18. CASE AgeLock
  BY <1>18, <1>r, <1>l, GitLockDomain
     DEF AgeLock, LockOK, At, HolderIs, Past, Seen, SeenOf, SameBytes, Running,
         Gone, NoLock
<1>19. CASE AgeIndex
  BY <1>19
     DEF AgeIndex, At, HolderIs, Past, Seen, SeenOf, SameBytes, Running, Gone,
         NoLock
<1>20. CASE OutsideGit
  BY <1>20
     DEF OutsideGit, At, HolderIs, Past, Seen, SeenOf, SameBytes, Running, Gone,
         NoLock
<1>21. ASSUME NEW f \in Files, Stage(f) PROVE Seen'
  <2>1. \A r \in Runs : Same(r) /\ (run[r].at \in InGit => run'[r].late = run[r].late \cup {f})
    BY <1>21, <1>r, LateStep DEF Stage, Same
  <2>2. QED
    BY <1>21, <2>1, <1>r, SeenSame DEF Stage, vars
<1>22. ASSUME NEW f \in Files, Claim(f) PROVE Seen'
  <2>1. \A r \in Runs : Same(r) /\ (run[r].at \in InGit => run'[r].late = run[r].late \cup {f})
    BY <1>22, <1>r, LateStep DEF Claim, Same
  <2>2. QED
    BY <1>22, <2>1, <1>r, SeenSame DEF Claim, vars
<1>25. ASSUME NEW f \in Files, Change(f) PROVE Seen'
  <2>1. \A r \in Runs : Same(r) /\ (run[r].at \in InGit => run'[r].late = run[r].late \cup {f})
    BY <1>25, <1>r, LateStep DEF Change, Same
  <2>2. QED
    BY <1>25, <2>1, <1>r, SeenSame DEF Change, vars
<1>23. CASE UNCHANGED vars
  BY <1>23
     DEF vars, At, HolderIs, Past, Seen, SeenOf, SameBytes, Running, Gone, NoLock
<1>24. QED
  BY <1>1, <1>2, <1>3, <1>4, <1>5, <1>6, <1>7, <1>8, <1>9, <1>10,
     <1>12, <1>13, <1>14, <1>15, <1>16, <1>17, <1>18, <1>19, <1>20, <1>21, <1>22, <1>23, <1>25
     DEF Next, Step

(* Who holds the lock.                                                     *)
LEMMA HeldStep ==
  ASSUME TypeInv, LeftAlone, HolderIs, Seen, HeldThroughout, [Next]_vars
  PROVE  HeldThroughout'
<1>r. RunOK /\ LockOK /\ \A r \in Runs : run[r] \in RunStates
  BY DEF TypeInv, RunOK
<1>l. lock.by \in Runs \cup {Nobody}
  BY <1>r, LockFields DEF LockOK
<1>1. ASSUME NEW r \in Runs, Start(r) PROVE HeldThroughout'
  BY <1>1, <1>r, <1>l, StateDomain, GitLockDomain, GitLockAssumption
     DEF Start, Go, Leave, Unborn, RunOK, LockOK, At, HeldThroughout, Seen, SeenOf,
         Guarded, Works, Over, Running, SameBytes, NoLock
<1>2. ASSUME NEW r \in Runs, Create(r) PROVE HeldThroughout'
  BY <1>2, <1>r, <1>l, StateDomain, GitLockDomain, GitLockAssumption
     DEF Create, Go, Leave, Unborn, RunOK, LockOK, At, HeldThroughout, Seen, SeenOf,
         Guarded, Works, Over, Running, SameBytes, NoLock
<1>3. ASSUME NEW r \in Runs, FillIn(r) PROVE HeldThroughout'
  BY <1>3, <1>r, <1>l, StateDomain, GitLockDomain, GitLockAssumption
     DEF FillIn, Go, Leave, Unborn, RunOK, LockOK, At, HeldThroughout, Seen, SeenOf,
         Guarded, Works, Over, Running, SameBytes, NoLock
<1>4. ASSUME NEW r \in Runs, Look(r) PROVE HeldThroughout'
  BY <1>4, <1>r, <1>l, StateDomain, GitLockDomain, GitLockAssumption
     DEF Look, Go, Leave, Unborn, RunOK, LockOK, At, HeldThroughout, Seen, SeenOf,
         Guarded, Works, Over, Running, SameBytes, NoLock
<1>5. ASSUME NEW r \in Runs, Recheck(r) PROVE HeldThroughout'
  BY <1>5, <1>r, <1>l, StateDomain, GitLockDomain, GitLockAssumption
     DEF Recheck, Go, Leave, Unborn, RunOK, LockOK, At, HeldThroughout, Seen, SeenOf,
         Guarded, Works, Over, Running, SameBytes, NoLock
<1>6. ASSUME NEW r \in Runs, Unlink(r) PROVE HeldThroughout'
  BY <1>6, <1>r, <1>l, StateDomain, GitLockDomain, GitLockAssumption
     DEF Unlink, Go, Leave, Unborn, RunOK, LockOK, At, HeldThroughout, Seen, SeenOf,
         Guarded, Works, Over, Running, SameBytes, NoLock
<1>7. ASSUME NEW r \in Runs, Refuse(r) PROVE HeldThroughout'
  BY <1>7, <1>r, <1>l, StateDomain, GitLockDomain, GitLockAssumption
     DEF Refuse, Go, Leave, Unborn, RunOK, LockOK, At, HeldThroughout, Seen, SeenOf,
         Guarded, Works, Over, Running, SameBytes, NoLock
<1>8. ASSUME NEW r \in Runs, IndexFree(r) PROVE HeldThroughout'
  BY <1>8, <1>r, <1>l, StateDomain, GitLockDomain, GitLockAssumption
     DEF IndexFree, Go, Leave, Unborn, RunOK, LockOK, At, HeldThroughout, Seen, SeenOf,
         Guarded, Works, Over, Running, SameBytes, NoLock
<1>9. ASSUME NEW r \in Runs, JudgeIndex(r) PROVE HeldThroughout'
  BY <1>9, <1>r, <1>l, StateDomain, GitLockDomain, GitLockAssumption
     DEF JudgeIndex, Go, Leave, Unborn, RunOK, LockOK, At, HeldThroughout, Seen, SeenOf,
         Guarded, Works, Over, Running, SameBytes, NoLock
<1>10. ASSUME NEW r \in Runs, RemoveIndex(r) PROVE HeldThroughout'
  BY <1>10, <1>r, <1>l, StateDomain, GitLockDomain, GitLockAssumption
     DEF RemoveIndex, Go, Leave, Unborn, RunOK, LockOK, At, HeldThroughout, Seen, SeenOf,
         Guarded, Works, Over, Running, SameBytes, NoLock
<1>11. ASSUME NEW r \in Runs, RefuseIndex(r) PROVE HeldThroughout'
  BY <1>11, <1>r, <1>l, StateDomain, GitLockDomain, GitLockAssumption
     DEF RefuseIndex, Go, Leave, Unborn, RunOK, LockOK, At, HeldThroughout, Seen, SeenOf,
         Guarded, Works, Over, Running, SameBytes, NoLock
<1>12. ASSUME NEW r \in Runs, Check(r) PROVE HeldThroughout'
  <2>1. \A q \in Runs : q # r => run'[q] = run[q]
    BY <1>12, <1>r, OwnStep DEF Own, RunOK, Step, TypeInv, GitEnds, At, Check
  <2>2. Works(r)
    BY <1>12 DEF Check, At, Works, Guarded, LeftAlone, InGit
  <2>3. QED
    BY <1>12, <2>1, <2>2 DEF Check, HeldThroughout, Works
<1>13. ASSUME NEW r \in Runs, GitStart(r) PROVE HeldThroughout'
  BY <1>13, <1>r, <1>l, StateDomain, GitLockDomain, GitLockAssumption
     DEF GitStart, Go, Leave, Unborn, RunOK, LockOK, At, HeldThroughout, Seen, SeenOf,
         Guarded, Works, Over, Running, SameBytes, NoLock
<1>14. ASSUME NEW r \in Runs, GitEnds(r) PROVE HeldThroughout'
  <2>1. /\ run'[r] = Over(r) /\ Over(r).at \in {"release", "done"}
        /\ \A q \in Runs \ {r} : Same(q)
    BY <1>14, <1>r, EndsIs, OverIs
  <2>2. QED
    BY <1>14, <2>1 DEF GitEnds, Same, HeldThroughout, Works, Guarded
<1>15. ASSUME NEW r \in Runs, Release(r) PROVE HeldThroughout'
  BY <1>15, <1>r, <1>l, StateDomain, GitLockDomain, GitLockAssumption
     DEF Release, Go, Leave, Unborn, RunOK, LockOK, At, HeldThroughout, Seen, SeenOf,
         Guarded, Works, Over, Running, SameBytes, NoLock
<1>16. ASSUME NEW r \in Runs, Drop(r) PROVE HeldThroughout'
  BY <1>16, <1>r, <1>l, StateDomain, GitLockDomain, GitLockAssumption
     DEF Drop, Go, Leave, Unborn, RunOK, LockOK, At, HeldThroughout, Seen, SeenOf,
         Guarded, Works, Over, Running, SameBytes, NoLock
<1>17. ASSUME NEW r \in Runs, Crash(r) PROVE HeldThroughout'
  BY <1>17, <1>r, <1>l, StateDomain, GitLockDomain, GitLockAssumption
     DEF Crash, Go, Leave, Unborn, RunOK, LockOK, At, HeldThroughout, Seen, SeenOf,
         Guarded, Works, Over, Running, SameBytes, NoLock
<1>18. CASE AgeLock
  BY <1>18, <1>r, <1>l, GitLockDomain
     DEF AgeLock, LockOK, At, HeldThroughout, Seen, SeenOf, Guarded, Works, Running, SameBytes,
         NoLock
<1>19. CASE AgeIndex
  BY <1>19 DEF AgeIndex, At, HeldThroughout, Seen, SeenOf, Guarded, Works, Over, Running, SameBytes, NoLock
<1>20. CASE OutsideGit
  BY <1>20
     DEF OutsideGit, At, HeldThroughout, Seen, SeenOf, Guarded, Works, Over, Running, SameBytes, NoLock
<1>21. ASSUME NEW f \in Files, Stage(f) PROVE HeldThroughout'
  <2>1. \A r \in Runs : Same(r) /\ (run[r].at \in InGit => run'[r].late = run[r].late \cup {f})
    BY <1>21, <1>r, LateStep DEF Stage, Same
  <2>2. QED
    BY <1>21, <2>1, <1>l, GitLockAssumption
       DEF Stage, Same, At, HeldThroughout, Works, Seen, SeenOf, Guarded, Works, Over, Running, SameBytes, NoLock
<1>22. ASSUME NEW f \in Files, Claim(f) PROVE HeldThroughout'
  <2>1. \A r \in Runs : Same(r) /\ (run[r].at \in InGit => run'[r].late = run[r].late \cup {f})
    BY <1>22, <1>r, LateStep DEF Claim, Same
  <2>2. QED
    BY <1>22, <2>1, <1>l, GitLockAssumption
       DEF Claim, Same, At, HeldThroughout, Works, Seen, SeenOf, Guarded, Works, Over, Running, SameBytes, NoLock
<1>25. ASSUME NEW f \in Files, Change(f) PROVE HeldThroughout'
  <2>1. \A r \in Runs : Same(r) /\ (run[r].at \in InGit => run'[r].late = run[r].late \cup {f})
    BY <1>25, <1>r, LateStep DEF Change, Same
  <2>2. QED
    BY <1>25, <2>1, <1>l, GitLockAssumption
       DEF Change, Same, At, HeldThroughout, Works, Seen, SeenOf, Guarded, Works, Over, Running, SameBytes, NoLock
<1>23. CASE UNCHANGED vars
  BY <1>23 DEF vars, At, HeldThroughout, Seen, SeenOf, Guarded, Works, Over, Running, SameBytes, NoLock
<1>24. QED
  BY <1>1, <1>2, <1>3, <1>4, <1>5, <1>6, <1>7, <1>8, <1>9, <1>10, <1>11,
     <1>12, <1>13, <1>14, <1>15, <1>16, <1>17, <1>18, <1>19, <1>20, <1>21, <1>22, <1>23, <1>25
     DEF Next, Step

(* What a commit takes.                                                    *)
LEMMA CheckedStep == ASSUME TypeInv, Checked, [Next]_vars PROVE Checked'
<1>r. RunOK /\ \A r \in Runs : run[r] \in RunStates
  BY DEF TypeInv, RunOK
<1>k. ASSUME UNCHANGED <<staged, edited, merging, claim>>, NEW q \in Runs, run'[q] = run[q]
      PROVE  CheckedOf(q)'
  BY <1>k DEF Checked, CheckedOf, At, NotItsOwn, Recorded, Foreign
<1>1. ASSUME NEW r \in Runs, Step(r), ~GitEnds(r) PROVE Checked'
  <2>1. UNCHANGED <<staged, edited, merging, claim, swept>>
    BY <1>1
       DEF Step, Start, Create, FillIn, Look, Recheck, Unlink, Refuse, IndexFree, JudgeIndex,
           RemoveIndex, RefuseIndex, Check, GitStart, Release, Drop
  <2>2. \A q \in Runs \ {r} : run'[q] = run[q]
    BY <1>1, <1>r, OwnStep DEF Own, TypeInv, RunOK
  <2>3. CheckedOf(r)'
    <3>1. CASE Check(r)
      <4>1. CASE Leave(r, "release")
        BY <1>r, <4>1 DEF Leave, Unborn, RunOK, CheckedOf, At, InGit
      <4>2. CASE ~Leave(r, "release")
        <5>1. PICK cached \in {staged, {}}, dirty \in {edited, {}}, merged \in {Merged, {}} :
                /\ ~Refused(r, Listed(r, cached, dirty), merged)
                /\ run' = [run EXCEPT ![r] = [run[r] EXCEPT
                             !.at = "git", !.late = Blind(r, cached, dirty)]]
          BY <3>1, <4>2, CheckIs
        <5> DEFINE listed == Listed(r, cached, dirty)
                   blind == Blind(r, cached, dirty)
        <5>2. /\ run'[r].at = "git" /\ run'[r].verb = run[r].verb
              /\ run'[r].late = blind
          BY <1>r, <5>1, StateDomain DEF RunOK
        <5>3. run[r].verb \in Commits
          BY <3>1 DEF Check, Checked, CheckedOf
        <5>4. Recorded(r) \subseteq listed \cup blind
          BY <5>1, <5>3 DEF Recorded, Blind, Listed, Commits
        <5>5. Recorded(r)' = Recorded(r)
          BY <2>1, <5>2 DEF Recorded
        <5>6. Foreign(r)' = Foreign(r) /\ merging' = merging /\ claim' = claim
          BY <2>1 DEF Foreign
        <5>7. /\ listed \cap Foreign(r) = {}
              /\ merging => \A f \in listed : f \in Merged \/ f \notin Files \/ claim[f] = r
          BY <5>1 DEF Refused
        <5>8. NotItsOwn(r)' \subseteq blind
          BY <5>4, <5>5, <5>6, <5>7 DEF NotItsOwn, TypeInv, RestOK, Recorded
        <5>9. QED
          BY <5>2, <5>8 DEF CheckedOf, At
      <4>3. QED
        BY <4>1, <4>2
    <3>2. CASE GitStart(r)
      <4>1. Over(r).at \notin {"check", "git", "writing"}
        BY <1>r, OverIs
      <4>2. CASE run' = [run EXCEPT ![r] = Over(r)]
        BY <1>r, <4>1, <4>2 DEF RunOK, CheckedOf, At, InGit
      <4>3. CASE Go(r, "writing")
        <5>1. run'[r].at = "writing" /\ run'[r].verb = run[r].verb /\ run'[r].late = run[r].late
          BY <1>r, <4>3, StateDomain DEF Go, RunOK
        <5>2. QED
          BY <2>1, <3>2, <5>1
             DEF GitStart, Checked, CheckedOf, At, InGit, NotItsOwn, Recorded, Foreign
      <4>4. QED
        BY <3>2, <4>2, <4>3 DEF GitStart
    <3>3. CASE IndexFree(r) \/ RemoveIndex(r)
      <4>1. run'[r].verb = run[r].verb
        BY <1>r, <3>3, StateDomain DEF IndexFree, RemoveIndex, Go, RunOK
      <4>2. \/ run'[r].at = "index"
            \/ run'[r].at = IF run[r].verb \in Commits THEN "check" ELSE "git"
        BY <1>r, <3>3, StateDomain DEF IndexFree, RemoveIndex, Go, RunOK
      <4>3. QED
        BY <4>1, <4>2 DEF CheckedOf, At, InGit
    <3>4. CASE ~Check(r) /\ ~GitStart(r) /\ ~IndexFree(r) /\ ~RemoveIndex(r)
      <4>1. run'[r].at \notin {"check", "git", "writing"}
        <5>1. CASE Start(r) \/ Create(r) \/ Look(r) \/ Unlink(r)
          <6>1. /\ \A v : [run[r] EXCEPT !.at = "try", !.verb = v].at = "try"
                /\ [run[r] EXCEPT !.at = "half", !.broke = FALSE].at = "half"
                /\ [run[r] EXCEPT !.at = "recheck", !.seen = lock, !.broke = TRUE].at = "recheck"
                /\ [run[r] EXCEPT !.at = "try", !.seen = NoLock].at = "try"
            BY <1>r, StateDomain
          <6>2. QED
            BY <5>1, <1>r, <6>1 DEF Start, Create, Look, Unlink, RunOK
        <5>r. CASE Recheck(r)
          <6>1. /\ [run[r] EXCEPT !.at = "unlink"].at = "unlink"
                /\ [run[r] EXCEPT !.at = "try", !.seen = NoLock].at = "try"
            BY <1>r, StateDomain
          <6>2. QED
            BY <5>r, <6>1, <1>r DEF Recheck, RunOK
        <5>2. CASE \/ FillIn(r) \/ Refuse(r) \/ JudgeIndex(r)
                   \/ RefuseIndex(r) \/ Release(r) \/ Drop(r)
          BY <5>2, <1>r, MovedBy DEF FillIn, Refuse, JudgeIndex, RefuseIndex, Release, Drop
        <5>3. QED
          BY <1>1, <3>4, <5>1, <5>2, <5>r DEF Step
      <4>2. QED
        BY <4>1 DEF CheckedOf, At, InGit
    <3>5. QED
      BY <3>1, <3>2, <3>3, <3>4
  <2>4. QED
    BY <1>k, <2>1, <2>2, <2>3 DEF Checked
<1>2. ASSUME NEW r \in Runs, GitEnds(r) PROVE Checked'
  <2>1. /\ run'[r] = Over(r) /\ Over(r).at \in {"release", "done"}
        /\ \A q \in Runs \ {r} : Same(q)
        /\ \/ \A q \in Runs \ {r} : run'[q] = run[q]
           \/ \A q \in Runs \ {r} : run[q].at \in InGit => run'[q].late = Files \cup run[q].late
    BY <1>2, <1>r, EndsIs, OverIs
  <2>2. claim' = claim /\ \A q \in Runs : Foreign(q)' = Foreign(q)
    BY <1>2 DEF GitEnds, Foreign
  <2>3. swept' = {}
    BY <1>2 DEF GitEnds, Checked, CheckedOf, InGit, At
  <2>4. ASSUME NEW q \in Runs \ {r} PROVE CheckedOf(q)'
    <3>1. Same(q) /\ CheckedOf(q)
      BY <2>1 DEF Checked
    <3>2. CASE run'[q].late = Files \cup run[q].late
      <4>1. NotItsOwn(q)' \subseteq Files
        <5>1. TypeInv'
          BY TypeStep
        <5>2. QED
          BY <5>1 DEF NotItsOwn, Recorded, TypeInv, RestOK
      <4>2. QED
        BY <3>1, <3>2, <4>1 DEF CheckedOf, Same, At
    <3>3. CASE /\ run' = [run EXCEPT ![r] = Over(r)] /\ run'[q] = run[q]
               /\ staged' \subseteq staged /\ edited' \subseteq edited /\ (merging' => merging)
      <4>1. Recorded(q)' \subseteq Recorded(q)
        BY <3>3 DEF Recorded
      <4>2. NotItsOwn(q)' \subseteq NotItsOwn(q)
        BY <2>2, <3>3, <4>1 DEF NotItsOwn
      <4>3. QED
        BY <3>1, <3>3, <4>2 DEF CheckedOf, At
    <3>4. \/ run' = [Late(Files) EXCEPT ![r] = Over(r)]
          \/ /\ run' = [run EXCEPT ![r] = Over(r)]
             /\ staged' \subseteq staged /\ edited' \subseteq edited /\ (merging' => merging)
      BY <1>2 DEF GitEnds
    <3>5. CASE run' = [Late(Files) EXCEPT ![r] = Over(r)] /\ run[q].at \in InGit
      <4>1. Files \in SUBSET Files
        OBVIOUS
      <4>2. run'[q].late = Files \cup run[q].late
        BY <1>r, <3>5, <4>1, LateStep
      <4>3. QED
        BY <3>2, <4>2
    <3>6. CASE run[q].at \notin InGit
      BY <3>1, <3>6 DEF CheckedOf, Same, At
    <3>7. QED
      BY <1>r, <3>3, <3>4, <3>5, <3>6 DEF RunOK
  <2>5. CheckedOf(r)'
    BY <2>1 DEF CheckedOf, At, InGit
  <2>6. QED
    BY <2>3, <2>4, <2>5 DEF Checked
<1>3. ASSUME NEW r \in Runs, Crash(r) PROVE Checked'
  <2>1. \A q \in Runs \ {r} : run'[q] = run[q]
    BY <1>3, <1>r DEF Crash, Leave, RunOK
  <2>2. CheckedOf(r)'
    <3>1. CASE Leave(r, "done")
      BY <1>r, <3>1 DEF Leave, Unborn, RunOK, CheckedOf, At, InGit
    <3>2. CASE run[r].at \in InGit /\ run' = [run EXCEPT ![r] = [run[r] EXCEPT !.alone = TRUE]]
      <4>1. /\ run'[r].at = run[r].at /\ run'[r].verb = run[r].verb
            /\ run'[r].late = run[r].late
        BY <1>r, <3>2, StateDomain DEF RunOK
      <4>2. QED
        BY <1>3, <4>1 DEF Crash, Checked, CheckedOf, At, NotItsOwn, Recorded, Foreign
    <3>3. QED
      BY <1>3, <3>1, <3>2 DEF Crash
  <2>3. QED
    BY <1>3, <1>k, <2>1, <2>2 DEF Crash, Checked
<1>4. ASSUME NEW f \in Files, Stage(f) \/ Claim(f) \/ Change(f) PROVE Checked'
  <2>1. \A q \in Runs : Same(q) /\ (run[q].at \in InGit => run'[q].late = run[q].late \cup {f})
    BY <1>4, <1>r, LateStep DEF Stage, Claim, Change, Same
  <2>2. /\ staged' \subseteq staged \cup {f} /\ edited' \subseteq edited \cup {f}
        /\ merging' = merging /\ swept' = swept
        /\ \A g \in Files \ {f} : claim'[g] = claim[g]
    BY <1>4 DEF Stage, Claim, Change, TypeInv, RestOK
  <2>3. ASSUME NEW q \in Runs PROVE CheckedOf(q)'
    <3>1. Recorded(q)' \subseteq Recorded(q) \cup {f}
      BY <2>1, <2>2 DEF Recorded, Same
    <3>2. NotItsOwn(q)' \subseteq NotItsOwn(q) \cup {f}
      BY <2>2, <3>1 DEF NotItsOwn, Foreign, TypeInv, RestOK, Recorded
    <3>3. QED
      BY <2>1, <3>2 DEF Checked, CheckedOf, Same, At
  <2>4. QED
    BY <2>2, <2>3 DEF Checked
<1>5. CASE UNCHANGED <<run, staged, edited, merging, claim, swept>>
  BY <1>5, <1>k DEF Checked
<1>6. QED
  BY <1>1, <1>2, <1>3, <1>4, <1>5 DEF Next, AgeLock, AgeIndex, OutsideGit, vars

(* The inductive invariant holds.                                          *)
THEOREM LockInvariant == Spec => []LockInv
<1>1. Init => LockInv
  <2> SUFFICES ASSUME Init PROVE LockInv
    OBVIOUS
  <2>1. Unborn \in RunStates /\ Unborn.at = "off" /\ ~Unborn.alone
    BY LocksAre, LocationsAre DEF Unborn, RunStates, Verbs
  <2>2. TypeInv
    <3>1. NoLock \in Locks /\ NoIndexLock \in IndexLocks
      BY LocksAre, IndexLocksAre
    <3>2. RunOK /\ LockOK
      BY <2>1, <3>1 DEF Init, RunOK, LockOK
    <3>3. staged \in SUBSET Files /\ edited \in SUBSET Files /\ swept \in SUBSET Files /\ hit \in SUBSET {"hung", "raced"}
      BY DEF Init
    <3>4. events \in 0 .. MaxEvents
      BY GitLockAssumption DEF Init
    <3>5. claim \in [Files -> Runs \cup {Nobody}]
      BY DEF Init
    <3>6. QED
      BY <3>1, <3>2, <3>3, <3>4, <3>5 DEF Init, TypeInv, RestOK
  <2>3. LeftAlone /\ HolderIs /\ Seen /\ HeldThroughout /\ Checked
    BY <2>1
       DEF Init, LeftAlone, HolderIs, Seen, SeenOf, HeldThroughout, Works, Guarded, Checked,
           CheckedOf, At, InGit
  <2>4. QED
    BY <2>2, <2>3 DEF LockInv
<1>2. LockInv /\ [Next]_vars => LockInv'
  BY TypeStep, AloneStep, HolderStep, SeenStep, HeldStep, CheckedStep DEF LockInv
<1>3. QED
  BY <1>1, <1>2, PTL DEF Spec

(* Every variable keeps its type.                                          *)
THEOREM GitLockTypeCorrect == Spec => []TypeOK
<1>1. LockInv => TypeOK
  BY DEF LockInv, TypeInv, RunOK, LockOK, RestOK, TypeOK
<1>2. QED
  BY <1>1, LockInvariant, PTL

(* fleet_gitlock.py:acquire: two routed git commands never work in a tree  *)
(* together, unless the run of one was killed and left its git behind, a   *)
(* live holder was past its limit, or a break hit another's lock.          *)
THEOREM OneGitAtATime == Spec => []OneGit
<1>1. LockInv => OneGit
  BY DEF LockInv, HeldThroughout, OneGit
<1>2. QED
  BY <1>1, LockInvariant, PTL

(* fleet_gitlock.py:check_claims, check_merge_sweep: a commit takes        *)
(* nothing foreign but what changed after it was checked, or what a failed *)
(* list or a pathspec without "--" kept from the checks.                   *)
THEOREM NothingIsSwept == Spec => []NothingSwept
<1>1. LockInv => NothingSwept
  BY DEF LockInv, Checked, NothingSwept
<1>2. QED
  BY <1>1, LockInvariant, PTL

(* fleet_gitlock.py:clear_index_lock: a routed git that writes the index   *)
(* for a live run keeps its index.lock.                                    *)
THEOREM IndexIsKept == Spec => IndexKept
<1> DEFINE A == \A r \in Runs : At(r, "writing") /\ ~run[r].alone /\ ilock.by = r /\ hit = {} =>
                  ilock'.by = r \/ run'[r].at # "writing" \/ run'[r].alone
<1>1. ASSUME LockInv, [Next]_vars PROVE A
  <2> SUFFICES ASSUME NEW r \in Runs, At(r, "writing"), ~run[r].alone, ilock.by = r,
                      hit = {}, ilock'.by # r, run'[r].at = "writing"
               PROVE  FALSE
    OBVIOUS
  <2>1. /\ RunOK /\ LockOK /\ RestOK /\ r # Nobody /\ r # Outside
        /\ \A s \in Runs : Works(s) => s = r
    BY <1>1, GitLockAssumption DEF LockInv, TypeInv, HeldThroughout, At, Works, Guarded
  <2>2. DOMAIN ilock = {"by", "age"} /\ ilock # NoIndexLock
    BY <2>1 DEF RestOK, IndexLocks, NoIndexLock
  <2>3. ASSUME NEW s \in Runs, Step(s) \/ Crash(s), ilock' # ilock PROVE FALSE
    <3>a. ASSUME ~GitEnds(s), ~GitStart(s) PROVE Works(s)
      BY <1>1, <2>3, <3>a
         DEF LockInv, LeftAlone, InGit, Works, Step, Crash, Start, Create, FillIn, Look, Recheck, Unlink, Refuse,
             IndexFree, JudgeIndex, RemoveIndex, RefuseIndex, Check, Release, Drop, At, Guarded
    <3>1. ~GitStart(s)
      BY <2>2, <2>3 DEF GitStart
    <3>2. s = r
      BY <2>1, <2>3, <3>1, <3>a DEF GitEnds
    <3>3. GitEnds(r)
      BY <2>3, <3>2
         DEF Step, Crash, Start, Create, FillIn, Look, Recheck, Unlink, Refuse,
             IndexFree, JudgeIndex, RemoveIndex, RefuseIndex, Check, GitStart,
             Release, Drop, At
    <3>4. run'[r].at \in {"release", "done"}
      BY <2>1, <3>3, EndsIs, OverIs
    <3>5. QED
      BY <3>4
  <2>4. CASE AgeIndex
    BY <2>2, <2>4 DEF AgeIndex
  <2>5. CASE OutsideGit
    BY <2>1, <2>2, <2>5 DEF OutsideGit
  <2>6. CASE UNCHANGED ilock
    BY <2>6
  <2>7. QED
    BY <1>1, <2>3, <2>4, <2>5, <2>6 DEF Next, AgeLock, Change, Stage, Claim, vars
<1>2. QED
  BY <1>1, LockInvariant, PTL DEF Spec, IndexKept

----------------------------------------------------------------------------
(* The lanes.                                                              *)

RunsOK == runs \in [LaneRuns -> RunRecords]
LocksOK == lanes \in [Indices -> LockFiles]
MutexOK == mutex \in [by : LaneRuns \cup {NoRun}, whole : BOOLEAN]
TreesOK == tree \in [Indices -> Worktrees]
CommitsOK == base \in SUBSET LaneRuns /\ saved \in SUBSET LaneRuns /\ made \in SUBSET LaneRuns
CountsOK ==
  /\ cap \in 1 .. MaxCap /\ troubles \in 0 .. MaxTroubles
  /\ slip \in SUBSET {"raced", "hung", "orphan"}

(* A run has a lane from its taking on, and a worker after that.           *)
Placed ==
  \A r \in LaneRuns :
    /\ runs[r].at \in {"off", "mutex", "break", "enter", "scan", "take"} => runs[r].index = 0
    /\ runs[r].at \in {"write", "tree", "save", "move", "block", "point", "wait", "release"}
         => runs[r].index # 0
    /\ runs[r].worker => runs[r].index # 0 /\ runs[r].at \in {"point", "wait", "dead"}

Typed == RunsOK /\ LocksOK /\ MutexOK /\ TreesOK /\ CommitsOK /\ CountsOK /\ Placed

----------------------------------------------------------------------------
(* Where a run may be, and what its record, a lock and the lanes are made  *)
(* of.                                                                     *)
LEMMA PlacesAre ==
  {"off", "mutex", "break", "enter", "scan", "take", "write", "leave", "tree", "save", "move",
   "block", "point", "wait", "release", "ended", "dead"} \subseteq Places
BY DEF Places

(* The fields of a run.                                                    *)
LEMMA RunDomain ==
  \A x \in RunRecords : DOMAIN x = {"at", "index", "eff", "worker", "todo", "sha", "broken"}
BY DEF RunRecords

(* A record whose fields change within their types is one still.           *)
LEMMA Fields ==
  ASSUME NEW x \in RunRecords
  PROVE  /\ x.index \in {0} \cup Indices /\ x.eff \in 0 .. MaxCap /\ x.sha \in SUBSET LaneRuns
         /\ x.todo \in SUBSET (Indices \X LockFiles)
         /\ \A b \in BOOLEAN : [x EXCEPT !.worker = b] \in RunRecords
         /\ \A t \in SUBSET x.todo : [x EXCEPT !.todo = t] \in RunRecords
BY DEF RunRecords

(* So it is as the run goes to another place.                              *)
LEMMA Moves ==
  ASSUME NEW x \in RunRecords, NEW p \in Places
  PROVE  /\ [x EXCEPT !.at = p] \in RunRecords
         /\ \A e \in 0 .. MaxCap : [x EXCEPT !.at = p, !.eff = e] \in RunRecords
         /\ \A k \in LaneRuns \cup {NoRun} : [x EXCEPT !.at = p, !.broken = k] \in RunRecords
         /\ \A t \in SUBSET (Indices \X LockFiles) : [x EXCEPT !.at = p, !.todo = t] \in RunRecords
         /\ \A i \in Indices : [x EXCEPT !.at = p, !.index = i, !.todo = {}] \in RunRecords
         /\ \A s \in SUBSET LaneRuns : [x EXCEPT !.at = p, !.sha = s] \in RunRecords
         /\ \A b \in BOOLEAN : [x EXCEPT !.at = p, !.worker = b] \in RunRecords
BY DEF RunRecords

(* A run that goes from one place to another keeps its type.               *)
LEMMA MoveKeeps ==
  ASSUME NEW r \in LaneRuns, NEW place \in Places, RunsOK, Move(r, place)
  PROVE  RunsOK'
<1>1. [runs[r] EXCEPT !.at = place] \in RunRecords
  BY Moves DEF RunsOK
<1>2. QED
  BY <1>1 DEF RunsOK, Move

(* The code writes nothing but lock files.                                 *)
LEMMA LockKinds ==
  /\ FreeLock \in LockFiles
  /\ \A r \in LaneRuns : [FreeLock EXCEPT !.by = r] \in LockFiles
  /\ \A f \in LockFiles :
       [f EXCEPT !.whole = TRUE] \in LockFiles /\ [f EXCEPT !.pointed = TRUE] \in LockFiles
BY DEF FreeLock, LockFiles

(* The lanes are finitely many.                                            *)
LEMMA IndicesAre == Indices \subseteq Int /\ IsFiniteSet(Indices) /\ Cardinality(Indices) = MaxCap
BY FS_Interval, LanesAssumption DEF Indices

(* What a scan that goes on to take has read.                              *)
Scanned(r, running) ==
  /\ \A i \in Indices :
       Held(lanes[i]) /\ lanes[i].whole => i \in running /\ NameOf[lanes[i].by] # NameOf[r]
  /\ Cardinality(running) < runs[r].eff
  /\ runs' = [runs EXCEPT ![r] = [@ EXCEPT !.at = "take",
                !.todo = {<<i, lanes[i]>> : i \in {j \in Indices \ running : j <= runs[r].eff}}]]

(* A scan leaves, or goes on to take.                                      *)
LEMMA ScanIs ==
  ASSUME NEW r \in LaneRuns, Scan(r), runs[r].eff \in Int
  PROVE  /\ In(r, "scan")
         /\ UNCHANGED <<cap, mutex, lanes, tree, base, saved, made, slip, troubles>>
         /\ \/ Move(r, "leave")
            \/ \E running \in SUBSET Indices : Scanned(r, running)
<1> DEFINE half == {i \in Indices : lanes[i].by # NoRun /\ ~lanes[i].whole}
           running(young) ==
             {i \in Indices \ half : Held(lanes[i])} \cup (IF young THEN half ELSE {})
           named(young) == {i \in running(young) \ half : NameOf[lanes[i].by] = NameOf[r]}
           rows(young) ==
             {<<i, lanes[i]>> : i \in {j \in Indices \ running(young) : j <= runs[r].eff}}
<1>1. PICK young \in BOOLEAN :
        runs' = [runs EXCEPT ![r] =
          IF named(young) # {} \/ Cardinality(running(young)) >= runs[r].eff
          THEN [runs[r] EXCEPT !.at = "leave"]
          ELSE [runs[r] EXCEPT !.at = "take", !.todo = rows(young)]]
  BY DEF Scan
<1>2. CASE named(young) # {} \/ Cardinality(running(young)) >= runs[r].eff
  BY <1>1, <1>2 DEF Scan, Move
<1>3. CASE ~(named(young) # {} \/ Cardinality(running(young)) >= runs[r].eff)
  <2>1. running(young) \in SUBSET Indices
    OBVIOUS
  <2>2. Cardinality(running(young)) \in Nat
    BY <2>1, IndicesAre, FS_Subset, FS_CardinalityType
  <2>3. Cardinality(running(young)) < runs[r].eff /\ named(young) = {}
    BY <1>3, <2>2
  <2>4. \A i \in Indices : Held(lanes[i]) /\ lanes[i].whole =>
          i \in running(young) /\ NameOf[lanes[i].by] # NameOf[r]
    BY <2>3
  <2>5. runs' = [runs EXCEPT ![r] = [runs[r] EXCEPT !.at = "take", !.todo = rows(young)]]
    BY <1>1, <1>3
  <2>6. Scanned(r, running(young))
    BY <2>3, <2>4, <2>5 DEF Scanned
  <2>7. QED
    BY <2>1, <2>6 DEF Scan
<1>4. QED
  BY <1>2, <1>3

(* Every variable keeps its type.                                          *)
LEMMA TypedStep == ASSUME Typed, [LanesNext]_laneVars PROVE Typed'
<1> USE LanesAssumption DEF Typed
<1>r. \A r \in LaneRuns : runs[r] \in RunRecords
  BY DEF RunsOK
<1>c. cap \in 0 .. MaxCap /\ mutex.by \in LaneRuns \cup {NoRun}
  BY DEF CountsOK, MutexOK
<1>t. ASSUME Trouble PROVE troubles' \in 0 .. MaxTroubles
  BY <1>t DEF Trouble, CountsOK
<1>u. ASSUME NEW refuses, MayRefuse(refuses) PROVE troubles' \in 0 .. MaxTroubles
  BY <1>u, <1>t DEF MayRefuse, CountsOK
<1>p. ASSUME NEW r \in LaneRuns, runs[r].index # 0 PROVE runs[r].index \in Indices
  BY <1>p, <1>r, Fields
<1>1. ASSUME NEW r \in LaneRuns, Ask(r) PROVE Typed'
  <2>0. \A p \in {"mutex", "ended"} : [runs[r] EXCEPT !.at = p, !.eff = cap] \in RunRecords
    BY <1>r, <1>c, Moves, PlacesAre
  <2>1. RunsOK'
    BY <1>1, <2>0 DEF Ask, RunsOK
  <2>2. Placed'
    BY <1>1, <1>r, RunDomain DEF Ask, Move, In, Placed, RunsOK
  <2>3. QED
    BY <1>1, <2>1, <2>2 DEF Ask, LocksOK, MutexOK, TreesOK, CommitsOK, CountsOK
<1>2. ASSUME NEW r \in LaneRuns, Enter(r) PROVE Typed'
  <2>1. RunsOK'
    BY <1>2, MoveKeeps, PlacesAre DEF Enter
  <2>2. MutexOK'
    BY <1>2 DEF Enter, MutexOK
  <2>3. Placed'
    BY <1>2, <1>r, RunDomain DEF Enter, Move, In, Placed, RunsOK
  <2>4. QED
    BY <1>2, <2>1, <2>2, <2>3 DEF Enter, LocksOK, TreesOK, CommitsOK, CountsOK
<1>3. ASSUME NEW r \in LaneRuns, Busy(r) PROVE Typed'
  <2>1. RunsOK'
    BY <1>3, MoveKeeps, PlacesAre DEF Busy
  <2>2. Placed'
    BY <1>3, <1>r, RunDomain DEF Busy, Move, In, Placed, RunsOK
  <2>3. QED
    BY <1>3, <2>1, <2>2 DEF Busy, LocksOK, MutexOK, TreesOK, CommitsOK, CountsOK
<1>4. ASSUME NEW r \in LaneRuns, Entered(r) PROVE Typed'
  <2>1. RunsOK'
    BY <1>4, MoveKeeps, PlacesAre DEF Entered
  <2>2. MutexOK'
    BY <1>4 DEF Entered, MutexOK
  <2>3. Placed'
    BY <1>4, <1>r, RunDomain DEF Entered, Move, In, Placed, RunsOK
  <2>4. QED
    BY <1>4, <2>1, <2>2, <2>3 DEF Entered, LocksOK, TreesOK, CommitsOK, CountsOK
<1>5. ASSUME NEW r \in LaneRuns, Judge(r) PROVE Typed'
  <2>0. [runs[r] EXCEPT !.at = "break", !.broken = mutex.by] \in RunRecords
    BY <1>r, <1>c, Moves, PlacesAre
  <2>1. RunsOK'
    BY <1>5, <2>0 DEF Judge, RunsOK
  <2>2. Placed'
    BY <1>5, <1>r, RunDomain DEF Judge, Move, In, Placed, RunsOK
  <2>3. QED
    BY <1>5, <2>1, <2>2, <1>t, <1>u DEF Judge, LocksOK, MutexOK, TreesOK, CommitsOK, CountsOK
<1>6. ASSUME NEW r \in LaneRuns, Break(r) PROVE Typed'
  <2>0. [runs[r] EXCEPT !.at = "mutex", !.broken = NoRun] \in RunRecords
    BY <1>r, Moves, PlacesAre
  <2>1. RunsOK'
    BY <1>6, <2>0 DEF Break, RunsOK
  <2>2. MutexOK'
    BY <1>6 DEF Break, MutexOK
  <2>3. Placed'
    BY <1>6, <1>r, RunDomain DEF Break, Move, In, Placed, RunsOK
  <2>4. QED
    BY <1>6, <2>1, <2>2, <2>3 DEF Break, LocksOK, TreesOK, CommitsOK, CountsOK
<1>7. ASSUME NEW r \in LaneRuns, Scan(r) PROVE Typed'
  <2>1. RunsOK'
    <3> DEFINE Going(I) == [runs[r] EXCEPT !.at = "take", !.todo = {<<i, lanes[i]>> : i \in I}]
    <3>1. \A t \in SUBSET (Indices \X LockFiles) :
            [runs[r] EXCEPT !.at = "take", !.todo = t] \in RunRecords
      BY <1>r, Moves, PlacesAre
    <3>2. [runs[r] EXCEPT !.at = "leave"] \in RunRecords
      BY <1>r, Moves, PlacesAre
    <3>3. \A I \in SUBSET Indices : {<<i, lanes[i]>> : i \in I} \in SUBSET (Indices \X LockFiles)
      BY DEF LocksOK
    <3>e. runs[r].eff \in Int
      BY <1>r, Fields
    <3>4. \/ Move(r, "leave")
          \/ \E I \in SUBSET Indices :
               runs' = [runs EXCEPT ![r] = Going(I)]
      <4>1. ASSUME NEW running \in SUBSET Indices, Scanned(r, running)
            PROVE  \E I \in SUBSET Indices :
               runs' = [runs EXCEPT ![r] = Going(I)]
        <5> WITNESS {j \in Indices \ running : j <= runs[r].eff} \in SUBSET Indices
        <5>1. QED
          BY <4>1 DEF Scanned
      <4>2. QED
        BY <4>1, <1>7, <3>e, ScanIs
    <3>5. CASE Move(r, "leave")
      BY <3>2, <3>5 DEF RunsOK, Move
    <3>6. ASSUME NEW I \in SUBSET Indices,
                 runs' = [runs EXCEPT ![r] = Going(I)]
          PROVE  RunsOK'
      <4>1. Going(I) \in RunRecords
        BY <3>1, <3>3
      <4>2. QED
        BY <3>6, <4>1 DEF RunsOK
    <3>7. QED
      BY <3>4, <3>5, <3>6
  <2>2. Placed'
    BY <1>7, <1>r, RunDomain DEF Scan, Move, In, Placed, RunsOK
  <2>3. QED
    BY <1>7, <2>1, <2>2 DEF Scan, LocksOK, MutexOK, TreesOK, CommitsOK, CountsOK
<1>8. ASSUME NEW r \in LaneRuns, Take(r) PROVE Typed'
  <2>i. In(r, "take")
    BY <1>8 DEF Take
  <2>0. \A row \in runs[r].todo : row[1] \in Indices
    BY <1>r, Fields
  <2>1. RunsOK'
    <3>1. CASE Move(r, "leave")
      BY <3>1, MoveKeeps, PlacesAre
    <3>2. ASSUME NEW row \in runs[r].todo, runs' = [runs EXCEPT ![r].todo = @ \ {row}] PROVE RunsOK'
      <4>1. [runs[r] EXCEPT !.todo = @ \ {row}] \in RunRecords
        BY <1>r, Fields
      <4>2. QED
        BY <3>2, <4>1 DEF RunsOK
    <3>3. ASSUME NEW row \in runs[r].todo,
                 runs' = [runs EXCEPT ![r] =
                            [@ EXCEPT !.at = "write", !.index = row[1], !.todo = {}]]
          PROVE  RunsOK'
      <4>1. [runs[r] EXCEPT !.at = "write", !.index = row[1], !.todo = {}] \in RunRecords
        BY <2>0, <1>r, Moves, PlacesAre
      <4>2. QED
        BY <3>3, <4>1 DEF RunsOK
    <3>4. QED
      BY <1>8, <3>1, <3>2, <3>3 DEF Take
  <2>2. LocksOK'
    BY <1>8, <2>0, LockKinds DEF Take, LocksOK
  <2>3. Placed'
    <3>1. CASE Move(r, "leave")
      BY <2>i, <3>1, <1>r, RunDomain DEF In, Move, Placed, RunsOK
    <3>2. ASSUME NEW row \in runs[r].todo, runs' = [runs EXCEPT ![r].todo = @ \ {row}] PROVE Placed'
      BY <2>i, <3>2, <1>r, RunDomain DEF In, Placed, RunsOK
    <3>3. ASSUME NEW row \in runs[r].todo,
                 runs' = [runs EXCEPT ![r] =
                            [@ EXCEPT !.at = "write", !.index = row[1], !.todo = {}]]
          PROVE  Placed'
      <4>1. row[1] # 0
        BY <2>0 DEF Indices
      <4>2. QED
        BY <2>i, <3>3, <4>1, <1>r, RunDomain DEF In, Placed, RunsOK
    <3>4. QED
      BY <1>8, <3>1, <3>2, <3>3 DEF Take
  <2>4. QED
    BY <1>8, <2>1, <2>2, <2>3 DEF Take, MutexOK, TreesOK, CommitsOK, CountsOK
<1>9. ASSUME NEW r \in LaneRuns, Write(r) PROVE Typed'
  <2>1. RunsOK'
    BY <1>9, MoveKeeps, PlacesAre DEF Write
  <2>2. LocksOK'
    BY <1>9, LockKinds DEF Write, LocksOK
  <2>3. Placed'
    BY <1>9, <1>r, RunDomain DEF Write, Move, In, Placed, RunsOK
  <2>4. QED
    BY <1>9, <2>1, <2>2, <2>3 DEF Write, MutexOK, TreesOK, CommitsOK, CountsOK
<1>10. ASSUME NEW r \in LaneRuns, Exit(r) PROVE Typed'
  <2>1. RunsOK'
    BY <1>10, MoveKeeps, PlacesAre DEF Exit
  <2>2. MutexOK'
    BY <1>10 DEF Exit, MutexOK
  <2>3. Placed'
    BY <1>10, <1>r, RunDomain DEF Exit, Move, In, Placed, RunsOK
  <2>4. QED
    BY <1>10, <2>1, <2>2, <2>3 DEF Exit, LocksOK, TreesOK, CommitsOK, CountsOK
<1>11. ASSUME NEW r \in LaneRuns, Resolve(r) PROVE Typed'
  <2>i. /\ In(r, "tree") /\ runs[r].index \in Indices
        /\ UNCHANGED <<mutex, lanes, base, saved, made, slip, cap>>
    BY <1>11, <1>p DEF Resolve, In, Placed
  <2>a. [runs[r] EXCEPT !.at = "save", !.sha = base] \in RunRecords
    BY <1>r, Moves, PlacesAre DEF CommitsOK
  <2>b. [there |-> TRUE, head |-> base, loose |-> {}] \in Worktrees
    BY DEF Worktrees, CommitsOK
  <2>1. CASE Move(r, "block") /\ UNCHANGED troubles
              /\ tree' = [tree EXCEPT ![runs[r].index] =
                            [there |-> TRUE, head |-> base, loose |-> {}]]
    <3>1. RunsOK'
      BY <2>1, MoveKeeps, PlacesAre
    <3>2. TreesOK'
      BY <2>1, <2>i, <2>b DEF TreesOK
    <3>3. Placed'
      BY <2>1, <2>i, <1>r, RunDomain DEF Move, In, Placed, RunsOK
    <3>4. QED
      BY <2>i, <2>1, <3>1, <3>2, <3>3 DEF LocksOK, MutexOK, CommitsOK, CountsOK
  <2>2. CASE /\ runs' = [runs EXCEPT ![r] = [@ EXCEPT !.at = "save", !.sha = base]]
             /\ UNCHANGED <<tree, troubles>>
    <3>1. RunsOK'
      BY <2>2, <2>a DEF RunsOK
    <3>2. Placed'
      BY <2>2, <2>i, <1>r, RunDomain DEF In, Placed, RunsOK
    <3>3. QED
      BY <2>i, <2>2, <3>1, <3>2 DEF LocksOK, MutexOK, TreesOK, CommitsOK, CountsOK
  <2>3. CASE Move(r, "release") /\ MayRefuse(tree[runs[r].index].loose = {}) /\ UNCHANGED tree
    <3>1. RunsOK'
      BY <2>3, MoveKeeps, PlacesAre
    <3>2. Placed'
      BY <2>3, <2>i, <1>r, RunDomain DEF Move, In, Placed, RunsOK
    <3>3. QED
      BY <2>i, <2>3, <3>1, <3>2, <1>u DEF LocksOK, MutexOK, TreesOK, CommitsOK, CountsOK
  <2>4. QED
    BY <1>11, <2>1, <2>2, <2>3 DEF Resolve
<1>12. ASSUME NEW r \in LaneRuns, Save(r) PROVE Typed'
  <2>1. RunsOK'
    BY <1>12, MoveKeeps, PlacesAre DEF Save
  <2>2. CommitsOK'
    BY <1>12, <1>r, <1>p, Fields DEF Save, TreesOK, Worktrees, CommitsOK, Placed, In, Unmerged
  <2>3. Placed'
    BY <1>12, <1>r, RunDomain DEF Save, Move, In, Placed, RunsOK
  <2>4. QED
    BY <1>12, <2>1, <2>2, <2>3, <1>t, <1>u DEF Save, LocksOK, MutexOK, TreesOK, CountsOK
<1>13. ASSUME NEW r \in LaneRuns, Checkout(r) PROVE Typed'
  <2>1. RunsOK'
    BY <1>13, MoveKeeps, PlacesAre DEF Checkout
  <2>2. TreesOK'
    BY <1>13, <1>r, <1>p, Fields DEF Checkout, TreesOK, Worktrees, CommitsOK, Placed, In
  <2>3. Placed'
    BY <1>13, <1>r, RunDomain DEF Checkout, Move, In, Placed, RunsOK
  <2>4. QED
    BY <1>13, <2>1, <2>2, <2>3, <1>t, <1>u DEF Checkout, LocksOK, MutexOK, CommitsOK, CountsOK
<1>14. ASSUME NEW r \in LaneRuns, Begin(r) PROVE Typed'
  <2>0. [runs[r] EXCEPT !.at = "point", !.worker = TRUE] \in RunRecords
    BY <1>r, Moves, PlacesAre
  <2>1. RunsOK'
    BY <1>14, <2>0 DEF Begin, RunsOK
  <2>2. Placed'
    BY <1>14, <1>r, RunDomain DEF Begin, Move, In, Placed, RunsOK
  <2>3. QED
    BY <1>14, <2>1, <2>2 DEF Begin, LocksOK, MutexOK, TreesOK, CommitsOK, CountsOK
<1>15. ASSUME NEW r \in LaneRuns, Point(r) PROVE Typed'
  <2>1. RunsOK'
    BY <1>15, MoveKeeps, PlacesAre DEF Point
  <2>2. LocksOK'
    <3>1. runs[r].index \in Indices
      BY <1>15, <1>p DEF Point, In, Placed
    <3>2. [lanes[runs[r].index] EXCEPT !.pointed = TRUE] \in LockFiles
      BY <3>1, LockKinds DEF LocksOK
    <3>3. QED
      BY <1>15, <3>1, <3>2 DEF Point, LocksOK
  <2>3. Placed'
    BY <1>15, <1>r, RunDomain DEF Point, Move, In, Placed, RunsOK
  <2>4. QED
    BY <1>15, <2>1, <2>2, <2>3, <1>t, <1>u DEF Point, MutexOK, TreesOK, CommitsOK, CountsOK
<1>16. ASSUME NEW r \in LaneRuns, Finish(r) PROVE Typed'
  <2>1. RunsOK'
    BY <1>16, MoveKeeps, PlacesAre DEF Finish
  <2>2. CommitsOK'
    BY <1>16, <1>r, <1>p, Fields DEF Finish, TreesOK, Worktrees, CommitsOK, Placed, In
  <2>3. Placed'
    BY <1>16, <1>r, RunDomain DEF Finish, Move, In, Placed, RunsOK
  <2>4. QED
    BY <1>16, <2>1, <2>2, <2>3 DEF Finish, LocksOK, MutexOK, TreesOK, CountsOK
<1>17. ASSUME NEW r \in LaneRuns, Free(r) PROVE Typed'
  <2>1. RunsOK'
    BY <1>17, MoveKeeps, PlacesAre DEF Free
  <2>2. LocksOK'
    BY <1>17, LockKinds DEF Free, LocksOK
  <2>3. Placed'
    BY <1>17, <1>r, RunDomain DEF Free, Move, In, Placed, RunsOK
  <2>4. QED
    BY <1>17, <2>1, <2>2, <2>3, <1>t, <1>u DEF Free, MutexOK, TreesOK, CommitsOK, CountsOK
<1>18. ASSUME NEW r \in LaneRuns, Edit(r) PROVE Typed'
  <2>1. TreesOK'
    BY <1>18, <1>r, <1>p, Fields DEF Edit, TreesOK, Worktrees, CommitsOK, Placed, In
  <2>2. Placed'
    BY <1>18 DEF Edit, Placed
  <2>3. QED
    BY <1>18, <2>1, <2>2 DEF Edit, RunsOK, LocksOK, MutexOK, CommitsOK, CountsOK
<1>19. ASSUME NEW r \in LaneRuns, Commit(r) PROVE Typed'
  <2>1. TreesOK'
    <3>1. runs[r].index \in Indices
      BY <1>19, <1>p DEF Commit, Placed
    <3>2. \A w \in Worktrees : [w EXCEPT !.head = @ \cup {r}, !.loose = @ \ {r}] \in Worktrees
      BY DEF Worktrees
    <3>3. [tree[runs[r].index] EXCEPT !.head = @ \cup {r}, !.loose = @ \ {r}] \in Worktrees
      BY <3>1, <3>2 DEF TreesOK
    <3>4. tree' = [tree EXCEPT ![runs[r].index] =
                     [tree[runs[r].index] EXCEPT !.head = @ \cup {r}, !.loose = @ \ {r}]]
      BY <1>19 DEF Commit
    <3>5. QED
      BY <3>1, <3>3, <3>4 DEF TreesOK
  <2>2. CommitsOK'
    BY <1>19, <1>r, <1>p, Fields DEF Commit, TreesOK, Worktrees, CommitsOK, Placed, In
  <2>3. Placed'
    BY <1>19 DEF Commit, Placed
  <2>4. QED
    BY <1>19, <2>1, <2>2, <2>3 DEF Commit, RunsOK, LocksOK, MutexOK, CountsOK
<1>20. ASSUME NEW r \in LaneRuns, End(r) PROVE Typed'
  <2>0. [runs[r] EXCEPT !.worker = FALSE] \in RunRecords
    BY <1>r, Fields, Moves, PlacesAre
  <2>1. RunsOK'
    BY <1>20, <2>0 DEF End, RunsOK
  <2>2. Placed'
    BY <1>20, <1>r, RunDomain DEF End, Move, In, Placed, RunsOK
  <2>3. QED
    BY <1>20, <2>1, <2>2 DEF End, LocksOK, MutexOK, TreesOK, CommitsOK, CountsOK
<1>21. ASSUME NEW r \in LaneRuns, Kill(r) PROVE Typed'
  <2>1. RunsOK'
    BY <1>21, MoveKeeps, PlacesAre DEF Kill
  <2>2. Placed'
    BY <1>21, <1>r, RunDomain DEF Kill, Move, In, Placed, RunsOK
  <2>3. QED
    BY <1>21, <2>1, <2>2, <1>t, <1>u DEF Kill, LocksOK, MutexOK, TreesOK, CommitsOK, CountsOK
<1>22. ASSUME NEW i \in Indices, Clear(i) PROVE Typed'
  BY <1>22 DEF Clear, RunsOK, LocksOK, MutexOK, TreesOK, Worktrees, CommitsOK, CountsOK, Placed
<1>23. CASE Configure
  BY <1>23, <1>t DEF Configure, RunsOK, LocksOK, MutexOK, TreesOK, CommitsOK, CountsOK, Placed
<1>24. CASE UNCHANGED laneVars
  BY <1>24 DEF laneVars, RunsOK, LocksOK, MutexOK, TreesOK, CommitsOK, CountsOK, Placed
<1>25. QED
  BY <1>1, <1>2, <1>3, <1>4, <1>5, <1>6, <1>7, <1>8, <1>9, <1>10, <1>11, <1>12, <1>13,
     <1>14, <1>15, <1>16, <1>17, <1>18, <1>19, <1>20, <1>21, <1>22, <1>23, <1>24
     DEF LanesNext, LaneStep

----------------------------------------------------------------------------
(* The mutex and the locks.  A run is bound to its lane while it, or a     *)
(* worker that the lane points at, lives.                                  *)
Safe == slip \subseteq {"orphan"}
Inside(r) == runs[r].at \in {"enter", "scan", "take", "write", "leave"}
Bound(r) == Working(r) /\ ~Orphan(r)

MutexOne == \A r \in LaneRuns : Inside(r) => mutex.by = r

(* A lock is its writer's, who has that lane;                              *)
Owner == \A i \in Indices : lanes[i].by # NoRun => runs[lanes[i].by].index = i

(* it is half written only where the writer has not gone on;               *)
Whole ==
  \A i \in Indices : lanes[i].by # NoRun /\ ~lanes[i].whole =>
    runs[lanes[i].by].at \in {"write", "dead"} /\ ~runs[lanes[i].by].worker

(* and a claimer that lives has the lock of its lane.                      *)
Kept == \A r \in LaneRuns : Alive(r) /\ runs[r].index # 0 => lanes[runs[r].index].by = r

Stale(f) ==
  f.by # NoRun => runs[f.by].index # 0 /\ ~Alive(f.by) /\ (f.pointed => ~runs[f.by].worker)

(* What the scan found holds until a lock is taken.                        *)
Others(r) == {q \in LaneRuns \ {r} : Bound(q)}
JudgedOf(r) ==
  In(r, "take") =>
    /\ \A row \in runs[r].todo : Stale(row[2])
    /\ \A q \in Others(r) : NameOf[q] # NameOf[r]
    /\ Cardinality(Others(r)) < runs[r].eff
Judged == \A r \in LaneRuns : JudgedOf(r)

LaneInv == Typed /\ Owner /\ Whole /\ (Safe => MutexOne /\ Kept /\ Judged)

(* A step that gives no lane: no run becomes bound, no lock gets a new     *)
(* owner, and a live claimer keeps its own.                                *)
CalmRun(q) ==
  /\ runs'[q].index = runs[q].index
  /\ Alive(q)' => Alive(q) \/ runs[q].index = 0
  /\ runs'[q].worker => runs[q].worker \/ Alive(q)
  /\ runs[q].at = "dead" => runs'[q].at = "dead"
  /\ runs[q].at = "write" =>
       \/ runs'[q].at \in {"write", "dead"} /\ runs'[q].worker = runs[q].worker
       \/ \A i \in Indices : lanes'[i].by = q => lanes'[i].whole
CalmLock(i) ==
  \/ lanes'[i] = lanes[i]
  \/ lanes'[i] = FreeLock /\ \E q \in LaneRuns : lanes[i].by = q /\ runs'[q].at = "ended"
  \/ /\ lanes'[i].by = lanes[i].by /\ lanes'[i].whole = lanes[i].whole
     /\ lanes[i].by # NoRun /\ Alive(lanes[i].by)
  \/ lanes'[i].by = lanes[i].by /\ lanes'[i].pointed = lanes[i].pointed /\ lanes'[i].whole
Calm == (\A q \in LaneRuns : CalmRun(q)) /\ (\A i \in Indices : CalmLock(i)) /\ slip \subseteq slip'

(* A run that is about to take a lock has judged before.                   *)
Waits(q) ==
  runs'[q].at = "take" =>
    runs[q].at = "take" /\ runs'[q].todo \subseteq runs[q].todo /\ runs'[q].eff = runs[q].eff

(* A lock is created, and the run has a lane.                              *)
Grant(r) ==
  \E row \in runs[r].todo :
    /\ lanes[row[1]] \in {FreeLock, row[2]}
    /\ lanes' = [lanes EXCEPT ![row[1]] = [FreeLock EXCEPT !.by = r]]
    /\ runs' = [runs EXCEPT ![r] = [@ EXCEPT !.at = "write", !.index = row[1], !.todo = {}]]

(* The fields of a lock.                                                   *)
LEMMA LockDomain == \A f \in LockFiles : DOMAIN f = {"by", "whole", "pointed"}
BY DEF LockFiles

(* A step is one run's.                                                    *)
LEMMA OnlyOne ==
  ASSUME Typed, NEW r \in LaneRuns, LaneStep(r) \/ Edit(r) \/ Commit(r) \/ End(r) \/ Kill(r)
  PROVE  \A q \in LaneRuns \ {r} : runs'[q] = runs[q]
<1>1. runs' = runs \/ \E x : runs' = [runs EXCEPT ![r] = x]
  <2>1. Scan(r) => \E x : runs' = [runs EXCEPT ![r] = x]
    BY DEF Scan
  <2>2. Take(r) => \E x : runs' = [runs EXCEPT ![r] = x]
    BY DEF Take, Move
  <2>3. Resolve(r) => \E x : runs' = [runs EXCEPT ![r] = x]
    BY DEF Resolve, Move
  <2>4. QED
    BY <2>1, <2>2, <2>3
       DEF LaneStep, Move, Ask, Enter, Busy, Entered, Judge, Break, Write, Exit, Save, Checkout,
           Begin, Point, Finish, Free, Edit, Commit, End, Kill
<1>2. QED
  BY <1>1 DEF Typed, RunsOK

(* Every step of a run is calm or gives it a lane; and only a kill ends a  *)
(* claimer without its letting go.                                         *)
LEMMA CalmStep ==
  ASSUME Typed, NEW r \in LaneRuns, LaneStep(r) \/ Edit(r) \/ Commit(r) \/ End(r) \/ Kill(r)
  PROVE  /\ Kill(r) \/ runs'[r].at # "dead" \/ runs[r].at = "dead"
         /\ \/ Calm /\ (Scan(r) \/ Waits(r)) /\ \A q \in LaneRuns \ {r} : Waits(q)
            \/ Take(r) /\ Grant(r)
<1> USE DEF Typed
<1>r. RunsOK /\ \A q \in LaneRuns : runs[q] \in RunRecords
  BY DEF RunsOK
<1>l. LocksOK /\ \A i \in Indices : lanes[i] \in LockFiles
  BY DEF LocksOK
<1>1. CASE Ask(r)
  BY <1>1, <1>r, <1>l, RunDomain, LockDomain
     DEF Ask, Move, In, RunsOK, LocksOK, Placed, Calm, CalmRun, CalmLock, Waits, Alive, FreeLock
<1>2. CASE Enter(r)
  BY <1>2, <1>r, <1>l, RunDomain, LockDomain
     DEF Enter, Move, In, RunsOK, LocksOK, Placed, Calm, CalmRun, CalmLock, Waits, Alive, FreeLock
<1>3. CASE Busy(r)
  BY <1>3, <1>r, <1>l, RunDomain, LockDomain
     DEF Busy, Move, In, RunsOK, LocksOK, Placed, Calm, CalmRun, CalmLock, Waits, Alive, FreeLock
<1>4. CASE Entered(r)
  BY <1>4, <1>r, <1>l, RunDomain, LockDomain
     DEF Entered, Move, In, RunsOK, LocksOK, Placed, Calm, CalmRun, CalmLock, Waits, Alive, FreeLock
<1>5. CASE Judge(r)
  BY <1>5, <1>r, <1>l, RunDomain, LockDomain
     DEF Judge, Move, In, RunsOK, LocksOK, Placed, Calm, CalmRun, CalmLock, Waits, Alive, FreeLock
<1>6. CASE Break(r)
  BY <1>6, <1>r, <1>l, RunDomain, LockDomain
     DEF Break, Move, In, RunsOK, LocksOK, Placed, Calm, CalmRun, CalmLock, Waits, Alive, FreeLock
<1>7. CASE Scan(r)
  <2>1. runs[r].eff \in Int
    BY <1>r, Fields
  <2>2. In(r, "scan") /\ UNCHANGED <<lanes, slip>> /\ \E p \in {"leave", "take"} :
          \/ runs' = [runs EXCEPT ![r].at = p]
          \/ \E t : runs' = [runs EXCEPT ![r] = [@ EXCEPT !.at = p, !.todo = t]]
    BY <1>7, <2>1, ScanIs DEF Scanned, Move
  <2>3. QED
    BY <1>7, <2>2, <1>r, <1>l, RunDomain, ZenonT(40)
       DEF In, RunsOK, LocksOK, Placed, Calm, CalmRun, CalmLock, Waits, Alive
<1>8. CASE Take(r)
  <2>1. In(r, "take") /\ UNCHANGED slip
    BY <1>8 DEF Take
  <2>2. CASE Move(r, "leave") /\ UNCHANGED lanes
    BY <2>1, <2>2, <1>r, <1>l, RunDomain
       DEF Move, In, RunsOK, LocksOK, Placed, Calm, CalmRun, CalmLock, Waits, Alive
  <2>3. ASSUME NEW row, runs' = [runs EXCEPT ![r].todo = @ \ {row}], UNCHANGED lanes
        PROVE  runs'[r].at # "dead" /\ Calm /\ \A q \in LaneRuns : Waits(q)
    BY <2>1, <2>3, <1>r, <1>l, RunDomain
       DEF In, RunsOK, LocksOK, Placed, Calm, CalmRun, CalmLock, Waits, Alive
  <2>4. ASSUME Grant(r) PROVE runs'[r].at # "dead"
    BY <2>4, <1>r, RunDomain DEF Grant, RunsOK
  <2>5. CASE Move(r, "leave") /\ UNCHANGED lanes
    BY <2>2, <2>5, <1>r, RunDomain DEF Move, RunsOK
  <2>6. QED
    BY <1>8, <2>2, <2>3, <2>4, <2>5 DEF Take, Grant
<1>9. CASE Write(r)
  BY <1>9, <1>r, <1>l, RunDomain, LockDomain
     DEF Write, Move, In, RunsOK, LocksOK, Placed, Calm, CalmRun, CalmLock, Waits, Alive, FreeLock
<1>10. CASE Exit(r)
  BY <1>10, <1>r, <1>l, RunDomain, LockDomain
     DEF Exit, Move, In, RunsOK, LocksOK, Placed, Calm, CalmRun, CalmLock, Waits, Alive, FreeLock
<1>11. CASE Resolve(r)
  <2>1. In(r, "tree") /\ UNCHANGED <<lanes, slip>>
    BY <1>11 DEF Resolve
  <2>2. ASSUME NEW p \in {"block", "release"}, Move(r, p)
        PROVE  runs'[r].at # "dead" /\ Calm /\ \A q \in LaneRuns : Waits(q)
    BY <2>1, <2>2, <1>r, <1>l, RunDomain
       DEF Move, In, RunsOK, LocksOK, Placed, Calm, CalmRun, CalmLock, Waits, Alive
  <2>3. ASSUME runs' = [runs EXCEPT ![r] = [@ EXCEPT !.at = "save", !.sha = base]]
        PROVE  runs'[r].at # "dead" /\ Calm /\ \A q \in LaneRuns : Waits(q)
    BY <2>1, <2>3, <1>r, <1>l, RunDomain
       DEF In, RunsOK, LocksOK, Placed, Calm, CalmRun, CalmLock, Waits, Alive
  <2>4. QED
    BY <1>11, <2>2, <2>3 DEF Resolve
<1>12. CASE Save(r)
  BY <1>12, <1>r, <1>l, RunDomain, LockDomain
     DEF Save, Move, In, RunsOK, LocksOK, Placed, Calm, CalmRun, CalmLock, Waits, Alive, FreeLock
<1>13. CASE Checkout(r)
  BY <1>13, <1>r, <1>l, RunDomain, LockDomain
     DEF Checkout, Move, In, RunsOK, LocksOK, Placed, Calm, CalmRun, CalmLock, Waits, Alive,
         FreeLock
<1>14. CASE Begin(r)
  BY <1>14, <1>r, <1>l, RunDomain, LockDomain
     DEF Begin, Move, In, RunsOK, LocksOK, Placed, Calm, CalmRun, CalmLock, Waits, Alive, FreeLock
<1>15. CASE Point(r)
  <2>1. In(r, "point") /\ Move(r, "wait") /\ UNCHANGED slip
    BY <1>15 DEF Point
  <2>2. \A i \in Indices : CalmLock(i)
    <3>1. \/ UNCHANGED lanes
          \/ lanes[runs[r].index].by = r /\ lanes' = [lanes EXCEPT ![runs[r].index].pointed = TRUE]
      BY <1>15 DEF Point
    <3>2. Alive(r) /\ r # NoRun
      BY <2>1, LanesAssumption DEF In, Alive
    <3>3. QED
      BY <3>1, <3>2, <1>l, LockDomain DEF LocksOK, CalmLock
  <2>3. QED
    BY <2>1, <2>2, <1>r, RunDomain DEF Move, In, RunsOK, Placed, Calm, CalmRun, Waits, Alive
<1>16. CASE Finish(r)
  BY <1>16, <1>r, <1>l, RunDomain, LockDomain
     DEF Finish, Move, In, RunsOK, LocksOK, Placed, Calm, CalmRun, CalmLock, Waits, Alive, FreeLock
<1>17. CASE Free(r)
  <2>1. In(r, "release") /\ Move(r, "ended") /\ UNCHANGED slip
    BY <1>17 DEF Free
  <2>2. \A i \in Indices : CalmLock(i)
    <3>1. \/ UNCHANGED lanes
          \/ lanes[runs[r].index].by = r /\ lanes' = [lanes EXCEPT ![runs[r].index] = FreeLock]
      BY <1>17 DEF Free
    <3>2. runs'[r].at = "ended"
      BY <2>1, <1>r, RunDomain DEF Move, RunsOK
    <3>3. QED
      BY <3>1, <3>2, <1>l DEF LocksOK, CalmLock
  <2>3. QED
    BY <2>1, <2>2, <1>r, RunDomain DEF Move, In, RunsOK, Placed, Calm, CalmRun, Waits, Alive
<1>18. CASE Edit(r)
  BY <1>18, <1>r, <1>l, RunDomain, LockDomain
     DEF Edit, Move, In, RunsOK, LocksOK, Placed, Calm, CalmRun, CalmLock, Waits, Alive, FreeLock
<1>19. CASE Commit(r)
  BY <1>19, <1>r, <1>l, RunDomain, LockDomain
     DEF Commit, Move, In, RunsOK, LocksOK, Placed, Calm, CalmRun, CalmLock, Waits, Alive, FreeLock
<1>20. CASE End(r)
  BY <1>20, <1>r, <1>l, RunDomain, LockDomain
     DEF End, Move, In, RunsOK, LocksOK, Placed, Calm, CalmRun, CalmLock, Waits, Alive, FreeLock
<1>21. CASE Kill(r)
  BY <1>21, <1>r, <1>l, RunDomain, LockDomain
     DEF Kill, Move, In, RunsOK, LocksOK, Placed, Calm, CalmRun, CalmLock, Waits, Alive, FreeLock
<1>22. QED
  BY <1>1, <1>2, <1>3, <1>4, <1>5, <1>6, <1>7, <1>8, <1>9, <1>10, <1>11, <1>12, <1>13,
     <1>14, <1>15, <1>16, <1>17, <1>18, <1>19, <1>20, <1>21 DEF LaneStep

----------------------------------------------------------------------------
(* In calm steps no run becomes bound,                                     *)
LEMMA BoundShrinks ==
  ASSUME Typed, Calm, NEW q \in LaneRuns, Bound(q)'
  PROVE  Bound(q)
<1>1. CalmRun(q)
  BY DEF Calm
<1>2. CASE Alive(q)
  BY <1>1, <1>2 DEF CalmRun, Bound, Working, Orphan
<1>3. CASE ~Alive(q)
  <2>1. runs[q].index # 0 /\ ~Alive(q)' /\ runs'[q].worker /\ runs[q].worker /\ Pointed(q)'
    BY <1>1, <1>3 DEF CalmRun, Bound, Working, Orphan
  <2>2. PICK i \in Indices : lanes'[i].by = q /\ lanes'[i].pointed
    BY <2>1 DEF Pointed
  <2>3. CalmLock(i)
    BY DEF Calm
  <2>4. lanes[i].by = q /\ lanes[i].pointed
    <3>1. CASE lanes'[i] = lanes[i]
      BY <2>2, <3>1
    <3>2. CASE lanes'[i] = FreeLock
      BY <2>2, <3>2, LanesAssumption DEF FreeLock
    <3>3. CASE lanes'[i].by = lanes[i].by /\ Alive(lanes[i].by)
      BY <1>3, <2>2, <3>3
    <3>4. CASE lanes'[i].by = lanes[i].by /\ lanes'[i].pointed = lanes[i].pointed
      BY <2>2, <3>4
    <3>5. QED
      BY <2>3, <3>1, <3>2, <3>3, <3>4 DEF CalmLock
  <2>5. QED
    BY <2>1, <2>4 DEF Bound, Working, Orphan, Pointed
<1>4. QED
  BY <1>2, <1>3

(* the others are no more than they were,                                  *)
LEMMA OthersShrink ==
  ASSUME Typed, Calm, NEW r \in LaneRuns
  PROVE  /\ Others(r)' \subseteq Others(r)
         /\ Cardinality(Others(r)') <= Cardinality(Others(r))
         /\ Cardinality(Others(r)') \in Nat /\ Cardinality(Others(r)) \in Nat
<1>1. Others(r)' \subseteq Others(r)
  BY BoundShrinks DEF Others
<1>2. IsFiniteSet(Others(r))
  <2>1. Others(r) \subseteq LaneRuns
    BY DEF Others
  <2>2. QED
    BY <2>1, FS_Subset, LanesAssumption
<1>3. QED
  BY <1>1, <1>2, FS_Subset, FS_CardinalityType

(* and a stale lock stays stale.                                           *)
LEMMA StaleKept ==
  ASSUME Typed, Calm, NEW f \in LockFiles, Stale(f)
  PROVE  Stale(f)'
<1>1. CASE f.by = NoRun
  BY <1>1 DEF Stale
<1>2. CASE f.by # NoRun
  <2>1. f.by \in LaneRuns /\ CalmRun(f.by)
    BY <1>2 DEF LockFiles, Calm
  <2>2. QED
    BY <1>2, <2>1 DEF Stale, CalmRun, Alive
<1>3. QED
  BY <1>1, <1>2

(* Calm steps keep what is known of the locks,                             *)
LEMMA CalmKeeps ==
  ASSUME Typed, Typed', Calm, Owner, Whole
  PROVE  Owner' /\ Whole' /\ (Kept => Kept')
<1>l. \A i \in Indices : CalmLock(i) /\ lanes[i].by \in LaneRuns \cup {NoRun}
  BY DEF Calm, Typed, LocksOK, LockFiles
<1>r. \A q \in LaneRuns : CalmRun(q)
  BY DEF Calm
<1>1. \A i \in Indices : lanes'[i].by # NoRun => lanes'[i].by = lanes[i].by
  BY <1>l DEF CalmLock, FreeLock
<1>2. Owner'
  BY <1>1, <1>l, <1>r DEF Owner, CalmRun
<1>3. Whole'
  <2> SUFFICES ASSUME NEW i \in Indices, lanes'[i].by # NoRun, ~lanes'[i].whole
               PROVE  runs'[lanes'[i].by].at \in {"write", "dead"} /\ ~runs'[lanes'[i].by].worker
    BY DEF Whole
  <2>1. ~lanes[i].whole /\ lanes'[i].by = lanes[i].by
    BY <1>1, <1>l DEF CalmLock, FreeLock, Typed, LocksOK, LockFiles
  <2>2. lanes[i].by \in LaneRuns
    BY <2>1, <1>l
  <2>3. runs[lanes[i].by].at \in {"write", "dead"} /\ ~runs[lanes[i].by].worker
    BY <2>1, <2>2, LanesAssumption DEF Whole
  <2>4. CalmRun(lanes[i].by)
    BY <1>r, <2>2
  <2>5. QED
    BY <2>1, <2>3, <2>4 DEF CalmRun, Alive
<1>4. ASSUME Kept PROVE Kept'
  <2> SUFFICES ASSUME NEW q \in LaneRuns, Alive(q)', runs'[q].index # 0
               PROVE  lanes'[runs'[q].index].by = q
    BY DEF Kept
  <2>1. runs'[q].index = runs[q].index /\ Alive(q)
    BY <1>r DEF CalmRun
  <2>2. lanes[runs[q].index].by = q /\ runs[q].index \in Indices
    BY <1>4, <2>1, Fields DEF Kept, Typed, RunsOK
  <2>3. CalmLock(runs[q].index)
    BY <1>l, <2>2
  <2>4. QED
    BY <2>1, <2>2, <2>3 DEF CalmLock, Alive
<1>5. QED
  BY <1>2, <1>3, <1>4

(* and of who waits to take one.                                           *)
LEMMA WaitsKeeps ==
  ASSUME Typed, Calm, NEW r \in LaneRuns, Waits(r), JudgedOf(r)
  PROVE  JudgedOf(r)'
<1> SUFFICES ASSUME In(r, "take")' PROVE JudgedOf(r)'
  BY DEF JudgedOf
<1>1. In(r, "take") /\ runs'[r].todo \subseteq runs[r].todo /\ runs'[r].eff = runs[r].eff
  BY DEF Waits, In
<1>2. \A row \in runs[r].todo : row[2] \in LockFiles
  BY Fields DEF Typed, RunsOK
<1>3. \A row \in runs'[r].todo : Stale(row[2])'
  <2> TAKE row \in runs'[r].todo
  <2>1. row[2] \in LockFiles /\ Stale(row[2])
    BY <1>1, <1>2 DEF JudgedOf
  <2>2. \A f \in LockFiles : Stale(f) => Stale(f)'
    BY StaleKept
  <2>3. QED
    BY <2>1, <2>2
<1>4. runs[r].eff \in Int
  BY Fields DEF Typed, RunsOK
<1>5. QED
  BY <1>1, <1>3, <1>4, OthersShrink DEF JudgedOf

(* The lock of a lane is that of the run which is bound to it.             *)
LEMMA BoundHolds ==
  ASSUME Typed, Owner, Kept, NEW q \in LaneRuns, Bound(q)
  PROVE  /\ runs[q].index \in Indices /\ lanes[runs[q].index].by = q
         /\ Alive(q) \/ (lanes[runs[q].index].pointed /\ runs[q].worker)
<1>1. runs[q].index \in Indices /\ runs[q].index # 0
  BY Fields DEF Bound, Working, Typed, RunsOK
<1>2. CASE Alive(q)
  BY <1>1, <1>2 DEF Kept
<1>3. CASE ~Alive(q)
  <2>1. runs[q].worker /\ Pointed(q)
    BY <1>3 DEF Bound, Working, Orphan
  <2>2. PICK i \in Indices : lanes[i].by = q /\ lanes[i].pointed
    BY <2>1 DEF Pointed
  <2>3. runs[q].index = i
    BY <2>2, LanesAssumption DEF Owner
  <2>4. QED
    BY <1>1, <2>1, <2>2, <2>3
<1>4. QED
  BY <1>2, <1>3

(* A scan judges rightly,                                                  *)
LEMMA ScanJudges ==
  ASSUME Typed, Calm, MutexOne, Owner, Whole, Kept, NEW r \in LaneRuns, Scan(r)
  PROVE  JudgedOf(r)'
<1> SUFFICES ASSUME In(r, "take")' PROVE JudgedOf(r)'
  BY DEF JudgedOf
<1>0. runs[r] \in RunRecords /\ runs[r].eff \in Int /\ RunsOK /\ LocksOK
  BY Fields DEF Typed, RunsOK
<1>1. In(r, "scan") /\ UNCHANGED <<mutex, lanes>>
  BY <1>0, ScanIs
<1>2. PICK running \in SUBSET Indices : Scanned(r, running)
  <2>1. ~Move(r, "leave")
    BY <1>0, RunDomain DEF Move, In, RunsOK
  <2>2. QED
    BY <1>0, <2>1, ScanIs
<1>3. \A i \in Indices : lanes[i] \in LockFiles /\ lanes[i].by \in LaneRuns \cup {NoRun}
  BY <1>0 DEF LocksOK, LockFiles
<1>4. \A q \in LaneRuns : q # r => runs[q].at # "write"
  BY <1>1 DEF MutexOne, Inside, In
<1>5. ASSUME NEW i \in Indices, i \notin running PROVE Stale(lanes[i])
  <2> SUFFICES ASSUME lanes[i].by # NoRun PROVE Stale(lanes[i])
    BY DEF Stale
  <2> DEFINE q == lanes[i].by
  <2>1. q \in LaneRuns /\ runs[q].index = i /\ i # 0
    BY <1>3 DEF Owner, Indices
  <2>2. CASE lanes[i].whole
    BY <1>2, <1>5, <2>1, <2>2 DEF Scanned, Held, Stale
  <2>3. CASE ~lanes[i].whole
    <3>1. runs[q].at \in {"write", "dead"} /\ ~runs[q].worker
      BY <2>3 DEF Whole
    <3>2. runs[r].index = 0
      BY <1>1 DEF Typed, Placed, In
    <3>3. runs[q].at = "dead"
      BY <1>4, <2>1, <3>1, <3>2
    <3>4. QED
      BY <2>1, <3>1, <3>3 DEF Stale, Alive
  <2>4. QED
    BY <2>2, <2>3
<1>6. \A row \in runs'[r].todo : Stale(row[2])'
  <2>1. runs'[r].todo = {<<i, lanes[i]>> : i \in {j \in Indices \ running : j <= runs[r].eff}}
    BY <1>0, <1>2, RunDomain DEF Scanned, RunsOK
  <2>2. \A f \in LockFiles : Stale(f) => Stale(f)'
    BY StaleKept
  <2>3. QED
    BY <1>3, <1>5, <2>1, <2>2
<1>7. ASSUME NEW q \in Others(r)
      PROVE  /\ runs[q].index \in running /\ NameOf[q] # NameOf[r]
             /\ lanes[runs[q].index].by = q
  <2>1. q \in LaneRuns /\ Bound(q) /\ runs[q].index # 0
    BY DEF Others, Bound, Working
  <2>2. runs[q].index \in Indices
    BY <1>0, <2>1, Fields DEF RunsOK
  <2>3. lanes[runs[q].index].by = q /\ Held(lanes[runs[q].index])
    BY <2>1, BoundHolds, LanesAssumption DEF Held
  <2>4. lanes[runs[q].index].whole
    <3> SUFFICES ASSUME ~lanes[runs[q].index].whole PROVE FALSE
      OBVIOUS
    <3>1. runs[q].at \in {"write", "dead"} /\ ~runs[q].worker
      BY <2>1, <2>2, <2>3, LanesAssumption DEF Whole
    <3>2. runs[q].at # "write"
      BY <1>4 DEF Others
    <3>3. QED
      BY <2>1, <3>1, <3>2 DEF Bound, Working, Alive
  <2>5. QED
    BY <1>2, <2>2, <2>3, <2>4 DEF Scanned
<1>8. Cardinality(Others(r)) <= Cardinality(running)
  <2> DEFINE place == [q \in Others(r) |-> runs[q].index]
  <2>1. IsFiniteSet(running)
    BY IndicesAre, FS_Subset
  <2>2. place \in Injection(Others(r), running)
    BY <1>7 DEF Injection, IsInjective
  <2>3. QED
    BY <2>1, <2>2, FS_Injection
<1>9. /\ runs'[r].eff = runs[r].eff /\ Cardinality(running) \in Nat
      /\ Cardinality(running) < runs[r].eff
  <2>1. IsFiniteSet(running)
    BY IndicesAre, FS_Subset
  <2>2. QED
    BY <1>0, <1>2, <2>1, FS_CardinalityType, RunDomain DEF Scanned, RunsOK
<1>10. QED
  BY <1>0, <1>6, <1>7, <1>8, <1>9, OthersShrink DEF JudgedOf

(* and the lane it leads to is given alone.                                *)
Alone(r) ==
  /\ \A q \in Others(r) : runs[q].index # runs'[r].index /\ NameOf[q] # NameOf[r]
  /\ Cardinality(Others(r)) < runs[r].eff

(* A grant keeps the lanes and their owners in accord.                     *)
LEMMA GrantKeeps ==
  ASSUME LaneInv, NEW r \in LaneRuns, In(r, "take"), Grant(r)
  PROVE  Owner' /\ Whole' /\ (Safe => Alone(r) /\ Kept' /\ Judged')
<1>0. Typed /\ RunsOK /\ LocksOK /\ Owner /\ Whole /\ runs[r] \in RunRecords
  BY DEF LaneInv, Typed, RunsOK
<1>1. PICK row \in runs[r].todo :
        /\ lanes[row[1]] \in {FreeLock, row[2]}
        /\ lanes' = [lanes EXCEPT ![row[1]] = [FreeLock EXCEPT !.by = r]]
        /\ runs' = [runs EXCEPT ![r] = [@ EXCEPT !.at = "write", !.index = row[1], !.todo = {}]]
  BY DEF Grant
<1> DEFINE i == row[1]
<1>2. i \in Indices /\ i # 0 /\ row[2] \in LockFiles
  BY <1>0, Fields DEF Indices
<1>3. /\ lanes'[i] = [FreeLock EXCEPT !.by = r]
      /\ \A j \in Indices \ {i} : lanes'[j] = lanes[j]
  BY <1>0, <1>1, <1>2 DEF LocksOK
<1>4. lanes'[i].by = r /\ ~lanes'[i].pointed /\ r # NoRun
  BY <1>3, LanesAssumption DEF FreeLock
<1>5. /\ runs'[r].at = "write" /\ runs'[r].index = i /\ runs'[r].worker = runs[r].worker
      /\ \A q \in LaneRuns \ {r} : runs'[q] = runs[q]
  BY <1>0, <1>1, RunDomain DEF RunsOK
<1>6. runs[r].index = 0 /\ ~runs[r].worker
  BY <1>0 DEF Typed, Placed, In
<1>7. \A j \in Indices : lanes[j].by \in LaneRuns \cup {NoRun} /\ lanes[j].by # r
  BY <1>0, <1>4, <1>6 DEF LocksOK, LockFiles, Owner, Indices
<1>8. Owner'
  <2> SUFFICES ASSUME NEW j \in Indices, lanes'[j].by # NoRun PROVE runs'[lanes'[j].by].index = j
    BY DEF Owner
  <2>1. CASE j = i
    BY <2>1, <1>4, <1>5
  <2>2. CASE j # i
    BY <2>2, <1>0, <1>3, <1>5, <1>7 DEF Owner
  <2>3. QED
    BY <2>1, <2>2
<1>9. Whole'
  <2> SUFFICES ASSUME NEW j \in Indices, lanes'[j].by # NoRun, ~lanes'[j].whole
               PROVE  runs'[lanes'[j].by].at \in {"write", "dead"} /\ ~runs'[lanes'[j].by].worker
    BY DEF Whole
  <2>1. CASE j = i
    BY <2>1, <1>4, <1>5, <1>6
  <2>2. CASE j # i
    BY <2>2, <1>0, <1>3, <1>5, <1>7 DEF Whole
  <2>3. QED
    BY <2>1, <2>2
<1>10. ASSUME Safe PROVE Alone(r) /\ Kept' /\ Judged'
  <2>1. MutexOne /\ Kept /\ JudgedOf(r)
    BY <1>10 DEF LaneInv, Judged
  <2>2. ASSUME NEW q \in Others(r) PROVE runs[q].index # i
    <3> SUFFICES ASSUME runs[q].index = i PROVE FALSE
      OBVIOUS
    <3>1. q \in LaneRuns /\ lanes[i].by = q /\ (Alive(q) \/ (lanes[i].pointed /\ runs[q].worker))
      BY <1>0, <2>1, BoundHolds DEF Others
    <3>2. lanes[i] = row[2]
      BY <1>1, <3>1, LanesAssumption DEF FreeLock
    <3>3. Stale(lanes[i])
      BY <2>1, <3>2 DEF JudgedOf
    <3>4. QED
      BY <3>1, <3>3, LanesAssumption DEF Stale
  <2>3. Alone(r)
    BY <1>5, <2>1, <2>2 DEF Alone, JudgedOf
  <2>4. Kept'
    <3> SUFFICES ASSUME NEW q \in LaneRuns, Alive(q)', runs'[q].index # 0
                 PROVE  lanes'[runs'[q].index].by = q
      BY DEF Kept
    <3>1. CASE q = r
      BY <3>1, <1>4, <1>5
    <3>2. CASE q # r
      <4>1. runs'[q] = runs[q] /\ Alive(q)
        BY <3>2, <1>5 DEF Alive
      <4>2. q \in Others(r) /\ runs[q].index \in Indices /\ lanes[runs[q].index].by = q
        BY <3>2, <4>1, <1>0, <2>1, Fields DEF Others, Bound, Working, Orphan, Kept, RunsOK
      <4>3. QED
        BY <4>1, <4>2, <2>2, <1>3
    <3>3. QED
      BY <3>1, <3>2
  <2>5. Judged'
    <3> SUFFICES ASSUME NEW q \in LaneRuns, In(q, "take")' PROVE FALSE
      BY DEF Judged, JudgedOf
    <3>1. q # r /\ In(q, "take")
      BY <1>5 DEF In
    <3>2. QED
      BY <2>1, <3>1 DEF MutexOne, Inside, In
  <2>6. QED
    BY <2>3, <2>4, <2>5
<1>11. QED
  BY <1>8, <1>9, <1>10

(* The mutex is held by at most one, unless it was taken from a live run.  *)
LEMMA MutexStep ==
  ASSUME Typed, MutexOne, [LanesNext]_laneVars, Safe'
  PROVE  MutexOne'
<1> USE DEF Typed
<1>r. RunsOK /\ \A q \in LaneRuns : runs[q] \in RunRecords
  BY DEF RunsOK
<1>m. mutex \in [by : LaneRuns \cup {NoRun}, whole : BOOLEAN] /\ NoRun \notin LaneRuns
  BY LanesAssumption DEF MutexOK
<1>1. ASSUME NEW r \in LaneRuns, Ask(r) PROVE MutexOne'
  BY <1>1, <1>r, <1>m, RunDomain DEF Ask, Move, In, RunsOK, MutexOne, Inside
<1>2. ASSUME NEW r \in LaneRuns, Enter(r) PROVE MutexOne'
  BY <1>2, <1>r, <1>m, RunDomain DEF Enter, Move, In, RunsOK, MutexOne, Inside
<1>3. ASSUME NEW r \in LaneRuns, Busy(r) PROVE MutexOne'
  BY <1>3, <1>r, <1>m, RunDomain DEF Busy, Move, In, RunsOK, MutexOne, Inside
<1>4. ASSUME NEW r \in LaneRuns, Entered(r) PROVE MutexOne'
  BY <1>4, <1>r, <1>m, RunDomain DEF Entered, Move, In, RunsOK, MutexOne, Inside
<1>5. ASSUME NEW r \in LaneRuns, Judge(r) PROVE MutexOne'
  BY <1>5, <1>r, <1>m, RunDomain DEF Judge, Move, In, RunsOK, MutexOne, Inside
<1>6. ASSUME NEW r \in LaneRuns, Break(r) PROVE MutexOne'
  BY <1>6, <1>r, <1>m, RunDomain DEF Break, Move, In, RunsOK, MutexOne, Inside, Alive, Safe
<1>7. ASSUME NEW r \in LaneRuns, Scan(r) PROVE MutexOne'
  BY <1>7, <1>r, <1>m, RunDomain DEF Scan, Move, In, RunsOK, MutexOne, Inside
<1>8. ASSUME NEW r \in LaneRuns, Take(r) PROVE MutexOne'
  BY <1>8, <1>r, <1>m, RunDomain DEF Take, Move, In, RunsOK, MutexOne, Inside
<1>9. ASSUME NEW r \in LaneRuns, Write(r) PROVE MutexOne'
  BY <1>9, <1>r, <1>m, RunDomain DEF Write, Move, In, RunsOK, MutexOne, Inside
<1>10. ASSUME NEW r \in LaneRuns, Exit(r) PROVE MutexOne'
  BY <1>10, <1>r, <1>m, RunDomain DEF Exit, Move, In, RunsOK, MutexOne, Inside
<1>11. ASSUME NEW r \in LaneRuns, Resolve(r) PROVE MutexOne'
  <2>1. In(r, "tree") /\ UNCHANGED mutex
    BY <1>11 DEF Resolve
  <2>2. ASSUME NEW p \in {"block", "release"}, Move(r, p) PROVE MutexOne'
    BY <2>1, <2>2, <1>r, RunDomain DEF Move, In, RunsOK, MutexOne, Inside
  <2>3. CASE runs' = [runs EXCEPT ![r] = [@ EXCEPT !.at = "save", !.sha = base]]
    BY <2>1, <2>3, <1>r, RunDomain DEF In, RunsOK, MutexOne, Inside
  <2>4. QED
    BY <1>11, <2>2, <2>3 DEF Resolve
<1>12. ASSUME NEW r \in LaneRuns, Save(r) PROVE MutexOne'
  BY <1>12, <1>r, <1>m, RunDomain DEF Save, Move, In, RunsOK, MutexOne, Inside
<1>13. ASSUME NEW r \in LaneRuns, Checkout(r) PROVE MutexOne'
  BY <1>13, <1>r, <1>m, RunDomain DEF Checkout, Move, In, RunsOK, MutexOne, Inside
<1>14. ASSUME NEW r \in LaneRuns, Begin(r) PROVE MutexOne'
  BY <1>14, <1>r, <1>m, RunDomain DEF Begin, Move, In, RunsOK, MutexOne, Inside
<1>15. ASSUME NEW r \in LaneRuns, Point(r) PROVE MutexOne'
  BY <1>15, <1>r, <1>m, RunDomain DEF Point, Move, In, RunsOK, MutexOne, Inside
<1>16. ASSUME NEW r \in LaneRuns, Finish(r) PROVE MutexOne'
  BY <1>16, <1>r, <1>m, RunDomain DEF Finish, Move, In, RunsOK, MutexOne, Inside
<1>17. ASSUME NEW r \in LaneRuns, Free(r) PROVE MutexOne'
  BY <1>17, <1>r, <1>m, RunDomain DEF Free, Move, In, RunsOK, MutexOne, Inside
<1>18. ASSUME NEW r \in LaneRuns, Edit(r) PROVE MutexOne'
  BY <1>18, <1>r, <1>m, RunDomain DEF Edit, Move, In, RunsOK, MutexOne, Inside
<1>19. ASSUME NEW r \in LaneRuns, Commit(r) PROVE MutexOne'
  BY <1>19, <1>r, <1>m, RunDomain DEF Commit, Move, In, RunsOK, MutexOne, Inside
<1>20. ASSUME NEW r \in LaneRuns, End(r) PROVE MutexOne'
  BY <1>20, <1>r, <1>m, RunDomain DEF End, Move, In, RunsOK, MutexOne, Inside
<1>21. ASSUME NEW r \in LaneRuns, Kill(r) PROVE MutexOne'
  BY <1>21, <1>r, <1>m, RunDomain DEF Kill, Move, In, RunsOK, MutexOne, Inside
<1>22. ASSUME NEW i \in Indices, Clear(i) PROVE MutexOne'
  BY <1>22 DEF Clear, MutexOne, Inside
<1>23. CASE Configure
  BY <1>23 DEF Configure, MutexOne, Inside
<1>24. CASE UNCHANGED laneVars
  BY <1>24 DEF laneVars, MutexOne, Inside
<1>25. QED
  BY <1>1, <1>2, <1>3, <1>4, <1>5, <1>6, <1>7, <1>8, <1>9, <1>10, <1>11, <1>12, <1>13,
     <1>14, <1>15, <1>16, <1>17, <1>18, <1>19, <1>20, <1>21, <1>22, <1>23, <1>24
     DEF LanesNext, LaneStep

(* What has slipped is remembered.                                         *)
LEMMA SlipsStay == ASSUME [LanesNext]_laneVars PROVE slip \subseteq slip'
BY ZenonT(40)
   DEF LanesNext, LaneStep, laneVars, Ask, Enter, Busy, Entered, Judge, Break, Scan, Take,
       Write, Exit, Resolve, Save, Checkout, Begin, Point, Finish, Free, Edit, Commit, End,
       Kill, Clear, Configure

(* What the steps keep, and what a run that is given a lane finds.         *)
LEMMA LaneInvStep ==
  ASSUME LaneInv, [LanesNext]_laneVars
  PROVE  /\ LaneInv'
         /\ \A r \in LaneRuns :
              runs'[r].index = runs[r].index \/ (slip' = slip /\ (Safe => Alone(r)))
<1>1. Typed /\ Owner /\ Whole /\ Typed'
  BY TypedStep DEF LaneInv
<1>2. Safe' => MutexOne'
  <2> SUFFICES ASSUME Safe' PROVE MutexOne'
    OBVIOUS
  <2>1. slip \subseteq slip'
    BY SlipsStay
  <2>2. QED
    BY <2>1, <1>1, MutexStep DEF LaneInv, Safe
<1> DEFINE Goal == /\ LaneInv'
                   /\ \A r \in LaneRuns :
                        runs'[r].index = runs[r].index \/ (slip' = slip /\ (Safe => Alone(r)))
<1>3. ASSUME Calm, \A r \in LaneRuns : Waits(r) PROVE Goal
  <2>1. \A r \in LaneRuns : runs'[r].index = runs[r].index
    BY <1>3 DEF Calm, CalmRun
  <2>2. Safe' => Safe
    BY <1>3 DEF Calm, Safe
  <2>3. Judged => Judged'
    BY <1>1, <1>3, WaitsKeeps DEF Judged
  <2>4. Owner' /\ Whole' /\ (Kept => Kept')
    BY <1>1, <1>3, CalmKeeps
  <2>5. QED
    BY <1>1, <1>2, <2>1, <2>2, <2>3, <2>4 DEF LaneInv
<1>4. ASSUME NEW r \in LaneRuns, Calm, Scan(r), \A q \in LaneRuns \ {r} : Waits(q) PROVE Goal
  <2>1. \A q \in LaneRuns : runs'[q].index = runs[q].index
    BY <1>4 DEF Calm, CalmRun
  <2>2. Safe' => Safe
    BY <1>4 DEF Calm, Safe
  <2>3. ASSUME Safe PROVE Judged'
    <3>1. JudgedOf(r)'
      BY <1>1, <1>4, <2>3, ScanJudges DEF LaneInv
    <3>2. \A q \in LaneRuns \ {r} : JudgedOf(q)'
      BY <1>1, <1>4, <2>3, WaitsKeeps DEF LaneInv, Judged
    <3>3. QED
      BY <3>1, <3>2 DEF Judged
  <2>4. Owner' /\ Whole' /\ (Kept => Kept')
    BY <1>1, <1>4, CalmKeeps
  <2>5. QED
    BY <1>1, <1>2, <2>1, <2>2, <2>3, <2>4 DEF LaneInv
<1>5. ASSUME NEW r \in LaneRuns, Take(r), Grant(r) PROVE Goal
  <2>1. In(r, "take") /\ UNCHANGED slip
    BY <1>5 DEF Take
  <2>2. Owner' /\ Whole' /\ (Safe => Alone(r) /\ Kept' /\ Judged')
    BY <1>5, <2>1, GrantKeeps
  <2>3. \A q \in LaneRuns \ {r} : runs'[q] = runs[q]
    BY <1>5 DEF Grant
  <2>4. Safe' => Safe
    BY <2>1 DEF Safe
  <2>5. QED
    BY <1>1, <1>2, <2>1, <2>2, <2>3, <2>4 DEF LaneInv
<1>6. ASSUME NEW r \in LaneRuns, LaneStep(r) \/ Edit(r) \/ Commit(r) \/ End(r) \/ Kill(r) PROVE Goal
  <2>1. CASE Calm /\ Waits(r) /\ \A q \in LaneRuns \ {r} : Waits(q)
    <3>1. \A q \in LaneRuns : Waits(q)
      BY <2>1
    <3>2. QED
      BY <2>1, <3>1, <1>3
  <2>2. CASE Calm /\ Scan(r) /\ \A q \in LaneRuns \ {r} : Waits(q)
    BY <2>2, <1>4
  <2>3. CASE Take(r) /\ Grant(r)
    BY <2>3, <1>5
  <2>4. QED
    BY <1>1, <1>6, <2>1, <2>2, <2>3, CalmStep
<1>7. ASSUME UNCHANGED <<lanes, runs>>, slip \subseteq slip' PROVE Goal
  <2>1. Calm /\ \A r \in LaneRuns : Waits(r)
    BY <1>7 DEF Calm, CalmRun, CalmLock, Waits, Alive
  <2>2. QED
    BY <2>1, <1>3
<1>8. ASSUME NEW i \in Indices, Clear(i) PROVE Goal
  BY <1>7, <1>8 DEF Clear
<1>9. CASE Configure
  BY <1>7, <1>9 DEF Configure
<1>10. CASE UNCHANGED laneVars
  BY <1>7, <1>10 DEF laneVars
<1>11. QED
  BY <1>6, <1>8, <1>9, <1>10 DEF LanesNext

(* The first state.                                                        *)
LEMMA LaneInvInit == LanesInit => LaneInv
<1> SUFFICES ASSUME LanesInit PROVE LaneInv
  OBVIOUS
<1> USE DEF LanesInit
<1>1. Idle \in RunRecords /\ Idle.at = "off" /\ Idle.index = 0 /\ ~Idle.worker
  <2>1. {} \in SUBSET (Indices \X LockFiles) /\ {} \in SUBSET LaneRuns /\ 0 \in 0 .. MaxCap
    BY LanesAssumption
  <2>2. QED
    BY <2>1, PlacesAre DEF Idle, RunRecords
<1>2. RunsOK /\ Placed
  BY <1>1 DEF RunsOK, Placed
<1>3. Typed
  BY <1>2, LockKinds, LanesAssumption
     DEF Typed, LocksOK, MutexOK, TreesOK, Worktrees, NoTree, CommitsOK, CountsOK
<1>4. Owner /\ Whole /\ MutexOne /\ Kept /\ Judged
  BY <1>1 DEF Owner, Whole, FreeLock, MutexOne, Inside, Kept, Alive, Judged, JudgedOf, In
<1>5. QED
  BY <1>3, <1>4 DEF LaneInv

(* The inductive invariant of the locks holds.                             *)
THEOREM LaneInvariant == LanesSpec => []LaneInv
BY LaneInvInit, LaneInvStep, PTL DEF LanesSpec

(* Every variable keeps its type, and a run that works has a lane.         *)
THEOREM LanesTypeCorrect == LanesSpec => []LanesTypeOK
<1>1. LaneInv => LanesTypeOK
  BY DEF LaneInv, Typed, LanesTypeOK, RunsOK, LocksOK, MutexOK, TreesOK, CommitsOK, CountsOK
<1>2. QED
  BY <1>1, LaneInvariant, PTL

(* fleet_lanes.py:try_acquire_lane: a run that is given a lane is alone in *)
(* it and under its name, and there is room under the cap that it read.    *)
THEOREM LanesAreGrantedAlone == LanesSpec => GrantedAlone
<1> DEFINE A == \A r \in LaneRuns :
     runs[r].index = 0 /\ runs'[r].index # 0 /\ slip' \subseteq {"orphan"} =>
       LET others == {q \in LaneRuns \ {r} : Working(q) /\ ~Orphan(q)}
       IN  /\ \A q \in others : runs[q].index # runs'[r].index /\ NameOf[q] # NameOf[r]
           /\ Cardinality(others) < runs[r].eff
<1>1. ASSUME LaneInv, [LanesNext]_laneVars PROVE A
  <2> SUFFICES ASSUME NEW r \in LaneRuns, runs[r].index = 0, runs'[r].index # 0,
                      slip' \subseteq {"orphan"}
               PROVE  Alone(r)
    BY DEF Alone, Others, Bound
  <2>1. QED
    BY <1>1, LaneInvStep DEF Safe
<1>2. QED
  BY <1>1, LaneInvariant, PTL DEF LanesSpec, GrantedAlone

----------------------------------------------------------------------------
(* The work.  A run that has reached its worktree finds it there,          *)
Busies(r) == runs[r].at \in {"save", "move", "block", "point", "wait"} \/ runs[r].worker
There == \A r \in LaneRuns : Busies(r) => tree[runs[r].index].there
Absent == \A i \in Indices : ~tree[i].there => tree[i].head = {} /\ tree[i].loose = {}

(* without edits, and moves away only from what is saved.                  *)
CleanOf(r) ==
  /\ runs[r].at \in {"save", "move", "block"} => tree[runs[r].index].loose = {}
  /\ In(r, "move") => tree[runs[r].index].head \subseteq runs[r].sha \cup saved
NoOrphan == \A r \in LaneRuns : ~Orphan(r)
Reached == made \subseteq base \cup saved \cup UNION {tree[i].head : i \in Indices}

WorkInv ==
  /\ LaneInv /\ There /\ Absent
  /\ slip = {} => NoOrphan /\ (\A r \in LaneRuns : CleanOf(r)) /\ Reached

(* A step that leaves the worktrees alone.                                 *)
QuietRun(q) ==
  /\ Busies(q)' => runs'[q].index = runs[q].index /\ (Busies(q) \/ In(q, "block"))
  /\ runs'[q].at \in {"save", "move", "block"} =>
       runs'[q].at = runs[q].at /\ runs'[q].sha = runs[q].sha
Quiet ==
  /\ \A q \in LaneRuns : QuietRun(q)
  /\ UNCHANGED <<tree, saved, made>> /\ base \subseteq base'

(* All but five kinds of step do.                                          *)
LEMMA QuietStep ==
  ASSUME Typed, NEW r \in LaneRuns,
         LaneStep(r) \/ End(r) \/ Kill(r), ~Resolve(r), ~Save(r), ~Checkout(r)
  PROVE  Quiet
<1>r. RunsOK /\ Placed /\ \A q \in LaneRuns : runs[q] \in RunRecords
  BY DEF Typed, RunsOK
<1>1. CASE Ask(r)
  BY <1>1, <1>r, RunDomain DEF Ask, Move, In, RunsOK, Placed, Quiet, QuietRun, Busies
<1>2. CASE Enter(r)
  BY <1>2, <1>r, RunDomain DEF Enter, Move, In, RunsOK, Placed, Quiet, QuietRun, Busies
<1>3. CASE Busy(r)
  BY <1>3, <1>r, RunDomain DEF Busy, Move, In, RunsOK, Placed, Quiet, QuietRun, Busies
<1>4. CASE Entered(r)
  BY <1>4, <1>r, RunDomain DEF Entered, Move, In, RunsOK, Placed, Quiet, QuietRun, Busies
<1>5. CASE Judge(r)
  BY <1>5, <1>r, RunDomain DEF Judge, Move, In, RunsOK, Placed, Quiet, QuietRun, Busies
<1>6. CASE Break(r)
  BY <1>6, <1>r, RunDomain DEF Break, Move, In, RunsOK, Placed, Quiet, QuietRun, Busies
<1>7. CASE Scan(r)
  <2>1. runs[r].eff \in Int
    BY <1>r, Fields
  <2>2. In(r, "scan") /\ UNCHANGED <<tree, base, saved, made>> /\ \E p \in {"leave", "take"} :
          \/ runs' = [runs EXCEPT ![r].at = p]
          \/ \E t : runs' = [runs EXCEPT ![r] = [@ EXCEPT !.at = p, !.todo = t]]
    BY <1>7, <2>1, ScanIs DEF Scanned, Move
  <2>3. QED
    BY <2>2, <1>r, RunDomain, ZenonT(40) DEF In, RunsOK, Placed, Quiet, QuietRun, Busies
<1>8. CASE Take(r)
  <2>1. In(r, "take") /\ UNCHANGED <<tree, base, saved, made>>
    BY <1>8 DEF Take
  <2>2. CASE Move(r, "leave")
    BY <2>1, <2>2, <1>r, RunDomain DEF Move, In, RunsOK, Placed, Quiet, QuietRun, Busies
  <2>3. ASSUME NEW row, runs' = [runs EXCEPT ![r].todo = @ \ {row}] PROVE Quiet
    BY <2>1, <2>3, <1>r, RunDomain DEF In, RunsOK, Placed, Quiet, QuietRun, Busies
  <2>4. ASSUME Grant(r) PROVE Quiet
    BY <2>1, <2>4, <1>r, RunDomain DEF Grant, In, RunsOK, Placed, Quiet, QuietRun, Busies
  <2>5. QED
    BY <1>8, <2>2, <2>3, <2>4 DEF Take, Grant
<1>9. CASE Write(r)
  BY <1>9, <1>r, RunDomain DEF Write, Move, In, RunsOK, Placed, Quiet, QuietRun, Busies
<1>10. CASE Exit(r)
  BY <1>10, <1>r, RunDomain DEF Exit, Move, In, RunsOK, Placed, Quiet, QuietRun, Busies
<1>11. CASE Begin(r)
  BY <1>11, <1>r, RunDomain DEF Begin, Move, In, RunsOK, Placed, Quiet, QuietRun, Busies
<1>12. CASE Point(r)
  BY <1>12, <1>r, RunDomain DEF Point, Move, In, RunsOK, Placed, Quiet, QuietRun, Busies
<1>13. CASE Finish(r)
  BY <1>13, <1>r, RunDomain DEF Finish, Move, In, RunsOK, Placed, Quiet, QuietRun, Busies
<1>14. CASE Free(r)
  BY <1>14, <1>r, RunDomain DEF Free, Move, In, RunsOK, Placed, Quiet, QuietRun, Busies
<1>15. CASE End(r)
  BY <1>15, <1>r, RunDomain DEF End, Move, In, RunsOK, Placed, Quiet, QuietRun, Busies
<1>16. CASE Kill(r)
  BY <1>16, <1>r, RunDomain DEF Kill, Move, In, RunsOK, Placed, Quiet, QuietRun, Busies
<1>17. QED
  BY <1>1, <1>2, <1>3, <1>4, <1>5, <1>6, <1>7, <1>8, <1>9, <1>10, <1>11, <1>12, <1>13,
     <1>14, <1>15, <1>16 DEF LaneStep

(* It keeps what is known of the work.                                     *)
LEMMA QuietKeeps ==
  ASSUME Typed, Quiet, There, Absent
  PROVE  /\ There' /\ Absent'
         /\ (\A r \in LaneRuns : CleanOf(r)) => \A r \in LaneRuns : CleanOf(r)'
         /\ Reached => Reached'
<1>1. There'
  BY DEF Quiet, QuietRun, There, Busies, In
<1>2. Absent'
  BY DEF Quiet, Absent
<1>3. ASSUME NEW r \in LaneRuns, CleanOf(r) PROVE CleanOf(r)'
  BY <1>3 DEF Quiet, QuietRun, CleanOf, In, Busies
<1>4. Reached => Reached'
  BY DEF Quiet, Reached
<1>5. QED
  BY <1>1, <1>2, <1>3, <1>4

(* No two work in one worktree.                                            *)
LEMMA Sole ==
  ASSUME LaneInv, slip = {}, NoOrphan, NEW r \in LaneRuns, NEW q \in LaneRuns, q # r,
         Working(r), Working(q)
  PROVE  runs[q].index # runs[r].index
<1>1. Typed /\ Owner /\ Kept
  BY DEF LaneInv, Safe
<1>2. Bound(r) /\ Bound(q)
  BY DEF Bound, NoOrphan
<1>3. QED
  BY <1>1, <1>2, BoundHolds

(* A worker that is left alone is left with a lane that points at it.      *)
LEMMA NoOrphanStep ==
  ASSUME LaneInv, [LanesNext]_laneVars, slip' = {}, NoOrphan
  PROVE  NoOrphan'
<1>1. Typed /\ Typed' /\ slip = {} /\ Owner /\ Judged
  <2>1. slip \subseteq slip'
    BY SlipsStay
  <2>2. slip = {}
    BY <2>1
  <2>3. QED
    BY <2>2, TypedStep DEF LaneInv, Safe
<1> SUFFICES ASSUME NEW q \in LaneRuns, Orphan(q)' PROVE FALSE
  BY DEF NoOrphan
<1>2. runs'[q].worker /\ runs'[q].at = "dead" /\ ~Pointed(q)'
  BY <1>1 DEF Orphan, Typed, Placed, Alive
<1>3. CASE UNCHANGED <<lanes, runs>>
  BY <1>3 DEF NoOrphan, Orphan, Pointed, Alive
<1>4. ASSUME NEW r \in LaneRuns, Kill(r), q = r PROVE FALSE
  BY <1>1, <1>2, <1>4, RunDomain DEF Kill, Move, Pointed, Typed, RunsOK
<1>5. ASSUME NEW r \in LaneRuns, LaneStep(r) \/ Edit(r) \/ Commit(r) \/ End(r) \/ Kill(r),
             q # r \/ ~Kill(r)
      PROVE  FALSE
  <2>1. /\ Kill(r) \/ runs'[r].at # "dead" \/ runs[r].at = "dead"
        /\ Calm \/ (In(r, "take") /\ Grant(r))
    BY <1>1, <1>5, CalmStep DEF Take
  <2>2. q # r => runs'[q] = runs[q]
    BY <1>1, <1>5, OnlyOne
  <2>3. runs[q].at = "dead"
    BY <1>2, <1>5, <2>1, <2>2
  <2>4. runs[q].worker /\ ~Alive(q)
    BY <1>2, <2>1, <2>2, <2>3 DEF Calm, CalmRun, Alive, In
  <2>5. PICK i \in Indices : lanes[i].by = q /\ lanes[i].pointed
    BY <2>4 DEF NoOrphan, Orphan, Pointed
  <2>6. CASE Calm
    <3>1. CalmLock(i) /\ ~(lanes'[i].by = q /\ lanes'[i].pointed)
      BY <1>2, <2>6 DEF Calm, Pointed
    <3>2. QED
      BY <1>2, <2>4, <2>5, <3>1 DEF CalmLock
  <2>7. CASE In(r, "take") /\ Grant(r)
    <3>1. PICK row \in runs[r].todo :
            /\ lanes[row[1]] \in {FreeLock, row[2]}
            /\ lanes' = [lanes EXCEPT ![row[1]] = [FreeLock EXCEPT !.by = r]]
      BY <2>7 DEF Grant
    <3>2. lanes'[i] # lanes[i]
      BY <1>2, <2>5 DEF Pointed
    <3>3. row[1] = i
      BY <1>1, <3>1, <3>2 DEF Typed, LocksOK
    <3>4. lanes[i] = row[2]
      BY <2>5, <3>1, <3>3, LanesAssumption DEF FreeLock
    <3>5. Stale(lanes[i])
      BY <1>1, <2>7, <3>4 DEF Judged, JudgedOf
    <3>6. QED
      BY <2>4, <2>5, <3>5, LanesAssumption DEF Stale
  <2>8. QED
    BY <2>1, <2>6, <2>7
<1>6. QED
  BY <1>3, <1>4, <1>5 DEF LanesNext, Clear, Configure, laneVars

(* What the other steps must keep.                                         *)
WorkKeeps ==
  /\ There' /\ Absent'
  /\ slip = {} /\ NoOrphan /\ (\A r \in LaneRuns : CleanOf(r)) /\ Reached =>
       (\A r \in LaneRuns : CleanOf(r)') /\ Reached'

(* The steps that bring a worktree to the base, save, edit and commit.     *)
LEMMA WorkSteps ==
  ASSUME WorkInv, NEW r \in LaneRuns,
         Resolve(r) \/ Save(r) \/ Checkout(r) \/ Edit(r) \/ Commit(r)
  PROVE  WorkKeeps
<1>1. /\ RunsOK /\ TreesOK /\ CommitsOK /\ Placed /\ There /\ Absent /\ LaneInv
      /\ \A q \in LaneRuns : runs[q] \in RunRecords
  BY DEF WorkInv, LaneInv, Typed, RunsOK
<1> DEFINE i == runs[r].index
<1>2. i \in Indices /\ Working(r)
  <2>1. runs[r].index # 0 /\ (Alive(r) \/ runs[r].worker)
    BY <1>1 DEF Resolve, Save, Checkout, Edit, Commit, In, Placed, Alive
  <2>2. QED
    BY <1>1, <2>1, Fields DEF Working
<1>3. ASSUME slip = {}, NoOrphan, NEW q \in LaneRuns \ {r}, Working(q)
      PROVE  runs[q].index # i
  BY <1>1, <1>2, <1>3, Sole
<1>4. \A q \in LaneRuns \ {r} : runs'[q] = runs[q]
  BY <1>1, OnlyOne DEF LaneInv, LaneStep
<1>5. \A q \in LaneRuns : Busies(q) => Working(q) /\ runs[q].index \in Indices
  <2> SUFFICES ASSUME NEW q \in LaneRuns, Busies(q) PROVE Working(q) /\ runs[q].index \in Indices
    OBVIOUS
  <2>1. runs[q].index # 0 /\ (Alive(q) \/ runs[q].worker)
    BY <1>1 DEF Busies, Placed, Alive
  <2>2. QED
    BY <1>1, <2>1, Fields DEF Working
<1>6. \A w \in Worktrees : DOMAIN w = {"there", "head", "loose"}
  BY DEF Worktrees
<1>7. \A j \in Indices : tree[j] \in Worktrees
  BY <1>1 DEF TreesOK
(* A new worktree holds nothing but the base.                              *)
<1>8. CASE Resolve(r) /\ ~tree[i].there /\ Move(r, "block")
             /\ tree' = [tree EXCEPT ![i] = [there |-> TRUE, head |-> base, loose |-> {}]]
  <2>1. /\ tree'[i] = [there |-> TRUE, head |-> base, loose |-> {}]
        /\ \A j \in Indices \ {i} : tree'[j] = tree[j]
        /\ UNCHANGED <<base, saved, made>>
    BY <1>1, <1>2, <1>8 DEF TreesOK, Resolve
  <2>2. runs'[r].at = "block" /\ runs'[r].index = i /\ ~runs'[r].worker
    BY <1>1, <1>8, RunDomain DEF Move, RunsOK, Resolve, In, Placed
  <2>3. There'
    BY <1>1, <1>4, <1>5, <2>1, <2>2 DEF There, Busies
  <2>4. Absent'
    BY <1>1, <2>1 DEF Absent
  <2>5. ASSUME slip = {}, NoOrphan, NEW q \in LaneRuns, CleanOf(q) PROVE CleanOf(q)'
    <3>1. CASE q = r
      BY <3>1, <2>1, <2>2 DEF CleanOf, In
    <3>2. CASE q # r
      BY <2>5, <3>2, <1>3, <1>4, <1>5, <2>1 DEF CleanOf, In, Busies
    <3>3. QED
      BY <3>1, <3>2
  <2>6. Reached => Reached'
    BY <1>1, <1>2, <1>8, <2>1 DEF Reached, Absent
  <2>7. QED
    BY <2>3, <2>4, <2>5, <2>6 DEF WorkKeeps
<1>9. CASE UNCHANGED <<tree, base, saved, made>>
            /\ \/ /\ runs' = [runs EXCEPT ![r] = [@ EXCEPT !.at = "save", !.sha = base]]
                  /\ tree[i].there /\ tree[i].loose = {}
               \/ Move(r, "release")
  <2>1. /\ runs'[r].index = i
        /\ \/ runs'[r].at = "save" /\ tree[i].there /\ tree[i].loose = {}
           \/ runs'[r].at = "release"
        /\ runs'[r].worker = runs[r].worker
    BY <1>1, <1>9, RunDomain DEF Move, RunsOK
  <2>2. There'
    BY <1>1, <1>4, <1>5, <1>9, <2>1 DEF There, Busies
  <2>3. \A q \in LaneRuns : CleanOf(q) => CleanOf(q)'
    BY <1>4, <1>9, <2>1 DEF CleanOf, In
  <2>4. QED
    BY <1>1, <1>9, <2>2, <2>3 DEF WorkKeeps, Absent, Reached
(* The unmerged commits are saved before the checkout.                     *)
<1>10. CASE Save(r) /\ saved' = saved \cup Unmerged(r) /\ Move(r, "move")
  <2>1. UNCHANGED <<tree, base, made>> /\ In(r, "save")
    BY <1>10 DEF Save
  <2>2. /\ runs'[r].index = i /\ runs'[r].at = "move" /\ runs'[r].sha = runs[r].sha
        /\ runs'[r].worker = runs[r].worker
    BY <1>1, <1>10, RunDomain DEF Move, RunsOK
  <2>3. There'
    BY <1>1, <1>4, <2>1, <2>2 DEF There, Busies, In
  <2>4. ASSUME NEW q \in LaneRuns, CleanOf(q) PROVE CleanOf(q)'
    <3>1. CASE q = r
      BY <1>10, <2>1, <2>2, <2>4, <3>1 DEF CleanOf, In, Unmerged
    <3>2. CASE q # r
      BY <1>4, <1>10, <2>1, <2>4, <3>2 DEF CleanOf, In
    <3>3. QED
      BY <3>1, <3>2
  <2>5. Reached => Reached'
    BY <1>10, <2>1 DEF Reached
  <2>6. QED
    BY <1>1, <2>1, <2>3, <2>4, <2>5 DEF WorkKeeps, Absent
<1>11. CASE Checkout(r) /\ tree' = [tree EXCEPT ![i].head = runs[r].sha] /\ Move(r, "block")
  <2>1. UNCHANGED <<base, saved, made>> /\ In(r, "move") /\ tree[i].there
    BY <1>1, <1>11 DEF Checkout, There, Busies, In
  <2>2. /\ tree'[i].head = runs[r].sha /\ tree'[i].there = tree[i].there
        /\ tree'[i].loose = tree[i].loose
        /\ \A j \in Indices \ {i} : tree'[j] = tree[j]
    BY <1>1, <1>2, <1>6, <1>7, <1>11 DEF TreesOK
  <2>3. /\ runs'[r].index = i /\ runs'[r].at = "block" /\ runs'[r].worker = runs[r].worker
    BY <1>1, <1>11, RunDomain DEF Move, RunsOK
  <2>4. There'
    <3>1. \A j \in Indices : tree[j].there => tree'[j].there
      BY <2>1, <2>2
    <3>2. \A q \in LaneRuns \ {r} : Busies(q)' => Busies(q) /\ runs'[q].index = runs[q].index
      BY <1>4 DEF Busies
    <3>3. runs'[r].index \in Indices /\ tree'[runs'[r].index].there
      BY <1>2, <2>1, <2>3, <3>1
    <3>4. QED
      BY <1>1, <1>5, <3>1, <3>2, <3>3 DEF There
  <2>5. Absent'
    BY <1>1, <2>1, <2>2 DEF Absent
  <2>6. ASSUME slip = {}, NoOrphan, NEW q \in LaneRuns, CleanOf(q) PROVE CleanOf(q)'
    <3>1. CASE q = r
      BY <2>1, <2>2, <2>3, <2>6, <3>1 DEF CleanOf, In
    <3>2. CASE q # r
      BY <2>6, <3>2, <1>3, <1>4, <1>5, <2>1, <2>2 DEF CleanOf, In, Busies
    <3>3. QED
      BY <3>1, <3>2
  <2>7. ASSUME CleanOf(r), Reached PROVE Reached'
    <3>1. tree[i].head \subseteq tree'[i].head \cup saved
      BY <2>1, <2>2, <2>7 DEF CleanOf
    <3>2. QED
      BY <1>2, <2>1, <2>2, <2>7, <3>1 DEF Reached
  <2>8. QED
    BY <2>4, <2>5, <2>6, <2>7 DEF WorkKeeps
(* A worker works in a tree that is there and that no other run has.       *)
<1>12. CASE Edit(r)
  <2>1. UNCHANGED <<runs, base, saved, made>> /\ tree[i].there /\ Busies(r) /\ runs[r].worker
    BY <1>1, <1>12 DEF Edit, There, Busies
  <2>2. /\ tree'[i].head = tree[i].head /\ tree'[i].there = tree[i].there
        /\ \A j \in Indices \ {i} : tree'[j] = tree[j]
    BY <1>1, <1>2, <1>6, <1>7, <1>12 DEF TreesOK, Edit
  <2>3. There' /\ Absent'
    BY <1>1, <1>5, <2>1, <2>2 DEF There, Busies, Absent
  <2>4. ASSUME slip = {}, NoOrphan, NEW q \in LaneRuns, CleanOf(q) PROVE CleanOf(q)'
    <3>1. CASE q = r
      BY <1>1, <2>1, <3>1 DEF CleanOf, In, Placed
    <3>2. CASE q # r
      BY <2>4, <3>2, <1>3, <1>5, <2>1, <2>2 DEF CleanOf, In, Busies
    <3>3. QED
      BY <3>1, <3>2
  <2>5. Reached => Reached'
    BY <1>2, <2>1, <2>2 DEF Reached
  <2>6. QED
    BY <2>3, <2>4, <2>5 DEF WorkKeeps
<1>13. CASE Commit(r)
  <2>1. /\ UNCHANGED <<runs, base, saved>> /\ made' = made \cup {r}
        /\ tree[i].there /\ Busies(r) /\ runs[r].worker
    BY <1>1, <1>13 DEF Commit, There, Busies
  <2>2. /\ tree'[i].head = tree[i].head \cup {r} /\ tree'[i].there = tree[i].there
        /\ \A j \in Indices \ {i} : tree'[j] = tree[j]
    BY <1>1, <1>2, <1>6, <1>7, <1>13 DEF TreesOK, Commit
  <2>3. There' /\ Absent'
    BY <1>1, <1>5, <2>1, <2>2 DEF There, Busies, Absent
  <2>4. ASSUME slip = {}, NoOrphan, NEW q \in LaneRuns, CleanOf(q) PROVE CleanOf(q)'
    <3>1. CASE q = r
      BY <1>1, <2>1, <3>1 DEF CleanOf, In, Placed
    <3>2. CASE q # r
      BY <2>4, <3>2, <1>3, <1>5, <2>1, <2>2 DEF CleanOf, In, Busies
    <3>3. QED
      BY <3>1, <3>2
  <2>5. Reached => Reached'
    BY <1>2, <2>1, <2>2 DEF Reached
  <2>6. QED
    BY <2>3, <2>4, <2>5 DEF WorkKeeps
<1>14. QED
  BY <1>8, <1>9, <1>10, <1>11, <1>12, <1>13 DEF Resolve, Save, Checkout

(* Every step keeps the work.                                              *)
LEMMA WorkInvStep ==
  ASSUME WorkInv, [LanesNext]_laneVars
  PROVE  WorkInv'
<1>1. LaneInv /\ LaneInv' /\ Typed /\ There /\ Absent
  BY LaneInvStep DEF WorkInv, LaneInv
<1>2. slip \subseteq slip'
  BY SlipsStay
<1>3. WorkKeeps
  <2>1. ASSUME Quiet PROVE WorkKeeps
    BY <1>1, <2>1, QuietKeeps DEF WorkKeeps
  <2>2. ASSUME NEW r \in LaneRuns, LaneStep(r) \/ Edit(r) \/ Commit(r) \/ End(r) \/ Kill(r)
        PROVE  WorkKeeps
    <3>1. CASE Resolve(r) \/ Save(r) \/ Checkout(r) \/ Edit(r) \/ Commit(r)
      BY <3>1, WorkSteps
    <3>2. CASE ~(Resolve(r) \/ Save(r) \/ Checkout(r) \/ Edit(r) \/ Commit(r))
      BY <1>1, <2>1, <2>2, <3>2, QuietStep
    <3>3. QED
      BY <3>1, <3>2
  <2>3. ASSUME NEW i \in Indices, Clear(i) PROVE WorkKeeps
    <3>1. \A j \in Indices : DOMAIN tree[j] = {"there", "head", "loose"}
      BY <1>1 DEF Typed, TreesOK, Worktrees
    <3>2. /\ UNCHANGED <<runs, base, saved, made>>
          /\ \A j \in Indices : /\ tree'[j].there = tree[j].there /\ tree'[j].head = tree[j].head
                                /\ tree'[j].loose = tree[j].loose \/ tree'[j].loose = {}
      BY <1>1, <2>3, <3>1 DEF Clear, Typed, TreesOK
    <3>3. \A q \in LaneRuns : Busies(q) => runs[q].index \in Indices
      <4> SUFFICES ASSUME NEW q \in LaneRuns, Busies(q) PROVE runs[q].index \in Indices
        OBVIOUS
      <4>1. runs[q].index # 0 /\ runs[q] \in RunRecords
        BY <1>1 DEF Busies, Typed, Placed, RunsOK
      <4>2. QED
        BY <4>1, Fields
    <3>4. There' /\ Absent'
      BY <1>1, <3>2, <3>3 DEF There, Absent, Busies
    <3>5. \A q \in LaneRuns : CleanOf(q) => CleanOf(q)'
      BY <3>2, <3>3 DEF CleanOf, In, Busies
    <3>6. Reached => Reached'
      BY <3>2 DEF Reached
    <3>7. QED
      BY <3>4, <3>5, <3>6 DEF WorkKeeps
  <2>4. ASSUME UNCHANGED <<runs, tree, base, saved, made>> PROVE WorkKeeps
    BY <1>1, <2>1, <2>4 DEF Quiet, QuietRun, Busies
  <2>5. QED
    BY <2>2, <2>3, <2>4 DEF LanesNext, Configure, laneVars
<1>4. ASSUME slip' = {} PROVE NoOrphan' /\ (\A r \in LaneRuns : CleanOf(r)') /\ Reached'
  <2>1. slip = {}
    BY <1>2, <1>4
  <2>2. NoOrphan /\ (\A r \in LaneRuns : CleanOf(r)) /\ Reached
    BY <2>1 DEF WorkInv
  <2>3. QED
    BY <1>1, <1>3, <1>4, <2>1, <2>2, NoOrphanStep DEF WorkKeeps
<1>5. QED
  BY <1>1, <1>3, <1>4 DEF WorkInv, WorkKeeps

(* fleet_lanes.py:ensure_worktree: no commit of a worker is lost, and no   *)
(* run starts among another's edits, unless a worker was orphaned or the   *)
(* mutex was taken from a live run.                                        *)
THEOREM CommitsAreKept == LanesSpec => []WorkKept
<1>1. LanesInit => WorkInv
  <2> SUFFICES ASSUME LanesInit PROVE WorkInv
    OBVIOUS
  <2>1. /\ LaneInv /\ \A r \in LaneRuns : runs[r].at = "off" /\ ~runs[r].worker
        /\ \A i \in Indices : tree[i].head = {} /\ tree[i].loose = {}
        /\ made = {}
    BY LaneInvInit DEF LanesInit, Idle, NoTree
  <2>2. QED
    BY <2>1 DEF WorkInv, There, Absent, Busies, NoOrphan, Orphan, CleanOf, In, Reached
<1>2. WorkInv /\ [LanesNext]_laneVars => WorkInv'
  BY WorkInvStep
<1>3. WorkInv => WorkKept
  BY DEF WorkInv, WorkKept, CleanOf, Reached, In
<1>4. QED
  BY <1>1, <1>2, <1>3, PTL DEF LanesSpec
=============================================================================
