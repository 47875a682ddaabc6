------------------------------- MODULE GitLock -------------------------------
(***************************************************************************)
(* `run` of ops/fleet_kit/fleet_gitlock.py: the lock of a tree around one  *)
(* git command, the leftover index.lock, and the checks before a commit.   *)
(*                                                                         *)
(* A run is one process, of an agent of its own; it holds the lock file    *)
(* from its exclusive create until it unlinks it by name.  Its git is a    *)
(* child of it and goes on when the run is killed.  The index and the      *)
(* claims are shared with the other agents, who edit, stage and claim      *)
(* files at any time, and with a git nobody routed through the lock.       *)
(***************************************************************************)
EXTENDS Integers, FiniteSets

CONSTANTS
  Runs,        \* the processes of `run`, one agent each
  Files,       \* tracked files that are not exempt
  Merged,      \* the files that a merge changes
  Named,       \* the files that a pathspec names
  MaxEvents    \* bound: how often a run dies, time passes, others act

Nobody == "nobody"
Outside == "outside"   \* a git command that was not routed

ASSUME GitLockAssumption ==
  /\ IsFiniteSet(Runs) /\ {Nobody, Outside} \cap Runs = {}
  /\ Merged \subseteq Files /\ Named \subseteq Files /\ MaxEvents \in Nat

VARIABLES
  lock,      \* git.lock: whose record it holds, whether it is whole and old
  run,       \* run[r]: where it is, its verb, the record it saw
  ilock,     \* index.lock: who made it, and its age
  outside,   \* whether an unrouted git runs
  staged, merging, \* the index against HEAD; whether MERGE_HEAD is there
  edited,    \* the tracked files that differ from the index
  claim,     \* claim[f]: the live owner of f, or Nobody
  hit,       \* history: "hung", a live holder was broken; "raced", another's lock
  swept,     \* history: what a commit took that its checks could have seen
  events     \* history: how often the above happened

vars == <<lock, run, ilock, outside, staged, merging, edited, claim, hit, swept, events>>

Locks == [by : Runs \cup {Nobody}, whole : BOOLEAN, old : BOOLEAN]
NoLock == [by |-> Nobody, whole |-> FALSE, old |-> FALSE]
IndexLocks == [by : Runs \cup {Nobody, Outside}, age : 0 .. 2]
NoIndexLock == [by |-> Nobody, age |-> 0]
Unborn == [at |-> "off", verb |-> "other", seen |-> NoLock, broke |-> FALSE,
           alone |-> FALSE, late |-> {}]

(* A commit of the index, with -a, with a pathspec behind "--" or without; *)
(* or a push, merge, reset or revert.                                      *)
Commits == {"commit", "all", "dashed", "bare"}
Verbs == Commits \cup {"other"}
Locations == {"off", "try", "half", "recheck", "unlink", "index", "rmindex", "check",
              "git", "writing", "release", "drop", "done"}

RunStates == [at : Locations, verb : Verbs, seen : Locks, broke : BOOLEAN,
              alone : BOOLEAN, late : SUBSET Files]

At(r, place) == run[r].at = place
Go(r, place) == run' = [run EXCEPT ![r].at = place]
Leave(r, place) == run' = [run EXCEPT ![r] = [Unborn EXCEPT !.at = place]]
InGit == {"git", "writing"}
Running(r) == run[r].at \notin {"off", "done"} /\ ~run[r].alone
SameBytes(x, y) == x.by = y.by /\ x.whole = y.whole

Event == events < MaxEvents /\ events' = events + 1

Init ==
  /\ lock = NoLock /\ run = [r \in Runs |-> Unborn]
  /\ ilock = NoIndexLock /\ outside = FALSE
  /\ staged = {} /\ merging = FALSE /\ edited = {} /\ claim = [f \in Files |-> Nobody]
  /\ hit = {} /\ swept = {} /\ events = 0

----------------------------------------------------------------------------
(* parse: a commit; or another verb, which is not checked.                 *)
Start(r) ==
  /\ At(r, "off")
  /\ \E verb \in Verbs : run' = [run EXCEPT ![r] = [@ EXCEPT !.at = "try", !.verb = verb]]
  /\ UNCHANGED <<lock, ilock, outside, staged, merging, edited, claim, hit, swept, events>>

(* Mutant of Create: the lock is taken over where there is one.            *)
Create_Over(r) ==
  /\ At(r, "try")
  /\ lock' = [by |-> r, whole |-> FALSE, old |-> FALSE]
  /\ run' = [run EXCEPT ![r] = [@ EXCEPT !.at = "half", !.broke = FALSE]]
  /\ UNCHANGED <<ilock, outside, staged, merging, edited, claim, hit, swept, events>>

(* _create, first half: the file is there and empty.                       *)
Create(r) ==
  /\ At(r, "try") /\ lock = NoLock
  /\ lock' = [by |-> r, whole |-> FALSE, old |-> FALSE]
  /\ run' = [run EXCEPT ![r] = [@ EXCEPT !.at = "half", !.broke = FALSE]]
  /\ UNCHANGED <<ilock, outside, staged, merging, edited, claim, hit, swept, events>>

(* _create, second half: the record is in it, if it is still there.        *)
FillIn(r) ==
  /\ At(r, "half")
  /\ lock' = IF lock.by = r THEN [lock EXCEPT !.whole = TRUE, !.old = FALSE] ELSE lock
  /\ Go(r, "index")
  /\ UNCHANGED <<ilock, outside, staged, merging, edited, claim, hit, swept, events>>

(* Mutant of Gone: any holder is.                                          *)
Gone_Any(rec) == TRUE

(* holder_gone of a whole record: its process is dead, or it is past       *)
(* STALE_MIN; a half-written one is stale past HALF_WRITTEN_GRACE_S.       *)
Gone(rec) == rec.old \/ (rec.whole /\ ~Running(rec.by))

(* acquire: the holder is judged, and found stale the first time.          *)
Look(r) ==
  /\ At(r, "try") /\ lock # NoLock /\ ~run[r].broke /\ Gone(lock)
  /\ run' = [run EXCEPT ![r] = [@ EXCEPT !.at = "recheck", !.seen = lock, !.broke = TRUE]]
  /\ UNCHANGED <<lock, ilock, outside, staged, merging, edited, claim, hit, swept, events>>

(* acquire: the bytes are compared once more.                              *)
Recheck(r) ==
  /\ At(r, "recheck")
  /\ run' = [run EXCEPT ![r] =
       IF SameBytes(lock, @.seen) THEN [@ EXCEPT !.at = "unlink"]
       ELSE [@ EXCEPT !.at = "try", !.seen = NoLock]]
  /\ UNCHANGED <<lock, ilock, outside, staged, merging, edited, claim, hit, swept, events>>

(* acquire: then the file is unlinked, whatever it holds by now.           *)
Unlink(r) ==
  /\ At(r, "unlink")
  /\ lock' = NoLock
  /\ hit' = hit \cup
       (IF lock = NoLock THEN {} ELSE IF ~SameBytes(lock, run[r].seen) THEN {"raced"}
        ELSE IF Running(lock.by) /\ lock.old THEN {"hung"} ELSE {})
  /\ run' = [run EXCEPT ![r] = [@ EXCEPT !.at = "try", !.seen = NoLock]]
  /\ UNCHANGED <<ilock, outside, staged, merging, edited, claim, swept, events>>

(* acquire: the lock is still held after the timeout.                      *)
Refuse(r) ==
  /\ At(r, "try") /\ lock # NoLock
  /\ Leave(r, "done")
  /\ UNCHANGED <<lock, ilock, outside, staged, merging, edited, claim, hit, swept, events>>

----------------------------------------------------------------------------
GitAlive == outside \/ \E r \in Runs : run[r].at \in InGit

(* clear_index_lock: none is left.  A commit is checked next.              *)
IndexFree(r) ==
  /\ At(r, "index") /\ ilock = NoIndexLock
  /\ Go(r, IF run[r].verb \in Commits THEN "check" ELSE "git")
  /\ UNCHANGED <<lock, ilock, outside, staged, merging, edited, claim, hit, swept, events>>

(* clear_index_lock: older than INDEX_LOCK_STALE_S, or older than          *)
(* INDEX_LOCK_AGE_S while the probe knows that no git runs.                *)
Leftover == ilock.age = 2 \/ (ilock.age = 1 /\ ~GitAlive)

JudgeIndex(r) ==
  /\ At(r, "index") /\ Leftover
  /\ Go(r, "rmindex")
  /\ UNCHANGED <<lock, ilock, outside, staged, merging, edited, claim, hit, swept, events>>

RemoveIndex(r) ==
  /\ At(r, "rmindex")
  /\ ilock' = NoIndexLock
  /\ Go(r, IF ilock = NoIndexLock THEN "index"
           ELSE IF run[r].verb \in Commits THEN "check" ELSE "git")
  /\ UNCHANGED <<lock, outside, staged, merging, edited, claim, hit, swept, events>>

(* clear_index_lock: it stays for longer than INDEX_WAIT_S.                *)
RefuseIndex(r) ==
  /\ At(r, "index") /\ ilock # NoIndexLock
  /\ Leave(r, "release")
  /\ UNCHANGED <<lock, ilock, outside, staged, merging, edited, claim, hit, swept, events>>

Foreign(r) == {f \in Files : claim[f] \notin {Nobody, r}}

(* What a commit by r records.                                             *)
Recorded(r) ==
  CASE run[r].verb = "all" -> staged \cup edited
    [] run[r].verb \in {"dashed", "bare"} -> (staged \cup edited) \cap Named
    [] OTHER -> staged

(* commit_paths: what it lists, of a staged set and tracked edits as read. *)
Listed(r, cached, dirty) ==
  cached \cup CASE run[r].verb = "all" -> dirty
               [] run[r].verb = "dashed" -> Named
               [] OTHER -> {}

(* Mutant of Refused: a merge is not looked at.                            *)
Refused_Claims(r, listed, merged) == listed \cap Foreign(r) # {}

(* check_claims and check_merge_sweep.                                     *)
Refused(r, listed, merged) ==
  \/ listed \cap Foreign(r) # {}
  \/ merging /\ \E f \in listed : f \notin merged /\ claim[f] # r

(* What such lists or a pathspec without "--" keep from the checks.        *)
Blind(r, cached, dirty) ==
  ((staged \ cached) \cup (edited \ dirty) \cup (IF run[r].verb = "bare" THEN Named ELSE {}))
    \ Listed(r, cached, dirty)

(* check_claims, check_merge_sweep, check_identity.  Each list is that of  *)
(* a git, and empty when the git fails; what they miss is late for them.   *)
Check(r) ==
  /\ At(r, "check")
  /\ \E cached \in {staged, {}}, dirty \in {edited, {}}, merged \in {Merged, {}} :
       \/ Leave(r, "release")
       \/ /\ ~Refused(r, Listed(r, cached, dirty), merged)
          /\ run' = [run EXCEPT ![r] = [@ EXCEPT !.at = "git", !.late = Blind(r, cached, dirty)]]
  /\ UNCHANGED <<lock, ilock, outside, staged, merging, edited, claim, hit, swept, events>>

(* The git of a run is over; so is a run that was killed before.           *)
Over(r) == [Unborn EXCEPT !.at = IF run[r].alone THEN "done" ELSE "release"]

(* git starts: a commit or merge makes the index.lock, and fails on one; a *)
(* push leaves it alone.                                                   *)
GitStart(r) ==
  /\ At(r, "git")
  /\ \/ /\ run[r].verb = "other" \/ ilock # NoIndexLock
        /\ run' = [run EXCEPT ![r] = Over(r)] /\ UNCHANGED ilock
     \/ ilock = NoIndexLock /\ Go(r, "writing") /\ ilock' = [by |-> r, age |-> 0]
  /\ UNCHANGED <<lock, outside, staged, merging, edited, claim, hit, swept, events>>

(* What the checks of a commit by r refuse.                                *)
NotItsOwn(r) ==
  LET taken == Recorded(r)
  IN  (taken \cap Foreign(r)) \cup
        (IF merging THEN {f \in taken \ Merged : claim[f] # r} ELSE {})

(* Files that change under the runs that are past their checks.            *)
Late(files) ==
  [r \in Runs |-> IF run[r].at \in InGit THEN [run[r] EXCEPT !.late = @ \cup files]
                  ELSE run[r]]

(* git ends: a commit records what it was told to, but no part of a merge; *)
(* a merge may stop in a conflict.  It fails if its index.lock is gone.    *)
Fails(r) ==
  \/ ilock.by # r
  \/ merging /\ run[r].verb \in {"dashed", "bare", "other"}

GitEnds(r) ==
  /\ At(r, "writing")
  /\ \/ /\ Fails(r)
        /\ run' = [run EXCEPT ![r] = Over(r)]
        /\ UNCHANGED <<staged, merging, edited, swept>>
     \/ /\ ~Fails(r) /\ run[r].verb \in Commits
        /\ staged' = staged \ Recorded(r)
        /\ edited' = IF run[r].verb = "commit" THEN edited ELSE edited \ Recorded(r)
        /\ merging' = FALSE
        /\ swept' = swept \cup (NotItsOwn(r) \ run[r].late)
        /\ run' = [run EXCEPT ![r] = Over(r)]
     \/ /\ ~Fails(r) /\ run[r].verb = "other"
        /\ \/ merging' = FALSE /\ run' = [run EXCEPT ![r] = Over(r)] /\ UNCHANGED staged
           \/ /\ merging' = TRUE /\ staged' = staged \cup Merged
              /\ run' = [Late(Files) EXCEPT ![r] = Over(r)]
        /\ UNCHANGED <<edited, swept>>
  /\ ilock' = IF ilock.by = r THEN NoIndexLock ELSE ilock
  /\ UNCHANGED <<lock, outside, claim, hit, events>>

(* release: only while it still holds our own bytes.                       *)
Release(r) ==
  /\ At(r, "release")
  /\ IF lock.by = r THEN Go(r, "drop") ELSE Leave(r, "done")
  /\ UNCHANGED <<lock, ilock, outside, staged, merging, edited, claim, hit, swept, events>>

Drop(r) ==
  /\ At(r, "drop")
  /\ lock' = NoLock
  /\ Leave(r, "done")
  /\ hit' = hit \cup (IF lock.by \in {r, Nobody} THEN {} ELSE {"raced"})
  /\ UNCHANGED <<ilock, outside, staged, merging, edited, claim, swept, events>>

Step(r) ==
  \/ Start(r) \/ Create(r) \/ FillIn(r) \/ Look(r) \/ Recheck(r) \/ Unlink(r)
  \/ Refuse(r) \/ IndexFree(r) \/ JudgeIndex(r) \/ RemoveIndex(r) \/ RefuseIndex(r)
  \/ Check(r) \/ GitStart(r) \/ GitEnds(r) \/ Release(r) \/ Drop(r)

(* A run is killed, with its git or without it; a git left alone may be    *)
(* killed too, or end.                                                     *)
Crash(r) ==
  /\ run[r].at \notin {"off", "done"} /\ Event
  /\ \/ Leave(r, "done")
     \/ /\ run[r].at \in InGit /\ ~run[r].alone
        /\ run' = [run EXCEPT ![r] = [@ EXCEPT !.alone = TRUE]]
  /\ UNCHANGED <<lock, ilock, outside, staged, merging, edited, claim, hit, swept>>

----------------------------------------------------------------------------
(* Time and the others.  What is edited, staged or claimed after a run's   *)
(* check is late for it.                                                   *)
AgeLock ==
  /\ Event
  /\ lock # NoLock /\ ~lock.old
  /\ lock' = [lock EXCEPT !.old = TRUE]
  /\ UNCHANGED <<run, ilock, outside, staged, merging, edited, claim, hit, swept>>

AgeIndex ==
  /\ Event
  /\ ilock # NoIndexLock /\ ilock.age < 2
  /\ ilock' = [ilock EXCEPT !.age = @ + 1]
  /\ UNCHANGED <<lock, run, outside, staged, merging, edited, claim, hit, swept>>

(* A git that nobody routed; it may die and leave its index.lock.          *)
OutsideGit ==
  /\ \/ ~outside /\ ilock = NoIndexLock /\ ilock' = [by |-> Outside, age |-> 0]
     \/ outside /\ ilock' \in {ilock, IF ilock.by = Outside THEN NoIndexLock ELSE ilock}
  /\ Event /\ outside' = ~outside
  /\ UNCHANGED <<lock, run, staged, merging, edited, claim, hit, swept>>

(* Another agent changes a tracked file, or adds one to the shared index.  *)
Change(f) ==
  /\ Event
  /\ f \notin edited
  /\ edited' = edited \cup {f} /\ run' = Late({f})
  /\ UNCHANGED <<lock, ilock, outside, staged, merging, claim, hit, swept>>

Stage(f) ==
  /\ Event
  /\ f \notin staged /\ ilock = NoIndexLock
  /\ staged' = staged \cup {f} /\ edited' = edited \ {f} /\ run' = Late({f})
  /\ UNCHANGED <<lock, ilock, outside, merging, claim, hit, swept>>

(* fleet_claims: an agent claims a free file, or its claim ends.           *)
Claim(f) ==
  /\ Event
  /\ \/ claim[f] = Nobody /\ \E a \in Runs : claim' = [claim EXCEPT ![f] = a]
     \/ claim[f] # Nobody /\ claim' = [claim EXCEPT ![f] = Nobody]
  /\ run' = Late({f})
  /\ UNCHANGED <<lock, ilock, outside, staged, merging, edited, hit, swept>>

Next ==
  \/ \E r \in Runs : Step(r) \/ Crash(r)
  \/ AgeLock \/ AgeIndex \/ OutsideGit
  \/ \E f \in Files : Change(f) \/ Stage(f) \/ Claim(f)

Spec == Init /\ [][Next]_vars

----------------------------------------------------------------------------
TypeOK ==
  /\ lock \in Locks /\ run \in [Runs -> RunStates]
  /\ ilock \in IndexLocks
  /\ outside \in BOOLEAN /\ merging \in BOOLEAN
  /\ staged \in SUBSET Files /\ edited \in SUBSET Files
  /\ claim \in [Files -> Runs \cup {Nobody}]
  /\ hit \in SUBSET {"hung", "raced"} /\ swept \in SUBSET Files /\ events \in 0 .. MaxEvents

Guarded == {"half", "index", "rmindex", "check", "git", "writing"}
Works(r) == run[r].at \in Guarded /\ ~run[r].alone

(* One git at a time: two routed commands never work in a tree together,   *)
(* unless the run of one was killed and left its git behind, a live holder *)
(* was past its limit, or a break hit another's lock.                      *)
OneGit == hit = {} => \A r, s \in Runs : Works(r) /\ Works(s) => r = s

(* A routed git that writes the index for a live run never loses its       *)
(* index.lock to another run, however long it takes and whatever else runs.*)
IndexKept ==
  [][\A r \in Runs : At(r, "writing") /\ ~run[r].alone /\ ilock.by = r /\ hit = {} =>
       ilock'.by = r \/ run'[r].at # "writing" \/ run'[r].alone]_vars

(* GITLOCK-SWEEP: a commit, of a killed run too, takes nothing that a live *)
(* agent other than its owner held, and concludes a merge with nothing     *)
(* foreign to it, but what changed after its checks or what a failed list  *)
(* or a pathspec without "--" kept from them.                              *)
NothingSwept == swept = {}
=============================================================================
