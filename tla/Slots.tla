------------------------------- MODULE Slots -------------------------------
(***************************************************************************)
(* The machine-wide concurrency governor of ops/loop/slots.py: a bucket of *)
(* MaxSlots lock files in a directory shared by every repository's loop.   *)
(* A process that wants a lane runs hold(): it tries to create each file   *)
(* exclusively, reaps the stale ones when all of them exist, waits with a  *)
(* jittered backoff, and unlinks its file when the body is over.           *)
(*                                                                         *)
(* The file system calls are the atomic steps, so a create, an existence   *)
(* test, a read, a removal and a write of two processes interleave freely. *)
(* A process is named by its pid.  Time is the age class of a lock file:   *)
(*   0  younger than stale_after                                           *)
(*   1  between stale_after and the ceiling 2 * stale_after                *)
(*   2  past the ceiling                                                   *)
(* The files behave as on Windows, the platform the code is written for: a *)
(* file that another process has open cannot be removed, but it can be     *)
(* written.                                                                *)
(***************************************************************************)
EXTENDS Integers, FiniteSets

CONSTANTS
  Procs,       \* the pids of the processes that use the bucket
  Nobody,      \* pid 0, which no process has
  MaxSlots,    \* lane width
  AgeBound,    \* bound: the greatest age class a lock file reaches
  MaxCrashes,  \* bound: how many processes die without running their finally
  PidReuse,    \* whether the system gives a dead process's pid to a new one
  IOFaults     \* whether a create or a write may fail with an OSError

ASSUME SlotsAssumption ==
  /\ Nobody \notin Procs
  /\ MaxSlots \in Nat \ {0}
  /\ AgeBound \in 0..2
  /\ MaxCrashes \in Nat
  /\ PidReuse \in BOOLEAN
  /\ IOFaults \in BOOLEAN

VARIABLES
  lock,     \* lock[i]: the file slots/<i>.lock
  pc,       \* pc[p]: where process p is in hold()
  slot,     \* slot[p]: the slot p scans, or the one it was given
  seen,     \* seen[p]: the file on which p's reap based its last verdict
  removed,  \* removed[p]: whether p's current reap removed a file
  stolen,   \* history: holders whose file another process took away
  crashes   \* how many processes have died

vars == <<lock, pc, slot, seen, removed, stolen, crashes>>

----------------------------------------------------------------------------
SlotIds == 0 .. MaxSlots - 1

(* A lock file: "half" is a file that does not parse as JSON (just created,*)
(* torn or truncated); the pid of a half file is who created it, which no  *)
(* reader can see.  A neutralised file is a full one with pid Nobody.      *)
LockFiles == [kind : {"absent", "half", "full"}, pid : Procs \cup {Nobody},
              age : 0..2]

NoFile == [kind |-> "absent", pid |-> Nobody, age |-> 0]
HalfFile(p) == [kind |-> "half", pid |-> p, age |-> 0]
FullFile(p) == [kind |-> "full", pid |-> p, age |-> 0]
NeutralFile == [kind |-> "full", pid |-> Nobody, age |-> 2]

Locations == {"idle", "acquire", "write", "hold", "release", "neutralise",
              "zeroing", "reap", "open", "reading", "unlink", "wait", "dead"}

(* pid_alive: a process that exists.                                       *)
PidAlive(p) == p \in Procs /\ pc[p] # "dead"

(* The processes for which the file of a slot is theirs.                   *)
Believing == {"write", "hold", "release", "neutralise"}
Holding == {p \in Procs : pc[p] = "hold"}
Waiting(p) == pc[p] \in {"acquire", "reap", "open", "reading", "unlink", "wait"}

(* Somebody other than p has the file of slot i open.                      *)
OpenByOther(p, i) ==
  \E q \in Procs \ {p} : slot[q] = i /\ pc[q] \in {"reading", "write", "zeroing"}

(* The process that loses its lane if p removes or overwrites file i.      *)
Victims(p, i) ==
  {q \in Procs \ {p} : /\ pc[q] \in Believing
                       /\ slot[q] = i
                       /\ lock[i].pid = q}

Goto(p, l) == pc' = [pc EXCEPT ![p] = l]
Scan(p, l, i) == Goto(p, l) /\ slot' = [slot EXCEPT ![p] = i]
Put(i, f) == lock' = [lock EXCEPT ![i] = f]
Forget(p) == seen' = [seen EXCEPT ![p] = NoFile]

Init ==
  /\ lock = [i \in SlotIds |-> NoFile]
  /\ pc = [p \in Procs |-> "idle"]
  /\ slot = [p \in Procs |-> 0]
  /\ seen = [p \in Procs |-> NoFile]
  /\ removed = [p \in Procs |-> FALSE]
  /\ stolen = {}
  /\ crashes = 0

----------------------------------------------------------------------------
(* hold() is entered.                                                      *)
Enter(p) ==
  /\ pc[p] = "idle"
  /\ Scan(p, "acquire", 0)
  /\ UNCHANGED <<lock, seen, removed, stolen, crashes>>

(* try_acquire: O_CREAT | O_EXCL on the file of the scanned slot.          *)
Create(p) ==
  /\ pc[p] = "acquire" /\ slot[p] \in SlotIds
  /\ lock[slot[p]].kind = "absent"
  /\ Put(slot[p], HalfFile(p))
  /\ Goto(p, "write")
  /\ UNCHANGED <<slot, seen, removed, stolen, crashes>>

(* The file exists, or the create is refused: the next slot.               *)
Occupied(p) ==
  /\ pc[p] = "acquire" /\ slot[p] \in SlotIds
  /\ lock[slot[p]].kind # "absent" \/ IOFaults
  /\ Scan(p, "acquire", slot[p] + 1)
  /\ UNCHANGED <<lock, seen, removed, stolen, crashes>>

(* The payload is written and the file closed: hold() yields the slot.     *)
WritePayload(p) ==
  /\ pc[p] = "write"
  /\ Put(slot[p], FullFile(p))
  /\ Goto(p, "hold")
  /\ UNCHANGED <<slot, seen, removed, stolen, crashes>>

(* Mutant of WriteFails: the slot is returned although the write failed.   *)
WriteFails_Returns(p) ==
  /\ pc[p] = "write" /\ IOFaults
  /\ IF OpenByOther(p, slot[p])
       THEN UNCHANGED lock
       ELSE Put(slot[p], NoFile)
  /\ stolen' = stolen \ {p}
  /\ Goto(p, "hold")
  /\ UNCHANGED <<slot, seen, removed, crashes>>

(* The write fails: the file is removed, unless a reader has it open, and  *)
(* the pass goes on with the next slot.                                    *)
WriteFails(p) ==
  /\ pc[p] = "write" /\ IOFaults
  /\ IF OpenByOther(p, slot[p])
       THEN UNCHANGED lock
       ELSE Put(slot[p], NoFile)
  /\ stolen' = stolen \ {p}
  /\ Scan(p, "acquire", slot[p] + 1)
  /\ UNCHANGED <<seen, removed, crashes>>

(* No slot was free: reap() starts.                                        *)
AllBusy(p) ==
  /\ pc[p] = "acquire" /\ slot[p] = MaxSlots
  /\ Scan(p, "reap", 0)
  /\ UNCHANGED <<lock, seen, removed, stolen, crashes>>

----------------------------------------------------------------------------
(* reap: a slot whose file does not exist is skipped.                      *)
ReapExists(p) ==
  /\ pc[p] = "reap" /\ slot[p] \in SlotIds
  /\ IF lock[slot[p]].kind = "absent"
       THEN Scan(p, "reap", slot[p] + 1)
       ELSE Scan(p, "open", slot[p])
  /\ UNCHANGED <<lock, seen, removed, stolen, crashes>>

(* is_stale opens the file.  If it has gone since the test, the read and   *)
(* the stat both raise, and the answer is "stale".                         *)
ReapOpen(p) ==
  /\ pc[p] = "open"
  /\ IF lock[slot[p]].kind = "absent"
       THEN Goto(p, "unlink") /\ seen' = [seen EXCEPT ![p] = NoFile]
       ELSE Goto(p, "reading") /\ UNCHANGED seen
  /\ UNCHANGED <<lock, slot, removed, stolen, crashes>>

(* Mutant of IsStale: no ceiling.                                          *)
IsStale_NoCeiling(f) ==
  IF f.kind = "full" THEN ~PidAlive(f.pid) ELSE f.age >= 1

(* is_stale on what was read: mtime alone for a file that does not parse,  *)
(* the ceiling and then the holder's liveness for one that does.           *)
IsStale(f) ==
  IF f.kind = "full" THEN f.age = 2 \/ ~PidAlive(f.pid) ELSE f.age >= 1

ReapJudge(p) ==
  /\ pc[p] = "reading"
  /\ IF IsStale(lock[slot[p]])
       THEN Scan(p, "unlink", slot[p])
            /\ seen' = [seen EXCEPT ![p] = lock[slot[p]]]
       ELSE Scan(p, "reap", slot[p] + 1) /\ UNCHANGED seen
  /\ UNCHANGED <<lock, removed, stolen, crashes>>

(* The verdict was "stale": whatever file now has the name is removed.     *)
ReapRemoves(p) ==
  /\ pc[p] = "unlink"
  /\ lock[slot[p]].kind # "absent"
  /\ ~OpenByOther(p, slot[p])
  /\ Put(slot[p], NoFile)
  /\ stolen' = stolen \cup Victims(p, slot[p])
  /\ removed' = [removed EXCEPT ![p] = TRUE]
  /\ Scan(p, "reap", slot[p] + 1)
  /\ Forget(p)
  /\ UNCHANGED crashes

(* The removal raises an OSError, which reap ignores.                      *)
ReapRefused(p) ==
  /\ pc[p] = "unlink"
  /\ lock[slot[p]].kind = "absent" \/ OpenByOther(p, slot[p])
  /\ Scan(p, "reap", slot[p] + 1)
  /\ Forget(p)
  /\ UNCHANGED <<lock, removed, stolen, crashes>>

(* The end of reap(): try again at once if it removed something.           *)
ReapDone(p) ==
  /\ pc[p] = "reap" /\ slot[p] = MaxSlots
  /\ IF removed[p] THEN Scan(p, "acquire", 0) ELSE Scan(p, "wait", 0)
  /\ removed' = [removed EXCEPT ![p] = FALSE]
  /\ UNCHANGED <<lock, seen, stolen, crashes>>

(* Before the deadline: sleep, and another pass over the bucket.           *)
Retry(p) ==
  /\ pc[p] = "wait"
  /\ Scan(p, "acquire", 0)
  /\ UNCHANGED <<lock, seen, removed, stolen, crashes>>

(* Mutants of TimeOut: the caller proceeds without a slot; the deadline is *)
(* never looked at.                                                        *)
TimeOut_Proceeds(p) ==
  /\ pc[p] = "wait"
  /\ Scan(p, "hold", 0)
  /\ UNCHANGED <<lock, seen, removed, stolen, crashes>>
TimeOut_Never(p) == pc[p] = "wait" /\ FALSE /\ UNCHANGED vars

(* Past the deadline: hold() raises SlotTimeout.                           *)
TimeOut(p) ==
  /\ pc[p] = "wait"
  /\ Scan(p, "idle", 0)
  /\ UNCHANGED <<lock, seen, removed, stolen, crashes>>

----------------------------------------------------------------------------
(* The body of hold() ends, normally or with an exception.                 *)
Finish(p) ==
  /\ pc[p] = "hold"
  /\ Goto(p, "release")
  /\ UNCHANGED <<lock, slot, seen, removed, stolen, crashes>>

(* release: the file is removed by name, whoever's it is by now; a file    *)
(* that is not there counts as released.                                   *)
Release(p) ==
  /\ pc[p] = "release"
  /\ lock[slot[p]].kind = "absent" \/ ~OpenByOther(p, slot[p])
  /\ Put(slot[p], NoFile)
  /\ stolen' = (stolen \cup Victims(p, slot[p])) \ {p}
  /\ Scan(p, "idle", 0)
  /\ UNCHANGED <<seen, removed, crashes>>

(* Every one of the RELEASE_ATTEMPTS removals was refused.                 *)
ReleaseRefused(p) ==
  /\ pc[p] = "release"
  /\ lock[slot[p]].kind # "absent" /\ OpenByOther(p, slot[p])
  /\ Goto(p, "neutralise")
  /\ UNCHANGED <<lock, slot, seen, removed, stolen, crashes>>

(* The file is opened for writing in place, which truncates or creates it. *)
Truncate(p) ==
  /\ pc[p] = "neutralise"
  /\ Put(slot[p], HalfFile(Nobody))
  /\ stolen' = stolen \cup Victims(p, slot[p])
  /\ Goto(p, "zeroing")
  /\ UNCHANGED <<slot, seen, removed, crashes>>

(* pid and ts are zero, so the next reap takes the file.                   *)
Neutralise(p) ==
  /\ pc[p] = "zeroing"
  /\ Put(slot[p], NeutralFile)
  /\ stolen' = (stolen \cup Victims(p, slot[p])) \ {p}
  /\ Scan(p, "idle", 0)
  /\ UNCHANGED <<seen, removed, crashes>>

(* Neither removed nor neutralised: the file outlives the hold.            *)
LeakLock(p) ==
  /\ pc[p] \in {"neutralise", "zeroing"} /\ IOFaults
  /\ stolen' = stolen \ {p}
  /\ Scan(p, "idle", 0)
  /\ UNCHANGED <<lock, seen, removed, crashes>>

----------------------------------------------------------------------------
(* The process dies where it stands: no finally runs, its file stays.      *)
Crash(p) ==
  /\ pc[p] # "dead" /\ crashes < MaxCrashes
  /\ Scan(p, "dead", 0)
  /\ stolen' = stolen \ {p}
  /\ crashes' = crashes + 1
  /\ Forget(p)
  /\ removed' = [removed EXCEPT ![p] = FALSE]
  /\ UNCHANGED lock

(* A new process is given the pid of a dead one.                           *)
Respawn(p) ==
  /\ pc[p] = "dead" /\ PidReuse
  /\ Goto(p, "idle")
  /\ UNCHANGED <<lock, slot, seen, removed, stolen, crashes>>

(* Time passes over a lock file.                                           *)
Age(i) ==
  /\ lock[i].kind # "absent" /\ lock[i].age < AgeBound
  /\ Put(i, [lock[i] EXCEPT !.age = @ + 1])
  /\ UNCHANGED <<pc, slot, seen, removed, stolen, crashes>>

----------------------------------------------------------------------------
Acquiring(p) ==
  Create(p) \/ Occupied(p) \/ WritePayload(p) \/ WriteFails(p) \/ AllBusy(p)

Reaping(p) ==
  ReapExists(p) \/ ReapOpen(p) \/ ReapJudge(p) \/ ReapRemoves(p)
    \/ ReapRefused(p) \/ ReapDone(p) \/ Retry(p) \/ TimeOut(p)

Releasing(p) ==
  Finish(p) \/ Release(p) \/ ReleaseRefused(p) \/ Truncate(p) \/ Neutralise(p)
    \/ LeakLock(p)

Running(p) == Acquiring(p) \/ Reaping(p) \/ Releasing(p)

Next ==
  \/ \E p \in Procs : Enter(p) \/ Running(p) \/ Crash(p) \/ Respawn(p)
  \/ \E i \in SlotIds : Age(i)

Spec == Init /\ [][Next]_vars

----------------------------------------------------------------------------
(* The locations at which slot[p] names a file.                            *)
OnFile == {"write", "hold", "release", "neutralise", "zeroing", "open",
           "reading", "unlink"}

PlacedOK ==
  /\ pc \in [Procs -> Locations]
  /\ slot \in [Procs -> 0..MaxSlots]
  /\ \A p \in Procs : pc[p] \in OnFile => slot[p] \in SlotIds

TypeOK ==
  /\ lock \in [SlotIds -> LockFiles]
  /\ PlacedOK
  /\ seen \in [Procs -> LockFiles]
  /\ removed \in [Procs -> BOOLEAN]
  /\ stolen \subseteq Procs
  /\ crashes \in 0..MaxCrashes

(* Two processes hold one slot only after one of them lost its file to     *)
(* another process: exclusive creation never gives a lane twice.           *)
SlotExclusive ==
  \A p, q \in Holding : p # q /\ slot[p] = slot[q] => {p, q} \cap stolen # {}

(* slots.py's promise: no more than MaxSlots executor calls at a time.     *)
SlotBound == Cardinality(Holding) <= MaxSlots

(* What the code keeps of that promise, whatever the interleaving, crashes *)
(* and faults: the holders that have not lost their file are within it.    *)
BoundUnlessStolen == Cardinality(Holding \ stolen) <= MaxSlots

(* A file that was read as a live holder's, and that is not past the       *)
(* ceiling, is not what a removal takes from that holder: a holder loses   *)
(* its file to a reap whose verdict was on an earlier file of that name,   *)
(* to the ceiling, or to the release of a process robbed before it.  (A    *)
(* reused pid revives a dead holder's file, hence PidReuse.)               *)
ReadAlive(q, v) == seen[q].kind = "full" /\ seen[q].pid = v /\ seen[q].age < 2

TheftJustified ==
  [][\A v \in stolen' \ stolen : \E q \in Procs \ {v} :
       /\ slot[q] = slot[v]
       /\ \/ pc[q] = "unlink" /\ (PidReuse \/ ~ReadAlive(q, v))
          \/ pc[q] \in {"release", "neutralise", "zeroing"} /\ q \in stolen]_vars

(* Why these hold.  A holder that was not robbed owns the file of its slot *)
(* under its own pid; the file that a process is writing stays, and no     *)
(* other holder of that slot is in good standing; a verdict reached on a   *)
(* readable file below the ceiling is about a process that is dead; and a  *)
(* process stops being robbed when it leaves hold().                       *)
OwnFile ==
  \A p \in Procs : pc[p] \in Believing /\ p \notin stolen =>
    lock[slot[p]].kind # "absent" /\ lock[slot[p]].pid = p

WriterAlone ==
  \A p \in Procs : pc[p] \in {"write", "zeroing"} =>
    /\ lock[slot[p]].kind # "absent"
    /\ \A q \in Procs \ {p} :
         pc[q] \in Believing /\ slot[q] = slot[p] => q \in stolen

VerdictOnDead ==
  ~PidReuse => \A q, v \in Procs : pc[q] = "unlink" /\ ReadAlive(q, v) => pc[v] = "dead"

StolenHold == \A p \in stolen : pc[p] \in Believing \cup {"zeroing"}

LaneInv == TypeOK /\ OwnFile /\ WriterAlone /\ VerdictOnDead /\ StolenHold

----------------------------------------------------------------------------
(* The backoff is jittered and a reader's handle lives for microseconds,   *)
(* so two reapers do not meet a file that the other has open every time.   *)
AtStaleFile(p) == pc[p] = "unlink" /\ lock[slot[p]].kind # "absent"
Jitter ==
  \A p \in Procs : []<>AtStaleFile(p)
                     => []<>(AtStaleFile(p) /\ ~OpenByOther(p, slot[p]))

(* Every process runs, and time passes over every file.  Nobody has to     *)
(* enter, to crash or to be revived; a caller may wait without a timeout.  *)
Fairness ==
  /\ \A p \in Procs : WF_vars(Running(p)) /\ SF_vars(ReapRemoves(p))
  /\ \A i \in SlotIds : WF_vars(Age(i))
  /\ Jitter

FairSpec == Spec /\ Fairness

(* Every caller has a deadline, and a deadline passes.                     *)
TimedSpec == FairSpec /\ \A p \in Procs : SF_vars(TimeOut(p))

Abandoned(i) ==
  /\ lock[i].kind # "absent"
  /\ \A p \in Procs :
       ~(slot[p] = i /\ pc[p] \in Believing \cup {"zeroing"})

(* Fail-open: a file nobody will remove (its holder died, leaked or        *)
(* neutralised it) does not block the bucket while somebody waits.         *)
FailOpen ==
  \A i \in SlotIds :
    Abandoned(i) ~> (~Abandoned(i) \/ \A p \in Procs : ~Waiting(p))

(* hold() ends every wait, with a slot or with SlotTimeout, except that a  *)
(* reap that removed something goes round again without a look at the      *)
(* deadline.                                                               *)
WaitEnds == \A p \in Procs : Waiting(p) ~> (~Waiting(p) \/ removed[p])

----------------------------------------------------------------------------
(* The files implement a semaphore whose holders may be robbed.            *)
Holders == {p \in Procs : pc[p] \in Believing}

Bucket == INSTANCE LaneBucket
            WITH holders <- Holders, robbed <- stolen \cap Holders

ImplementsBucket == Bucket!BucketSpec

=============================================================================
