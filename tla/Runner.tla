------------------------------- MODULE Runner -------------------------------
(***************************************************************************)
(* The headless runner of headless/runner.py and its abandonment record    *)
(* (headless/quarantine.py): processes of one installation, each a daemon  *)
(* that runs a pass per interval or a --once invocation.  A live pass runs *)
(* its jobs in order while its process holds a lane of the governor.  Each *)
(* job runs on a worker thread that the pass waits for at most a deadline; *)
(* a worker that ignores its cancellation is abandoned, and the process    *)
(* then ends with its lane still held.  A job abandoned twice in a row is  *)
(* quarantined by a record on disk, which survives the process.            *)
(*                                                                         *)
(* The lanes are those of slots.hold(): a lane is held by a process or     *)
(* orphaned by one that ended without giving it back, until some hold()    *)
(* reaps it; and a waiter may rob a live holder, which goes on as if it    *)
(* had its lane.  Deadlines are steps that may be taken at any moment      *)
(* before the awaited event.                                               *)
(***************************************************************************)
EXTENDS Integers, Sequences, FiniteSets

CONSTANTS
  Procs,       \* the runner processes
  Daemons,     \* those started with --daemon; the others are --once
  Dry,         \* those started with --dry-run
  Asked,       \* Asked[p]: the jobs named with --job; {} is a full pass
  Jobs,        \* the registered jobs
  JobOrder,    \* the registry in dependency order
  Hanging,     \* the jobs whose worker never ends once it has started
  Stubborn,    \* the jobs whose worker may outlive its cancellation
  Width,       \* governor width
  Interrupts,  \* whether Ctrl-C reaches a --once process
  FileFaults,  \* whether files of the runtime directory may fail to open
  MaxKills,    \* bound: how many processes are killed from outside
  MaxThefts,   \* bound: how often a waiter robs a live holder
  LateBound    \* bound: how far late counts

ASSUME RunnerAssumption ==
  /\ IsFiniteSet(Procs) /\ Daemons \subseteq Procs /\ Dry \subseteq Procs
  /\ Asked \in [Procs -> SUBSET Jobs]
  /\ JobOrder \in Seq(Jobs)
  /\ Hanging \subseteq Stubborn /\ Stubborn \subseteq Jobs
  /\ Width \in Nat \ {0}
  /\ Interrupts \in BOOLEAN /\ FileFaults \in BOOLEAN
  /\ MaxKills \in Nat /\ MaxThefts \in Nat /\ LateBound \in Nat

VARIABLES
  pc,         \* pc[p]: where process p is
  idx,        \* idx[p]: the job of the pass that p is at
  worker,     \* worker[p]: the jobs whose worker thread is alive in p
  abandoned,  \* abandoned[p]: the overrun jobs that p has recorded
  overran,    \* overran[p]: a job of this pass overran its deadline
  stop,       \* stop[p]: a shutdown was requested of p
  record,     \* record[p]: the abandonment record as p loaded it
  disk,       \* the abandonment record on disk
  holders,    \* the processes inside hold()
  robbed,     \* those of them whose lane was given back without them
  orphans,    \* how many lanes are held in the name of a process that is gone
  halt,       \* whether the operator's HALT file exists
  alive,      \* what the health file says of the runner
  kills,      \* how many processes were killed
  thefts,     \* how often a waiter robbed a live holder
  late,       \* history: passes that p began since HALT was created
  cut,        \* history: the processes that Ctrl-C interrupted
  torn        \* history: whether a read or a save of the record failed

vars == <<pc, idx, worker, abandoned, overran, stop, record, disk, holders,
          robbed, orphans, halt, alive, kills, thefts, late, cut, torn>>

pass == <<idx, worker, abandoned, overran>>   \* the state of a pass
lanes == <<holders, robbed, orphans, thefts>>   \* as the governor sees them
notes == <<record, torn>>
flags == <<stop, cut>>
shared == <<disk, lanes, halt, alive, kills, late>>   \* outside the process

----------------------------------------------------------------------------
(* An entry of the abandonment record: how many passes in a row abandoned  *)
(* the job.  QuarantineAfter of them quarantine it, until a PASS.          *)
QuarantineAfter == 2
Entries == 0 .. QuarantineAfter
Quarantined(e) == e = QuarantineAfter

Statuses == {"PASS", "FAIL", "SKIP"}

(* Mutants of Fold: a failure lifts a quarantine; hangs do not add up.     *)
Fold_FailLifts(e, status, hung) ==
  IF ~hung THEN 0 ELSE IF Quarantined(e) THEN e ELSE e + 1
Fold_Forgets(e, status, hung) ==
  IF hung THEN 1 ELSE IF status = "PASS" \/ ~Quarantined(e) THEN 0 ELSE e

(* apply_result.                                                           *)
Fold(e, status, hung) ==
  IF hung
    THEN IF Quarantined(e) THEN e ELSE e + 1
    ELSE IF status = "PASS" \/ ~Quarantined(e) THEN 0 ELSE e

NoEntries == [j \in Jobs |-> 0]

(* A process that is not running is "off".  A pass lasts from "job" to     *)
(* "leave", the finally of hold(), where the lane is given back.           *)
Locations == {"off", "gate", "lane", "job", "run", "grace", "summary",
              "check", "dying", "leave", "rest", "exit"}
InPass == {"job", "run", "grace", "summary", "check", "dying"}

Live(p) == p \notin Dry
Selected(p, j) == Asked[p] = {} \/ j \in Asked[p]
Current(p) == JobOrder[idx[p]]
Goto(p, l) == pc' = [pc EXCEPT ![p] = l]

(* The overrun jobs of p that still run; the list is pruned as it is read. *)
StillRunning(p) == abandoned[p] \cap worker[p]

(* A cycle is over: a daemon rests, a --once process exits.                *)
Conclude(p) == Goto(p, IF p \in Daemons THEN "rest" ELSE "exit")

(* The health file is written, or the write fails and is swallowed.        *)
Report(v) == alive' = v \/ (FileFaults /\ alive' = alive)

Init ==
  /\ pc = [p \in Procs |-> "off"]
  /\ idx = [p \in Procs |-> 1]
  /\ worker = [p \in Procs |-> {}]
  /\ abandoned = [p \in Procs |-> {}]
  /\ overran = [p \in Procs |-> FALSE]
  /\ stop = [p \in Procs |-> FALSE]
  /\ record = [p \in Procs |-> NoEntries]
  /\ disk = NoEntries
  /\ holders = {} /\ robbed = {}
  /\ orphans = 0
  /\ halt = FALSE
  /\ alive = FALSE
  /\ kills = 0 /\ thefts = 0
  /\ late = [p \in Procs |-> 0]
  /\ cut = {} /\ torn = FALSE

----------------------------------------------------------------------------
(* The process is started: by its supervisor, a scheduler or the operator. *)
(* A daemon is at the head of its loop.                                    *)
Start(p) ==
  /\ pc[p] = "off"
  /\ Goto(p, IF p \in Daemons THEN "rest" ELSE "gate")
  /\ stop' = [stop EXCEPT ![p] = FALSE] /\ cut' = cut \ {p}
  /\ UNCHANGED <<pass, notes, shared>>

(* Mutant of StartPass: the copy of the record is kept from pass to pass.  *)
StartPass_KeepsCopy(p) ==
  /\ Goto(p, "job")
  /\ idx' = [idx EXCEPT ![p] = 1]
  /\ overran' = [overran EXCEPT ![p] = FALSE]
  /\ UNCHANGED notes

(* run_pass starts: it loads the record, which reads as empty when the     *)
(* file cannot be read.                                                    *)
StartPass(p) ==
  /\ Goto(p, "job")
  /\ idx' = [idx EXCEPT ![p] = 1]
  /\ overran' = [overran EXCEPT ![p] = FALSE]
  /\ \/ record' = [record EXCEPT ![p] = disk] /\ UNCHANGED torn
     \/ FileFaults /\ record' = [record EXCEPT ![p] = NoEntries] /\ torn' = TRUE

(* A dry run takes no lane and reads no sentinel.                          *)
BeginDry(p) ==
  /\ pc[p] = "gate" /\ ~Live(p)
  /\ StartPass(p)
  /\ UNCHANGED <<worker, abandoned, flags, shared>>

(* The operator's sentinel is there, or its presence cannot be determined: *)
(* the cycle does not run, and a daemon stops.                             *)
Halted(p) ==
  /\ pc[p] = "gate" /\ Live(p) /\ (halt \/ FileFaults)
  /\ Goto(p, "exit")
  /\ UNCHANGED <<pass, flags, notes, shared>>

(* Another tree waits for its fair share, or an overrun job of an earlier  *)
(* pass still runs: the cycle fails.                                       *)
Starved(p) ==
  /\ pc[p] = "gate" /\ Live(p) /\ ~halt
  /\ Conclude(p)
  /\ abandoned' = [abandoned EXCEPT ![p] = StillRunning(p)]
  /\ UNCHANGED <<idx, worker, overran, flags, notes, shared>>

(* hold() is entered.                                                      *)
Ask(p) ==
  /\ pc[p] = "gate" /\ Live(p) /\ ~halt /\ StillRunning(p) = {}
  /\ Goto(p, "lane")
  /\ abandoned' = [abandoned EXCEPT ![p] = {}]
  /\ UNCHANGED <<idx, worker, overran, flags, notes, shared>>

(* SlotTimeout: the pass does not run, and the cycle fails.                *)
NoLane(p) ==
  /\ pc[p] = "lane"
  /\ Conclude(p)
  /\ UNCHANGED <<pass, flags, notes, shared>>

(* The lanes that are taken.                                               *)
InGoodStanding == holders \ robbed
Taken == Cardinality(InGoodStanding) + orphans

(* A lane is granted, and the pass starts.                                 *)
Begin(p) ==
  /\ pc[p] = "lane"
  /\ Taken < Width
  /\ holders' = holders \cup {p}
  /\ StartPass(p)
  /\ late' = [late EXCEPT ![p] = IF halt /\ @ < LateBound THEN @ + 1 ELSE @]
  /\ UNCHANGED <<worker, abandoned, flags, disk, robbed, orphans, thefts, halt,
                 alive, kills>>

(* reap() in the hold() of p unlinks the file of a live holder: its        *)
(* verdict was on an earlier file of that name, or the lock is past the    *)
(* ceiling (module Slots).  The holder does not look at its file again.    *)
Rob(p) ==
  /\ pc[p] = "lane" /\ thefts < MaxThefts
  /\ \E victim \in InGoodStanding : robbed' = robbed \cup {victim}
  /\ thefts' = thefts + 1
  /\ UNCHANGED <<pc, pass, flags, notes, disk, holders, orphans, halt, alive,
                 kills, late>>

----------------------------------------------------------------------------
NextJob(p) == idx' = [idx EXCEPT ![p] = @ + 1]

(* Mutant of Skipped: the pass goes on after an overrun.                   *)
Skipped_GoesOn(p, j) ==
  \/ ~Selected(p, j)
  \/ Quarantined(record[p][j]) /\ j \notin Asked[p]

(* The job is not part of this pass, is not started after an overrun, or   *)
(* is quarantined and not asked for by name.                               *)
Skipped(p, j) ==
  \/ ~Selected(p, j)
  \/ overran[p]
  \/ Quarantined(record[p][j]) /\ j \notin Asked[p]

SkipJob(p) ==
  /\ pc[p] = "job" /\ idx[p] <= Len(JobOrder)
  /\ Skipped(p, Current(p))
  /\ NextJob(p)
  /\ UNCHANGED <<pc, worker, abandoned, overran, flags, notes, shared>>

(* The pass is past its deadline: none of the jobs left is started.        *)
SkipRest(p) ==
  /\ pc[p] = "job" /\ 1 < idx[p] /\ idx[p] <= Len(JobOrder)
  /\ idx' = [idx EXCEPT ![p] = Len(JobOrder) + 1]
  /\ UNCHANGED <<pc, worker, abandoned, overran, flags, notes, shared>>

StartJob(p) ==
  /\ pc[p] = "job" /\ idx[p] <= Len(JobOrder)
  /\ ~Skipped(p, Current(p))
  /\ worker' = [worker EXCEPT ![p] = @ \cup {Current(p)}]
  /\ Goto(p, "run")
  /\ UNCHANGED <<idx, abandoned, overran, flags, notes, shared>>

(* A worker thread ends: run_job has absorbed what the job raised.         *)
WorkerEnds(p, j) ==
  /\ j \in worker[p] /\ j \notin Hanging
  /\ worker' = [worker EXCEPT ![p] = @ \ {j}]
  /\ UNCHANGED <<pc, idx, abandoned, overran, flags, notes, shared>>

(* The result is folded into the loaded record, and the whole record is    *)
(* saved if that changed it.  A dry run does neither.                      *)
Note(p, j, status, hung) ==
  LET e == Fold(record[p][j], status, hung)
  IN  IF Live(p) /\ (hung \/ e # record[p][j])
        THEN /\ record' = [record EXCEPT ![p] = [@ EXCEPT ![j] = e]]
             /\ \/ disk' = [record[p] EXCEPT ![j] = e] /\ UNCHANGED torn
                \/ FileFaults /\ disk' = disk /\ torn' = TRUE
        ELSE UNCHANGED <<notes, disk>>

(* The worker ended within the deadline: its result is the job's.          *)
JobDone(p, status) ==
  /\ pc[p] = "run" /\ Current(p) \notin worker[p]
  /\ Note(p, Current(p), status, FALSE)
  /\ Goto(p, "job") /\ NextJob(p)
  /\ UNCHANGED <<worker, abandoned, overran, flags, lanes, halt, alive,
                 kills, late>>

(* The deadline passes first: the job is told to stop.                     *)
Overrun(p) ==
  /\ pc[p] = "run" /\ Current(p) \in worker[p]
  /\ Goto(p, "grace")
  /\ UNCHANGED <<pass, flags, notes, shared>>

(* The grace is over, or the job stopped within it: FAIL in both cases. If *)
(* its worker is still alive the job is abandoned.                         *)
GraceOver(p) ==
  LET j    == Current(p)
      hung == j \in worker[p]
  IN /\ pc[p] = "grace"
     /\ hung => j \in Stubborn
     /\ abandoned' = [abandoned EXCEPT ![p] = IF hung THEN @ \cup {j} ELSE @]
     /\ overran' = [overran EXCEPT ![p] = TRUE]
     /\ Note(p, j, "FAIL", hung)
     /\ Goto(p, "job") /\ NextJob(p)
     /\ UNCHANGED <<worker, flags, lanes, halt, alive, kills, late>>

(* Every job has its result.                                               *)
PassOver(p) ==
  /\ pc[p] = "job" /\ idx[p] = Len(JobOrder) + 1
  /\ Goto(p, "summary")
  /\ UNCHANGED <<pass, flags, notes, shared>>

(* A dry run writes no summary and does not look for abandoned jobs.       *)
EndDry(p) ==
  /\ pc[p] = "summary" /\ ~Live(p)
  /\ Conclude(p)
  /\ UNCHANGED <<pass, flags, notes, shared>>

WriteSummary(p) ==
  /\ pc[p] = "summary" /\ Live(p)
  /\ Report(TRUE)
  /\ Goto(p, "check")
  /\ UNCHANGED <<pass, flags, notes, disk, lanes, halt, kills, late>>

(* Mutant of FoundAbandoned: SystemExit unwinds through hold().            *)
FoundAbandoned_Unwinds(p) ==
  /\ pc[p] = "check" /\ StillRunning(p) # {}
  /\ Goto(p, "leave")
  /\ UNCHANGED <<pass, flags, notes, shared>>

(* A job of this process still runs: the process is to die in its lane.    *)
FoundAbandoned(p) ==
  /\ pc[p] = "check" /\ StillRunning(p) # {}
  /\ Goto(p, "dying")
  /\ UNCHANGED <<pass, flags, notes, shared>>

(* Nothing of this process runs any more: the lane may be given back.      *)
FoundNone(p) ==
  /\ pc[p] = "check" /\ StillRunning(p) = {}
  /\ abandoned' = [abandoned EXCEPT ![p] = {}]
  /\ Goto(p, "leave")
  /\ UNCHANGED <<idx, worker, overran, flags, notes, shared>>

(* The finally of hold() unlinks the file by its name: if p was robbed, it *)
(* is nobody's, another holder's or that of a process which is gone.       *)
Leave(p) ==
  /\ pc[p] = "leave"
  /\ holders' = holders \ {p}
  /\ \/ robbed' = robbed \ {p} /\ UNCHANGED orphans
     \/ /\ p \in robbed /\ UNCHANGED orphans
        /\ \E victim \in InGoodStanding : robbed' = (robbed \cup {victim}) \ {p}
     \/ /\ p \in robbed /\ orphans > 0 /\ orphans' = orphans - 1
        /\ robbed' = robbed \ {p}
  /\ Conclude(p)
  /\ UNCHANGED <<pass, flags, notes, disk, thefts, halt, alive, kills, late>>

----------------------------------------------------------------------------
(* The end of a process: its worker threads end with it, and a lane that   *)
(* is still its own stays taken.                                           *)
Vanish(p) ==
  /\ Goto(p, "off")
  /\ worker' = [worker EXCEPT ![p] = {}]
  /\ abandoned' = [abandoned EXCEPT ![p] = {}]
  /\ holders' = holders \ {p} /\ robbed' = robbed \ {p}
  /\ orphans' = IF p \in InGoodStanding THEN orphans + 1 ELSE orphans
  /\ UNCHANGED <<idx, overran, flags, notes, disk, thefts, halt, late>>

(* os._exit from _die_holding_slot: no finally runs.                       *)
DieHolding(p) ==
  /\ pc[p] = "dying"
  /\ Vanish(p)
  /\ Report(FALSE)
  /\ UNCHANGED kills

(* A signal handler asks a daemon to stop.                                 *)
Request(p) ==
  /\ p \in Daemons /\ pc[p] # "off" /\ ~stop[p]
  /\ stop' = [stop EXCEPT ![p] = TRUE]
  /\ UNCHANGED <<pc, pass, cut, notes, shared>>

(* Mutant of Tick: the flag is not looked at.                              *)
Tick_Deaf(p) ==
  /\ pc[p] = "rest"
  /\ Goto(p, "gate")
  /\ UNCHANGED <<pass, flags, notes, shared>>

(* The head of a daemon's loop: the interval, if a cycle precedes, is over *)
(* and the next cycle starts; or a stop was asked.                         *)
Tick(p) ==
  /\ pc[p] = "rest"
  /\ Goto(p, IF stop[p] THEN "exit" ELSE "gate")
  /\ UNCHANGED <<pass, flags, notes, shared>>

(* A live daemon says that it stopped; a --once process says nothing.      *)
Exit(p) ==
  /\ pc[p] = "exit"
  /\ Vanish(p)
  /\ IF p \in Daemons /\ Live(p) THEN Report(FALSE) ELSE UNCHANGED alive
  /\ UNCHANGED kills

(* KeyboardInterrupt in the main thread of a --once process, which has no  *)
(* handlers: inside hold() the finally gives the lane back.                *)
Interrupt(p) ==
  /\ Interrupts /\ p \notin Daemons
  /\ pc[p] \in {"gate", "lane"} \cup InPass
  /\ Goto(p, IF p \in holders THEN "leave" ELSE "exit")
  /\ cut' = cut \cup {p}
  /\ UNCHANGED <<pass, stop, notes, shared>>

(* The process is killed from outside: no finally runs.                    *)
Kill(p) ==
  /\ pc[p] # "off" /\ kills < MaxKills
  /\ Vanish(p)
  /\ kills' = kills + 1
  /\ UNCHANGED alive

(* Some hold() reaps the lock of a process that is gone.                   *)
Reclaim ==
  /\ orphans > 0
  /\ orphans' = orphans - 1
  /\ UNCHANGED <<pc, pass, flags, notes, disk, holders, robbed, thefts, halt,
                 alive, kills, late>>

(* The operator creates or removes the HALT file; the runner never does.   *)
SetHalt ==
  /\ halt' = ~halt
  /\ late' = [p \in Procs |-> 0]
  /\ UNCHANGED <<pc, pass, flags, notes, disk, lanes, alive, kills>>

----------------------------------------------------------------------------
Cycle(p) ==
  BeginDry(p) \/ Halted(p) \/ Starved(p) \/ Ask(p) \/ NoLane(p) \/ Begin(p)

Working(p) ==
  \/ SkipJob(p) \/ SkipRest(p) \/ StartJob(p) \/ Overrun(p) \/ GraceOver(p)
  \/ \E s \in Statuses : JobDone(p, s)

Ending(p) ==
  PassOver(p) \/ EndDry(p) \/ WriteSummary(p) \/ FoundAbandoned(p)
    \/ FoundNone(p) \/ Leave(p) \/ DieHolding(p) \/ Tick(p) \/ Exit(p)

Advance(p) == Cycle(p) \/ Working(p) \/ Ending(p)

Environment(p) ==
  \/ Start(p) \/ Request(p) \/ Interrupt(p) \/ Kill(p) \/ Rob(p)
  \/ \E j \in Jobs : WorkerEnds(p, j)

Next == (\E p \in Procs : Advance(p) \/ Environment(p)) \/ Reclaim \/ SetHalt

Spec == Init /\ [][Next]_vars

(* The program runs its code; a job that does not hang ends; a supervisor  *)
(* starts a daemon that ended again.                                       *)
Fairness ==
  /\ \A p \in Procs : WF_vars(Advance(p))
  /\ \A p \in Procs, j \in Jobs : WF_vars(WorkerEnds(p, j))
  /\ \A p \in Daemons : WF_vars(Start(p))

FairSpec == Spec /\ Fairness

----------------------------------------------------------------------------
TypeOK ==
  /\ pc \in [Procs -> Locations]
  /\ idx \in [Procs -> 1 .. Len(JobOrder) + 1]
  /\ worker \in [Procs -> SUBSET Jobs] /\ abandoned \in [Procs -> SUBSET Jobs]
  /\ overran \in [Procs -> BOOLEAN] /\ stop \in [Procs -> BOOLEAN]
  /\ record \in [Procs -> [Jobs -> Entries]] /\ disk \in [Jobs -> Entries]
  /\ holders \subseteq Procs /\ robbed \subseteq holders /\ orphans \in 0 .. Width
  /\ halt \in BOOLEAN /\ alive \in BOOLEAN
  /\ kills \in 0 .. MaxKills /\ thefts \in 0 .. MaxThefts
  /\ late \in [Procs -> 0 .. LateBound]
  /\ cut \subseteq Procs /\ torn \in BOOLEAN

(* No lane of a process is released while a job of it still runs: a live   *)
(* process that has a worker thread holds a lane, however its pass ends    *)
(* (run_daemon, _run_governed_pass, _die_holding_slot).                    *)
WorkAlwaysUnderLane ==
  \A p \in Procs : Live(p) /\ worker[p] # {} => p \in holders

(* What the code keeps of that: it is so until Ctrl-C strikes the process. *)
WorkUnderLane ==
  \A p \in Procs \ cut : Live(p) /\ worker[p] # {} => p \in holders

(* The jobs of a live process never overlap: nothing starts in a pass or   *)
(* in a later one while an abandoned worker may touch the shared context.  *)
(* And on the whole machine no more jobs run than there are lanes, but for *)
(* those of the processes which were robbed, or which Ctrl-C struck.       *)
AtWork ==
  {w \in (Procs \ (cut \cup robbed)) \X Jobs : Live(w[1]) /\ w[2] \in worker[w[1]]}

OneWorker ==
  /\ \A p \in Procs : Live(p) => \A j, k \in worker[p] : j = k
  /\ Cardinality(AtWork) <= Width

(* The lanes taken, by holders and by those that are gone, never exceed    *)
(* the width.                                                              *)
WithinWidth == Taken <= Width

(* The passes use the lanes as callers of slots.hold() may: what they hold *)
(* is a bucket of Width lanes, of the kind that Slots is shown to be; an   *)
(* end without a release leaves it as well.                                *)
Bucket == INSTANCE LaneBucket WITH MaxSlots <- Width

UsesABucket == Bucket!BucketSpec

(* While nobody was robbed and the record could be read and saved, a full  *)
(* live pass never starts a job that the record on disk quarantines at     *)
(* that moment, although it decides on the copy it loaded.                 *)
Intact == ~torn /\ thefts = 0

QuarantineHolds ==
  [][\A p \in Procs :
       Intact /\ StartJob(p) /\ Live(p) /\ Asked[p] = {}
         => ~Quarantined(disk[Current(p)])]_vars

(* A quarantine is lifted on disk only by a PASS of the quarantined job;   *)
(* the save of another job's result does not lift it, unless two passes    *)
(* ran because one was robbed, or the record could not be read or saved.   *)
QuarantineLifts ==
  [][\A j \in Jobs :
       Intact /\ Quarantined(disk[j]) /\ ~Quarantined(disk'[j])
         => \E p \in Procs : JobDone(p, "PASS") /\ Current(p) = j]_vars

(* Once the sentinel is there, a process begins at most the one pass whose *)
(* lane it was waiting for, across restarts.                               *)
HaltStops == \A p \in Procs : late[p] <= 1

(* A dry run writes nothing: no step of its process touches the record,    *)
(* the lanes or the health file, its start and its end included.           *)
DryWritesNothing ==
  [][\A p \in Dry : Advance(p) => UNCHANGED <<disk, lanes, alive>>]_vars

(* The health file answers "is it alive": what a daemon reports it takes   *)
(* back in each of its ends.  So if the file says so, a process runs that  *)
(* is not dry; unless one was killed, a write failed, or a --once process  *)
(* reported, which takes nothing back.                                     *)
AliveMeansRunning ==
  alive /\ kills = 0 /\ ~FileFaults =>
    \E p \in Procs : Live(p) /\ (pc[p] # "off" \/ p \notin Daemons)

(* A job that hangs on every run ends its process only so many times: the  *)
(* restarts of the supervisor do not rerun it for ever.                    *)
HangLoopEnds ==
  \A p \in Daemons : Asked[p] = {} => <>[](pc[p] # "dying")

(* A daemon that was asked to stop does.                                   *)
StopEnds == \A p \in Daemons : stop[p] ~> pc[p] = "off"
=============================================================================
