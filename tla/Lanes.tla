-------------------------------- MODULE Lanes --------------------------------
(***************************************************************************)
(* The lanes of one repository, ops/fleet_kit/fleet_lanes.py: `run_lane`   *)
(* takes the lowest free lane under the acquire mutex, brings the lane's   *)
(* worktree to the base, and runs its block in it.                         *)
(*                                                                         *)
(* A run is one process, the claimer; its block starts a worker, a process *)
(* of its own, and points the lane at it.  Either may be killed alone.     *)
(* What the worker does in the worktree - edit, commit - is git's.  A      *)
(* commit is named for the run whose worker made it.                       *)
(***************************************************************************)
EXTENDS Integers, FiniteSets

CONSTANTS
  LaneRuns,    \* the claimers
  NameOf,      \* the name of each one's lane
  MaxCap,      \* the greatest lane_cap_max that is configured
  MaxTroubles  \* bound: how often something is killed, fails or changes

NoRun == "no run"

ASSUME LanesAssumption ==
  /\ IsFiniteSet(LaneRuns) /\ NoRun \notin LaneRuns /\ LaneRuns = DOMAIN NameOf
  /\ MaxCap \in Nat \ {0} /\ MaxTroubles \in Nat

Indices == 1 .. MaxCap

VARIABLES
  cap,      \* the configured lane cap
  mutex,    \* .acquire: whose record it holds, and whether it is whole
  lanes,    \* lanes[i]: <i>.lock: whose, whether whole, and points at a worker
  runs,     \* runs[r]: where the claimer is, its lane, its worker, what it read
  tree,     \* tree[i]: the worktree: whether it is there, commits, loose edits
  base,     \* the commits that the base has
  saved,    \* the commits under refs/fleet-lanes/
  made,     \* history: every commit that a worker made
  slip,     \* history: what took a lane or the mutex from a live process
  troubles  \* history: how often something went wrong

laneVars == <<cap, mutex, lanes, runs, tree, base, saved, made, slip, troubles>>

Places == {"off", "mutex", "break", "enter", "scan", "take", "write", "leave", "tree", "save",
           "move", "block", "point", "wait", "release", "ended", "dead"}
LockFiles == [by : LaneRuns \cup {NoRun}, whole : BOOLEAN, pointed : BOOLEAN]
FreeLock == [by |-> NoRun, whole |-> FALSE, pointed |-> FALSE]
RunRecords == [at : Places, index : {0} \cup Indices, eff : 0 .. MaxCap, worker : BOOLEAN,
               todo : SUBSET (Indices \X LockFiles), sha : SUBSET LaneRuns,
               broken : LaneRuns \cup {NoRun}]
Worktrees == [there : BOOLEAN, head : SUBSET LaneRuns, loose : SUBSET LaneRuns]
NoTree == [there |-> FALSE, head |-> {}, loose |-> {}]
Idle == [at |-> "off", index |-> 0, eff |-> 0, worker |-> FALSE, todo |-> {}, sha |-> {},
         broken |-> NoRun]

LanesInit ==
  /\ cap = MaxCap /\ mutex = [by |-> NoRun, whole |-> FALSE]
  /\ lanes = [i \in Indices |-> FreeLock] /\ runs = [r \in LaneRuns |-> Idle]
  /\ tree = [i \in Indices |-> NoTree] /\ base = {} /\ saved = {} /\ made = {}
  /\ slip = {} /\ troubles = 0

----------------------------------------------------------------------------
In(r, place) == runs[r].at = place
Move(r, place) == runs' = [runs EXCEPT ![r].at = place]
Alive(r) == runs[r].at \notin {"off", "ended", "dead"}
Trouble == troubles < MaxTroubles /\ troubles' = troubles + 1
MayRefuse(refuses) == IF refuses THEN Trouble ELSE UNCHANGED troubles

(* The run works in its lane, or what it started does.                     *)
Working(r) == runs[r].index # 0 /\ (Alive(r) \/ runs[r].worker)

(* Mutant of Held: a lane is held while its claimer lives.                 *)
Held_Claimer(rec) == rec.by # NoRun /\ Alive(rec.by)

(* _lane_row: the pid or the holder_pid of the record is alive.            *)
Held(rec) == rec.by # NoRun /\ (Alive(rec.by) \/ (rec.pointed /\ runs[rec.by].worker))

(* try_acquire_lane reads the cap; then memory, CPU or the day's spending  *)
(* may refuse.                                                             *)
Ask(r) ==
  /\ In(r, "off")
  /\ \E place \in {"mutex", "ended"} :
       runs' = [runs EXCEPT ![r] = [@ EXCEPT !.at = place, !.eff = cap]]
  /\ UNCHANGED <<cap, mutex, lanes, tree, base, saved, made, slip, troubles>>

(* _acquire_mutex: created, then written; or still busy after five seconds.*)
Enter(r) ==
  /\ In(r, "mutex") /\ mutex.by = NoRun
  /\ mutex' = [by |-> r, whole |-> FALSE] /\ Move(r, "enter")
  /\ UNCHANGED <<cap, lanes, tree, base, saved, made, slip, troubles>>

Busy(r) ==
  /\ In(r, "mutex") /\ mutex.by # NoRun /\ Move(r, "ended")
  /\ UNCHANGED <<cap, mutex, lanes, tree, base, saved, made, slip, troubles>>

Entered(r) ==
  /\ In(r, "enter")
  /\ mutex' = IF mutex.by = r THEN [mutex EXCEPT !.whole = TRUE] ELSE mutex
  /\ Move(r, "scan")
  /\ UNCHANGED <<cap, lanes, tree, base, saved, made, slip, troubles>>

(* A mutex whose writer is dead, or that stays half written past the grace *)
(* although it lives, is compared and then unlinked by its name.           *)
Judge(r) ==
  /\ In(r, "mutex") /\ mutex.by # NoRun
  /\ \/ ~Alive(mutex.by) /\ UNCHANGED troubles
     \/ Alive(mutex.by) /\ ~mutex.whole /\ Trouble
  /\ runs' = [runs EXCEPT ![r] = [@ EXCEPT !.at = "break", !.broken = mutex.by]]
  /\ UNCHANGED <<cap, mutex, lanes, tree, base, saved, made, slip>>

Break(r) ==
  /\ In(r, "break")
  /\ mutex' = [by |-> NoRun, whole |-> FALSE]
  /\ slip' = slip \cup (IF mutex.by = NoRun THEN {} ELSE IF mutex.by # runs[r].broken THEN {"raced"}
                        ELSE IF Alive(mutex.by) THEN {"hung"} ELSE {})
  /\ runs' = [runs EXCEPT ![r] = [@ EXCEPT !.at = "mutex", !.broken = NoRun]]
  /\ UNCHANGED <<cap, lanes, tree, base, saved, made, troubles>>

(* The rows of _indices, every lock there is: a name that runs already, or *)
(* as many lanes as the cap, is a refusal.  A half-written lock counts     *)
(* without a name until its grace has passed.                              *)
Scan(r) ==
  /\ In(r, "scan")
  /\ \E young \in BOOLEAN :
       LET half == {i \in Indices : lanes[i].by # NoRun /\ ~lanes[i].whole}
           running == {i \in Indices \ half : Held(lanes[i])} \cup (IF young THEN half ELSE {})
           named == {i \in running \ half : NameOf[lanes[i].by] = NameOf[r]}
       IN  runs' = [runs EXCEPT ![r] =
             IF named # {} \/ Cardinality(running) >= @.eff THEN [@ EXCEPT !.at = "leave"]
             ELSE [@ EXCEPT !.at = "take",
                     !.todo = {<<i, lanes[i]>> : i \in {j \in Indices \ running : j <= runs[r].eff}}]]
  /\ UNCHANGED <<cap, mutex, lanes, tree, base, saved, made, slip, troubles>>

(* The lowest of them: a stale lock is unlinked while it holds what was    *)
(* judged, and the lock is created where there is none.                    *)
Take(r) ==
  /\ In(r, "take")
  /\ \/ runs[r].todo = {} /\ Move(r, "leave") /\ UNCHANGED lanes
     \/ \E row \in runs[r].todo :
          /\ \A other \in runs[r].todo : row[1] <= other[1]
          /\ \/ /\ lanes[row[1]] \notin {FreeLock, row[2]}
                /\ runs' = [runs EXCEPT ![r].todo = @ \ {row}] /\ UNCHANGED lanes
             \/ /\ lanes[row[1]] \in {FreeLock, row[2]}
                /\ lanes' = [lanes EXCEPT ![row[1]] = [FreeLock EXCEPT !.by = r]]
                /\ runs' = [runs EXCEPT ![r] =
                              [@ EXCEPT !.at = "write", !.index = row[1], !.todo = {}]]
  /\ UNCHANGED <<cap, mutex, tree, base, saved, made, slip, troubles>>

Write(r) ==
  /\ In(r, "write")
  /\ lanes' = [i \in Indices |->
                IF lanes[i].by = r THEN [lanes[i] EXCEPT !.whole = TRUE] ELSE lanes[i]]
  /\ Move(r, "leave")
  /\ UNCHANGED <<cap, mutex, tree, base, saved, made, slip, troubles>>

(* _release of the mutex, if it is still ours.                             *)
Exit(r) ==
  /\ In(r, "leave")
  /\ mutex' = IF mutex.by = r THEN [by |-> NoRun, whole |-> FALSE] ELSE mutex
  /\ Move(r, IF runs[r].index = 0 THEN "ended" ELSE "tree")
  /\ UNCHANGED <<cap, lanes, tree, base, saved, made, slip, troubles>>

----------------------------------------------------------------------------
(* ensure_worktree: a missing one is added at the base, a dirty one is     *)
(* refused, as is any whose git fails.                                     *)
Resolve(r) ==
  /\ In(r, "tree")
  /\ LET i == runs[r].index
     IN  \/ /\ ~tree[i].there
            /\ tree' = [tree EXCEPT ![i] = [there |-> TRUE, head |-> base, loose |-> {}]]
            /\ Move(r, "block") /\ UNCHANGED troubles
         \/ /\ tree[i].there /\ tree[i].loose = {}
            /\ runs' = [runs EXCEPT ![r] = [@ EXCEPT !.at = "save", !.sha = base]]
            /\ UNCHANGED <<tree, troubles>>
         \/ Move(r, "release") /\ MayRefuse(tree[i].loose = {}) /\ UNCHANGED tree
  /\ UNCHANGED <<cap, mutex, lanes, base, saved, made, slip>>

(* Mutant of Unmerged: nothing is looked for.                              *)
Unmerged_None(r) == {}

(* What the worktree has and the base, as it was resolved, has not.        *)
Unmerged(r) == tree[runs[r].index].head \ runs[r].sha

(* update-ref: they are saved first.                                       *)
Save(r) ==
  /\ In(r, "save")
  /\ \/ saved' = saved \cup Unmerged(r) /\ Move(r, "move") /\ UNCHANGED troubles
     \/ Move(r, "release") /\ Unmerged(r) # {} /\ Trouble /\ UNCHANGED saved
  /\ UNCHANGED <<cap, mutex, lanes, tree, base, made, slip>>

(* checkout --detach: loose edits stay, or stop it.                        *)
Checkout(r) ==
  /\ In(r, "move")
  /\ \/ /\ tree' = [tree EXCEPT ![runs[r].index].head = runs[r].sha]
        /\ Move(r, "block") /\ UNCHANGED troubles
     \/ Move(r, "release") /\ MayRefuse(tree[runs[r].index].loose = {}) /\ UNCHANGED tree
  /\ UNCHANGED <<cap, mutex, lanes, base, saved, made, slip>>

----------------------------------------------------------------------------
(* The block: it starts a worker,                                          *)
Begin(r) ==
  /\ In(r, "block")
  /\ runs' = [runs EXCEPT ![r] = [@ EXCEPT !.at = "point", !.worker = TRUE]]
  /\ UNCHANGED <<cap, mutex, lanes, tree, base, saved, made, slip, troubles>>

(* repoint_lane_pid points the lock at it, if the lock is still ours and   *)
(* can be written, and keeps the claimer;                                  *)
Point(r) ==
  /\ In(r, "point")
  /\ LET i == runs[r].index
     IN  \/ /\ lanes' = IF lanes[i].by = r THEN [lanes EXCEPT ![i].pointed = TRUE] ELSE lanes
            /\ UNCHANGED troubles
         \/ Trouble /\ UNCHANGED lanes
  /\ Move(r, "wait")
  /\ UNCHANGED <<cap, mutex, tree, base, saved, made, slip>>

(* and merges what its worker has committed, or not.                       *)
Finish(r) ==
  /\ In(r, "wait") /\ ~runs[r].worker
  /\ base' \in {base, base \cup tree[runs[r].index].head}
  /\ Move(r, "release")
  /\ UNCHANGED <<cap, mutex, lanes, tree, saved, made, slip, troubles>>

(* The worker edits, commits and ends, at any time.                        *)
Edit(r) ==
  /\ runs[r].worker /\ r \notin made /\ r \notin tree[runs[r].index].loose
  /\ tree' = [tree EXCEPT ![runs[r].index].loose = @ \cup {r}]
  /\ UNCHANGED <<cap, mutex, lanes, runs, base, saved, made, slip, troubles>>

Commit(r) ==
  /\ runs[r].worker /\ r \in tree[runs[r].index].loose
  /\ LET work == tree[runs[r].index]
     IN  tree' = [tree EXCEPT ![runs[r].index] =
                    [work EXCEPT !.head = @ \cup {r}, !.loose = @ \ {r}]]
  /\ made' = made \cup {r}
  /\ UNCHANGED <<cap, mutex, lanes, runs, base, saved, slip, troubles>>

End(r) ==
  /\ runs[r].worker /\ runs' = [runs EXCEPT ![r].worker = FALSE]
  /\ UNCHANGED <<cap, mutex, lanes, tree, base, saved, made, slip, troubles>>

(* release_lane: unlinked if it is still ours, or left for the next scan.  *)
Free(r) ==
  /\ In(r, "release")
  /\ LET i == runs[r].index
     IN  \/ /\ lanes' = IF lanes[i].by = r THEN [lanes EXCEPT ![i] = FreeLock] ELSE lanes
            /\ UNCHANGED troubles
         \/ Trouble /\ UNCHANGED lanes
  /\ Move(r, "ended")
  /\ UNCHANGED <<cap, mutex, tree, base, saved, made, slip>>

----------------------------------------------------------------------------
Pointed(r) == \E i \in Indices : lanes[i].by = r /\ lanes[i].pointed

(* The claimer is killed; what it started goes on.                         *)
Kill(r) ==
  /\ Alive(r) /\ Trouble /\ Move(r, "dead")
  /\ slip' = IF runs[r].worker /\ ~Pointed(r) THEN slip \cup {"orphan"} ELSE slip
  /\ UNCHANGED <<cap, mutex, lanes, tree, base, saved, made>>

(* The operator clears a worktree by hand: the edits are given up.         *)
Clear(i) ==
  /\ tree[i].loose # {} /\ \A r \in LaneRuns : Working(r) => runs[r].index # i
  /\ tree' = [tree EXCEPT ![i].loose = {}]
  /\ UNCHANGED <<cap, mutex, lanes, runs, base, saved, made, slip, troubles>>

(* lanes.json is written anew.                                             *)
Configure ==
  /\ Trouble /\ cap' \in (1 .. MaxCap) \ {cap}
  /\ UNCHANGED <<mutex, lanes, runs, tree, base, saved, made, slip>>

LaneStep(r) ==
  \/ Ask(r) \/ Enter(r) \/ Busy(r) \/ Entered(r) \/ Judge(r) \/ Break(r) \/ Scan(r) \/ Take(r)
  \/ Write(r) \/ Exit(r) \/ Resolve(r) \/ Save(r) \/ Checkout(r) \/ Begin(r) \/ Point(r)
  \/ Finish(r) \/ Free(r)

LanesNext ==
  \/ \E r \in LaneRuns : LaneStep(r) \/ Edit(r) \/ Commit(r) \/ End(r) \/ Kill(r)
  \/ \E i \in Indices : Clear(i)
  \/ Configure

LanesSpec == LanesInit /\ [][LanesNext]_laneVars

----------------------------------------------------------------------------
LanesTypeOK ==
  /\ cap \in 1 .. MaxCap /\ mutex \in [by : LaneRuns \cup {NoRun}, whole : BOOLEAN]
  /\ lanes \in [Indices -> LockFiles]
  /\ runs \in [LaneRuns -> RunRecords]
  /\ tree \in [Indices -> Worktrees]
  /\ base \in SUBSET LaneRuns /\ saved \in SUBSET LaneRuns /\ made \in SUBSET LaneRuns
  /\ slip \in SUBSET {"raced", "hung", "orphan"} /\ troubles \in 0 .. MaxTroubles

(* Nothing points at the worker of a dead claimer.                         *)
Orphan(r) == runs[r].worker /\ ~Alive(r) /\ ~Pointed(r)

(* A run that is given a lane works alone in its worktree and under its    *)
(* name, and the lanes that work are fewer than the cap it read: whatever  *)
(* is killed and however the cap moves, but for a worker that nothing      *)
(* points at, its claimer killed too early, and unless the mutex was taken *)
(* from a live process.                                                    *)
GrantedAlone ==
  [][\A r \in LaneRuns : runs[r].index = 0 /\ runs'[r].index # 0 /\ slip' \subseteq {"orphan"} =>
       LET others == {q \in LaneRuns \ {r} : Working(q) /\ ~Orphan(q)}
       IN  /\ \A q \in others : runs[q].index # runs'[r].index /\ NameOf[q] # NameOf[r]
           /\ Cardinality(others) < runs[r].eff]_laneVars

(* Work is kept: every commit that a worker made can be reached from the   *)
(* base, from a worktree or from a saved ref; and a run starts in a tree   *)
(* without another's edits; unless a worker was orphaned or the mutex was  *)
(* taken from a live process.                                              *)
WorkKept ==
  slip = {} =>
    /\ made \subseteq base \cup saved \cup UNION {tree[i].head : i \in Indices}
    /\ \A r \in LaneRuns : In(r, "block") => tree[runs[r].index].loose = {}
=============================================================================
