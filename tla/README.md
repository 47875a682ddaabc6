# A verification of Resin-Compute in TLA+

Resin-Compute plans the spending of a game account's *resin*. A background
process fetches the account's public profile, reconciles it with what the
operator wrote down, orders the account's objectives, plans them day by day and
writes a snapshot that a local dashboard shows. A watchdog keeps that process
alive, and every repository of the operator's machine shares a few execution
*lanes* with it. Around it stand the tools of the *fleet*: what lets several
agents, sessions and repositories of one machine work side by side without
taking each other's files, commits, slots and notes.

This directory holds models of the parts of that program that keep state, the
TLC configurations that check them, and proofs of what matters most for every
size of the parameters. Source lines are those of the repository; the file that
maps each definition to the lines it stands for is `PROJECT.json`.

To check: `tlc -config MCSlots_All.cfg MCSlots` (and so on for each row of
the table of runs), `tlapm SlotsProofs.tla` (and each other `...Proofs.tla`).

## 1. The system

### 1.1 Parts, their state and how they meet

| Part | Source | State it keeps | Operations | Meets |
|---|---|---|---|---|
| Lane governor (slots) | `ops/loop/slots.py` | lock files `slot_<i>.lock` in a directory shared by all repositories; nothing in memory | `hold`, `try_acquire`, `reap`, `is_stale`, `release` | every runner process, other repositories |
| Headless runner | `headless/runner.py` | per process: the pass, the worker threads, `abandoned_jobs`, the shutdown flag; on disk: health file, summary, progress | `main`, `run_daemon`, `_run_governed_pass`, `run_pass`, `_run_job_bounded`, `_die_holding_slot` | holds a lane, obeys `HALT`, calls the jobs, is started by the supervisor |
| Job quarantine | `headless/quarantine.py` | one JSON record of abandonments | `load`, `apply_result`, `save` | loaded once a pass, saved whole by it |
| Supervisor | `ops/supervisor.py` | the child, backoff, restart count; on disk: health file, the operator's restart trigger | `supervise`, `terminate_child`, `clear_trigger`, `backoff_delay` | owns a runner daemon |
| Health file | `ops/health.py` | who is alive, by whose word | `write_health`, `read_health` | written by runner and supervisor, read by the operator |
| Jobs of a pass | `headless/jobs.py` | the shared `JobContext`: profile, state, ledger, plans | `sync_profile` … `emit_health` | called in registry order by the runner |
| Profile client and response cache | `ingest/enka_client.py` | one cached response with its expiry; attempts of the current fetch | `fetch_profile`, `_fetch_with_retries`, `_read_cache`, `_write_cache` | the remote service, `sync_profile`, `scripts/bootstrap_data.py` |
| Atomic file writes and orphan sweep | `core/atomic_io.py`, `runner.py:962` | temporary files beside each target | `atomic_write_text`, `sweep_orphan_temps` | every writer |
| Profile mapping, snapshot codec | `ingest/enka_mapper.py`, `core/state_io.py` | none; `account_state.json` is the snapshot | `map_profile`, `write_state`, `read_state` | the jobs, the dashboard |
| Currency ledger | `core/ledger.py` | an append-only list of income and spending | `record`, `balance_at`, `apply_wish_batch`, `estimate_velocity` | `reconcile_ledger` |
| Objective graph | `engines/objectives.py` | none between calls | `build_graph`, `topological_order`, `_find_cycle`, `critical_path`, `unmet_prerequisites`, `expand_character_goal` | `recompute_plan`, the scheduler |
| Scheduler | `engines/scheduler.py` | none between calls | `solve`, `plan`, `naive_days` | `recompute_plan` |
| Resin clock | `core/resin.py`, `core/domains.py` | none | `resin_at`, `time_to_reach`, `resin_available_over` | scheduler inputs, dashboard |
| Pity engine | `agents/pity_engine/` | none | Markov chain, forecast, timeline | `forecast_pity` |
| Recommendations and artifact scores | `engines/recommend.py`, `engines/artifact_score.py` | none | weighting tables | dashboard |
| Wish history import | `ingest/uigf.py` | none | a total parser | operator |
| Static data and configuration | `core/config.py`, `core/types.py`, `ingest/static_data.py`, … | read once | | everything |
| Dashboard | `surface/` | none; reads the snapshot | a read-only loopback server | snapshot, health files |
| Desktop shell | `shell/` | window state file, one dashboard child | start, probe, tray, window | dashboard |
| Scheduled-task liveness probe | `ops/check_task_liveness.py` | none | one report | the task scheduler |
| Fleet kit: file claims | `ops/fleet_kit/fleet_claims.py` | owner files and a mutex per tree, a cross-tree index | `decide`, `claim_shell`, `reap`, `run_release_hook` | the hooks around every edit and command of an agent; read by the git lock |
| Fleet kit: git lock | `fleet_gitlock.py` | `git.lock`; git's `index.lock` and index | `acquire`, `clear_index_lock`, `check_claims`, `check_merge_sweep`, `release` | routed git commands of all agents of a tree |
| Fleet kit: slots, lanes and worktrees | `fleet_lanes.py` | slot files and tickets of the machine; lane locks, acquire mutex and worktrees of a repository | `governor_slot`, `try_acquire_lane`, `run_lane`, `ensure_worktree`, `repoint_lane_pid` | the spawn gate; a lane driver |
| Fleet kit: headless spawn gate | `fleet_headless.py` | run budget, exhausted accounts, the route | `spawn`, `effective_route`, `RunBudget`, `exhaust_entry`, `budget_reset` | takes governor slots; called by the responder |
| Fleet kit: suite gate | `fleet_suite_gate.py` | slot files, a queue of tickets, the number of slots | `run`, `acquire`, `try_slot`, `try_lane`, `set_live_slots` | whole test suites of every tree |
| Fleet kit: inbox ledgers | `fleet_inbox.py` | which notes were seen, the triage of each, outbound counts | `triage`, `remember`, `outbound_ok` | the responder |
| Cross-repository responder | `tools/moon_sync_responder.py` | answered, outbound, attempt, bounce and deferral records | `run_once`, `_run_once` and what they call | inboxes of other repositories, headless sessions |
| Inbox reader | `scripts/watch_inbox.py` | watermark, record of what was shown, cache of sessions | a quiet hook, a report, `--mark` | hooks of sessions, the operator |
| Fleet kit: the rest | `fleet_watch.py`, `fleet_done.py`, `fleet_board.py`, `fleet_identity.py`, `fleet_secrets.py`, … | baselines, markers | readers, reports, text guards | sessions |
| Named mutex | `ops/loop/winmutex.py` | a kernel object | | only its own tests |
| Development gates, operator tools | `tools/`, `scripts/` | none that the program reads | | the development process |

`PROJECT.json` lists the same parts, finer where a part is split, each with
what is modelled of it. `ops/fleet_kit/` is vendored byte for byte from another
repository and pinned by a manifest.

The chain of one pass is: the supervisor starts `runner --daemon`; each interval
the runner looks for `HALT`, sweeps temporary files of dead writers, waits for a
lane in `slots.hold()`, loads the quarantine record, runs each job on a worker
thread with a deadline, folds each result into the record, writes summary and
health file, and gives the lane back, unless a worker outlived its deadline: then
the process ends *with* its lane, so that nobody else runs beside that worker.
The operator may start `runner --once --job X` at any time beside the daemon.

The fleet's tools meet in the same way, through files only. A session's hooks
ask the claims registry before an edit; its routed git commands take the lock of
the tree and ask the registry what is foreign; its test suites stand in the
queue of the suite gate; its inbox hook tells it what came in. The responder
fires every few minutes, triages the notes, buys headless sessions for the
answers and delivers them. A session is a child of `spawn`, which waits in the
queue of the governor and chooses an account. A lane driver runs each lane in a
worktree of its own.

### 1.2 What is hard

- **Interleaving** of processes on lock files without any primitive but
  exclusive creation and unlink; of a pass and the worker threads it gave up on;
  of two passes that load and save one record; of a late answer and a changed
  showcase.
- **Crashes** of a lane holder, of a writer between temporary file and rename, of
  a supervisor with a child, of a wrapper whose git or suite runs on, and the deliberate `os._exit` in `_die_holding_slot`.
- **Partial failure**: release that cannot unlink, a fold that raises half way,
  a heartbeat or record that cannot be written, a child that cannot be killed.
- **Time**: deadlines racing their events, stale locks, ttl of the cache,
  exponential backoff, a trigger that waits while the loop backs off.
- **Locks that are files**: each is judged by one read and removed by name by a
  later call, in six places (lane governor, claims, git lock, lanes, governor
  slots, suite gate). What that race can and cannot break is stated in each.
- **Queues of files**: order, bypass, tickets of the dead and the suspended,
  limits that change while others wait.
- **Reports and records**: what was shown, read, answered or exhausted must be on
  disk neither too early nor too late, while several readers and writers cross.
- **Search**: an order that must not depend on the input's order, a cycle that
  must exist when it is reported, a greedy plan whose early choices bind it.

`PROJECT.json` lists each hazard at the line where it bites and the properties
that would catch it.

### 1.3 What makes each part correct

| Part | Properties | Stated as |
|---|---|---|
| Lane governor | no lane granted twice; a holder is robbed only for a reason; an abandoned file never blocks; a wait ends | `SlotExclusive`, `BoundUnlessStolen` (proved), `TheftJustified`, `ImplementsBucket`, `FailOpen`, `WaitEnds` |
| Runner, quarantine | work only under a lane, never two jobs of a process at once and no more than lanes on the machine, `HALT` and shutdown obeyed, a hanging job stops being rerun | `WorkUnderLane`, `OneWorker`, `HaltStops`, `StopEnds`, `HangLoopEnds`, `QuarantineHolds`, `QuarantineLifts` |
| Supervisor | one child, none orphaned; a trigger served, once and in time; the budget; an end that is visible | `SoleOwner`, `FiresOnce`, `ServedInTime`, `BudgetHolds`, `Replaced`, `EndIsReported` |
| Pass | the snapshot is whole, live and goes back only after a failed read and a failed write of the cache; the ttl is honoured; a write is not swept | `LedgerWhole`, `LiveFirst`, `NeverBack`, `Suppressed`, `WriteSpared` |
| Planner | the least order, a real cycle, an exact closure; a plan that can be run and that no schedule beats | `OrderIsLeast`, `CycleIsReal`, `AnswerIsExact`, `Runnable`, `Earliest`, `NeverExhausted` |
| Claims | no file has two live owners; a granted claim lasts as long as its agent, and longer only where its release was lost | `OneOwner`, `ClaimsLast` |
| Inbox reader | nothing is acknowledged or held back that nobody was told; a withdrawal is reported in the end | `ShownFirst`, `GoneCarried` |
| Git lock | one command of a live run at a time, its index.lock is left alone, a commit takes nothing foreign that its checks were shown | `OneGit`, `IndexKept`, `NothingSwept` |
| Lanes | a run is alone in its worktree, under its name and inside the cap; no commit is lost | `GrantedAlone`, `WorkKept` |
| Spawn gate, governor | children bounded by slots and starts; an aged call goes first; what is exhausted stays so; every call ends | `SpawnsBounded`, `AgedFirst`, `ExhaustionKept`, `EverySpawnEnds` |
| Suite gate | a live gate keeps its slot, or is robbed only after some run left one behind; the queue is served in order and nobody starves | `SlotKept`, `OldestServed`, `EveryWaiterServed` |
| Responder | one reply a note, recorded when it landed; the caps, exceeded only by what could not be counted; every note settled | `AnsweredOnce`, `CapHolds`, `EveryNoteSettled` |

## 2. The modules

| Module | Models | Used by |
|---|---|---|
| `Slots` | `slots.py`, one action per file-system call | `MCSlots`, `SlotsProofs` |
| `LaneBucket` | the abstract promise of `slots.hold()`: a semaphore whose holders may be robbed | `Slots` and `Runner`, by `INSTANCE` with a refinement mapping |
| `Runner` | `runner.py` with `quarantine.py` | `MCRunner`, `RunnerProofs` |
| `Supervisor` | `supervise()` with what it calls | `MCSupervisor`, `SupervisorProofs` |
| `Pass` | service, cache, jobs, snapshot and its temporary files | `MCPass`, `PassProofs` |
| `Objectives` | the graph of objectives | `Planner`, `PlannerProofs` |
| `Scheduler` | `solve` and what `plan` returns | `Planner` |
| `Planner` | `_solve_goal_paths` (`jobs.py`), composing the two above | `MCPlanner`, `PlannerProofs` |
| `Claims` | the hooks of `fleet_claims.py` over registry, mutex and index | `MCHooks`, `SessionProofs` |
| `Inbox` | `watch_inbox.py` | `MCHooks`, `SessionProofs` |
| `GitLock` | `run` of `fleet_gitlock.py` | `MCTree`, `TreeProofs` |
| `Lanes` | `run_lane` of `fleet_lanes.py` | `MCTree`, `TreeProofs` |
| `Headless` | `spawn` of `fleet_headless.py` with `governor_slot` of `fleet_lanes.py` | `MCHeadless`, `HeadlessProofs` |
| `SuiteGate` | `run` of `fleet_suite_gate.py` | `MCSuiteGate`, `SessionProofs` |
| `Responder` | `run_once` of `moon_sync_responder.py` with the ledgers of `fleet_inbox.py` | `MCResponder`, `HeadlessProofs` |

`MCHooks` and `MCTree` hold two components each. These share no state (a lane's git
runs in its own worktree; the inbox reader touches no claim), so a product of the
two shows nothing that either alone does not: each is explored beside the other's
initial state.

### 2.1 Slots and LaneBucket

A process's `pc` is its place between two file-system calls of `hold()`, `slot[p]`
the file its scan is at, `seen[p]` what it last read. `lock[i]` is a file: absent,
half written (created, payload not yet there) or full with a pid and an age class
(0 fresh, 1 past `stale_after`, 2 past the ceiling). `stolen` is a history
variable: the processes whose file another one removed. `Create` is
`O_CREAT|O_EXCL`; `ReapExists`, `ReapOpen`, `ReapJudge` and `ReapRemoves` are the
separate calls of `reap`, and what happens between them is the module's subject.
Files behave as on Windows, the platform the code is written for: a file open in
another process cannot be unlinked (`ReapRefused`, `ReleaseRefused`) but can be
overwritten, which is what `release` then does (`Truncate`, `Neutralise`).

`LaneBucket` is what a caller may rely on. `Bucket` in `Slots` maps the holders
to the processes between `write` and the end of `release`, and the robbed ones to
`stolen`; `ImplementsBucket` is the refinement.

### 2.2 Runner

One module for daemons, `--once` processes and dry runs, because the questions
are about them together. `pc` follows `_run_governed_pass` and `run_pass`; `worker[p]`
are the threads alive in `p`, `abandoned[p]` is `abandoned_jobs`, `record[p]` the
copy of the quarantine record that the pass loaded and `disk` the file. A deadline
is a step that may be taken at any moment before the awaited event, so every
race of a deadline is covered. Lanes are seen as the governor shows them to a
caller: held, or orphaned by a process that is gone until some `hold()` reaps them
(`Reclaim`), or robbed: why a waiter robs a live holder is the subject of `Slots`, here it may
do so at any moment (`Rob`), the holder goes on, and its release then takes another's lane.
That this is the same bucket of lanes is `UsesABucket`: `Runner` implements `LaneBucket`
as `Slots` does, thefts included. `cut` and `torn` are histories: Ctrl-C struck the process,
a read or save of the record failed.

Left out: exit codes, the text of summaries, the progress file (best effort, never
read back) and the sweep of temporary files (in `Pass`). `Asked` names the jobs
of `--job`. An entry of the record is its count; two in a row quarantine.

### 2.3 Supervisor

`pc` follows the loop of `supervise()`; `child` is what the variable `proc` names
and `strays` counts the other children that run. Time is `Tick`, one second, taken
only while the loop is in `stop.wait()` or no supervisor runs; `terminate_child`
takes none, although a forced kill would take up to twenty seconds. `hit` is the
history of the faults that struck (`kill`, `unlink`, `write`, `early`, `lost`), and
each property names the ones it does not survive (`Spared`).

### 2.4 Pass

A roster is the number of the version the service showed when it answered.
`oldFor` is the history of how long each earlier one has not been shown, so "live"
can be stated. The cache is a roster and the seconds it is still valid. `flight`
is how long an answer has been on its way. The jobs are the steps of the pass in
registry order; each may be left out (`LeftOut`: not asked for or quarantined).
A temporary file carries the process and the life of the process that wrote it,
which is what the pid check of the sweep sees. The observations file may change
at any time, so what reading it finds is a choice.

A read of the cache may fail and leave the file (`misread`); `outlived` is the history of a
valid response that survived a later one which could not be stored. `LoseCache` is the file's deletion.

Assumed: the clock does not jump; an answer takes at most `timeout_seconds` (the
socket's timeout is really one per operation); jobs take no time beside the
request; one uid.

### 2.5 Objectives, Scheduler and Planner

Ids are numbers, since the code orders its string ids. `Objectives` has one action
per round of each loop: `Pop` is one round of the heap, `NextRoot`, `Descend`,
`Retreat` and `ReportCycle` the coloured search of `_find_cycle`, `Visit` one pop of
`_closure`. The closure's pending list is a set: neither the order of its pops nor
a doubled entry changes what it visits. `Scheduler` has one action per way through
the loop over days. `total` is a ghost: the running sum of the path's costs,
which the properties need and the prover could not sum; `SumsUp` ties it to the
costs and `Planner` computes it.

`Planner` is the job: it builds the graph, takes each node that nothing depends on
as a goal (in id order; the code goes by the order of the input, which the
properties do not see), asks for its critical path and plans it. Each goal's plan
may spend the whole income, as in the code. A caller of `unmet_prerequisites` asks
the same graph instead (`Inquire`). Costs, gates and incomes are drawn when the
graph is built; nothing reads them before. The job itself always passes
no resin on hand and Monday; the model allows every caller of `plan`.

Left out: `expand_character_goal`, the sums of mora, `naive_days`, the cadence label.

### 2.6 Claims

A call is one run of the hook with the tool it stands before; `call[c].at` follows
`decide_edit` or `claim_shell` between two file operations, and `Act` is the tool.
`reg[t][a]` is the owner file of an agent in a tree, `mutex[t]` the `.mutex` file,
`index[a]` the trees in the cross-tree index. What the parsers find in a command is
a set of files of one tree, or the whole tree. `hit` says what has gone wrong:
`forced` (a hook went on without the mutex, or broke it), `crossed` (two hooks of
one agent overwrote each other), `revived` (an owner file was written back that had
died). The release hook takes the index first (`Pop`), then releases tree by tree
(`LetGo`); it may be cut off in between (`ReleaseLost`), an index that cannot be read
counts as empty, and an unlink that is refused is ignored. `left[a]` are the trees it
has still before it, `stray[a]` those where an index entry or a release was lost: a
finished agent's claims may stay there until their TTL, and nowhere else. Left out: an owner file that
cannot be read, which the code skips as if nobody held its files (`_read`,
`fleet_claims.py:350-355`, and `owners`, 419-423).

### 2.7 Inbox

A note is a name and a version, the version standing for its digest. `seen` is the
watermark, `reported` the record of what was shown, `rows` the cache of the
sessions. A reader goes from listing to report to its writes; a quiet one holds
back what its session has been shown. `told`, `printed` and `owed` are histories of
what was said. `mishap` names the cases: `crossed` (two writers of the record),
`raced` (the inbox changed during a `--mark`), `blind` (a second listing failed
after a good one), `unmarked` (the watermark was damaged). Reading and writing the
record of a session is one step; `--all`, the name-only watermark of older
versions, the line for an absent inbox, digests and the invocation log are left out.

### 2.8 GitLock

`lock` is `git.lock` with the run whose record it holds, `whole` once the record is
in it, `old` once it is past its limit. The lock is judged (`Look`), read again
(`Recheck`) and unlinked by name (`Unlink`), three steps. `ilock` is git's own
`index.lock` with its age in three classes. The git of a run is a process of its own:
a run that is killed may leave it at work (`alone`), its lock dead at once and the
next holder free to start, to judge the orphan's `index.lock` by its age and to remove it.
What a commit records depends on its verb (`Recorded`): the index, with `-a` the
edited files too, or the files of a pathspec. What its checks look at is another set
(`Listed`): a pathspec counts only behind `--`, and each list is empty when the git that
makes it fails. The difference is `Blind`. `Change`, `Stage` and `Claim` are the other
agents; `late` is what they do after a run's check, and what the check was blind to.
`NothingSwept` says that a commit, of a killed run too, takes nothing else.
`OutsideGit` is a git that nobody routed. `hit` is `hung` when a live holder past
its limit was broken and `raced` when an unlink struck another record than the one
judged.

### 2.9 Lanes

A run is the claimer; its block starts a worker, repoints the lane's lock to it,
waits, and leaves commits or loose edits in the worktree. This repository has no
lane driver yet (`tests/test_fleet_lanes_adoption.py` speaks of a future one), so
that block is modelled from the tests and the docstrings, and is marked external.
`slip` names what the properties do not survive: `orphan` (the claimer was killed,
or the repoint failed, before the lock pointed at its worker), `raced` (the acquire
mutex broken between compare and unlink), `hung` (a half-written mutex of a live
process past 30 s). Simplified: releasing compares and unlinks in one step; a release that fails
leaves the lock to the next scan; the block waits for its worker; saved refs never
collide (their names have a resolution of one second); a failing `rev-parse`, which
skips the save, is not modelled; process ids are told apart by their start times,
as the code does. A lane lock that cannot be read counts as free in the code; failing reads are
not modelled.

### 2.10 Headless

`pc` follows `spawn`: halt file and route are read first, then the call files its
ticket, polls, and may create a slot file; then the budget is counted under its
lock, the child started and marked in the slot. A read of all slots is one step.
An account is an entry of the route and is spent at most once. A suspended waiter
(`Stall`) loses its heartbeat. Killing a spawn may or may not end its child. `Mark` may
leave the slot as it is, since `mark_child` only returns `False` when the slot cannot be
read or written; the child runs on, and if its spawn is killed nothing names it
(`unmarked`). `Reap` keeps a slot of other bytes that was there when they were compared, and may
be refused; between compare and unlink the slot may change hands (`raced`). A release
whose unlink is refused leaves a slot that names no live process. Coarser than the code:
`MyTurn` judges all tickets and removes the dead ones in one step (`fleet_lanes.py:681-688`).
Left out: a `_kill_tree` that does not end the child, the slot's hard ceiling, an unarmed route, status and usage files, admission by
price, `should_yield`.

### 2.11 SuiteGate

A poll is a chain of reads - slots, queue, slots - and then a create, with everyone
else moving between; `ReapSlot` unlinks a slot judged dead. The queue is the set `tickets` with the
order `older` of their stamps: a run takes its stamp (`Stamp`) before its ticket is there
(`File`), and `late` is the history of a ticket that came when a younger run had read the
queue. The suite is a process of its own: a gate that is killed may leave it running
(`orphans`) while its slot is judged dead. `robbed` are the live runs whose slot a reap
unlinked, `littered` says that some run has left a slot file behind, by dying or by an unlink
that was refused. Memory is a set of runs that
free commit does not cover now (`tight`), CPU load a choice. The number of slots may change
while runs wait. The exclusive mark of a ticket may fail to be written and is not retried.
Creating and writing a slot file is one step. Left out: a failing rewrite of the other
fields of a ticket, the refused unlink when an exclusive run that found company withdraws
(`CheckAlone`), equal stamps and a clock that goes back. No property says that two suites of
one tree exclude each other: the code does not guarantee it once a slot was robbed.

### 2.12 Responder

A fire is a process; the scheduled one never overlaps itself, a manual one may. A
session is one step, taken when it ends, so everything a fire read before is
as old as the session is long. The records are the variable `disk`, `past` is
history. `past.hit` collects crashes, failed writes and overlaps. Left out: the
untriaged mode, hold files, hashes and re-dropped notes, the capacity of the bounce
ledger, damaged records, metrics, usage backoff, the pruning of old deferral entries
(`moon_sync_responder.py:3309-3311`). The age bound of a deferral is folded into its number
of checks. Each count may fail to be written: the daily count of a reply or bounce (`Post`, `Settle`),
which is logged and stays uncounted; an attempt (`CountTriage`, `CountWork`), which then counts
as the last and sends the note on; the cooldown of a note of Main, which then stays eligible.
`past.lost` and `past.failed` count these. A `_release_outbound` that fails is not modelled:
it leaves a row too many, the safe side.

## 3. The runs

| Run | Configuration | What it shows |
|---|---|---|
| `slots` | `MCSlots_All.cfg` | two processes, one lane, I/O faults, ageing locks, pid reuse: `TheftJustified`, `ImplementsBucket`, `FailOpen`, `WaitEnds` |
| `runner_faults` | `MCRunner_Faults.cfg` | a daemon beside repeated `--once --job` retries, a job that may ignore its cancellation, a kill, a theft of the lane, Ctrl-C, failing files: `WorkUnderLane`, `OneWorker`, `QuarantineHolds`, `QuarantineLifts` |
| `runner_live` | `MCRunner_Live.cfg` | a supervised daemon whose job hangs every time, beside a dry daemon: `HangLoopEnds`, `StopEnds` |
| `supervisor` | `MCSupervisor_All.cfg` | every fault, two triggers, budget four: `SoleOwner`, `ServedInTime`, `BudgetHolds`, `Replaced` |
| `pass_data` | `MCPass_Data.cfg` | two processes, one lane, a service that changes, refuses and is late, a kill: `LiveFirst`, `WriteSpared`, `NeverBack` |
| `planner` | `MCPlanner_Days.cfg` | every graph of at most three nodes, sorted or refused, questioned, and planned: `OrderIsLeast`, `AnswerIsExact`, `Runnable`, `Earliest` |
| `session_hooks` | `MCHooks_All.cfg` | two agents, one with two hooks at once, two trees, one fault, in a release too; beside it a session's prompt hook and a `--mark` by hand over a changing inbox: `OneOwner`, `ClaimsLast`, `ShownFirst`, `GoneCarried` |
| `working_tree` | `MCTree_All.cfg` | three routed commits (of the index, `-a`, a pathspec) or merges and an unrouted git, killed wrappers and failing lists; beside it three lane runs, two of one name: `OneGit`, `NothingSwept`, `IndexKept`, `GrantedAlone`, `WorkKept` |
| `responder_faults` | `MCResponder_Faults.cfg` | two notes and one fault - a crash anywhere, an overlapping fire, or a failing write of the seen ledger, the answered or bounced record, a reservation, a count or a cooldown: `AnsweredOnce`, `CapHolds` |
| `responder_live` | `MCResponder_Live.cfg` | three notes of all kinds, whatever sessions and caps do: `EveryNoteSettled` |
| `suite_gate` | `MCSuiteGate_All.cfg` | a short, a plain and an exclusive run of two trees, one killed gate (its suite may run on), refused unlink, failed mark, change of N or lack of memory: `SlotKept`, `OldestServed`, `EveryWaiterServed` |
| `headless` | `MCHeadless_All.cfg` | three spawns of two trees over one slot, children that are recorded or not, one kill, stall, refused unlink, reset or expiry: `SpawnsBounded`, `AgedFirst`, `ExhaustionKept`, `EverySpawnEnds` |

Every property of a run has a mutant: the definition it depends on, changed
as a plausible slip would change it (a dropped guard, a missing reset, an
off-by-one), under which TLC finds the property violated. The mutated forms
stand before the definitions in the modules, marked *Mutant of*.

Many properties name histories under which they are not claimed (`hit`, `slip`,
`mishap`, `raced`, ...). Each names a case that the code does not survive; section 3.3
tells what happens in it. Everything outside these cases is checked.

### 3.1 Bounds, and why they are enough

- **Slots** (8,200 states). A holder, and another that waits, reaps and robs it; a
  process that comes back with a reused pid. `AgeBound` 2 is the ceiling, beyond which the
  code makes no difference. The race of three processes (a waiter, one that releases, one
  that comes between) is the subject of the proofs, which cover every number of
  processes and every width.
- **Runner** (6.4 million states). Two jobs: one that may hang, one that follows it and
  must not start. Two processes: what races is a pair. One kill and one theft (the release of
  who was robbed may then take the thief's lane in turn). `LateBound` 2 lets a
  second late pass be counted. `QuarantineAfter` has the code's value.
- **Supervisor** (635,000 states). `Poll` 1, `BackoffCap` 2 and `Healthy` 2 keep the order of the
  code's 1, 60 and 60 seconds (`supervisor.py:56-68`) only weakly, but each comparison has both
  outcomes; `Overflow` 4 stands for 1025 and lies beyond the cap as the
  assumption demands. Two drops of the trigger, so that one may come during the
  restart of the other. Four restarts reach the budget through each mixture of
  triggers, crashes and healthy spells.
- **Pass** (1.76 million states). Ttls 0 (of no use, replaced by the default) and 2; two versions
  so that one can be stale; two rows so that a fold can stop half way; one kill,
  one retry. Two processes behind one lane.
- **Planner** (629,000 states). Three ids with every set of dependencies, doubled and dangling
  ids included: chains, forks, joins, cycles of one to three nodes. Seven weekdays
  and a weekly window of seven become three and two, so that gates, window and
  horizon (four days) can exclude one another. `MaxIterations` 6 lies below
  `Horizon` plus three, so that the ceiling is reached. Five kinds of node: free,
  cheap, dear, gated by weekday, weekly. A diamond needs four nodes; the proofs
  hold for every size.

- **Claims and Inbox** (2.6 million states). Two agents, one with two calls, since an
  agent's hooks race with one another too; a file in each of two trees, for the
  cross-tree index; three calls; one fault. Two note names and two versions; a list of
  one name, so that one note is counted and not named; one tracked session; two changes of
  the inbox; one mishap.
- **GitLock and Lanes** (4.4 million states). Three git runs, because a wrong break
  needs two breakers and one that comes between; two files, one of a merge; two
  events, so that a run may be killed and its orphan's index.lock age. Three lane runs of two
  names over at most two lanes, one trouble (two were checked for the lanes alone,
  8.8 million states). Both are proved for all values.
- **SuiteGate** (430,000 states). Two runs of one tree and one of another, one of them exclusive and
  one brief; two slots, one regular and the lane, or both regular. One event: each kind is met, not two together.
- **Headless** (215,000 states). One slot, two trees, one call without slot, one that is
  interactive and impatient; one start per window; two accounts; one event.
- **Responder** (2.2 million and 75,000 states). An order of Main and a sibling's note with one fault;
  three notes of different kinds without one. Every cap is 1, so that the second
  reply, bounce, session or fire is the one too many; deferral ends after two checks.

`CHECK_DEADLOCK FALSE` stands in every configuration but those of `Supervisor` and
`Pass`: the processes of the others leave for good, or wait without a deadline when all
bounds are used up, and the planner's call returns.

Symmetry is used where only safety is checked and the values are alike: the two hooks of
one agent and the two notes in `MCHooks`, the git runs in `MCTree`.

### 3.2 Fairness, and why the code justifies it

- `Slots`: each running process takes its steps (the scheduler runs it), and time
  passes over every file. `Jitter` says that two reapers do not meet a file that
  the other has open every time: the backoff is jittered and a reader's handle
  lives for microseconds. `ReapRemoves` is strongly fair in the same sense. `TimedSpec` adds
  that a deadline, if there is one, passes. Nobody has to enter, to crash
  or to be revived.
- `Runner`: a process runs its code; a job that does not hang ends; a daemon that
  ended is started again, which is what the supervisor is for. No fairness of
  the operator, of Ctrl-C, of kills or of `Reclaim`.
- `Supervisor`: the loop runs and time passes. No fairness of the child's exit
  or of the operator.
- `Pass`: safety only.
- `Planner`: a sequential call, weak fairness of `Next`.
- `SuiteGate`: each live run takes its steps, which include its suite's end or its
  timeout; memory that is short comes back. No fairness of crashes, of changes of N, or of the end
  of a suite whose gate was killed.
- `Headless`: each spawn takes its steps, which include its child's end (the code kills a child past its
  time), and an orphaned child ends. Nobody's ticket has to age.
- `Responder`: the scheduled task starts again and again and its fire takes its steps; a
  session that is asked for again and again judges, passes and lands at some time
  (strong fairness: otherwise an order of Main may be retried for ever, which is
  what the code intends); midnight comes, a sender's window rolls, a cool-off ends.
- `Claims`, `Inbox`, `GitLock`, `Lanes`: safety only.

### 3.3 Seen while modelling

Disagreements between the code and a sentence of the repository, or a limit that
the properties had to state. No run of its own shows them; the property that states what holds is
named where there is one.

The resin lane:

- "Slots bound total concurrent executor calls on the box" (`slots.py`): `reap` tests for the
  file, judges it, and unlinks by name. A file released between the first two reads
  as stale, and the unlink then takes the file of whoever came next.
  `BoundUnlessStolen` is what remains.
- "No slot of this process is released while a job of this process is still
  running": a `--once` process has no signal handlers, and `KeyboardInterrupt` unwinds
  through `hold()` (`runner.py:1253`). `WorkUnderLane` is what remains.
- "The flag lifts only when the job completes once successfully": with a width of
  two the record is loaded once and saved whole by two passes (`quarantine.py:70`). With a
  width of one it holds, and is proved, until a holder is robbed of the lane.
- A restart budget of 0 "means unbounded": `2.0 ** (n - 1)` raises before the
  minimum with the cap is taken, at the 1025th failure in a row (`supervisor.py:244`).
  `Replaced` allows this end.
- A waiter whose every scan removes a stale file goes round again without a look at its
  deadline (`slots.py:255`). `WaitEnds` leaves that loop out; it needs someone who keeps
  leaving stale files.
- A cached response that cannot be read once is taken for none but stays (`enka_client.py:360-362`):
  a request goes out beside it, and if the later response cannot be written (396-399), the next pass
  serves the older roster and the snapshot goes back. `NeverBack` excepts just that (`outlived`),
  the proved `Suppressed` just the process whose read failed.
- "Staleness is part of the payload": `sync_profile` does not pass the time of the
  fetch on, so no snapshot of the lane carries one (`jobs.py:485`).
- `HALT` is read before a wait of up to 300 seconds for a lane (`runner.py:1191`;
  `HaltStops` allows that one pass); the trigger is not polled during a backoff of up to 60
  seconds although "within about five seconds" is promised (`supervisor.py:10-12`;
  `ServedInTime`); a killed supervisor leaves its child to the next one
  (`supervisor.py:303`); `emit_health` passes although its write failed
  (`health.py:167-172`); `--once` leaves `alive` true; `recompute_plan` always skips,
  since nothing fills `AccountState.goals`; `naive_days` is called a lower bound but
  ignores resin on hand that the plan spends (`scheduler.py:300-312`).

The fleet's tools:

- **Claims**: the shell hook checks outside the mutex and does not reap, although the docs
  say that the next hook call does; a stale mutex that cannot be unlinked is met again
  in every round. A release hook pops the cross-tree index before it releases
  (`fleet_claims.py:1215`) and ignores a refused unlink (501-505): cut off in between, the claims of a
  finished agent in other trees last until their TTL. `ClaimsLast` says that they do nowhere else.
- **Inbox**: the second listing, for withdrawals, may fail silently after a good first one, and a
  `--mark` then acknowledges a withdrawal that it never reported; a record that a
  hook writes during a `--mark` is pruned unreported; a note that arrives between
  the listing and the mark is marked unread; two writers of the record lose one
  update; without a session, names beyond the list's cap are marked though only
  counted.
- **Git lock**: a live holder is not to be broken before its limit
  (`fleet_gitlock.py:362`); a half-written record is broken after its short grace, and between
  compare and unlink the file may be another's. Without these two `OneGit` holds for the
  commands of live runs. The git of a killed wrapper holds nothing: its lock is dead at
  once, the next command works beside it, and its `index.lock` is aged out, although
  "we hold the tree's git lock, so no routed git writes it" (`fleet_gitlock.py:36`). The commit checks
  are to cover "any pathspec" (39-41), but only words behind `--` are listed (434), and a list
  whose git fails is empty, so that the checks pass on nothing (424).
- **Lanes**: a claimer killed before the repoint leaves a worker that no lock points at,
  and the lane is given away under it. A lane lock that cannot be read counts as free.
- **Spawn gate**: a child that could not be written into its slot (`fleet_lanes.py:585-592`) runs on
  unrecorded; when its spawn dies the slot is given to another. An exhausted account "is
  returned to only at its own reset" (`fleet_headless.py:857-858`), but the rows are rewritten
  whole under no lock: a row that a crossing writer had not read is lost, and its account
  tried again. `ExhaustionKept` leaves that row out and says that no other is lost.
- **Spawn gate, slots**: halt file, route and switches are read before the wait for a slot and not
  again; the cap of a tree's slots is not kept, since two calls of one tree read what is held before
  either has a slot (`governor_slot`, `fleet_lanes.py:775`); compare and unlink are two
  steps in `_unlink_if_raw`, so that three governed runs can exceed the width.
- **Suite gate**: "a wider runner raced us" in `try_slot` cannot be reached; a reap can
  strike a slot that was taken again, which ends the exclusion inside a tree and of an
  exclusive run; so does a killed gate, whose suite runs on (`fleet_suite_gate.py:1476-1486`) while its slot is
  judged dead. "An unmarked live ticket is never passed" (106-108), but a ticket is stamped (423)
  before its file is there (426), so one with an older name may appear when a younger run has
  read the queue; and a ticket that is not marked passable can be passed when an older marked one is
  unmarked or N changes. "A failed write is retried next poll" (`set_ticket`), but the change of
  `n` (631) and the exclusive mark (619) are written once.
- **Responder**: overlapping fires can send a reply twice; a crash between `remember` and
  `_forget_undelivered`, or an unwritable ledger, leaves a note answered although nothing
  landed (docstring at line 3992). A daily count that cannot be written is logged and the reply stays
  uncounted (5750-5754, 5784-5788), so a day may have one more for each; a work attempt that could not be
  counted counts as the last, and a note of Main whose cooldown cannot be written stays eligible, as the
  docstring at 5400-5402 says. `CapHolds` counts these.

## 4. The proofs

`tlapm` checks every theorem for all values of the constants that the modules'
assumptions allow: `SlotsAssumption`, `RunnerAssumption`, `SupervisorAssumption`,
`PassAssumption`, `ObjectivesAssumption`, `SchedulerAssumption`, `PlannerAssumption`,
`LanesAssumption`, `GitLockAssumption`, `ClaimsAssumption`, `InboxAssumption`,
`SuiteGateAssumption`, `HeadlessAssumption` and `ResponderAssumption` (finite sets of processes, notes and ids, a "nobody"
that is none of them, bounds that are natural numbers, positive widths). TLC evaluates each of them in a run.

| Module | Theorems |
|---|---|
| `SlotsProofs` | `LaneInvariant`, `NoSharedSlot`, `LaneBound`, `TheftsAreJustified`, `SlotsIsABucket` |
| `RunnerProofs` | `TypeCorrect`, `NoWorkWithoutLane`, `JobsNeverOverlap`, `HaltStopsThePasses`, `QuarantineIsObeyed`, `OnlyAPassLifts`, `AliveIsTakenBack`, `DryRunsWriteNothing`, `RunnerUsesABucket` |
| `SupervisorProofs` | `TriggersFireOnce`, `BudgetIsKept`, `OneOwner`, `TriggersAreServed`, `TheEndIsTold` |
| `PassProofs` | `Typed`, `SnapshotIsWhole`, `WritesAreSpared`, `LiveStateFirst`, `RequestsAreSuppressed`, `SnapshotGoesForward` |
| `PlannerProofs` | over `GraphSpec`: `OrdersAreLeast`, `CyclesAreReal`, `AnswersAreExact`; `PlannerUsesTheGraph`, `PlannedGraphsAreSound`, `EveryObjectiveIsPlanned`, `TypeCorrect`, `PlansCanBeRun`, `PlansAreEarliest`, `CeilingIsOutOfReach` |
| `TreeProofs` | over `LanesSpec`: `LaneInvariant`, `LanesTypeCorrect`, `LanesAreGrantedAlone`, `CommitsAreKept`; of `GitLock`: `LockInvariant`, `GitLockTypeCorrect`, `OneGitAtATime`, `NothingIsSwept`, `IndexIsKept` |
| `SessionProofs` | over `ClaimsSpec`: `ClaimsInvariant`, `ClaimsTypeCorrect`, `FilesHaveOneOwner`, `ClaimsLastAsTheirAgents`; over `InboxSpec`: `InboxInvariant`, `InboxTypeCorrect`, `OnlyTheToldIsTaken`, `WithdrawalsAreCarried`; of `SuiteGate`: `SuiteGateInvariant`, `SuiteGateTypeCorrect`, `SuitesHaveTheirSlots`, `TheOldestAreServed` |
| `HeadlessProofs` | `HeadlessInvariant`, `HeadlessTypeCorrect`, `SpawnsAreBounded`, `TheAgedGoFirst`, `ExhaustionIsKept`; over `ReplySpec`: `ResponderInvariant`, `ResponderTypeCorrect`, `RepliesAreCapped`, `NotesAreAnsweredOnce` |

The arguments, briefly:

- **Slots.** `LaneInv` is inductive. Of the lock files alone nothing follows, since
  anybody may remove any of them; what carries the argument is that a holder *in
  good standing* owns the file of its slot under its own pid (`OwnFile`), that a
  process which is writing a file is alone on its slot (`WriterAlone`), and that a verdict
  reached on a readable file below the ceiling is about a dead process
  (`VerdictOnDead`). Two such holders on one slot would both own one file, hence
  `SlotExclusive`; the map from holders to slots is injective, hence the bound. The
  refinement takes each step to `Acquire`, `Leave`, `Rob` or a stutter.
- **Runner.** `Sound(p)` says at each location which workers may be alive: none outside
  the pass but abandoned ones, and those only in a process that holds its lane
  and will die in it. Holders in good standing and orphans are counted
  (`WithinWidth`), and a job at work maps to the holder that it works under, hence the second
  half of `OneWorker`. While the width is one and nobody was robbed, the record that a pass
  loaded is the one on disk until its end (`RecordInv`), since only holders save; that is
  what `QuarantineHolds` and `QuarantineLifts` need, and what width two or a theft breaks.
  `CountInv` ties a late pass to a process that had passed the gate before `HALT`.
  `AliveMeansRunning` needs no invariant of its own, only that the end of every live daemon but a
  killed one reports `alive = FALSE` (`EndsAreReported`); a `--once` process reports and takes
  nothing back, which is why the property names it. `UsesABucket` holds since every step takes
  one free lane for a process without one, gives one back, robs or changes none (`LanesMove`).
- **Supervisor.** Every firing consumed a file the operator dropped; revivals are at most
  restarts, and the budget is compared before each; a stray comes
  only from a fault in `hit`. What a trigger has waited plus what is left of the
  wait is at most one backoff and one poll (`Timely`): a second moves one to the other,
  and a new wait starts only where the trigger was seen, removed or absent.
- **Pass.** The state of a pass is its profile (`Carried`); the age of what the cache holds plus
  the seconds it is valid is bounded by ttl plus flight (`AgeInv`); the ledger is
  whole or empty wherever a document may be written (`WholeInv`); under one lane, what the
  snapshot shows is no newer than cache and profile, unless a valid response outlived one that
  could not be stored (`Alone`, `Needed`, `Forward`); a request is out only where the cache holds
  nothing valid or this pass could not read it.
- **Objectives.** The ready set is what has no dependency left (`CountInv`), so what is
  popped is the least node that may come next; a smaller order would differ first
  at a place where it took another ready node (`OrderInv`). When the sort stalls, each
  remaining node has a remaining dependency; the trail is a path of them
  (`TrailInv`). What the closure saw is needed by every set that suffices, and when
  nothing is pending it suffices itself (`ClosureInv`).
- **Planner.** It implements `GraphSpec`, so the graph's theorems hold of it. Greedy
  stays ahead (`Ahead`): against any feasible schedule, each placed task is no later and
  the cursor has not passed that schedule's day. It rests on the window rule being
  monotone, which is the one lemma that is not obvious: days that are earlier
  leave no fewer free slots. `Paced` bounds the iterations by day plus placed tasks.
  For `EveryObjectivePlanned`, `JobInv`: the solver works on a path that ends with the goal
  and on which each node comes after its dependencies (`Leads`, from the order and the
  closure), so a plan accounts for a closed set with its goal (`Accounts`). A node that no plan
  accounts for is no goal, so it has a dependent, which comes later in the order and is not
  accounted for either: the last such node cannot be.

- **Lanes.** `LaneInv` says of each lock that the lane is its writer's (`Owner`), and that it is half
  written only where the writer has not gone on (`Whole`). Unless the mutex was taken from a
  live process, one run is inside it (`MutexOne`), a live claimer has the lock of its lane
  (`Kept`), and what a run in the mutex has scanned still covers everyone at work (`Judged`). All steps
  but one are *calm*: they bind no run and give no lock a new owner, and calm steps keep the whole
  invariant by one lemma each. The grant is the other: what the scan saw maps the
  runs at work injectively into indices judged running, which are fewer than
  the cap. `WorkInv` adds that a run at work finds its worktree there (`There`), that a worktree which
  is not there has nothing in it (`Absent`), and, while nothing slipped, that no worker is orphaned, that the
  tree is clean until the block starts and is moved only from commits that are saved
  or in the base (`CleanOf`).
- **GitLock.** `LockInv`: a lock names a run that has created it and not gone back (`HolderIs`); what a
  breaker judged is gone or past its limit as long as the lock has the judged bytes (`Seen`: a
  dead run stays dead, and an old record stays old until it is replaced), so unless `hit` is
  set no unlink strikes a holder at work, and who works for a live run holds the lock
  (`HeldThroughout`), which is `OneGit` and `IndexKept`. What a commit would take and its checks
  refuse is always within what is late for it (`Checked`): a check lets through what its lists do
  not show only into `late`, and whatever changes the index, the files or the claims afterwards
  goes there too, with an orphan as with a live run. `NothingSwept` needs no exception for `hit`.
- **Claims.** `ClaimsInv`: one call at a time is past the mutex of a tree that nobody forced
  (`MutexOne`), so what it keeps of the files it wants is still free when it writes
  (`KeptFree`), which is what `OneOwner` rests on. An owner file is found again by the hook that ends
  its agent, since the tree is in the agent's index, a call is about to note it, its release hook has the
  tree before it, or a fault has lost it (`DocsFound`, `Quiet`); and what was granted is in the owner file (`Granted`), because another call of
  the same agent cannot come between its read and its write but by `crossed`.
- **Inbox.** `InboxInv` follows what one reader has listed through its later steps: what a
  `--mark` will add to the watermark was told or is among the entries it is about to tell
  (`Telling`); the keys that a hook will record are among what its session printed (`KeysShown`), and a
  session has one row, so that a capped list drops rows but never gives one session's to
  another; and a `--mark` that has passed its survey knows of every withdrawal which its writes
  will end (`Carrying`).
- **SuiteGate.** `GateInv`: a live gate that was not robbed has the slot file it owns
  (`SlotsOwned`), and a dead holder, which every reap begins with, was left by a run that ended
  without its release (`LeftBehind`); together they are `SlotKept`, whose last part follows as the
  suites of such gates map injectively into the slots. For the order, while no ticket was passable
  or late for its stamp, who stands in line still counts each older waiter (`LineKept`: older waiters only become fewer), and who
  found room has it for itself, for its older waiters and for its rivals, the runs which own a
  slot below its own `N` and play by it too (`RoomKept`). A rival that takes a slot in between is an
  older waiter or left a slot for this run; so when it takes its slot itself, enough are left.
- **Headless.** `HeadlessInv`: while no unlink hit a slot that was not judged, the owner of what a
  judge saw stale is dead and the child named there is gone (`DoomedDead`), so a live call keeps
  its slot (`SlotMine`) whether its child is recorded or not. A child whose call was killed is named in
  a slot unless it was never recorded (`Orphans`, `unmarked`). So the governed children map injectively into
  the slots. The start list that a
  call has read under the lock is the one on disk (`BudgetSound`), a start that expires meanwhile
  taken out of both. In the queue each call asks once and so has one place; those that leave
  keep the order of the rest (`LeftIs`), and with one slot a turn is given only to a call
  that no aged, fresh ticket with an earlier place outranks (`BehindSound`). No exception for a
  wrong unlink is needed.
- **Responder.** `ReplyInv` has three parts. `FormOK` says what a fire carries at each place. `RowsOK`
  is what `CapHolds` rests on: replies sent to a sender plus those for which either fire owes a
  delivery are no more than the rows of the record, and the plain ones among them no more than
  `MAX_REPLIES_PER_SENDER`; a row is written before its reply and taken back only by the fire
  that owes it, so two fires that overlap share the cap. `CalmOK` is about a history without a hit:
  then one fire works at a time, and what it has read is what there is but for what it did
  itself (`CalmWith`): of the daily count and what it missed (`DayOK`), the answered notes
  (`RecordOK`, `ReadOK`) and the bounces (`BouncesOK`). For the attempts (`WorkOK`), the sessions of a note
  are its recorded failures, those that could not be recorded and the one it is in (`Fits`); a
  note that is open to another is below the bound, or one of Main whose cooldown was not written. Each action is abstracted to a *turn* that
  says only what it does to the record of its fire and to the disk (`TurnIs`), and every part is shown
  turn by turn.

Proved and no longer run by TLC, which checked them in an earlier form of the runs: `LaneInv`,
`SlotExclusive` and `BoundUnlessStolen` of `Slots`, `HaltStops`, `FiresOnce`, `EndIsReported`,
`LedgerWhole`, `Suppressed`, `CycleIsReal`, `NeverExhausted`, `EveryObjectivePlanned`,
`AliveMeansRunning`, `DryWritesNothing`, `UsesABucket`, and the type invariants of `Runner`,
`Pass`, `Planner`, `Lanes` and `GitLock`. In the run `slots` pids are reused, which excuses
some thefts; the theorem `TheftsAreJustified` holds with and without.

Stated, and neither run now nor proved: `Ends`, which is a liveness property; `Dated`, which the
code does not have (3.3); and the type invariant of `Supervisor`, of which the proofs use the
parts they need (it rests on powers of two, which the SMT backend leaves uninterpreted).

Model-checked only: every liveness property (`FailOpen`, `WaitEnds`, `HangLoopEnds`, `StopEnds`,
`Replaced`, `EveryNoteSettled`, `EveryWaiterServed`, `EverySpawnEnds`), since fairness and
`ENABLED` are out of the prover's reach. Every safety property of a run is a theorem.

## 5. What is not modelled

- Conversions without state: the mapping of talents, weapons and artifacts, the
  decoder of snapshots, UIGF files, recommendations, scores, rendering.
- Floating-point probability (the convolutions of the pity engine).
- The cache file's fixed temporary name shared with `bootstrap_data.py`, restarts of `Runner` daemons by a `Supervisor` that may
  itself fail: each is covered on one side only.
- `expand_character_goal`: the order of a graph is checked for three nodes, and its chains
  have nine.
- In the fleet's tools: unit checkpoints, `should_yield` and the status report of the lanes; the
  text a hook parses and a filter reads (their verdicts are choices or constants); the
  watcher's baseline, done markers, the board; the guards of text and commits, which
  keep no state.
- The desktop shell, the dashboard, the development gates (`gate_mutation_runner.py`,
  `stop_claim_gate.py`, ...) and operator tools: they read once and report, or are pure I/O.

Of the lines that the map does not reach, many are module-level comments, tables, messages and
command lines, which the large tools consist of to a great part.

## 6. Plan

Done, in this order, the behaviour most likely to break first: `Slots` with its
abstraction, `Runner`, `Supervisor`, `Pass`, `Objectives` with `Scheduler` and `Planner`, the
proofs of each; then the fleet: `Claims`, `Inbox`, `GitLock`, `SuiteGate`, `Headless`, `Lanes`,
`Responder`, and the proofs of each of these. While the fleet was modelled some
properties were put together (`ClaimsLast` has what a finished agent leaves,
`AnsweredOnce` the bounce) and two withdrawn since the code does not have them: that a live holder of
the git lock is never broken, and that an exclusive suite is always alone.

The lanes of `Runner` were first those of a bucket in which nobody is robbed; they may
be robbed now, and `OneWorker` and the quarantine's properties say what that costs.

Next, extending the model: `GoalChain` (`expand_character_goal` in front of `Planner`, with an abstract
specification: the last node rests on every phase up to the target), `JobOrder`
(`ordered_jobs`, `jobs.py:271-304`), `Watchdog` (`Supervisor` composed with `Runner` and the lanes),
`StateFiles` (the decoder of snapshots and the two writers of the response cache), `PityChain`.
