----------------------------- MODULE Supervisor -----------------------------
(***************************************************************************)
(* The watchdog of ops/supervisor.py: supervise() owns one child process,  *)
(* polls for an operator's restart trigger and for the end of the child,   *)
(* and starts it again after a bounded exponential backoff.                *)
(*                                                                         *)
(* Time passes in Tick steps of one second.  Only stop.wait() takes time:  *)
(* a wait that is over ends before the next tick, and the steps between    *)
(* two waits take none (a child that must be force-killed would, up to     *)
(* twenty seconds).                                                        *)
(***************************************************************************)
EXTENDS Integers

CONSTANTS
  Poll,         \* poll_seconds
  BackoffCap,   \* BACKOFF_CAP_SECONDS
  Healthy,      \* HEALTHY_UPTIME_SECONDS
  MaxRestarts,  \* max_restarts; 0 is unbounded
  Overflow,     \* the first number of failures whose delay is no float (1025)
  MaxDrops,     \* bound: how many triggers the operator drops
  MaxStrays     \* bound: no more children are lost once so many run unowned

(* kill: a child cannot be stopped.  unlink: the trigger cannot be removed.*)
(* write: a heartbeat cannot be written.  early: Ctrl-C strikes before     *)
(* proc names the child that was just started.  lost: the supervisor       *)
(* itself is killed.                                                       *)
Faults == {"kill", "unlink", "write", "early", "lost"}

ASSUME SupervisorAssumption ==
  /\ Poll \in Nat \ {0} /\ BackoffCap \in Nat \ {0} /\ Healthy \in Nat \ {0}
  /\ MaxRestarts \in Nat
  /\ Overflow \in Nat /\ Overflow > 1 /\ 2 ^ (Overflow - 2) >= BackoffCap
  /\ MaxDrops \in Nat /\ MaxStrays \in Nat

VARIABLES
  pc,        \* where supervise() is; "off" when no supervisor runs
  child,     \* the process in the variable proc: "none", "up" or "dead"
  strays,    \* how many other children run
  wait,      \* seconds left of the current stop.wait()
  uptime,    \* seconds since the child was started
  failures,  \* consecutive_failures
  restarts,  \* restarts, counted up to two more than the budget
  trigger,   \* whether the trigger file exists
  age,       \* seconds since it was dropped under this supervisor
  alive,     \* what the supervisor's health file says
  hit,       \* history: the faults that happened
  drops,     \* history: how often the operator dropped a trigger
  fires,     \* history: how often the trigger restarted the child
  revivals   \* history: how often a dead child was restarted

vars == <<pc, child, strays, wait, uptime, failures, restarts, trigger, age,
          alive, hit, drops, fires, revivals>>

operator == <<trigger, age, drops>>
counters == <<failures, restarts>>
history == <<fires, revivals>>

Locations == {"off", "poll", "stop_old", "start_new", "down", "revive", "stopping"}
Waiting == {"poll", "down"}

AgeBound == BackoffCap + Poll + 1
RestartBound == MaxRestarts + 2

(* backoff_delay.                                                          *)
Delay(n) ==
  IF n <= 0 THEN 0
  ELSE IF 2 ^ (n - 1) < BackoffCap THEN 2 ^ (n - 1) ELSE BackoffCap

OneMore(n, bound) == IF n < bound THEN n + 1 ELSE bound

Init ==
  /\ pc = "off" /\ child = "none" /\ strays = 0
  /\ wait = 0 /\ uptime = 0 /\ failures = 0 /\ restarts = 0
  /\ trigger = FALSE /\ age = 0 /\ alive = FALSE /\ hit = {}
  /\ drops = 0 /\ fires = 0 /\ revivals = 0

----------------------------------------------------------------------------
(* write_heartbeat, while the faults in broken strike.                     *)
Heartbeat(says, broken) == alive' = IF "write" \in broken THEN alive ELSE says

Strike(broken) == hit' = hit \cup broken

(* proc = spawn_child(config) and its heartbeat.  The child that proc      *)
(* named before, if it still runs, is nobody's from now on.                *)
Spawn ==
  /\ child' = "up" /\ uptime' = 0
  /\ strays' = IF child = "up" THEN strays + 1 ELSE strays
  /\ \E broken \in SUBSET {"write"} : Heartbeat(TRUE, broken) /\ Strike(broken)
  /\ pc' = "poll" /\ wait' = Poll

(* Popen raises in the loop: the finally runs and supervise() ends.        *)
SpawnFails ==
  /\ pc' = "stopping"
  /\ UNCHANGED <<child, strays, wait, uptime, alive, hit>>

(* A supervisor is started, or cannot start its child, or is interrupted   *)
(* before the try block and loses it.                                      *)
Launch ==
  /\ pc = "off"
  /\ \/ Spawn
     \/ UNCHANGED <<pc, child, strays, wait, uptime, alive, hit>>
     \/ /\ strays < MaxStrays /\ strays' = strays + 1
        /\ alive' \in {alive, TRUE} /\ Strike({"early"})
        /\ UNCHANGED <<pc, child, wait, uptime>>
  /\ failures' = 0 /\ restarts' = 0 /\ revivals' = 0 /\ age' = 0
  /\ UNCHANGED <<trigger, drops, fires>>

(* clear_trigger found the file and removed it.                            *)
ClearTrigger ==
  /\ pc = "poll" /\ wait = 0 /\ trigger
  /\ trigger' = FALSE /\ age' = 0
  /\ pc' = "stop_old"
  /\ UNCHANGED <<child, strays, wait, uptime, counters, alive, hit, drops, history>>

(* Mutant of NoTrigger: the child is looked at although there is one.      *)
NoTrigger_Blind(broken) == "unlink" \notin broken

(* There is no trigger, or it cannot be removed and stays.                 *)
NoTrigger(broken) == trigger <=> "unlink" \in broken

(* Mutant of StopOld: the old child is not stopped.                        *)
StopOld_Skips ==
  /\ pc = "stop_old"
  /\ pc' = "start_new"
  /\ UNCHANGED <<child, strays, wait, uptime, counters, alive, hit, operator, history>>

(* terminate_child on the restart path.                                    *)
StopOld ==
  /\ pc = "stop_old"
  /\ \/ child' = "dead" /\ UNCHANGED hit
     \/ strays < MaxStrays /\ Strike({"kill"}) /\ UNCHANGED child
  /\ pc' = "start_new"
  /\ UNCHANGED <<strays, wait, uptime, counters, alive, operator, history>>

StartNew ==
  /\ pc = "start_new"
  /\ \/ /\ Spawn
        /\ restarts' = OneMore(restarts, RestartBound)
        /\ failures' = 0
        /\ fires' = fires + 1
     \/ SpawnFails /\ UNCHANGED <<counters, fires>>
  /\ UNCHANGED <<operator, revivals>>

(* Mutant of Beat: the exit of the child is not noticed.                   *)
Beat_Deaf ==
  \E broken \in SUBSET {"unlink", "write"} :
    /\ pc = "poll" /\ wait = 0 /\ NoTrigger(broken) /\ child # "none"
    /\ Heartbeat(TRUE, broken) /\ Strike(broken) /\ wait' = Poll
    /\ UNCHANGED <<pc, child, strays, uptime, counters, operator, history>>

(* The child runs.                                                         *)
Beat ==
  \E broken \in SUBSET {"unlink", "write"} :
    /\ pc = "poll" /\ wait = 0 /\ NoTrigger(broken) /\ child = "up"
    /\ Heartbeat(TRUE, broken) /\ Strike(broken) /\ wait' = Poll
    /\ UNCHANGED <<pc, child, strays, uptime, counters, operator, history>>

(* Mutant of Exhausted: one restart too many.                              *)
Exhausted_Late(n) == MaxRestarts # 0 /\ n > MaxRestarts + 1

(* The restart budget, triggers included, is spent.                        *)
Exhausted(n) == MaxRestarts # 0 /\ n > MaxRestarts

(* The child has exited, whatever its code: the budget, then the backoff.  *)
(* A backoff that is no float raises before its heartbeat is written.      *)
FoundDead ==
  \E broken \in SUBSET {"unlink", "write"} :
    /\ pc = "poll" /\ wait = 0 /\ NoTrigger(broken) /\ child = "dead"
    /\ failures' = (IF uptime >= Healthy THEN 0 ELSE failures) + 1
    /\ restarts' = OneMore(restarts, RestartBound)
    /\ Strike(broken)
    /\ \/ /\ Exhausted(restarts')
          /\ Heartbeat(FALSE, broken)
          /\ pc' = "stopping" /\ UNCHANGED wait
       \/ /\ ~Exhausted(restarts') /\ failures' >= Overflow
          /\ pc' = "stopping" /\ UNCHANGED <<wait, alive>>
       \/ /\ ~Exhausted(restarts') /\ failures' < Overflow
          /\ Heartbeat(FALSE, broken)
          /\ pc' = "down" /\ wait' = Delay(failures')
    /\ UNCHANGED <<child, strays, uptime, operator, history>>

(* The backoff is over.                                                    *)
Revive ==
  /\ pc = "down" /\ wait = 0
  /\ \/ Spawn /\ revivals' = OneMore(revivals, RestartBound)
     \/ SpawnFails /\ UNCHANGED revivals
  /\ UNCHANGED <<counters, operator, fires>>

(* The finally: the child is stopped and the heartbeat says so.            *)
Stopping ==
  \E broken \in SUBSET {"kill", "write"} :
    /\ pc = "stopping"
    /\ \/ "kill" \notin broken /\ strays' = strays
       \/ /\ "kill" \in broken /\ child = "up" /\ strays < MaxStrays
          /\ strays' = strays + 1
    /\ child' = "none"
    /\ Heartbeat(FALSE, broken) /\ Strike(broken)
    /\ pc' = "off" /\ wait' = 0
    /\ UNCHANGED <<uptime, counters, operator, history>>

(* Ctrl-C, or the stop event.  Between Popen and the assignment to proc it *)
(* loses the child that was just started.                                  *)
Interrupt ==
  /\ pc \notin {"off", "stopping"}
  /\ pc' = "stopping"
  /\ \/ UNCHANGED <<strays, hit>>
     \/ /\ pc \in {"start_new", "down"} /\ wait = 0 /\ strays < MaxStrays
        /\ strays' = strays + 1 /\ Strike({"early"})
  /\ UNCHANGED <<child, wait, uptime, counters, alive, operator, history>>

(* The supervisor is killed: no finally runs, and the child goes on.       *)
Lost ==
  /\ pc # "off" /\ strays < MaxStrays
  /\ pc' = "off" /\ wait' = 0
  /\ child' = "none"
  /\ strays' = IF child = "up" THEN strays + 1 ELSE strays
  /\ Strike({"lost"})
  /\ UNCHANGED <<uptime, counters, alive, operator, history>>

----------------------------------------------------------------------------
(* A child ends: a crash, HALT, or the end of its work.                    *)
ChildExits ==
  /\ \/ child = "up" /\ child' = "dead" /\ UNCHANGED strays
     \/ strays > 0 /\ strays' = strays - 1 /\ UNCHANGED child
  /\ UNCHANGED <<pc, wait, uptime, counters, alive, hit, operator, history>>

DropTrigger ==
  /\ drops < MaxDrops
  /\ drops' = drops + 1
  /\ trigger' = TRUE
  /\ age' = IF trigger THEN age ELSE 0
  /\ UNCHANGED <<pc, child, strays, wait, uptime, counters, alive, hit, history>>

(* A second passes, while supervise() is in stop.wait() or does not run.   *)
Tick ==
  /\ pc = "off" \/ (pc \in Waiting /\ wait > 0)
  /\ wait' = IF pc = "off" THEN 0 ELSE wait - 1
  /\ uptime' = IF pc # "off" THEN OneMore(uptime, Healthy) ELSE uptime
  /\ age' = IF trigger /\ pc # "off" THEN OneMore(age, AgeBound) ELSE age
  /\ UNCHANGED <<pc, child, strays, counters, trigger, alive, hit, drops, history>>

Loop ==
  \/ ClearTrigger \/ StopOld \/ StartNew \/ Beat \/ FoundDead \/ Revive \/ Stopping

Next ==
  Launch \/ Loop \/ Interrupt \/ Lost \/ ChildExits \/ DropTrigger \/ Tick

Spec == Init /\ [][Next]_vars

(* The loop runs, and time passes.                                         *)
FairSpec == Spec /\ WF_vars(Loop) /\ WF_vars(Tick)

----------------------------------------------------------------------------
TypeOK ==
  /\ pc \in Locations /\ child \in {"none", "up", "dead"}
  /\ strays \in Nat /\ wait \in (0 .. Poll) \cup (0 .. BackoffCap)
  /\ uptime \in 0 .. Healthy
  /\ failures \in 0 .. Overflow /\ restarts \in 0 .. RestartBound
  /\ trigger \in BOOLEAN /\ age \in 0 .. AgeBound /\ alive \in BOOLEAN
  /\ hit \subseteq Faults
  /\ drops \in 0 .. MaxDrops /\ fires \in Nat /\ revivals \in 0 .. RestartBound

Spared(faults) == hit \cap faults = {}

(* The supervisor is the sole lifecycle owner: no two children run at      *)
(* once, and none runs when it is gone, unless a child could not be        *)
(* stopped, was lost before it had a name, or lost its supervisor.         *)
SoleOwner ==
  Spared({"kill", "early", "lost"}) =>
    /\ strays + (IF child = "up" THEN 1 ELSE 0) <= 1
    /\ pc = "off" => child # "up"

(* A trigger restarts the child at most once: it does not survive the      *)
(* restart that it caused.                                                 *)
FiresOnce == fires + (IF trigger THEN 1 ELSE 0) <= drops

(* A trigger that can be removed is served within one backoff and one      *)
(* poll.                                                                   *)
ServedInTime == Spared({"unlink"}) => (trigger => age <= BackoffCap + Poll)

(* With a budget, a dead child is restarted at most so many times, however *)
(* the operator's restarts and healthy spells come in between.             *)
BudgetHolds == MaxRestarts # 0 => revivals <= MaxRestarts

(* The health file does not claim that a supervisor that ended is alive,   *)
(* unless it was killed, interrupted before its loop, or could not write.  *)
EndIsReported == Spared({"lost", "early", "write"}) => (pc = "off" => ~alive)

(* A child that exited is replaced, or the supervisor ends.                *)
Replaced == child = "dead" ~> child = "up" \/ pc = "off"

(* "0 means unbounded": without a budget a child that exited is always     *)
(* given another try.                                                      *)
Unbounded == [][MaxRestarts = 0 /\ FoundDead => pc' = "down"]_vars
=============================================================================
