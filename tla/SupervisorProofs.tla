-------------------------- MODULE SupervisorProofs --------------------------
(***************************************************************************)
(* Theorems of Supervisor for every backoff, budget and number of triggers *)
(* under every fault.                                                      *)
(***************************************************************************)
EXTENDS Supervisor, TLAPS

(* A trigger that was removed and has not restarted the child yet.         *)
Pending == pc \in {"stop_old", "start_new"}

FireInv ==
  /\ fires \in Int /\ drops \in Int
  /\ trigger \in BOOLEAN
  /\ fires <= drops
  /\ trigger \/ Pending => fires + 1 <= drops
  /\ trigger /\ Pending => fires + 2 <= drops

(* A trigger restarts the child at most once.                              *)
THEOREM TriggersFireOnce == Spec => []FiresOnce
<1>1. ASSUME Init PROVE FireInv
  <2>1. ~Pending /\ ~trigger /\ trigger \in BOOLEAN
    BY <1>1 DEF Init, Pending
  <2>2. fires = 0 /\ drops = 0
    BY <1>1 DEF Init
  <2>3. QED
    BY <2>1, <2>2 DEF FireInv
<1>2. FireInv /\ [Next]_vars => FireInv'
  <2> SUFFICES ASSUME FireInv, [Next]_vars PROVE FireInv'
    OBVIOUS
  <2> USE DEF FireInv, Pending, operator, counters, history
  <2>1. CASE Launch
    <3>1. pc' # "stop_old" /\ pc' # "start_new"
      BY <2>1 DEF Launch, Spawn
    <3>2. UNCHANGED <<fires, drops, trigger>>
      BY <2>1 DEF Launch
    <3>3. QED
      BY <3>1, <3>2
  <2>2. CASE ClearTrigger
    BY <2>2 DEF ClearTrigger
  <2>3. CASE StopOld
    BY <2>3 DEF StopOld
  <2>4. CASE StartNew
    <3>1. Pending /\ ~Pending' /\ UNCHANGED <<drops, trigger>>
      BY <2>4 DEF StartNew, Spawn, SpawnFails
    <3>2. fires' = fires + 1 \/ fires' = fires
      BY <2>4 DEF StartNew
    <3>3. QED
      BY <3>1, <3>2
  <2>5. CASE Beat \/ FoundDead
    <3>1. ~Pending' /\ UNCHANGED <<fires, drops, trigger>>
      BY <2>5 DEF Beat, FoundDead
    <3>2. QED
      BY <3>1
  <2>6. CASE Revive \/ Stopping
    <3>1. ~Pending' /\ UNCHANGED <<fires, drops, trigger>>
      BY <2>6 DEF Revive, Stopping, Spawn, SpawnFails
    <3>2. QED
      BY <3>1
  <2>7. CASE Interrupt \/ Lost
    BY <2>7 DEF Interrupt, Lost
  <2>8. CASE ChildExits
    BY <2>8 DEF ChildExits
  <2>9. CASE DropTrigger
    BY <2>9 DEF DropTrigger
  <2>10. CASE Tick
    BY <2>10 DEF Tick
  <2>11. CASE UNCHANGED vars
    BY <2>11 DEF vars
  <2>12. QED
    BY <2>1, <2>2, <2>3, <2>4, <2>5, <2>6, <2>7, <2>8, <2>9, <2>10, <2>11
    DEF Next, Loop
<1>3. FireInv => FiresOnce
  BY DEF FireInv, Pending, FiresOnce
<1>4. QED
  BY <1>1, <1>2, <1>3, PTL DEF Spec

-----------------------------------------------------------------------------
(* Every revival was counted as a restart before it happened.              *)
BudgetInv ==
  /\ revivals \in Nat /\ restarts \in Nat
  /\ revivals <= restarts /\ revivals <= MaxRestarts
  /\ pc = "down" => revivals < restarts /\ restarts <= MaxRestarts

(* The budget bounds the revivals of each run of the supervisor.           *)
THEOREM BudgetIsKept == Spec => []BudgetHolds
<1>1. ASSUME MaxRestarts # 0, Init PROVE BudgetInv
  BY <1>1, SupervisorAssumption DEF Init, BudgetInv
<1>2. ASSUME MaxRestarts # 0, BudgetInv, [Next]_vars PROVE BudgetInv'
  <2>0. MaxRestarts \in Nat
    BY SupervisorAssumption
  <2> USE <1>2, <2>0 DEF BudgetInv, operator, counters, history, OneMore, RestartBound
  <2>1. CASE Launch
    <3>1. pc' # "down" /\ revivals' = 0 /\ restarts' = 0
      BY <2>1 DEF Launch, Spawn
    <3>2. QED
      BY <3>1
  <2>2. CASE FoundDead
    <3>1. pc = "poll" /\ revivals' = revivals /\ restarts' = OneMore(restarts, RestartBound)
      BY <2>2 DEF FoundDead
    <3>2. pc' = "down" => ~(restarts' > MaxRestarts)
      BY <2>2 DEF FoundDead, Exhausted
    <3>3. /\ restarts' \in Nat /\ revivals <= restarts'
          /\ restarts' <= MaxRestarts => revivals < restarts'
      BY <3>1
    <3>4. QED
      BY <3>1, <3>2, <3>3
  <2>3. CASE Revive \/ StartNew
    <3>1. pc' \in {"poll", "stopping"}
      BY <2>3 DEF Revive, StartNew, Spawn, SpawnFails
    <3>2. CASE Revive
      <4>1. pc = "down" /\ restarts' = restarts
        BY <3>2 DEF Revive
      <4>2. revivals' = OneMore(revivals, RestartBound) \/ revivals' = revivals
        BY <3>2 DEF Revive
      <4>3. QED
        BY <3>1, <4>1, <4>2
    <3>3. CASE StartNew
      <4>1. restarts' = OneMore(restarts, RestartBound) \/ restarts' = restarts
        BY <3>3 DEF StartNew
      <4>2. revivals' = revivals
        BY <3>3 DEF StartNew
      <4>3. QED
        BY <3>1, <4>1, <4>2
    <3>4. QED
      BY <2>3, <3>2, <3>3
  <2>4. CASE ClearTrigger \/ StopOld \/ Beat \/ Stopping
    <3>1. pc' # "down" /\ UNCHANGED <<restarts, revivals>>
      BY <2>4 DEF ClearTrigger, StopOld, Beat, Stopping
    <3>2. QED
      BY <3>1
  <2>5. CASE Interrupt \/ Lost
    BY <2>5 DEF Interrupt, Lost
  <2>6. CASE ChildExits \/ DropTrigger \/ Tick \/ UNCHANGED vars
    BY <2>6 DEF ChildExits, DropTrigger, Tick, vars
  <2>7. QED
    BY <2>1, <2>2, <2>3, <2>4, <2>5, <2>6 DEF Next, Loop
<1>3. BudgetInv => BudgetHolds
  BY DEF BudgetInv, BudgetHolds
<1>4. CASE MaxRestarts # 0
  BY <1>1, <1>2, <1>3, <1>4, PTL DEF Spec
<1>5. CASE MaxRestarts = 0
  <2>1. BudgetHolds
    BY <1>5 DEF BudgetHolds
  <2>2. QED
    BY <2>1, PTL
<1>6. QED
  BY <1>4, <1>5

-----------------------------------------------------------------------------
(* Where the child that proc names stands, step by step.                   *)
OwnerInv ==
  Spared({"kill", "early", "lost"}) =>
    /\ strays = 0
    /\ pc = "off" => child = "none"
    /\ pc \in {"start_new", "down"} => child # "up"

(* What has struck stays in hit.                                           *)
LEMMA SparedBefore ==
  ASSUME NEW faults, NEW broken, hit' = hit \cup broken, Spared(faults)'
  PROVE  Spared(faults) /\ broken \cap faults = {}
BY DEF Spared

(* While nothing strikes, what was spared is.                              *)
LEMMA SparedSame ==
  ASSUME NEW faults, UNCHANGED hit, Spared(faults)' PROVE Spared(faults)
BY DEF Spared

(* While children can be stopped, none is lost before it has a name and no *)
(* supervisor is killed, no two children run at once and none outlives its *)
(* supervisor.                                                             *)
THEOREM OneOwner == Spec => []SoleOwner
<1> DEFINE Bad == {"kill", "early", "lost"}
<1>1. Init => OwnerInv
  BY DEF Init, OwnerInv
<1>2. OwnerInv /\ [Next]_vars => OwnerInv'
  <2> SUFFICES ASSUME OwnerInv, [Next]_vars, Spared(Bad)' PROVE OwnerInv'
    BY DEF OwnerInv, Spared
  <2> USE DEF operator, counters, history
  <2>0. Spared(Bad) => OwnerInv!2
    BY DEF OwnerInv
  <2>1. CASE Launch
    <3>1. CASE Spawn
      <4>1. PICK broken : Strike(broken)
        BY <3>1 DEF Spawn
      <4>2. Spared(Bad)
        BY <4>1, SparedBefore DEF Strike
      <4>3. QED
        BY <2>0, <2>1, <3>1, <4>2 DEF Launch, Spawn, OwnerInv
    <3>2. CASE UNCHANGED <<pc, child, strays, wait, uptime, alive, hit>>
      BY <3>2, SparedSame DEF OwnerInv
    <3>3. CASE Strike({"early"})
      BY <3>3, SparedBefore DEF Strike
    <3>4. QED
      BY <2>1, <3>1, <3>2, <3>3 DEF Launch
  <2>2. CASE ClearTrigger
    BY <2>2, SparedSame DEF ClearTrigger, OwnerInv
  <2>3. CASE StopOld
    <3>1. CASE Strike({"kill"})
      BY <3>1, SparedBefore DEF Strike
    <3>2. CASE child' = "dead" /\ UNCHANGED hit
      BY <2>3, <3>2, SparedSame DEF StopOld, OwnerInv
    <3>3. QED
      BY <2>3, <3>1, <3>2 DEF StopOld
  <2>4. CASE StartNew \/ Revive
    <3>0. pc \in {"start_new", "down"}
      BY <2>4 DEF StartNew, Revive
    <3>1. CASE Spawn
      <4>1. PICK broken : Strike(broken)
        BY <3>1 DEF Spawn
      <4>2. Spared(Bad)
        BY <4>1, SparedBefore DEF Strike
      <4>3. QED
        BY <2>0, <3>0, <3>1, <4>2 DEF Spawn, OwnerInv
    <3>2. CASE SpawnFails
      BY <3>2, SparedSame DEF SpawnFails, OwnerInv
    <3>3. QED
      BY <2>4, <3>1, <3>2 DEF StartNew, Revive
  <2>5. CASE Beat \/ FoundDead
    <3>1. PICK broken : Strike(broken)
      BY <2>5 DEF Beat, FoundDead
    <3>2. Spared(Bad)
      BY <3>1, SparedBefore DEF Strike
    <3>3. UNCHANGED <<child, strays>> /\ pc' # "off" /\ pc' # "start_new"
      BY <2>5 DEF Beat, FoundDead
    <3>4. pc' = "down" => child # "up"
      BY <2>5 DEF Beat, FoundDead
    <3>5. QED
      BY <2>0, <3>2, <3>3, <3>4 DEF OwnerInv
  <2>6. CASE Stopping
    <3>1. PICK broken \in SUBSET {"kill", "write"} :
            /\ Strike(broken)
            /\ "kill" \notin broken => strays' = strays
      BY <2>6 DEF Stopping
    <3>2. Spared(Bad) /\ "kill" \notin broken
      BY <3>1, SparedBefore DEF Strike
    <3>3. child' = "none"
      BY <2>6 DEF Stopping
    <3>4. QED
      BY <2>0, <3>1, <3>2, <3>3 DEF OwnerInv
  <2>7. CASE Interrupt
    <3>1. CASE Strike({"early"})
      BY <3>1, SparedBefore DEF Strike
    <3>2. CASE UNCHANGED <<strays, hit>>
      BY <2>7, <3>2, SparedSame DEF Interrupt, OwnerInv
    <3>3. QED
      BY <2>7, <3>1, <3>2 DEF Interrupt
  <2>8. CASE Lost
    BY <2>8, SparedBefore DEF Lost, Strike
  <2>9. CASE ChildExits
    BY <2>9, SparedSame DEF ChildExits, OwnerInv
  <2>10. CASE DropTrigger \/ Tick \/ UNCHANGED vars
    <3>1. UNCHANGED <<pc, child, strays, hit>>
      BY <2>10 DEF DropTrigger, Tick, vars
    <3>2. QED
      BY <3>1, SparedSame DEF OwnerInv
  <2>11. QED
    BY <2>1, <2>2, <2>3, <2>4, <2>5, <2>6, <2>7, <2>8, <2>9, <2>10
    DEF Next, Loop
<1>3. OwnerInv => SoleOwner
  BY DEF OwnerInv, SoleOwner
<1>4. QED
  BY <1>1, <1>2, <1>3, PTL DEF Spec

-----------------------------------------------------------------------------
(* Only a supervisor that was killed, interrupted before its loop, or that *)
(* cannot write leaves a heartbeat that says it is alive.                  *)
THEOREM TheEndIsTold == Spec => []EndIsReported
<1> DEFINE Bad == {"lost", "early", "write"}
<1>1. Init => EndIsReported
  BY DEF Init, EndIsReported
<1>2. EndIsReported /\ [Next]_vars => EndIsReported'
  <2> SUFFICES ASSUME EndIsReported, [Next]_vars, Spared(Bad)', pc' = "off"
               PROVE  ~alive'
    BY DEF EndIsReported
  <2> USE DEF operator, counters, history
  <2>0. Spared(Bad) => (pc = "off" => ~alive)
    BY DEF EndIsReported
  <2>1. CASE Launch
    <3>1. CASE UNCHANGED <<pc, child, strays, wait, uptime, alive, hit>>
      BY <2>0, <2>1, <3>1, SparedSame DEF Launch
    <3>2. CASE Strike({"early"})
      BY <3>2, SparedBefore DEF Strike
    <3>3. CASE Spawn
      BY <3>3 DEF Spawn
    <3>4. QED
      BY <2>1, <3>1, <3>2, <3>3 DEF Launch
  <2>2. CASE Stopping
    <3>1. PICK broken : Heartbeat(FALSE, broken) /\ Strike(broken)
      BY <2>2 DEF Stopping
    <3>2. "write" \notin broken
      BY <3>1, SparedBefore DEF Strike
    <3>3. QED
      BY <3>1, <3>2 DEF Heartbeat
  <2>3. CASE Lost
    BY <2>3, SparedBefore DEF Lost, Strike
  <2>4. CASE ChildExits \/ DropTrigger \/ Tick \/ UNCHANGED vars
    <3>1. UNCHANGED <<pc, alive, hit>>
      BY <2>4 DEF ChildExits, DropTrigger, Tick, vars
    <3>2. QED
      BY <2>0, <3>1, SparedSame
  <2>5. CASE ClearTrigger \/ StopOld \/ StartNew \/ Beat \/ FoundDead \/ Revive
    BY <2>5 DEF ClearTrigger, StopOld, StartNew, Beat, FoundDead, Revive,
               Spawn, SpawnFails
  <2>6. CASE Interrupt
    BY <2>6 DEF Interrupt
  <2>7. QED
    BY <2>1, <2>2, <2>3, <2>4, <2>5, <2>6 DEF Next, Loop
<1>3. QED
  BY <1>1, <1>2, PTL DEF Spec

-----------------------------------------------------------------------------
(* How long a trigger may have been there, and what is left of the wait.   *)
Waits ==
  /\ wait \in Int /\ age \in Int
  /\ pc = "poll" => wait <= Poll
  /\ pc = "down" => wait <= BackoffCap

Timely ==
  Spared({"unlink"}) /\ trigger =>
    /\ age <= BackoffCap + Poll
    /\ pc = "poll" => age + wait <= BackoffCap + Poll
    /\ pc = "down" => age + wait <= BackoffCap
    /\ pc \in {"stop_old", "start_new"} => age = 0

(* The constants are numbers, and the bound of the ages is above both.     *)
LEMMA Bounds ==
  /\ Poll \in Nat \ {0} /\ BackoffCap \in Nat \ {0} /\ AgeBound \in Nat
  /\ AgeBound = BackoffCap + Poll + 1
BY SupervisorAssumption DEF AgeBound

(* No delay is longer than the cap.                                        *)
LEMMA DelayIsBounded ==
  ASSUME NEW n \in Int PROVE Delay(n) \in Int /\ Delay(n) <= BackoffCap
<1>1. CASE n <= 0
  BY <1>1, Bounds DEF Delay
<1>2. CASE n > 0
  <2>1. n - 1 \in Nat
    BY <1>2
  <2>2. 2 ^ (n - 1) \in Int
    BY <2>1
  <2>3. QED
    BY <1>2, <2>2, Bounds DEF Delay
<1>3. QED
  BY <1>1, <1>2

(* The failures are a number.                                              *)
LEMMA FailuresAreCounted == Spec => [](failures \in Nat)
<1>1. Init => failures \in Nat
  BY DEF Init
<1>2. failures \in Nat /\ [Next]_vars => (failures \in Nat)'
  <2> SUFFICES ASSUME failures \in Nat, [Next]_vars PROVE failures' \in Nat
    OBVIOUS
  <2>1. CASE Launch \/ StartNew
    <3>1. failures' = 0 \/ UNCHANGED counters
      BY <2>1, Zenon DEF Launch, StartNew
    <3>2. QED
      BY <3>1 DEF counters
  <2>2. CASE FoundDead
    <3>1. failures' = (IF uptime >= Healthy THEN 0 ELSE failures) + 1
      BY <2>2, Zenon DEF FoundDead
    <3>2. CASE uptime >= Healthy
      BY <3>1, <3>2
    <3>3. CASE ~(uptime >= Healthy)
      BY <3>1, <3>3
    <3>4. QED
      BY <3>2, <3>3
  <2>3. CASE ClearTrigger \/ StopOld \/ Beat \/ Revive \/ Stopping
    BY <2>3 DEF ClearTrigger, StopOld, Beat, Revive, Stopping, counters
  <2>4. CASE Interrupt \/ Lost
    BY <2>4 DEF Interrupt, Lost, counters
  <2>5. CASE ChildExits \/ DropTrigger \/ Tick \/ UNCHANGED vars
    BY <2>5 DEF ChildExits, DropTrigger, Tick, vars, counters
  <2>6. QED
    BY <2>1, <2>2, <2>3, <2>4, <2>5 DEF Next, Loop
<1>3. QED
  BY <1>1, <1>2, PTL DEF Spec

(* Every step keeps what a supervisor waits within bounds.                 *)
LEMMA WaitsKept ==
  ASSUME Waits, failures \in Nat, [Next]_vars PROVE Waits'
<1> USE Bounds DEF Waits
<1>1. CASE Launch \/ StartNew \/ Revive
  <2>1. age' \in Int
    <3>1. Launch => age' = 0
      BY DEF Launch
    <3>2. StartNew \/ Revive => age' = age
      BY DEF StartNew, Revive, operator
    <3>3. QED
      BY <1>1, <3>1, <3>2
  <2>2. CASE Spawn
    BY <2>1, <2>2 DEF Spawn
  <2>3. CASE SpawnFails
    BY <2>1, <2>3 DEF SpawnFails
  <2>4. CASE Launch /\ UNCHANGED <<pc, wait>>
    BY <2>1, <2>4
  <2>5. QED
    BY <1>1, <2>2, <2>3, <2>4 DEF Launch, StartNew, Revive
<1>2. CASE FoundDead
  <2>1. failures' \in Int
    BY <1>2 DEF FoundDead
  <2>2. Delay(failures') \in Int /\ Delay(failures') <= BackoffCap
    BY <2>1, DelayIsBounded
  <2>3. /\ pc' # "poll" /\ age' = age
        /\ \/ pc' # "down" /\ wait' = wait
           \/ wait' = Delay(failures')
    BY <1>2 DEF FoundDead, operator
  <2>4. QED
    BY <2>2, <2>3
<1>3. CASE ClearTrigger \/ StopOld \/ Interrupt
  BY <1>3 DEF ClearTrigger, StopOld, Interrupt, operator
<1>4. CASE Beat \/ Stopping \/ Lost
  <2>1. age' = age /\ (pc' = "poll" \/ pc' = "off") /\ (wait' = Poll \/ wait' = 0)
    BY <1>4 DEF Beat, Stopping, Lost, operator
  <2>2. QED
    BY <2>1
<1>5. CASE Tick
  BY <1>5 DEF Tick, OneMore
<1>6. CASE ChildExits \/ DropTrigger \/ UNCHANGED vars
  BY <1>6 DEF ChildExits, DropTrigger, vars, operator
<1>7. QED
  BY <1>1, <1>2, <1>3, <1>4, <1>5, <1>6 DEF Next, Loop

(* A second brings a trigger no nearer to its bound.                       *)
LEMMA OneSecond ==
  ASSUME NEW a \in Int, NEW b \in Int, NEW w \in Int, NEW bound \in Int,
         b <= a + 1, w > 0, a + w <= bound
  PROVE  b + (w - 1) <= bound /\ b <= bound
OBVIOUS

(* Every step keeps a request within a poll and the longest delay.         *)
LEMMA TimelyKept ==
  ASSUME Waits, Timely, [Next]_vars PROVE Timely'
<1> DEFINE Bad == {"unlink"}
<1> SUFFICES ASSUME Spared(Bad)', trigger' PROVE Timely!2'
  BY DEF Timely
<1> USE Bounds DEF Waits, operator
<1>0. Spared(Bad) /\ trigger => Timely!2
  BY DEF Timely
<1>1. CASE Launch
  <2>1. age' = 0
    BY <1>1 DEF Launch
  <2>2. CASE Spawn
    BY <2>1, <2>2 DEF Spawn
  <2>3. CASE pc' = "off"
    BY <2>1, <2>3
  <2>4. QED
    BY <1>1, <2>2, <2>3 DEF Launch
<1>2. CASE StartNew \/ Revive
  <2>1. UNCHANGED <<trigger, age>>
    BY <1>2 DEF StartNew, Revive
  <2>2. CASE Spawn
    <3>1. PICK broken : Strike(broken)
      BY <2>2 DEF Spawn
    <3>2. Spared(Bad)
      BY <3>1, SparedBefore DEF Strike
    <3>3. Timely!2
      BY <1>0, <2>1, <3>2
    <3>4. pc = "start_new" \/ (pc = "down" /\ wait = 0)
      BY <1>2 DEF StartNew, Revive
    <3>5. age <= BackoffCap
      BY <3>3, <3>4
    <3>6. age' = age /\ pc' = "poll" /\ wait' = Poll
      BY <2>1, <2>2 DEF Spawn
    <3>7. QED
      BY <3>5, <3>6
  <2>3. CASE SpawnFails
    BY <1>0, <2>1, <2>3, SparedSame DEF SpawnFails
  <2>4. QED
    BY <1>2, <2>2, <2>3 DEF StartNew, Revive
<1>3. CASE Beat \/ FoundDead
  <2>1. PICK broken : NoTrigger(broken) /\ Strike(broken)
    BY <1>3 DEF Beat, FoundDead
  <2>2. "unlink" \notin broken
    BY <2>1, SparedBefore DEF Strike
  <2>3. ~trigger
    BY <2>1, <2>2 DEF NoTrigger
  <2>4. QED
    BY <1>3, <2>3 DEF Beat, FoundDead
<1>4. CASE ClearTrigger
  BY <1>4 DEF ClearTrigger
<1>5. CASE StopOld \/ Stopping \/ Interrupt \/ Lost
  <2>1. UNCHANGED <<trigger, age>>
    BY <1>5 DEF StopOld, Stopping, Interrupt, Lost
  <2>2. \/ pc' \in {"stopping", "off"}
        \/ pc = "stop_old" /\ pc' = "start_new"
    BY <1>5 DEF StopOld, Stopping, Interrupt, Lost
  <2>3. UNCHANGED hit \/ \E broken : Strike(broken)
    BY <1>5 DEF StopOld, Stopping, Interrupt, Lost
  <2>4. Spared(Bad)
    BY <2>3, SparedBefore, SparedSame DEF Strike
  <2>5. QED
    BY <1>0, <2>1, <2>2, <2>4
<1>6. CASE Tick
  <2>1. UNCHANGED <<pc, trigger, hit>>
    BY <1>6 DEF Tick
  <2>2. Timely!2
    BY <1>0, <2>1, SparedSame
  <2>3. CASE pc = "off"
    BY <1>6, <2>1, <2>2, <2>3 DEF Tick
  <2>4. CASE pc # "off"
    <3>1. pc \in Waiting /\ wait > 0 /\ wait' = wait - 1
      BY <1>6, <2>4 DEF Tick
    <3>2. age' <= age + 1
      BY <1>6, <2>4 DEF Tick, OneMore
    <3>3. age' \in Int
      BY <1>6 DEF Tick, OneMore
    <3>4. CASE pc = "poll"
      <4>1. age + wait <= BackoffCap + Poll
        BY <2>2, <3>4
      <4>2. age \in Int /\ wait \in Int /\ BackoffCap + Poll \in Int /\ wait > 0
        BY <3>1
      <4>3. age' + (wait - 1) <= BackoffCap + Poll /\ age' <= BackoffCap + Poll
        BY <3>2, <3>3, <4>1, <4>2, OneSecond, Zenon
      <4>4. age' + wait' <= BackoffCap + Poll /\ pc' = "poll"
        BY <2>1, <3>1, <3>4, <4>3
      <4>5. QED
        BY <4>3, <4>4, Zenon
    <3>5. CASE pc = "down"
      <4>1. age + wait <= BackoffCap
        BY <2>2, <3>5
      <4>2. age \in Int /\ wait \in Int /\ BackoffCap \in Int /\ wait > 0
        BY <3>1
      <4>3. age' + (wait - 1) <= BackoffCap /\ age' <= BackoffCap
        BY <3>2, <3>3, <4>1, <4>2, OneSecond, Zenon
      <4>4. age' + wait' <= BackoffCap /\ pc' = "down"
        BY <2>1, <3>1, <3>5, <4>3
      <4>5. age' <= BackoffCap + Poll
        BY <3>3, <4>3
      <4>6. QED
        BY <4>4, <4>5, Zenon
    <3>6. QED
      BY <3>1, <3>4, <3>5 DEF Waiting
  <2>5. QED
    BY <2>3, <2>4
<1>7. CASE DropTrigger
  <2>1. UNCHANGED <<pc, wait, hit>>
    BY <1>7 DEF DropTrigger
  <2>2. CASE trigger
    BY <1>0, <1>7, <2>1, <2>2, SparedSame DEF DropTrigger
  <2>3. CASE ~trigger
    <3>1. age' = 0
      BY <1>7, <2>3 DEF DropTrigger
    <3>2. QED
      BY <2>1, <3>1
  <2>4. QED
    BY <2>2, <2>3
<1>8. CASE ChildExits \/ UNCHANGED vars
  <2>1. UNCHANGED <<pc, wait, hit, trigger, age>>
    BY <1>8 DEF ChildExits, vars
  <2>2. QED
    BY <1>0, <2>1, SparedSame
<1>9. QED
  BY <1>1, <1>2, <1>3, <1>4, <1>5, <1>6, <1>7, <1>8 DEF Next, Loop

(* A trigger that can be removed is served within one backoff and one poll,*)
(* for every poll, cap and budget.                                         *)
THEOREM TriggersAreServed == Spec => []ServedInTime
<1>1. Init => Waits /\ Timely
  BY Bounds DEF Init, Waits, Timely
<1>2. Waits /\ Timely /\ failures \in Nat /\ [Next]_vars => Waits' /\ Timely'
  BY WaitsKept, TimelyKept
<1>3. Timely => ServedInTime
  BY DEF Timely, ServedInTime
<1>4. QED
  BY <1>1, <1>2, <1>3, FailuresAreCounted, PTL DEF Spec
=============================================================================
