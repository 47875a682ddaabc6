------------------------------- MODULE Planner -------------------------------
(***************************************************************************)
(* How headless/jobs.py plans an account (_solve_goal_paths): build the    *)
(* graph of all objectives, take every node that nothing depends on as a   *)
(* goal, resolve each goal into its path and give each path a day plan.    *)
(*                                                                         *)
(* A caller's costs, gates and income are drawn when the graph is built:   *)
(* nothing reads them before.  A caller of unmet_prerequisites asks the    *)
(* same graph instead of planning.                                         *)
(***************************************************************************)
EXTENDS Objectives, Scheduler, FiniteSetsExt

CONSTANTS
  Kinds,   \* what a node may cost and when it may run
  Rates,   \* resin_per_day
  Hands    \* resin_on_hand

ASSUME PlannerAssumption ==
  /\ Nodes = Ids
  /\ Kinds \subseteq [cost : Nat, weekdays : SUBSET Weekdays, weekly : BOOLEAN]
  /\ Rates \subseteq Nat /\ Hands \subseteq Nat

VARIABLES
  drawn,   \* whether the caller wants a plan
  plans    \* what plan() returned for each goal planned so far

vars == <<graphVars, solveVars, drawn, plans>>

Leaves == {n \in index : Dependents(n) = {}}

Unplanned == Leaves \ DOMAIN plans

Init == GraphInit /\ SolveInit /\ drawn = FALSE /\ plans = <<>>

\* build_graph, which every later call repeats with the same result.
Build ==
  /\ RefuseIds \/ Sorting \/ Searching
  /\ UNCHANGED <<solveVars, drawn, plans>>

Inquire ==
  /\ phase = "ordered" /\ ~drawn
  /\ Question
  /\ UNCHANGED <<solveVars, drawn, plans>>

Draw ==
  /\ phase = "ordered" /\ ~drawn
  /\ drawn' = TRUE
  /\ \E kind \in [index -> Kinds] :
       /\ cost' = [n \in Nodes |-> IF n \in index THEN kind[n].cost ELSE 0]
       /\ weekdays' = [n \in Nodes |->
                         IF n \in index THEN kind[n].weekdays ELSE {}]
       /\ weekly' = [n \in Nodes |-> n \in index /\ kind[n].weekly]
  /\ rate' \in Rates /\ onHand' \in Hands /\ start' \in Weekdays
  /\ UNCHANGED <<graphVars, request, run, plans>>

\* critical_path of the next leaf.
TakeGoal ==
  /\ drawn /\ status = "idle" /\ Unplanned # {}
  /\ phase = "answered" => goal \in DOMAIN plans
  /\ Ask(Least(Unplanned), {})
  /\ UNCHANGED <<solveVars, drawn, plans>>

Close == Closing /\ UNCHANGED <<solveVars, drawn, plans>>

Totals(p) == [i \in 0..Len(p) |-> MapThenSumSet(LAMBDA j : cost[p[j]], 1..i)]

StartPlan ==
  /\ drawn /\ phase = "answered" /\ status = "idle" /\ goal \in Unplanned
  /\ Begin(CriticalPath, Totals(CriticalPath))
  /\ UNCHANGED <<graphVars, drawn, plans>>

DayPlan == Solve /\ UNCHANGED <<graphVars, drawn, plans>>

\* The finished plan joins the result, and the solver's locals are gone.
Collect ==
  /\ Over
  /\ plans' = [g \in DOMAIN plans \union {goal} |->
                 IF g = goal
                 THEN [tasks |-> [n \in {path[i] : i \in DOMAIN days} |->
                         days[CHOOSE i \in DOMAIN days : path[i] = n]],
                       blocked |-> BlockedOn, days |-> EstimatedDays]
                 ELSE plans[g]]
  /\ path' = <<>> /\ total' = [i \in 0..0 |-> 0]
  /\ status' = "idle" /\ days' = <<>> /\ day' = 0 /\ spent' = 0
  /\ iterations' = 0 /\ exhausted' = FALSE
  /\ UNCHANGED <<graphVars, income, menu, drawn>>

Planned == drawn /\ status = "idle" /\ Unplanned = {}
Ended ==
  \/ phase \in Refusals
  \/ phase = "answered" /\ ~drawn
  \/ Planned /\ phase # "closing"

Next ==
  \/ Build \/ Inquire \/ Draw \/ TakeGoal \/ Close \/ StartPlan
  \/ DayPlan \/ Collect

Spec == Init /\ [][Next]_vars
FairSpec == Spec /\ WF_vars(Next)

-----------------------------------------------------------------------------
(* Properties. *)

TypeOK == GraphTypeOK /\ SolveTypeOK /\ DOMAIN plans \subseteq Leaves

\* When the job is done every objective is accounted for by the plan of some
\* goal, as a task or as blocked; in each plan a task comes no earlier than
\* those it depends on, and what depends on a blocked node is blocked.
EveryObjectivePlanned ==
  Planned =>
    /\ index = UNION {DOMAIN plans[g].tasks \union plans[g].blocked :
                        g \in DOMAIN plans}
    /\ \A g \in DOMAIN plans :
         LET tasks == plans[g].tasks IN
           /\ g \in DOMAIN tasks => tasks[g] + 1 = plans[g].days
           /\ \A n \in DOMAIN tasks : \A m \in dependsOn[n] :
                m \in DOMAIN tasks /\ tasks[m] =< tasks[n]

\* The call returns, whatever the graph and the constraints: "unreachable is
\* a result, not a hang" (engines/scheduler.py), and no search for a cycle
\* comes back empty-handed.
Ends == <>Ended
=============================================================================
