------------------------------ MODULE Scheduler ------------------------------
(***************************************************************************)
(* The greedy day plan of engines/scheduler.py: solve() walks an ordered   *)
(* path and places each node on the first day, never before its            *)
(* predecessor, on which its weekday, the resin and the weekly slots allow *)
(* it; the first node that finds none blocks the rest.                     *)
(***************************************************************************)
EXTENDS Integers, Sequences, FiniteSets

CONSTANTS
  Nodes,          \* node ids
  DaysPerWeek,    \* DAYS_PER_WEEK
  WeeklyWindow,   \* WEEKLY_WINDOW_DAYS
  Horizon,        \* horizon_days
  WeeklySlots,    \* weekly_slots_per_window
  MaxIterations   \* MAX_SCHEDULE_ITERATIONS

ASSUME SchedulerAssumption ==
  /\ DaysPerWeek \in Nat \ {0} /\ WeeklyWindow \in Nat \ {0}
  /\ Horizon \in Nat /\ WeeklySlots \in Nat \ {0} /\ MaxIterations \in Nat

VARIABLES
  path,        \* ordered_nodes of the path
  cost,        \* resin_cost of each node
  weekdays,    \* available_weekdays of each node; empty is any day
  weekly,      \* weekly_capped of each node
  rate,        \* resin_per_day
  onHand,      \* resin_on_hand
  start,       \* start_weekday
  total,       \* ghost: what the first i nodes of the path cost together
  status,      \* "idle", "solving", or how the solve ended
  days,        \* the day of each task placed so far, in path order
  day,         \* day, and cursor between two nodes
  spent,       \* spent
  iterations,  \* iterations
  exhausted    \* exhausted

income == <<rate, onHand, start>>
menu == <<cost, weekdays, weekly>>
request == <<path, total>>
run == <<status, days, day, spent, iterations, exhausted>>
solveVars == <<income, menu, request, run>>

Statuses == {"idle", "solving", "planned", "blocked"}
Weekdays == 0..(DaysPerWeek - 1)

SolveInit ==
  /\ path = <<>> /\ total = [i \in 0..0 |-> 0]
  /\ cost = [n \in Nodes |-> 0] /\ weekdays = [n \in Nodes |-> {}]
  /\ weekly = [n \in Nodes |-> FALSE]
  /\ rate = 0 /\ onHand = 0 /\ start = 0
  /\ status = "idle" /\ days = <<>> /\ day = 0 /\ spent = 0
  /\ iterations = 0 /\ exhausted = FALSE

Candidate == path[Len(days) + 1]   \* the node that is being placed

Ceiling ==
  LET bound == (Horizon + 1) * (Len(path) + 1) + DaysPerWeek
  IN IF bound < MaxIterations THEN bound ELSE MaxIterations

-----------------------------------------------------------------------------
(* What lets a node run on a day, after the first k nodes ran on days s. *)

OpensOn(n, d) == weekdays[n] = {} \/ (start + d) % DaysPerWeek \in weekdays[n]

Affordable(d) == cost[Candidate] =< onHand + rate * d - spent

InWindow(s, k, d) == {i \in 1..k : weekly[path[i]] /\ d - s[i] < WeeklyWindow}

SlotFree(s, k, d) ==
  weekly[path[k + 1]] =>
    /\ \A i \in 1..k : path[i] = path[k + 1] => d - s[i] >= WeeklyWindow
    /\ Cardinality(InWindow(s, k, d)) < WeeklySlots

-----------------------------------------------------------------------------
(* One action per way through the loop over days. *)

\* A path of known nodes (else UnknownScheduleNodeError); t is what the ghost
\* total stands for, the running sum of p's costs.
SumsUp(p, t) ==
  /\ p \in Seq(Nodes)
  /\ DOMAIN t = 0..Len(p) /\ t[0] = 0
  /\ \A i \in 1..Len(p) : t[i] \in Nat /\ t[i] = t[i - 1] + cost[p[i]]

Begin(p, t) ==
  /\ status # "solving" /\ SumsUp(p, t)
  /\ path' = p /\ total' = t
  /\ status' = "solving" /\ days' = <<>> /\ day' = 0 /\ spent' = 0
  /\ iterations' = 0 /\ exhausted' = FALSE
  /\ UNCHANGED <<income, menu>>

Unplaced == status = "solving" /\ Len(days) < Len(path)
Probing == Unplaced /\ day =< Horizon /\ iterations < Ceiling

\* The iteration ceiling ends the search.
GiveUp ==
  /\ Unplaced /\ day =< Horizon /\ iterations >= Ceiling
  /\ iterations' = iterations + 1 /\ exhausted' = TRUE
  /\ status' = "blocked"
  /\ UNCHANGED <<income, menu, request, days, day, spent>>

\* No day within the horizon is left.
OffHorizon ==
  /\ Unplaced /\ day > Horizon
  /\ status' = "blocked"
  /\ UNCHANGED <<income, menu, request, days, day, spent, iterations, exhausted>>

(* Mutant of Hopeless: resin that will come is not waited for.             *)
Hopeless_Always ==
  /\ Probing /\ OpensOn(Candidate, day) /\ ~Affordable(day)
  /\ iterations' = iterations + 1 /\ status' = "blocked"
  /\ UNCHANGED <<income, menu, request, days, day, spent, exhausted>>

\* Too poor, and no resin will ever come.
Hopeless ==
  /\ Probing /\ OpensOn(Candidate, day) /\ ~Affordable(day) /\ rate = 0
  /\ iterations' = iterations + 1 /\ status' = "blocked"
  /\ UNCHANGED <<income, menu, request, days, day, spent, exhausted>>

NextDay ==
  /\ Probing
  /\ \/ ~OpensOn(Candidate, day)
     \/ OpensOn(Candidate, day) /\ ~Affordable(day) /\ rate # 0
     \/ /\ OpensOn(Candidate, day) /\ Affordable(day)
        /\ ~SlotFree(days, Len(days), day)
  /\ iterations' = iterations + 1 /\ day' = day + 1
  /\ UNCHANGED <<income, menu, request, status, days, spent, exhausted>>

(* Mutant of Place: the task costs nothing.                                *)
Place_Free ==
  /\ Probing /\ OpensOn(Candidate, day) /\ Affordable(day)
  /\ SlotFree(days, Len(days), day)
  /\ iterations' = iterations + 1
  /\ days' = Append(days, day)
  /\ UNCHANGED <<income, menu, request, status, day, spent, exhausted>>

Place ==
  /\ Probing /\ OpensOn(Candidate, day) /\ Affordable(day)
  /\ SlotFree(days, Len(days), day)
  /\ iterations' = iterations + 1
  /\ days' = Append(days, day) /\ spent' = spent + cost[Candidate]
  /\ UNCHANGED <<income, menu, request, status, day, exhausted>>

Finish ==
  /\ status = "solving" /\ Len(days) = Len(path)
  /\ status' = "planned"
  /\ UNCHANGED <<income, menu, request, days, day, spent, iterations, exhausted>>

\* blocked_on: the tail behind the node that could not be placed.
BlockedOn == {path[i] : i \in (Len(days) + 1)..Len(path)}

\* horizon, which plan() reports as estimated_days.
EstimatedDays ==
  IF status = "blocked" THEN Horizon
  ELSE IF days = <<>> THEN 0 ELSE days[Len(days)] + 1

Solve == GiveUp \/ OffHorizon \/ Hopeless \/ NextDay \/ Place \/ Finish

-----------------------------------------------------------------------------
(* Properties. *)

SolveTypeOK ==
  /\ path \in Seq(Nodes)
  /\ cost \in [Nodes -> Nat] /\ weekdays \in [Nodes -> SUBSET Weekdays]
  /\ weekly \in [Nodes -> BOOLEAN]
  /\ rate \in Nat /\ onHand \in Nat /\ start \in Weekdays
  /\ status \in Statuses /\ exhausted \in BOOLEAN
  /\ days \in Seq(0..Horizon) /\ Len(days) =< Len(path)
  /\ day \in 0..(Horizon + 1) /\ spent \in Nat /\ iterations \in Nat

\* Days s run the first k nodes of the path: in order, each on a day it is
\* open, when the resin for it and all before it is there, and with a free
\* weekly slot.
Feasible(s, k) ==
  /\ \A i, j \in 1..k : i =< j => s[i] =< s[j]
  /\ \A i \in 1..k :
       /\ OpensOn(path[i], s[i])
       /\ total[i] =< onHand + rate * s[i]
       /\ SlotFree(s, i - 1, s[i])

Over == status \in {"planned", "blocked"}

\* The plan can be carried out: every task of it meets the three constraints
\* of the module's docstring, those before it taken into account.
Runnable == Over => Feasible(days, Len(days))

\* No schedule has any node earlier than the plan, and a node is reported as
\* blocked only if no schedule within the horizon reaches it.  Only a solve
\* that hit its iteration ceiling may give up sooner.
Earliest ==
  Over /\ ~exhausted =>
    \A k \in 1..Len(path) : \A s \in [1..k -> 0..Horizon] :
      Feasible(s, k) => k =< Len(days) /\ days[k] =< s[k]

\* Greedy placement needs one probe a day and one a node: the ceiling on
\* iterations ends no solve unless MAX_SCHEDULE_ITERATIONS is below that.
NeverExhausted == Horizon + Len(path) =< MaxIterations => ~exhausted
=============================================================================
