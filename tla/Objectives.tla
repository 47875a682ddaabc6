----------------------------- MODULE Objectives -----------------------------
(***************************************************************************)
(* The objective graph of engines/objectives.py: a caller's node set is    *)
(* validated, ordered with Kahn's algorithm over a heap, refused with a    *)
(* concrete cycle if there is one, and then asked what a goal rests on.    *)
(*                                                                         *)
(* Ids are numbers, since the code orders ids and depends_on is read as a  *)
(* sorted set.  A traversal's pending list is a set: the order of its pops *)
(* and an id that waits twice change neither what it visits.               *)
(***************************************************************************)
EXTENDS Integers, Sequences, FiniteSets

CONSTANT Ids   \* the ids a caller may use

ASSUME ObjectivesAssumption == Ids \subseteq Nat /\ IsFiniteSet(Ids)

VARIABLES
  index,      \* the ids of the nodes given
  doubled,    \* those given twice
  dependsOn,  \* their depends_on
  phase,      \* how far the graph has come
  indegree,   \* topological_order: dependencies not yet in order
  ready,      \* topological_order: the heap
  order,      \* topological_order: the result so far
  trail,      \* _find_cycle: the grey nodes, later the cycle
  black,      \* _find_cycle: the nodes left for good
  goal,       \* the goal of the current question
  completed,  \* what the question takes as done: stop_at of _closure
  todo,       \* _closure: stack
  seen        \* _closure: seen

given == <<index, doubled, dependsOn>>
sorting == <<indegree, ready, order>>
searching == <<trail, black>>
closing == <<goal, completed, todo, seen>>
graphVars == <<given, phase, sorting, searching, closing>>

Phases == {"given", "duplicate", "dangling", "sorting", "searching", "cyclic",
           "ordered", "closing", "answered"}
Refusals == {"duplicate", "dangling", "cyclic"}

(* Mutant of Least: the greatest comes first.                              *)
Least_Greatest(S) == CHOOSE n \in S : \A m \in S : m =< n

Least(S) == CHOOSE n \in S : \A m \in S : n =< m

Elements(s) == {s[i] : i \in DOMAIN s}
Dependents(n) == {m \in index : n \in dependsOn[m]}

GraphInit ==
  /\ index \in SUBSET Ids
  /\ doubled \in SUBSET index
  /\ dependsOn \in [index -> SUBSET Ids]
  /\ phase = "given"
  /\ indegree = [n \in index |-> 0] /\ ready = {} /\ order = <<>>
  /\ trail = <<>> /\ black = {}
  /\ goal = 0 /\ completed = {} /\ todo = {} /\ seen = {}

-----------------------------------------------------------------------------
(* Validation, and Kahn's algorithm. *)

Dangling == \E n \in index : ~(dependsOn[n] \subseteq index)

RefuseIds ==
  /\ phase = "given"
  /\ \/ doubled # {} /\ phase' = "duplicate"
     \/ doubled = {} /\ Dangling /\ phase' = "dangling"
  /\ UNCHANGED <<given, sorting, searching, closing>>

StartSort ==
  /\ phase = "given" /\ doubled = {} /\ ~Dangling
  /\ phase' = "sorting"
  /\ indegree' = [n \in index |-> Cardinality(dependsOn[n])]
  /\ ready' = {n \in index : dependsOn[n] = {}}
  /\ UNCHANGED <<given, order, searching, closing>>

\* One round of the heap: pop the least id and release its dependents.
Pop ==
  /\ phase = "sorting" /\ ready # {}
  /\ LET n == Least(ready)
         released == {m \in Dependents(n) : indegree[m] = 1}
     IN /\ order' = Append(order, n)
        /\ indegree' = [m \in index |-> IF m \in Dependents(n)
                                        THEN indegree[m] - 1 ELSE indegree[m]]
        /\ ready' = (ready \ {n}) \union released
  /\ UNCHANGED <<given, phase, searching, closing>>

EndSort ==
  /\ phase = "sorting" /\ ready = {}
  /\ phase' = IF Len(order) = Cardinality(index) THEN "ordered" ELSE "searching"
  /\ UNCHANGED <<given, sorting, searching, closing>>

-----------------------------------------------------------------------------
(* _find_cycle: depth-first with three colours.  The trail is grey; what   *)
(* is neither on it nor black is white.  An edge already walked leads to a *)
(* black node, so the next edge of the iterator is the least one that does *)
(* not.  The search has no end without a cycle: the empty report that      *)
(* closes the function has no step here, and Ends would miss it.           *)

Top == trail[Len(trail)]
Open == {d \in dependsOn[Top] : d \notin black}
White == index \ (black \union Elements(trail))

NextRoot ==
  /\ phase = "searching" /\ trail = <<>> /\ White # {}
  /\ trail' = <<Least(White)>>
  /\ UNCHANGED <<given, phase, sorting, black, closing>>

Descend ==
  /\ phase = "searching" /\ trail # <<>> /\ Open # {}
  /\ Least(Open) \notin Elements(trail)
  /\ trail' = Append(trail, Least(Open))
  /\ UNCHANGED <<given, phase, sorting, black, closing>>

Retreat ==
  /\ phase = "searching" /\ trail # <<>> /\ Open = {}
  /\ black' = black \union {Top}
  /\ trail' = SubSeq(trail, 1, Len(trail) - 1)
  /\ UNCHANGED <<given, phase, sorting, closing>>

ReportCycle ==
  /\ phase = "searching" /\ trail # <<>> /\ Open # {}
  /\ \E i \in DOMAIN trail :
       /\ trail[i] = Least(Open)
       /\ trail' = Append(SubSeq(trail, i, Len(trail)), Least(Open))
  /\ phase' = "cyclic"
  /\ UNCHANGED <<given, sorting, black, closing>>

-----------------------------------------------------------------------------
(* critical_path (with nothing completed) and unmet_prerequisites: the     *)
(* closure of a goal, pruned below what is completed.                      *)

Ask(g, done) ==
  /\ phase \in {"ordered", "answered"} /\ g \in index
  /\ phase' = "closing"
  /\ goal' = g /\ completed' = done
  /\ todo' = {g} /\ seen' = {}
  /\ UNCHANGED <<given, sorting, searching>>

(* Mutant of Visit: a completed prerequisite is walked through.            *)
Visit_Unpruned ==
  /\ phase = "closing"
  /\ \E n \in todo :
       /\ seen' = seen \union {n}
       /\ todo' = (todo \union dependsOn[n]) \ seen'
  /\ UNCHANGED <<given, phase, sorting, searching, goal, completed>>

Visit ==
  /\ phase = "closing"
  /\ \E n \in todo :
       /\ seen' = seen \union {n}
       /\ todo' = (todo \union (IF n \in completed THEN {} ELSE dependsOn[n]))
                    \ seen'
  /\ UNCHANGED <<given, phase, sorting, searching, goal, completed>>

Answer ==
  /\ phase = "closing" /\ todo = {}
  /\ phase' = "answered"
  /\ UNCHANGED <<given, sorting, searching, closing>>

\* The k-th of these places of the order, from below.
Nth(places, k) == CHOOSE i \in places : Cardinality({j \in places : j =< i}) = k

\* The ids of each answer; the caller gets them in the order of the graph.
Unmet == seen \ (completed \union {goal})
CriticalPath ==
  LET places == {i \in DOMAIN order : order[i] \in seen}
  IN  [k \in 1..Cardinality(places) |-> order[Nth(places, k)]]

Question == \E g \in index, done \in SUBSET index : Ask(g, done)

Sorting == StartSort \/ Pop \/ EndSort
Searching == NextRoot \/ Descend \/ Retreat \/ ReportCycle
Closing == Visit \/ Answer
GraphNext == RefuseIds \/ Sorting \/ Searching \/ Question \/ Closing
GraphSpec == GraphInit /\ [][GraphNext]_graphVars

-----------------------------------------------------------------------------
(* Properties. *)

\* Every variable keeps its type; indegree counts what order still lacks.
GraphTypeOK ==
  /\ index \subseteq Ids /\ doubled \subseteq index
  /\ dependsOn \in [index -> SUBSET Ids]
  /\ phase \in Phases
  /\ indegree \in [index -> Nat]
  /\ ready \subseteq index /\ order \in Seq(index)
  /\ trail \in Seq(index) /\ black \subseteq index
  /\ completed \subseteq index /\ todo \subseteq index /\ seen \subseteq index

Sorted == phase \in {"ordered", "closing", "answered"}

Topological(s) ==
  /\ Len(s) = Cardinality(index) /\ Elements(s) = index
  /\ \A i, j \in DOMAIN s : s[j] \in dependsOn[s[i]] => j < i

Before(s, t) ==
  \E i \in DOMAIN s : s[i] < t[i] /\ \A j \in 1..(i - 1) : s[j] = t[j]

\* An accepted node set is listed whole, each node after all it depends on,
\* and no other such listing comes before it: the order does not depend on
\* the order of the input (the docstring of topological_order).
OrderIsLeast ==
  Sorted =>
    /\ Topological(order)
    /\ \A s \in [1..Cardinality(index) -> index] :
         Topological(s) => ~Before(s, order)

\* A node set refused as cyclic does hold the cycle that is reported: each
\* node on it depends on the next, the first is the last, and none repeats.
CycleIsReal ==
  phase = "cyclic" =>
    /\ Len(trail) > 1 /\ trail[1] = trail[Len(trail)]
    /\ \A i \in 1..(Len(trail) - 1) : trail[i + 1] \in dependsOn[trail[i]]
    /\ \A i, j \in 1..(Len(trail) - 1) : trail[i] = trail[j] => i = j

\* A set of nodes suffices for n when n and all of the set rest on the set
\* and on what is completed alone.
Suffices(S, n) ==
  \A m \in ({n} \union S) \ completed : dependsOn[m] \subseteq S \union completed

\* What unmet_prerequisites and critical_path answer is enough to reach the
\* goal from what is completed, and nothing of it can be spared.
AnswerIsExact ==
  phase = "answered" =>
    /\ Suffices(Unmet, goal)
    /\ \A S \in SUBSET index : Suffices(S, goal) => Unmet \subseteq S
=============================================================================
