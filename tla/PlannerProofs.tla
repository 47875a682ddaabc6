---------------------------- MODULE PlannerProofs ----------------------------
(***************************************************************************)
(* Theorems of Objectives for every finite set of nodes and dependencies,  *)
(* and of Planner for every node set, every cost and gate, every income    *)
(* and every horizon.                                                      *)
(***************************************************************************)
EXTENDS Planner, FiniteSetTheorems, SequenceTheorems, WellFoundedInduction, TLAPS

-----------------------------------------------------------------------------
(* The graph of the objectives.                                            *)

(* A set of numbers has a least element.                                   *)
LEMMA LeastIsLeast ==
  ASSUME NEW S, S \subseteq Nat, S # {}
  PROVE  Least(S) \in S /\ \A m \in S : Least(S) =< m
<1>1. PICK n \in S : \A m \in S : ~(<<m, n>> \in OpToRel(<, Nat))
  BY WFMin, NatLessThanWellFounded
<1>2. \A m \in S : ~(m < n)
  BY <1>1 DEF OpToRel
<1>3. \E k \in S : \A m \in S : k =< m
  BY <1>2
<1>4. QED
  BY <1>3 DEF Least

-----------------------------------------------------------------------------
(* The inductive invariant of validation and sort.                         *)

Checked == phase \notin {"given", "duplicate", "dangling"}

Listed == Elements(order)

Earlier(i) == {order[j] : j \in 1..(i - 1)}

Free(n, S) == dependsOn[n] \subseteq S /\ n \notin S

GraphInv ==
  /\ index \in SUBSET Ids
  /\ dependsOn \in [index -> SUBSET Ids]
  /\ order \in Seq(index)
  /\ Checked => \A n \in index : dependsOn[n] \subseteq index
  /\ ~Checked => order = <<>>

CountInv ==
  phase = "sorting" =>
    /\ indegree \in [index -> Nat]
    /\ \A n \in index : indegree[n] = Cardinality(dependsOn[n] \ Listed)
    /\ ready = {n \in index : Free(n, Listed)}

OrderInv ==
  /\ \A i \in DOMAIN order : Free(order[i], Earlier(i))
  /\ \A i \in DOMAIN order : \A n \in index :
       Free(n, Earlier(i)) => order[i] =< n
  /\ Len(order) = Cardinality(Listed)
  /\ Sorted => Len(order) = Cardinality(index)

(* A graph and what is listed of it are finite.                            *)
LEMMA FiniteGraph ==
  ASSUME GraphInv
  PROVE  /\ IsFiniteSet(index) /\ IsFiniteSet(Listed) /\ Listed \subseteq index
         /\ DOMAIN order = 1..Len(order) /\ Len(order) \in Nat
         /\ \A n \in index : IsFiniteSet(dependsOn[n])
<1>1. IsFiniteSet(index)
  BY ObjectivesAssumption, FS_Subset DEF GraphInv
<1>2. Listed \subseteq index
  BY DEF GraphInv, Listed, Elements
<1>3. \A n \in index : IsFiniteSet(dependsOn[n])
  BY ObjectivesAssumption, FS_Subset DEF GraphInv
<1>4. DOMAIN order = 1..Len(order) /\ Len(order) \in Nat
  BY DEF GraphInv
<1>5. QED
  BY <1>1, <1>2, <1>3, <1>4, FS_Subset

(* What one round of the heap does.                                        *)
LEMMA Popping ==
  ASSUME GraphInv, CountInv, Pop, NEW n, n = Least(ready)
  PROVE  /\ n \in index /\ Free(n, Listed) /\ Checked
         /\ \A m \in index : Free(m, Listed) => n =< m
         /\ order' = Append(order, n) /\ order' \in Seq(index)
         /\ Len(order') = Len(order) + 1 /\ order'[Len(order) + 1] = n
         /\ \A i \in 1..Len(order) : order'[i] = order[i]
         /\ Listed' = Listed \union {n}
         /\ UNCHANGED <<given, phase>>
<1>1. phase = "sorting" /\ ready # {} /\ order' = Append(order, n)
      /\ UNCHANGED <<given, phase>>
  BY DEF Pop
<1>2. ready = {m \in index : Free(m, Listed)}
  BY <1>1 DEF CountInv
<1>3. ready \subseteq Nat
  BY <1>2, ObjectivesAssumption DEF GraphInv
<1>4. n \in ready /\ \A m \in ready : n =< m
  BY <1>1, <1>3, LeastIsLeast
<1>5. /\ order' \in Seq(index) /\ Len(order') = Len(order) + 1
      /\ order'[Len(order) + 1] = n
      /\ \A i \in 1..Len(order) : order'[i] = order[i]
  BY <1>1, <1>2, <1>4, AppendProperties DEF GraphInv
<1>6. Listed' = Listed \union {n}
  <2>1. DOMAIN order' = 1..(Len(order) + 1) /\ DOMAIN order = 1..Len(order)
        /\ Len(order) \in Nat
    BY <1>5 DEF GraphInv
  <2>2. QED
    BY <1>5, <2>1 DEF Listed, Elements
<1>7. QED
  BY <1>1, <1>2, <1>4, <1>5, <1>6 DEF Checked

(* Every step keeps the order among the ids given.                         *)
LEMMA GraphInvKept ==
  ASSUME GraphInv, CountInv, [GraphNext]_graphVars
  PROVE  GraphInv'
<1> USE DEF given
<1>1. CASE UNCHANGED graphVars
  BY <1>1 DEF graphVars, sorting, GraphInv, Checked
<1>2. CASE RefuseIds
  BY <1>2 DEF RefuseIds, sorting, GraphInv, Checked
<1>3. CASE StartSort
  BY <1>3 DEF StartSort, Dangling, GraphInv, Checked
<1>4. CASE Pop
  <2>1. PICK n : n = Least(ready)
    OBVIOUS
  <2>2. QED
    BY <1>4, <2>1, Popping DEF GraphInv, Checked
<1>5. CASE EndSort
  BY <1>5 DEF EndSort, sorting, GraphInv, Checked
<1>6. CASE Searching
  BY <1>6 DEF Searching, NextRoot, Descend, Retreat, ReportCycle, sorting,
            GraphInv, Checked
<1>7. CASE Question \/ Closing
  BY <1>7 DEF Question, Ask, Closing, Visit, Answer, sorting, GraphInv, Checked
<1>8. QED
  BY <1>1, <1>2, <1>3, <1>4, <1>5, <1>6, <1>7 DEF GraphNext, Sorting

(* Releasing dependents by counting finds just those that became free.     *)
LEMMA Releasing ==
  ASSUME GraphInv, CountInv, OrderInv, Pop, NEW n, n = Least(ready)
  PROVE  /\ indegree' \in [index -> Nat]
         /\ \A m \in index :
              indegree'[m] = Cardinality(dependsOn[m] \ (Listed \union {n}))
         /\ ready' = {m \in index : Free(m, Listed \union {n})}
<1>1. /\ n \in index /\ Free(n, Listed)
      /\ phase = "sorting" /\ ready = {m \in index : Free(m, Listed)}
      /\ indegree' = [m \in index |-> IF n \in dependsOn[m]
                                      THEN indegree[m] - 1 ELSE indegree[m]]
      /\ ready' = (ready \ {n}) \union
                    {m \in index : n \in dependsOn[m] /\ indegree[m] = 1}
  BY Popping DEF Pop, CountInv, Dependents
<1>2. n \notin Listed
  BY <1>1 DEF Free
<1>3. ASSUME NEW m \in index
      PROVE  /\ Cardinality(dependsOn[m] \ Listed) = indegree[m]
             /\ indegree[m] \in Nat
             /\ IsFiniteSet(dependsOn[m] \ Listed)
             /\ (dependsOn[m] \ Listed) \ {n} =
                  dependsOn[m] \ (Listed \union {n})
             /\ n \in dependsOn[m] \ Listed <=> n \in dependsOn[m]
  BY <1>1, <1>2, FiniteGraph, FS_Subset DEF CountInv
<1>4. ASSUME NEW m \in index
      PROVE  /\ indegree'[m] = Cardinality(dependsOn[m] \ (Listed \union {n}))
             /\ indegree'[m] \in Nat
  <2>1. Cardinality(dependsOn[m] \ (Listed \union {n})) =
          IF n \in dependsOn[m] THEN indegree[m] - 1 ELSE indegree[m]
    BY <1>3, FS_RemoveElement
  <2>2. Cardinality(dependsOn[m] \ (Listed \union {n})) \in Nat
    BY <1>3, FS_RemoveElement, FS_CardinalityType
  <2>3. QED
    BY <1>1, <2>1, <2>2
<1>5. ASSUME NEW m \in index
      PROVE  m \in ready' <=> Free(m, Listed \union {n})
  <2>1. CASE n \notin dependsOn[m]
    BY <1>1, <2>1 DEF Free
  <2>2. CASE n \in dependsOn[m]
    <3>1. m \notin ready
      BY <1>1, <1>2, <2>2 DEF Free
    <3>2. indegree[m] = 1 <=> dependsOn[m] \ (Listed \union {n}) = {}
      <4>1. Cardinality((dependsOn[m] \ Listed) \ {n}) = indegree[m] - 1
        BY <1>3, <2>2, FS_RemoveElement
      <4>2. IsFiniteSet((dependsOn[m] \ Listed) \ {n})
        BY <1>3, FS_RemoveElement
      <4>3. indegree[m] - 1 = 0 <=> (dependsOn[m] \ Listed) \ {n} = {}
        BY <4>1, <4>2, FS_EmptySet
      <4>4. QED
        BY <1>3, <4>3
    <3>3. m \notin Listed
      <4>1. SUFFICES ASSUME m \in Listed PROVE FALSE
        OBVIOUS
      <4>2. PICK i \in DOMAIN order : order[i] = m
        BY <4>1 DEF Listed, Elements
      <4>3. dependsOn[m] \subseteq Earlier(i)
        BY <4>2 DEF OrderInv, Free
      <4>4. Earlier(i) \subseteq Listed
        BY <4>2, FiniteGraph DEF Earlier, Listed, Elements
      <4>5. QED
        BY <1>2, <2>2, <4>3, <4>4
    <3>4. m # n
      BY <1>1, <1>2, <2>2 DEF Free
    <3>5. m \in ready' <=> indegree[m] = 1
      BY <1>1, <2>2, <3>1
    <3>6. QED
      BY <3>2, <3>3, <3>4, <3>5 DEF Free
  <2>3. QED
    BY <2>1, <2>2
<1>6. ready' \subseteq index
  BY <1>1
<1>7. QED
  BY <1>1, <1>4, <1>5, <1>6

(* The counters of a sort say what each node still waits for.              *)
LEMMA CountInvKept ==
  ASSUME GraphInv, CountInv, OrderInv, [GraphNext]_graphVars
  PROVE  CountInv'
<1> USE DEF given
<1>1. CASE UNCHANGED graphVars
  BY <1>1 DEF graphVars, sorting, CountInv, Listed, Elements, Free
<1>2. CASE StartSort
  <2>1. order' = <<>> /\ Listed' = {}
    BY <1>2 DEF StartSort, GraphInv, Checked, Listed, Elements
  <2>2. indegree' = [n \in index |-> Cardinality(dependsOn[n])]
        /\ ready' = {n \in index : dependsOn[n] = {}}
        /\ UNCHANGED <<index, dependsOn>>
    BY <1>2 DEF StartSort
  <2>3. \A n \in index : Cardinality(dependsOn[n]) \in Nat
    BY FiniteGraph, FS_CardinalityType
  <2>4. \A n \in index : dependsOn[n] \ {} = dependsOn[n]
    OBVIOUS
  <2>5. indegree' \in [index -> Nat]
    BY <2>2, <2>3
  <2>6. \A n \in index : Free(n, Listed)' <=> dependsOn[n] = {}
    BY <2>1, <2>2 DEF Free
  <2>7. QED
    BY <2>1, <2>2, <2>4, <2>5, <2>6 DEF CountInv
<1>3. CASE Pop
  <2>1. PICK n : n = Least(ready)
    OBVIOUS
  <2>2. Listed' = Listed \union {n} /\ UNCHANGED <<index, dependsOn>>
    BY <1>3, <2>1, Popping
  <2>3. /\ indegree' \in [index -> Nat]
        /\ \A m \in index :
              indegree'[m] = Cardinality(dependsOn[m] \ (Listed \union {n}))
        /\ ready' = {m \in index : Free(m, Listed \union {n})}
    BY <1>3, <2>1, Releasing
  <2>4. \A m \in index : Free(m, Listed)' <=> Free(m, Listed \union {n})
    BY <2>2 DEF Free
  <2>5. QED
    BY <2>2, <2>3, <2>4 DEF CountInv
<1>4. CASE RefuseIds \/ EndSort
  BY <1>4 DEF RefuseIds, EndSort, CountInv
<1>5. CASE Searching
  BY <1>5 DEF Searching, NextRoot, Descend, Retreat, ReportCycle, CountInv
<1>6. CASE Question \/ Closing
  BY <1>6 DEF Question, Ask, Closing, Visit, Answer, CountInv
<1>7. QED
  BY <1>1, <1>2, <1>3, <1>4, <1>5, <1>6 DEF GraphNext, Sorting

(* Every node is listed when it is free, and as the least that is.         *)
LEMMA OrderInvKept ==
  ASSUME GraphInv, CountInv, OrderInv, [GraphNext]_graphVars
  PROVE  OrderInv'
<1>1. CASE Pop
  <2>1. PICK n : n = Least(ready)
    OBVIOUS
  <2>0. PICK k : k = Len(order)
    OBVIOUS
  <2>2. /\ n \in index /\ Free(n, Listed)
        /\ \A m \in index : Free(m, Listed) => n =< m
        /\ order' \in Seq(index) /\ Len(order') = k + 1 /\ order'[k + 1] = n
        /\ \A i \in 1..k : order'[i] = order[i]
        /\ Listed' = Listed \union {n}
        /\ UNCHANGED <<index, dependsOn, phase>> /\ phase = "sorting"
    BY <1>1, <2>0, <2>1, Popping DEF Pop, given
  <2>3. k \in Nat /\ DOMAIN order = 1..k /\ DOMAIN order' = 1..(k + 1)
    BY <2>0, <2>2, FiniteGraph
  <2>4. \A i \in 1..k : Earlier(i)' = Earlier(i)
    BY <2>2, <2>3 DEF Earlier
  <2>5. Earlier(k + 1)' = Listed
    BY <2>2, <2>3 DEF Earlier, Listed, Elements
  <2>6. ASSUME NEW i \in 1..(k + 1)
        PROVE  /\ Free(order[i], Earlier(i))'
               /\ \A m \in index' : Free(m, Earlier(i))' => order'[i] =< m
    <3>1. CASE i \in 1..k
      <4>1. \A m : Free(m, Earlier(i))' <=> Free(m, Earlier(i))
        BY <2>2, <2>4, <3>1 DEF Free
      <4>2. QED
        BY <2>2, <2>3, <2>4, <3>1, <4>1 DEF OrderInv, Free
    <3>2. CASE i = k + 1
      <4>1. \A m : Free(m, Earlier(i))' <=> Free(m, Listed)
        BY <2>2, <2>5, <3>2 DEF Free
      <4>2. QED
        BY <2>2, <2>5, <3>2, <4>1 DEF Free
    <3>3. QED
      BY <2>3, <3>1, <3>2
  <2>7. Len(order') = Cardinality(Listed')
    <3>1. n \notin Listed
      BY <2>2 DEF Free
    <3>2. Cardinality(Listed \union {n}) = Cardinality(Listed) + 1
      BY <3>1, FiniteGraph, FS_AddElement
    <3>3. QED
      BY <2>0, <2>2, <3>2 DEF OrderInv
  <2>8. ~Sorted'
    BY <2>2 DEF Sorted
  <2>9. QED
    BY <2>3, <2>6, <2>7, <2>8 DEF OrderInv
<1>2. CASE ~Pop
  <2>1. UNCHANGED <<index, dependsOn, order>>
    BY <1>2 DEF GraphNext, Sorting, Searching, Closing, RefuseIds, StartSort,
       EndSort, NextRoot, Descend, Retreat, ReportCycle, Question, Ask, Visit,
       Answer, given, sorting, graphVars
  <2>2. Sorted' => Len(order') = Cardinality(index')
    BY <1>2, <2>1 DEF GraphNext, Sorting, Searching, Closing, RefuseIds,
       StartSort, EndSort, NextRoot, Descend, Retreat, ReportCycle, Question,
       Ask, Visit, Answer, graphVars, OrderInv, Sorted
  <2>3. (\A n, S : Free(n, S)' <=> Free(n, S)) /\ Listed' = Listed
        /\ \A i : Earlier(i)' = Earlier(i)
    BY <2>1 DEF Free, Listed, Elements, Earlier
  <2>4. \A i : Free(order[i], Earlier(i))' <=> Free(order[i], Earlier(i))
    BY <2>1, <2>3 DEF Free
  <2>5. \A i, m : Free(m, Earlier(i))' <=> Free(m, Earlier(i))
    BY <2>1, <2>3 DEF Free
  <2>6. QED
    BY <2>1, <2>2, <2>3, <2>4, <2>5 DEF OrderInv
<1>3. QED
  BY <1>1, <1>2

SortInv == GraphInv /\ CountInv /\ OrderInv

(* The invariant of validation and sort.                                   *)
LEMMA SortInvariant == GraphSpec => []SortInv
<1>1. ASSUME GraphInit PROVE SortInv
  <2>1. order = <<>> /\ phase = "given" /\ index \in SUBSET Ids
        /\ dependsOn \in [index -> SUBSET Ids]
    BY <1>1 DEF GraphInit
  <2>2. Listed = {} /\ Len(order) = 0 /\ DOMAIN order = {}
    BY <2>1 DEF Listed, Elements
  <2>3. GraphInv /\ CountInv
    BY <2>1 DEF GraphInv, Checked, CountInv
  <2>4. OrderInv
    BY <2>1, <2>2, FS_EmptySet DEF OrderInv, Sorted
  <2>5. QED
    BY <2>3, <2>4 DEF SortInv
<1>2. SortInv /\ [GraphNext]_graphVars => SortInv'
  BY GraphInvKept, CountInvKept, OrderInvKept DEF SortInv
<1>3. QED
  BY <1>1, <1>2, PTL DEF GraphSpec

(* An accepted graph is listed whole, each node after its dependencies.    *)
LEMMA OrderIsTopological ==
  ASSUME SortInv, Sorted
  PROVE  Topological(order)
<1>1. Listed = index /\ Len(order) = Cardinality(index)
  BY FiniteGraph, FS_Subset DEF SortInv, OrderInv
<1>2. ASSUME NEW i \in DOMAIN order, NEW j \in DOMAIN order,
             order[j] \in dependsOn[order[i]]
      PROVE  j < i
  <2>1. i \in Nat /\ j \in Nat /\ DOMAIN order = 1..Len(order) /\ Len(order) \in Nat
    BY FiniteGraph DEF SortInv
  <2>2. order[j] \in Earlier(i)
    BY <1>2 DEF SortInv, OrderInv, Free
  <2>3. order[i] \in index /\ order[i] \notin Earlier(i)
    BY <2>1 DEF SortInv, OrderInv, Free, GraphInv
  <2>4. SUFFICES ASSUME ~(j < i) PROVE FALSE
    OBVIOUS
  <2>5. CASE j = i
    BY <2>2, <2>3, <2>5
  <2>6. CASE j > i
    <3>1. Earlier(i) \subseteq Earlier(j)
      BY <2>1, <2>6 DEF Earlier
    <3>2. order[j] \notin Earlier(j)
      BY DEF SortInv, OrderInv, Free
    <3>3. QED
      BY <2>2, <3>1, <3>2
  <2>7. QED
    BY <2>1, <2>4, <2>5, <2>6
<1>3. QED
  BY <1>1, <1>2 DEF Topological, Listed

(* An accepted set is ordered, and by the least of its orders.             *)
THEOREM OrdersAreLeast == GraphSpec => []OrderIsLeast
<1>1. SortInv => OrderIsLeast
  <2> SUFFICES ASSUME SortInv, Sorted,
                      NEW s \in [1..Cardinality(index) -> index],
                      Topological(s), Before(s, order)
               PROVE  FALSE
    BY OrderIsTopological DEF OrderIsLeast
  <2>1. /\ Cardinality(index) \in Nat /\ Len(order) = Cardinality(index)
        /\ DOMAIN order = 1..Cardinality(index)
    BY FiniteGraph, FS_CardinalityType DEF SortInv, OrderInv
  <2>2. PICK i \in 1..Cardinality(index) :
          s[i] < order[i] /\ \A j \in 1..(i - 1) : s[j] = order[j]
    BY DEF Before
  <2>3. \A j, k \in 1..Cardinality(index) : s[j] = s[k] => j = k
    <3>1. s \in Surjection(1..Cardinality(index), index)
      BY DEF Topological, Elements, Surjection
    <3>2. IsFiniteSet(1..Cardinality(index))
          /\ Cardinality(1..Cardinality(index)) = Cardinality(index)
      BY <2>1, FS_Interval
    <3>3. s \in Injection(1..Cardinality(index), index)
      BY <3>1, <3>2, FS_SurjSameCardinalityImpliesInj
    <3>4. QED
      BY <3>3 DEF Injection, IsInjective
  <2>4. s[i] \in index /\ i \in Nat
    BY <2>1, <2>2
  <2>5. s[i] \notin Earlier(i)
    <3>1. SUFFICES ASSUME NEW j \in 1..(i - 1), s[i] = order[j] PROVE FALSE
      BY DEF Earlier
    <3>2. s[j] = s[i] /\ j \in 1..Cardinality(index) /\ j # i
      BY <2>1, <2>2, <2>4, <3>1
    <3>3. QED
      BY <2>2, <2>3, <3>2
  <2>6. dependsOn[s[i]] \subseteq Earlier(i)
    <3>1. SUFFICES ASSUME NEW m \in dependsOn[s[i]] PROVE m \in Earlier(i)
      OBVIOUS
    <3>2. m \in index
      BY <2>4 DEF SortInv, GraphInv, Checked, Sorted
    <3>3. PICK j \in 1..Cardinality(index) : s[j] = m
      BY <3>2 DEF Topological, Elements
    <3>4. j < i
      BY <2>2, <3>1, <3>3 DEF Topological
    <3>5. j \in 1..(i - 1)
      BY <2>1, <2>4, <3>3, <3>4
    <3>6. QED
      BY <2>2, <3>3, <3>5 DEF Earlier
  <2>7. order[i] =< s[i]
    BY <2>1, <2>2, <2>4, <2>5, <2>6 DEF SortInv, OrderInv, Free
  <2>8. order[i] \in Nat /\ s[i] \in Nat
    BY <2>1, <2>2, <2>4, ObjectivesAssumption DEF SortInv, GraphInv
  <2>9. QED
    BY <2>2, <2>7, <2>8
<1>2. QED
  BY <1>1, SortInvariant, PTL

-----------------------------------------------------------------------------
(* The search for a cycle: the grey nodes are a path without repetition.   *)

IsTrail(s) ==
  /\ s \in Seq(index)
  /\ \A i \in 1..(Len(s) - 1) : s[i + 1] \in dependsOn[s[i]]
  /\ \A i, j \in 1..Len(s) : s[i] = s[j] => i = j

TrailInv ==
  /\ phase = "searching" => IsTrail(trail) /\ black \subseteq index
  /\ phase \notin {"searching", "cyclic"} => trail = <<>> /\ black = {}

(* One node is a trail.                                                    *)
LEMMA TrailStarts ==
  ASSUME NEW n \in index
  PROVE  IsTrail(<<n>>)
<1>1. <<n>> \in Seq(index) /\ Len(<<n>>) = 1 /\ <<n>>[1] = n
  OBVIOUS
<1>2. QED
  BY <1>1 DEF IsTrail

(* An edge to a new node goes on with the trail.                           *)
LEMMA TrailGrows ==
  ASSUME IsTrail(trail), trail # <<>>, NEW d \in index, d \in dependsOn[Top],
         d \notin Elements(trail)
  PROVE  IsTrail(Append(trail, d))
<1>1. /\ trail \in Seq(index) /\ Len(trail) \in Nat \ {0}
      /\ DOMAIN trail = 1..Len(trail)
  BY DEF IsTrail
<1>2. PICK s : s = Append(trail, d)
  OBVIOUS
<1>3. /\ s \in Seq(index) /\ Len(s) = Len(trail) + 1 /\ s[Len(trail) + 1] = d
      /\ \A i \in 1..Len(trail) : s[i] = trail[i]
  BY <1>1, <1>2, AppendProperties
<1>4. ASSUME NEW i \in 1..(Len(s) - 1)
      PROVE  s[i + 1] \in dependsOn[s[i]]
  <2>1. CASE i = Len(trail)
    BY <1>1, <1>3, <2>1 DEF Top
  <2>2. CASE i \in 1..(Len(trail) - 1)
    BY <1>1, <1>3, <2>2 DEF IsTrail
  <2>3. i \in 1..Len(trail)
    BY <1>1, <1>3
  <2>4. i = Len(trail) \/ i \in 1..(Len(trail) - 1)
    <3>1. PICK m \in Nat : m = Len(trail)
      BY <1>1
    <3>2. i = m \/ i \in 1..(m - 1)
      BY <2>3, <3>1
    <3>3. QED
      BY <3>1, <3>2
  <2>5. QED
    BY <2>1, <2>2, <2>4
<1>5. \A i \in 1..Len(trail) : trail[i] # d
  BY <1>1 DEF Elements
<1>6. \A i \in 1..Len(s) : i \in 1..Len(trail) \/ i = Len(trail) + 1
  BY <1>1, <1>3
<1>7. \A i, j \in 1..Len(s) : s[i] = s[j] => i = j
  BY <1>3, <1>5, <1>6 DEF IsTrail
<1>8. QED
  BY <1>2, <1>3, <1>4, <1>7 DEF IsTrail

(* A part of a trail is a trail.                                           *)
LEMMA TrailPart ==
  ASSUME NEW s, IsTrail(s), NEW a \in 1..(Len(s) + 1), NEW b \in 0..Len(s)
  PROVE  /\ IsTrail(SubSeq(s, a, b))
         /\ Len(SubSeq(s, a, b)) = IF a =< b THEN b - a + 1 ELSE 0
         /\ \A i \in 1..(b - a + 1) : SubSeq(s, a, b)[i] = s[a + i - 1]
<1>1. s \in Seq(index) /\ Len(s) \in Nat
  BY DEF IsTrail
<1>2. \A i \in a..b : s[i] \in index
  BY <1>1
<1>3. PICK t : t = SubSeq(s, a, b)
  OBVIOUS
<1>4. /\ t \in Seq(index) /\ Len(t) = IF a =< b THEN b - a + 1 ELSE 0
      /\ \A i \in 1..(b - a + 1) : t[i] = s[a + i - 1]
  BY <1>2, <1>3, SubSeqProperties
<1>5. ASSUME NEW i \in 1..(Len(t) - 1)
      PROVE  t[i + 1] \in dependsOn[t[i]]
  <2>1. a =< b /\ Len(t) = b - a + 1
    BY <1>1, <1>4
  <2>2. t[i] = s[a + i - 1] /\ t[i + 1] = s[a + i]
    BY <1>1, <1>4, <2>1
  <2>3. a + i - 1 \in 1..(Len(s) - 1) /\ a + i - 1 + 1 = a + i
    BY <1>1, <2>1
  <2>4. QED
    BY <2>2, <2>3 DEF IsTrail
<1>6. ASSUME NEW i \in 1..Len(t), NEW j \in 1..Len(t), t[i] = t[j]
      PROVE  i = j
  <2>1. a =< b /\ Len(t) = b - a + 1
    BY <1>1, <1>4
  <2>2. t[i] = s[a + i - 1] /\ t[j] = s[a + j - 1]
    BY <1>1, <1>4, <2>1
  <2>3. a + i - 1 \in 1..Len(s) /\ a + j - 1 \in 1..Len(s)
    BY <1>1, <2>1
  <2>4. a + i - 1 = a + j - 1
    BY <1>6, <2>2, <2>3 DEF IsTrail
  <2>5. QED
    BY <2>4
<1>7. QED
  BY <1>3, <1>4, <1>5, <1>6 DEF IsTrail

(* The edge taken next is a real one, to a node that is not black.         *)
LEMMA NextEdge ==
  ASSUME GraphInv, Checked, IsTrail(trail), trail # <<>>, Open # {}
  PROVE  /\ Least(Open) \in dependsOn[Top] /\ Least(Open) \in index
         /\ Least(Open) \notin black /\ Top \in index
<1>1. Top \in index
  BY DEF Top, IsTrail
<1>2. Open \subseteq index
  BY <1>1 DEF Open, GraphInv
<1>3. Least(Open) \in Open
  BY <1>2, ObjectivesAssumption, LeastIsLeast DEF GraphInv
<1>4. QED
  BY <1>1, <1>2, <1>3 DEF Open

(* Every step of the search keeps the grey nodes a trail.                  *)
LEMMA TrailInvKept ==
  ASSUME GraphInv, TrailInv, [GraphNext]_graphVars
  PROVE  TrailInv'
<1> USE DEF given, searching
<1>1. CASE ~Searching
  <2>1. UNCHANGED <<index, dependsOn, trail, black>>
    BY <1>1 DEF GraphNext, Sorting, Closing, RefuseIds, StartSort, EndSort, Pop,
       Question, Ask, Visit, Answer, graphVars
  <2>2. /\ phase' = "searching" => phase \in {"sorting", "searching"}
        /\ phase' \notin {"searching", "cyclic"} =>
             phase \notin {"searching", "cyclic"}
    BY <1>1 DEF GraphNext, Sorting, Closing, RefuseIds, StartSort, EndSort, Pop,
       Question, Ask, Visit, Answer, graphVars
  <2>3. IsTrail(trail)' <=> IsTrail(trail)
    BY <2>1 DEF IsTrail
  <2>4. trail = <<>> => IsTrail(trail)
    BY DEF IsTrail
  <2>5. QED
    BY <2>1, <2>2, <2>3, <2>4 DEF TrailInv
<1>2. CASE Searching
  <2>1. /\ phase = "searching" /\ Checked /\ IsTrail(trail) /\ black \subseteq index
        /\ UNCHANGED <<index, dependsOn>>
    BY <1>2 DEF Searching, NextRoot, Descend, Retreat, ReportCycle, TrailInv,
       Checked
  <2>2. IsTrail(trail') => IsTrail(trail)'
    BY <2>1 DEF IsTrail
  <2>3. CASE NextRoot
    <3>1. Least(White) \in index
      <4>1. White \subseteq Nat /\ White # {} /\ White \subseteq index
        BY <2>3, ObjectivesAssumption DEF NextRoot, White, GraphInv
      <4>2. QED
        BY <4>1, LeastIsLeast
    <3>2. IsTrail(trail')
      BY <2>3, <3>1, TrailStarts DEF NextRoot
    <3>3. QED
      BY <2>1, <2>2, <2>3, <3>2 DEF NextRoot, TrailInv
  <2>4. CASE Descend
    <3>1. IsTrail(trail')
      BY <2>1, <2>4, NextEdge, TrailGrows DEF Descend
    <3>2. QED
      BY <2>1, <2>2, <2>4, <3>1 DEF Descend, TrailInv
  <2>5. CASE Retreat
    <3>1. Len(trail) \in Nat \ {0}
      BY <2>1, <2>5 DEF Retreat, IsTrail
    <3>2. IsTrail(trail')
      BY <2>1, <2>5, <3>1, TrailPart DEF Retreat
    <3>3. black' \subseteq index
      BY <2>1, <2>5, <3>1 DEF Retreat, Top, IsTrail
    <3>4. QED
      BY <2>1, <2>2, <2>5, <3>2, <3>3 DEF Retreat, TrailInv
  <2>6. CASE ReportCycle
    BY <2>6 DEF ReportCycle, TrailInv
  <2>7. QED
    BY <1>2, <2>3, <2>4, <2>5, <2>6 DEF Searching
<1>3. QED
  BY <1>1, <1>2

(* What is reported is a cycle.                                            *)
LEMMA ReportedCycle ==
  ASSUME GraphInv, TrailInv, ReportCycle
  PROVE  CycleIsReal'
<1>1. /\ phase = "searching" /\ Checked /\ IsTrail(trail) /\ trail # <<>>
      /\ Open # {} /\ UNCHANGED dependsOn
      /\ trail \in Seq(index) /\ Len(trail) \in Nat \ {0}
      /\ DOMAIN trail = 1..Len(trail)
  BY DEF ReportCycle, TrailInv, IsTrail, Checked, given
<1>2. PICK a \in 1..Len(trail) :
        /\ trail[a] = Least(Open)
        /\ trail' = Append(SubSeq(trail, a, Len(trail)), Least(Open))
  BY <1>1 DEF ReportCycle
<1>3. PICK t, c, d : t = SubSeq(trail, a, Len(trail)) /\ c = trail' /\ d = Least(Open)
  OBVIOUS
<1>4. PICK m \in Nat : m = Len(trail) - a + 1
  BY <1>1
<1>5. /\ IsTrail(t) /\ Len(t) = m /\ m > 0
      /\ \A i \in 1..m : t[i] = trail[a + i - 1]
  BY <1>1, <1>3, <1>4, TrailPart
<1>6. t[1] = d /\ t[m] = Top
  <2>1. a + 1 - 1 = a /\ a + m - 1 = Len(trail) /\ 1 \in 1..m /\ m \in 1..m
    BY <1>1, <1>4, <1>5
  <2>2. QED
    BY <1>2, <1>3, <1>5, <2>1 DEF Top
<1>7. d \in dependsOn[Top] /\ d \in index
  BY <1>1, <1>3, NextEdge
<1>8. /\ Len(c) = m + 1 /\ c[m + 1] = d /\ \A i \in 1..m : c[i] = t[i]
  <2>1. c = Append(t, d) /\ t \in Seq(index)
    BY <1>2, <1>3, <1>5 DEF IsTrail
  <2>2. QED
    BY <1>5, <1>7, <2>1, AppendProperties
<1>9. Len(c) > 1 /\ c[1] = c[Len(c)]
  BY <1>5, <1>6, <1>8
<1>10. ASSUME NEW i \in 1..m
       PROVE  c[i + 1] \in dependsOn[c[i]]
  <2>1. CASE i = m
    BY <1>6, <1>7, <1>8, <2>1
  <2>2. CASE i # m
    <3>1. i \in 1..(m - 1) /\ i + 1 \in 1..m
      BY <2>2
    <3>2. t[i + 1] \in dependsOn[t[i]]
      BY <1>5, <3>1 DEF IsTrail
    <3>3. QED
      BY <1>8, <3>1, <3>2
  <2>3. QED
    BY <2>1, <2>2
<1>11. \A i, j \in 1..m : c[i] = c[j] => i = j
  BY <1>5, <1>8 DEF IsTrail
<1>12. Len(c) - 1 = m
  BY <1>8
<1>13. QED
  BY <1>1, <1>3, <1>9, <1>10, <1>11, <1>12 DEF CycleIsReal

(* What is refused as cyclic is cyclic, by the very cycle reported.        *)
THEOREM CyclesAreReal == GraphSpec => []CycleIsReal
<1>1. GraphInit => TrailInv /\ CycleIsReal
  BY DEF GraphInit, TrailInv, CycleIsReal
<1>2. SortInv /\ TrailInv /\ CycleIsReal /\ [GraphNext]_graphVars =>
        TrailInv' /\ CycleIsReal'
  <2> SUFFICES ASSUME SortInv, TrailInv, CycleIsReal, [GraphNext]_graphVars
               PROVE  TrailInv' /\ CycleIsReal'
    OBVIOUS
  <2>1. TrailInv'
    BY TrailInvKept DEF SortInv
  <2>2. CASE ReportCycle
    BY <2>1, <2>2, ReportedCycle DEF SortInv
  <2>3. CASE ~ReportCycle
    <3>1. phase' = "cyclic" =>
            phase = "cyclic" /\ UNCHANGED <<trail, dependsOn>>
      BY <2>3 DEF GraphNext, Sorting, Searching, Closing, RefuseIds, StartSort,
         Pop, EndSort, NextRoot, Descend, Retreat, Question, Ask, Visit, Answer,
         graphVars, given, searching
    <3>2. QED
      BY <2>1, <3>1 DEF CycleIsReal
  <2>4. QED
    BY <2>2, <2>3
<1>3. QED
  BY <1>1, <1>2, SortInvariant, PTL DEF GraphSpec

-----------------------------------------------------------------------------
(* The closure of a goal: what is seen is closed up to what is pending,    *)
(* lies before the goal, and is needed by every set that suffices.         *)

NotAfter(m, n) == \E i, j \in DOMAIN order : i =< j /\ order[i] = m /\ order[j] = n

ClosureInv ==
  phase \in {"closing", "answered"} =>
    /\ goal \in index /\ goal \in seen \union todo
    /\ seen \union todo \subseteq index
    /\ \A m \in seen \ completed : dependsOn[m] \subseteq seen \union todo
    /\ \A m \in seen \union todo : NotAfter(m, goal)
    /\ \A S \in SUBSET index : Suffices(S, goal) =>
         seen \union todo \subseteq S \union completed \union {goal}
    /\ phase = "answered" => todo = {}

(* What is not after a node depends on nothing after it.                   *)
LEMMA DependencyIsBefore ==
  ASSUME SortInv, Sorted, NEW m \in index, NEW n \in index, NotAfter(m, n),
         NEW d \in dependsOn[m]
  PROVE  NotAfter(d, n) /\ d # n
<1>1. /\ Topological(order) /\ DOMAIN order = 1..Len(order)
      /\ Len(order) \in Nat /\ d \in index
  BY OrderIsTopological, FiniteGraph
  DEF SortInv, GraphInv, Checked, Sorted
<1>2. PICK i, j \in DOMAIN order : i =< j /\ order[i] = m /\ order[j] = n
  BY DEF NotAfter
<1>3. PICK k \in DOMAIN order : order[k] = d
  BY <1>1 DEF Topological, Elements
<1>4. k < i
  BY <1>1, <1>2, <1>3 DEF Topological
<1>5. NotAfter(d, n)
  BY <1>1, <1>2, <1>3, <1>4 DEF NotAfter
<1>6. k \in 1..(j - 1)
  BY <1>1, <1>2, <1>3, <1>4
<1>7. order[j] \notin Earlier(j)
  BY <1>2 DEF SortInv, OrderInv, Free
<1>8. QED
  BY <1>2, <1>3, <1>5, <1>6, <1>7 DEF Earlier

(* Every step keeps what is known of a closure.                            *)
LEMMA ClosureInvKept ==
  ASSUME SortInv, SortInv', ClosureInv, [GraphNext]_graphVars
  PROVE  ClosureInv'
<1> USE DEF given, sorting, searching, closing
<1>1. CASE Question
  <2>1. PICK g \in index, done \in SUBSET index : Ask(g, done)
    BY <1>1 DEF Question
  <2>2. /\ phase \in {"ordered", "answered"} /\ phase' = "closing"
        /\ goal' = g /\ completed' = done /\ todo' = {g} /\ seen' = {}
        /\ UNCHANGED <<index, dependsOn, order>>
    BY <2>1 DEF Ask
  <2>3. NotAfter(g, g)
    <3>1. Elements(order) = index
      BY <2>2, OrderIsTopological DEF Sorted, Topological
    <3>2. PICK i \in DOMAIN order : order[i] = g
      BY <3>1 DEF Elements
    <3>3. i =< i
      BY <3>2, FiniteGraph DEF SortInv
    <3>4. QED
      BY <3>2, <3>3 DEF NotAfter
  <2>4. NotAfter(g, g)'
    BY <2>2, <2>3 DEF NotAfter
  <2>5. QED
    BY <2>2, <2>4 DEF ClosureInv
<1>2. CASE Visit
  <2>1. PICK n \in todo :
          /\ seen' = seen \union {n}
          /\ todo' = (todo \union (IF n \in completed THEN {}
                                   ELSE dependsOn[n])) \ seen'
    BY <1>2 DEF Visit
  <2>2. /\ phase = "closing" /\ Sorted
        /\ UNCHANGED <<index, dependsOn, order, phase, goal, completed>>
    BY <1>2 DEF Visit, Sorted
  <2>3. n \in index /\ NotAfter(n, goal) /\ goal \in index
    BY <2>2 DEF ClosureInv
  <2>4. seen' \union todo' = seen \union todo \union
          (IF n \in completed THEN {} ELSE dependsOn[n])
    BY <2>1
  <2>5. dependsOn[n] \subseteq index
    BY <2>2, <2>3 DEF SortInv, GraphInv, Checked
  <2>6. goal \in seen' \union todo' /\ seen' \union todo' \subseteq index
    BY <2>2, <2>4, <2>5 DEF ClosureInv
  <2>7. \A m \in seen' \ completed : dependsOn[m] \subseteq seen' \union todo'
    BY <2>1, <2>2, <2>4 DEF ClosureInv
  <2>8. \A m \in seen' \union todo' : NotAfter(m, goal)
    BY <2>2, <2>3, <2>4, DependencyIsBefore DEF ClosureInv
  <2>9. ASSUME NEW S \in SUBSET index, Suffices(S, goal)
        PROVE  seen' \union todo' \subseteq S \union completed \union {goal}
    <3>1. seen \union todo \subseteq S \union completed \union {goal}
      BY <2>2, <2>9 DEF ClosureInv
    <3>2. n \notin completed => dependsOn[n] \subseteq S \union completed
      BY <2>9, <3>1 DEF Suffices
    <3>3. QED
      BY <2>4, <3>1, <3>2
  <2>10. /\ \A m : NotAfter(m, goal)' <=> NotAfter(m, goal)
         /\ \A S : Suffices(S, goal)' <=> Suffices(S, goal)
    BY <2>2 DEF NotAfter, Suffices
  <2>11. QED
    BY <2>2, <2>3, <2>6, <2>7, <2>8, <2>9, <2>10 DEF ClosureInv
<1>3. CASE Answer
  <2>1. /\ UNCHANGED <<index, dependsOn, order, goal, completed, todo, seen>>
        /\ phase = "closing" /\ todo = {}
    BY <1>3 DEF Answer
  <2>2. /\ \A m, n : NotAfter(m, n)' <=> NotAfter(m, n)
        /\ \A S, n : Suffices(S, n)' <=> Suffices(S, n)
    BY <2>1 DEF NotAfter, Suffices
  <2>3. QED
    BY <2>1, <2>2 DEF ClosureInv
<1>4. CASE UNCHANGED graphVars
  <2>1. /\ \A m, n : NotAfter(m, n)' <=> NotAfter(m, n)
        /\ \A S, n : Suffices(S, n)' <=> Suffices(S, n)
    BY <1>4 DEF NotAfter, Suffices, graphVars
  <2>2. QED
    BY <1>4, <2>1 DEF ClosureInv, graphVars
<1>5. CASE RefuseIds \/ Sorting \/ Searching
  <2>1. phase' \notin {"closing", "answered"}
    BY <1>5 DEF RefuseIds, Sorting, StartSort, Pop, EndSort, Searching,
       NextRoot, Descend, Retreat, ReportCycle
  <2>2. QED
    BY <2>1 DEF ClosureInv
<1>6. QED
  BY <1>1, <1>2, <1>3, <1>4, <1>5 DEF GraphNext, Closing

(* critical_path and unmet_prerequisites answer what is needed, no less    *)
(* and no more.                                                            *)
THEOREM AnswersAreExact == GraphSpec => []AnswerIsExact
<1>1. GraphInit => ClosureInv
  BY DEF GraphInit, ClosureInv
<1>2. SortInv /\ SortInv' /\ ClosureInv /\ [GraphNext]_graphVars => ClosureInv'
  BY ClosureInvKept
<1>3. SortInv /\ ClosureInv => AnswerIsExact
  <2> SUFFICES ASSUME SortInv, ClosureInv, phase = "answered"
               PROVE  /\ Suffices(Unmet, goal)
                      /\ \A S \in SUBSET index :
                           Suffices(S, goal) => Unmet \subseteq S
    BY DEF AnswerIsExact
  <2>1. todo = {} /\ goal \in seen /\ seen \subseteq index /\ Sorted
    BY DEF ClosureInv, Sorted
  <2>2. ASSUME NEW m \in ({goal} \union Unmet) \ completed
        PROVE  dependsOn[m] \subseteq Unmet \union completed
    <3>1. m \in seen \ completed
      BY <2>1 DEF Unmet
    <3>2. dependsOn[m] \subseteq seen /\ NotAfter(m, goal)
      BY <2>1, <3>1 DEF ClosureInv
    <3>3. goal \notin dependsOn[m]
      BY <2>1, <3>1, <3>2, DependencyIsBefore
    <3>4. QED
      BY <3>2, <3>3 DEF Unmet
  <2>3. \A S \in SUBSET index : Suffices(S, goal) => Unmet \subseteq S
    BY <2>1 DEF ClosureInv, Unmet
  <2>4. QED
    BY <2>2, <2>3 DEF Suffices
<1>4. QED
  BY <1>1, <1>2, <1>3, SortInvariant, PTL DEF GraphSpec

-----------------------------------------------------------------------------
(* What a step of the job does to the variables of the scheduler.          *)

DrawStep ==
  /\ status = "idle" /\ UNCHANGED <<request, run>>
  /\ cost' \in [Nodes -> Nat] /\ weekdays' \in [Nodes -> SUBSET Weekdays]
  /\ weekly' \in [Nodes -> BOOLEAN]
  /\ rate' \in Nat /\ onHand' \in Nat /\ start' \in Weekdays

BeginStep == \E p, t : Begin(p, t)

ResetStep ==
  /\ path' = <<>> /\ total' = [i \in 0..0 |-> 0]
  /\ status' = "idle" /\ days' = <<>> /\ day' = 0 /\ spent' = 0
  /\ iterations' = 0 /\ exhausted' = FALSE
  /\ UNCHANGED <<income, menu>>

SolverStep ==
  UNCHANGED solveVars \/ DrawStep \/ BeginStep \/ Solve \/ ResetStep

IdleInv == ~drawn => status = "idle"

(* A draw gives the scheduler well-typed costs, gates and income.          *)
LEMMA Drawing ==
  ASSUME Draw, IdleInv
  PROVE  DrawStep
<1>1. status = "idle" /\ UNCHANGED <<request, run>>
  BY DEF Draw, IdleInv
<1>2. rate' \in Nat /\ onHand' \in Nat /\ start' \in Weekdays
  BY PlannerAssumption DEF Draw
<1>3. PICK kind \in [index -> Kinds] :
        /\ cost' = [n \in Nodes |-> IF n \in index THEN kind[n].cost ELSE 0]
        /\ weekdays' = [n \in Nodes |->
                          IF n \in index THEN kind[n].weekdays ELSE {}]
        /\ weekly' = [n \in Nodes |-> n \in index /\ kind[n].weekly]
  BY DEF Draw
<1>4. \A n \in index : kind[n] \in
        [cost : Nat, weekdays : SUBSET Weekdays, weekly : BOOLEAN]
  BY <1>3, PlannerAssumption
<1>5. cost' \in [Nodes -> Nat]
  BY <1>3, <1>4
<1>6. weekdays' \in [Nodes -> SUBSET Weekdays]
  BY <1>3, <1>4
<1>7. weekly' \in [Nodes -> BOOLEAN]
  BY <1>3, <1>4
<1>8. QED
  BY <1>1, <1>2, <1>5, <1>6, <1>7 DEF DrawStep

(* Every step of the job is one of these for the scheduler.                *)
LEMMA SolverSteps ==
  ASSUME [Next]_vars, IdleInv
  PROVE  SolverStep
<1>1. CASE Build \/ Inquire \/ TakeGoal \/ Close \/ UNCHANGED vars
  BY <1>1 DEF SolverStep, Build, Inquire, TakeGoal, Close, vars
<1>2. CASE Draw
  BY <1>2, Drawing DEF SolverStep
<1>3. CASE StartPlan
  BY <1>3 DEF SolverStep, StartPlan, BeginStep
<1>4. CASE DayPlan
  BY <1>4 DEF SolverStep, DayPlan
<1>5. CASE Collect
  BY <1>5 DEF SolverStep, Collect, ResetStep
<1>6. QED
  BY <1>1, <1>2, <1>3, <1>4, <1>5 DEF Next

(* Nothing is solved before a caller wants a plan.                         *)
LEMMA IdleBeforeDraw == Spec => []IdleInv
<1>1. Init => IdleInv
  BY DEF Init, SolveInit, IdleInv
<1>2. IdleInv /\ [Next]_vars => IdleInv'
  <2> SUFFICES ASSUME IdleInv, [Next]_vars PROVE IdleInv'
    OBVIOUS
  <2> USE DEF IdleInv
  <2>1. CASE Build \/ Inquire \/ TakeGoal \/ Close \/ UNCHANGED vars
    BY <2>1 DEF Build, Inquire, TakeGoal, Close, vars, solveVars, run
  <2>2. CASE Draw \/ StartPlan \/ Collect
    BY <2>2 DEF Draw, StartPlan, Collect
  <2>3. CASE DayPlan
    BY <2>3 DEF DayPlan, Solve, GiveUp, OffHorizon, Hopeless, NextDay, Place,
              Finish, Probing, Unplaced
  <2>4. QED
    BY <2>1, <2>2, <2>3 DEF Next
<1>3. QED
  BY <1>1, <1>2, PTL DEF Spec

-----------------------------------------------------------------------------
(* The inductive invariant of the day plan.  Paced ties the iteration      *)
(* counter to the day and the tasks, Spending the resin spent to the       *)
(* costs of the path, Kept says that the days chosen so far can be run,    *)
(* and Ahead that every other schedule is behind them.                     *)

Paced == status = "solving" => ~exhausted /\ iterations = day + Len(days)

Spending ==
  status # "idle" => SumsUp(path, total) /\ spent = total[Len(days)]

Kept ==
  status # "idle" =>
    /\ \A s : s = days => Feasible(s, Len(s))
    /\ \A i \in 1..Len(days) : days[i] =< day

Behind(s, k) ==
  /\ \A i \in 1..k : i =< Len(days) => days[i] =< s[i]
  /\ k > Len(days) =>
       exhausted \/ (status = "solving" /\ day =< s[Len(days) + 1])

Ahead ==
  status # "idle" =>
    \A k \in 1..Len(path) : \A s \in [1..k -> 0..Horizon] :
      Feasible(s, k) => Behind(s, k)

PlanInv == SolveTypeOK /\ NeverExhausted /\ Paced /\ Spending /\ Kept /\ Ahead

(* While a node is unplaced, the candidate is a node of the path.          *)
LEMMA CandidateTyped ==
  ASSUME SolveTypeOK, Unplaced
  PROVE  /\ Candidate \in Nodes /\ cost[Candidate] \in Nat
         /\ Len(days) \in Nat /\ Len(path) \in Nat /\ Len(days) + 1 \in 1..Len(path)
<1>1. Len(days) \in Nat /\ Len(path) \in Nat /\ Len(days) + 1 \in 1..Len(path)
  BY DEF SolveTypeOK, Unplaced
<1>2. Candidate \in Nodes
  BY <1>1 DEF SolveTypeOK, Candidate
<1>3. QED
  BY <1>1, <1>2 DEF SolveTypeOK

(* Every step keeps the types of the scheduler.                            *)
LEMMA SolverTyped ==
  ASSUME SolveTypeOK, SolverStep
  PROVE  SolveTypeOK'
<1> USE SchedulerAssumption
<1>1. CASE UNCHANGED solveVars
  BY <1>1 DEF SolveTypeOK, solveVars, income, menu, request, run, Weekdays
<1>2. CASE DrawStep
  BY <1>2 DEF SolveTypeOK, DrawStep, request, run, Weekdays
<1>3. CASE BeginStep
  <2>1. PICK p, t : Begin(p, t)
    BY <1>3 DEF BeginStep
  <2>2. days' = <<>> /\ days' \in Seq(0..Horizon) /\ Len(days') = 0
    BY <2>1 DEF Begin
  <2>3. path' \in Seq(Nodes) /\ Len(path') \in Nat
    BY <2>1 DEF Begin, SumsUp
  <2>4. exhausted' \in BOOLEAN /\ UNCHANGED <<income, menu>>
    BY <2>1 DEF Begin
  <2>5. /\ status' = "solving" /\ spent' = 0 /\ iterations' = 0
        /\ day' = 0
    BY <2>1 DEF Begin
  <2>6. QED
    BY <2>2, <2>3, <2>4, <2>5 DEF SolveTypeOK, income, menu, Weekdays, Statuses
<1>4. CASE ResetStep
  <2>1. /\ days' = <<>> /\ days' \in Seq(0..Horizon) /\ Len(days') = 0
        /\ path' \in Seq(Nodes) /\ Len(path') = 0
    BY <1>4 DEF ResetStep
  <2>2. exhausted' \in BOOLEAN /\ UNCHANGED <<income, menu>>
    BY <1>4 DEF ResetStep
  <2>3. /\ status' = "idle" /\ spent' = 0 /\ iterations' = 0
        /\ day' = 0
    BY <1>4 DEF ResetStep
  <2>4. QED
    BY <2>1, <2>2, <2>3 DEF SolveTypeOK, income, menu, Weekdays, Statuses
<1>5. CASE Solve
  <2>1. UNCHANGED <<income, menu, request>>
    BY <1>5 DEF Solve, GiveUp, OffHorizon, Hopeless, NextDay, Place, Finish
  <2>2. CASE GiveUp \/ OffHorizon \/ Hopeless \/ Finish
    <3>1. exhausted' \in BOOLEAN
      BY <2>2 DEF SolveTypeOK, GiveUp, OffHorizon, Hopeless, Finish
    <3>2. /\ status' \in Statuses /\ UNCHANGED <<days, day, spent>>
          /\ iterations' \in Nat
      BY <2>2 DEF SolveTypeOK, GiveUp, OffHorizon, Hopeless, Finish, Statuses
    <3>3. QED
      BY <2>1, <3>1, <3>2
      DEF SolveTypeOK, income, menu, request, Weekdays
  <2>3. CASE NextDay
    BY <2>1, <2>3 DEF SolveTypeOK, NextDay, Probing,
       income, menu, request, Weekdays
  <2>4. CASE Place
    <3>1. /\ day \in 0..Horizon /\ Unplaced
          /\ days' = Append(days, day) /\ spent' = spent + cost[Candidate]
          /\ iterations' = iterations + 1
          /\ UNCHANGED <<status, day, exhausted>>
      BY <2>4 DEF Place, Probing, SolveTypeOK
    <3>2. days' \in Seq(0..Horizon) /\ Len(days') =< Len(path)
      BY <3>1, AppendProperties, CandidateTyped DEF SolveTypeOK
    <3>3. spent' \in Nat
      BY <3>1, CandidateTyped DEF SolveTypeOK
    <3>4. QED
      BY <2>1, <3>1, <3>2, <3>3 DEF SolveTypeOK, income, menu, request, Weekdays
  <2>5. QED
    BY <1>5, <2>2, <2>3, <2>4 DEF Solve
<1>6. QED
  BY <1>1, <1>2, <1>3, <1>4, <1>5 DEF SolverStep

(* The ceiling of a path exceeds its horizon and its length together.      *)
LEMMA CeilingIsHigh ==
  ASSUME NEW L \in Nat
  PROVE  Horizon + L < (Horizon + 1) * (L + 1) + DaysPerWeek
<1>1. (Horizon + 1) * (L + 1) = Horizon * L + Horizon + L + 1
  BY SchedulerAssumption
<1>2. Horizon * L >= 0
  BY SchedulerAssumption
<1>3. QED
  BY <1>1, <1>2, SchedulerAssumption

(* A solve probes once a day and once a node.                              *)
LEMMA PaceKept ==
  ASSUME SolveTypeOK, SolverStep, Paced, NeverExhausted
  PROVE  Paced' /\ NeverExhausted'
<1> USE SchedulerAssumption DEF Paced, NeverExhausted
<1>1. CASE UNCHANGED solveVars \/ DrawStep
  BY <1>1 DEF solveVars, request, run, DrawStep
<1>2. CASE BeginStep \/ ResetStep
  <2>1. ~exhausted' /\ iterations' = 0 /\ day' = 0 /\ Len(days') = 0
    BY <1>2 DEF BeginStep, Begin, ResetStep
  <2>2. QED
    BY <2>1
<1>3. CASE GiveUp
  <2>1. /\ Unplaced /\ day =< Horizon /\ iterations >= Ceiling
        /\ status' = "blocked" /\ UNCHANGED path /\ status = "solving"
    BY <1>3 DEF GiveUp, Unplaced, request
  <2>2. iterations < Horizon + Len(path)
    BY <2>1, CandidateTyped DEF SolveTypeOK
  <2>3. Len(path) \in Nat
    BY DEF SolveTypeOK
  <2>4. Ceiling \in Int /\ (Ceiling = MaxIterations \/ Horizon + Len(path) < Ceiling)
    BY <2>3, CeilingIsHigh DEF Ceiling
  <2>5. Horizon + Len(path) > MaxIterations
    BY <2>1, <2>2, <2>3, <2>4 DEF SolveTypeOK
  <2>6. QED
    BY <2>1, <2>5
<1>4. CASE OffHorizon \/ Hopeless \/ Finish
  BY <1>4 DEF OffHorizon, Hopeless, Finish, request
<1>5. CASE NextDay
  BY <1>5 DEF NextDay, request, SolveTypeOK, Probing, Unplaced
<1>6. CASE Place
  <2>1. /\ Unplaced /\ status = "solving" /\ days' = Append(days, day)
        /\ day \in 0..Horizon
        /\ UNCHANGED <<path, status, day, exhausted>>
        /\ iterations' = iterations + 1
    BY <1>6 DEF Place, Probing, Unplaced, request, SolveTypeOK
  <2>2. Len(days') = Len(days) + 1
    BY <2>1, AppendProperties DEF SolveTypeOK
  <2>3. QED
    BY <2>1, <2>2 DEF SolveTypeOK
<1>7. QED
  BY <1>1, <1>2, <1>3, <1>4, <1>5, <1>6 DEF SolverStep, Solve

(* What is spent is what the tasks placed cost together.                   *)
LEMMA SpendingKept ==
  ASSUME SolveTypeOK, SolverStep, Spending
  PROVE  Spending'
<1> USE DEF Spending
<1>1. CASE UNCHANGED solveVars
  BY <1>1 DEF solveVars, request, run, menu, SumsUp
<1>2. CASE DrawStep \/ ResetStep
  BY <1>2 DEF DrawStep, ResetStep, run
<1>3. CASE BeginStep
  <2>1. PICK p, t : Begin(p, t)
    BY <1>3 DEF BeginStep
  <2>2. SumsUp(p, t) /\ path' = p /\ total' = t /\ UNCHANGED cost
    BY <2>1 DEF Begin, menu
  <2>3. SumsUp(path, total)'
    BY <2>2 DEF SumsUp
  <2>4. spent' = 0 /\ Len(days') = 0
    BY <2>1 DEF Begin
  <2>5. QED
    BY <2>3, <2>4 DEF SumsUp
<1>4. CASE Solve
  <2>1. UNCHANGED <<path, total, cost>>
    BY <1>4 DEF Solve, GiveUp, OffHorizon, Hopeless, NextDay, Place, Finish,
              request, menu
  <2>2. status # "idle"
    BY <1>4 DEF Solve, GiveUp, OffHorizon, Hopeless, NextDay, Place, Finish,
              Probing, Unplaced
  <2>3. SumsUp(path, total)'
    BY <2>1, <2>2 DEF SumsUp
  <2>4. CASE GiveUp \/ OffHorizon \/ Hopeless \/ NextDay \/ Finish
    BY <2>2, <2>3, <2>4, <2>1 DEF GiveUp, OffHorizon, Hopeless, NextDay, Finish
  <2>5. CASE Place
    <3>1. Unplaced /\ days' = Append(days, day) /\ spent' = spent + cost[Candidate]
      BY <2>5 DEF Place, Probing
    <3>2. Len(days') = Len(days) + 1
      BY <3>1, AppendProperties DEF SolveTypeOK
    <3>3. Len(days) + 1 \in 1..Len(path) /\ Len(days) + 1 - 1 = Len(days)
      BY <3>1, CandidateTyped
    <3>4. total[Len(days) + 1] = total[Len(days)] + cost[Candidate]
      BY <2>2, <3>3 DEF SumsUp, Candidate
    <3>5. QED
      BY <2>1, <2>2, <2>3, <3>1, <3>2, <3>4
  <2>6. QED
    BY <1>4, <2>4, <2>5 DEF Solve
<1>5. QED
  BY <1>1, <1>2, <1>3, <1>4 DEF SolverStep

(* Feasible depends on the request and its gates alone.                    *)
LEMMA SameGates ==
  ASSUME UNCHANGED <<income, menu, request>>
  PROVE  \A s, k : Feasible(s, k)' <=> Feasible(s, k)
<1> USE DEF income, menu, request
<1> SUFFICES ASSUME NEW s, NEW k PROVE Feasible(s, k)' <=> Feasible(s, k)
  OBVIOUS
<1>1. \A j, d : InWindow(s, j, d)' = InWindow(s, j, d)
  BY DEF InWindow
<1>2. \A j, d : SlotFree(s, j, d)' <=> SlotFree(s, j, d)
  BY <1>1 DEF SlotFree
<1>3. \A n, d : OpensOn(n, d)' <=> OpensOn(n, d)
  BY DEF OpensOn
<1>4. QED
  BY <1>2, <1>3 DEF Feasible

(* A schedule is feasible whatever it says of later nodes.                 *)
LEMMA FeasiblePrefix ==
  ASSUME NEW s, NEW r, NEW k \in Nat, \A i \in 1..k : s[i] = r[i],
         Feasible(s, k)
  PROVE  Feasible(r, k)
<1>1. ASSUME NEW i \in 1..k
      PROVE  SlotFree(r, i - 1, r[i])
  <2>1. \A d : InWindow(s, i - 1, d) = InWindow(r, i - 1, d)
    BY DEF InWindow
  <2>2. SlotFree(s, i - 1, s[i])
    BY DEF Feasible
  <2>3. QED
    BY <2>1, <2>2 DEF SlotFree
<1>2. QED
  BY <1>1 DEF Feasible

(* A schedule can go on to a node whose gates its day meets.               *)
LEMMA FeasibleExtended ==
  ASSUME NEW s, NEW k \in Nat, Feasible(s, k),
         \A i \in 1..(k + 1) : s[i] \in Int,
         \A i \in 1..k : s[i] =< s[k + 1],
         OpensOn(path[k + 1], s[k + 1]),
         total[k + 1] =< onHand + rate * s[k + 1],
         SlotFree(s, k, s[k + 1])
  PROVE  Feasible(s, k + 1)
<1>1. \A i \in 1..(k + 1) : i \in 1..k \/ i = k + 1
  OBVIOUS
<1>2. \A i, j \in 1..(k + 1) : i =< j => s[i] =< s[j]
  BY <1>1 DEF Feasible
<1>3. k + 1 - 1 = k
  OBVIOUS
<1>4. QED
  BY <1>1, <1>2, <1>3 DEF Feasible

(* What a placement finds: the candidate's own gates are met.              *)
LEMMA Placing ==
  ASSUME SolveTypeOK, Spending, Place
  PROVE  /\ Unplaced /\ status = "solving" /\ day \in 0..Horizon
         /\ UNCHANGED <<income, menu, request, status, day, exhausted>>
         /\ days' = Append(days, day) /\ days' \in Seq(0..Horizon)
         /\ Len(days') = Len(days) + 1 /\ days'[Len(days) + 1] = day
         /\ \A i \in 1..Len(days) : days'[i] = days[i]
         /\ OpensOn(path[Len(days) + 1], day)
         /\ total[Len(days) + 1] =< onHand + rate * day
         /\ SlotFree(days, Len(days), day)
<1>1. /\ Unplaced /\ status = "solving" /\ day \in 0..Horizon
      /\ UNCHANGED <<income, menu, request, status, day, exhausted>>
      /\ days' = Append(days, day)
      /\ OpensOn(Candidate, day) /\ Affordable(day)
      /\ SlotFree(days, Len(days), day)
  BY DEF Place, Probing, Unplaced, SolveTypeOK
<1>2. /\ days' \in Seq(0..Horizon) /\ Len(days') = Len(days) + 1
      /\ days'[Len(days) + 1] = day
      /\ \A i \in 1..Len(days) : days'[i] = days[i]
  BY <1>1, AppendProperties DEF SolveTypeOK
<1>3. Len(days) + 1 \in 1..Len(path) /\ Len(days) + 1 - 1 = Len(days)
  BY <1>1, CandidateTyped
<1>4. total[Len(days) + 1] = spent + cost[Candidate]
  BY <1>1, <1>3 DEF Spending, SumsUp, Candidate
<1>5. spent \in Int /\ cost[Candidate] \in Int /\ onHand \in Int /\ rate * day \in Int
  BY <1>1, CandidateTyped DEF SolveTypeOK
<1>6. total[Len(days) + 1] =< onHand + rate * day
  BY <1>1, <1>4, <1>5 DEF Affordable
<1>7. QED
  BY <1>1, <1>2, <1>6 DEF Candidate

(* Every step keeps the days chosen so far feasible.                       *)
LEMMA KeptKept ==
  ASSUME SolveTypeOK, SolverStep, Spending, Kept
  PROVE  Kept'
<1> USE DEF Kept
<1>1. CASE UNCHANGED solveVars
  <2>1. \A s, k : Feasible(s, k)' <=> Feasible(s, k)
    BY <1>1, SameGates DEF solveVars
  <2>2. QED
    BY <1>1, <2>1 DEF solveVars, run
<1>2. CASE DrawStep \/ ResetStep
  BY <1>2 DEF DrawStep, ResetStep, run
<1>3. CASE BeginStep
  <2>1. days' = <<>> /\ Len(days') = 0
    BY <1>3 DEF BeginStep, Begin
  <2>2. \A s : Feasible(s, 0)'
    BY DEF Feasible
  <2>3. QED
    BY <2>1, <2>2
<1>4. CASE GiveUp \/ OffHorizon \/ Hopeless \/ NextDay \/ Finish
  <2>1. UNCHANGED <<income, menu, request, days>> /\ status # "idle"
    BY <1>4 DEF GiveUp, OffHorizon, Hopeless, NextDay, Finish, Probing, Unplaced
  <2>2. day' \in {day, day + 1}
    BY <1>4 DEF GiveUp, OffHorizon, Hopeless, NextDay, Finish
  <2>3. \A s, k : Feasible(s, k)' <=> Feasible(s, k)
    BY <2>1, SameGates
  <2>4. day \in Int /\ \A i \in 1..Len(days) : days[i] \in Int
    <3>1. day \in Int /\ days \in Seq(0..Horizon)
      BY SchedulerAssumption DEF SolveTypeOK
    <3>2. \A i \in 1..Len(days) : days[i] \in 0..Horizon
      BY <3>1, ElementOfSeq
    <3>3. QED
      BY <3>1, <3>2
  <2>5. QED
    BY <2>1, <2>2, <2>3, <2>4
<1>5. CASE Place
  <2>1. PICK r : r = days'
    OBVIOUS
  <2>2. r \in Seq(0..Horizon) /\ Len(r) = Len(days) + 1 /\ Len(days) \in Nat
    BY <1>5, <2>1, Placing DEF SolveTypeOK
  <2>3. Feasible(days, Len(days))
    BY <1>5, Placing
  <2>4. Feasible(r, Len(days))
    BY <1>5, <2>1, <2>2, <2>3, FeasiblePrefix, Placing
  <2>5. SlotFree(r, Len(days), day)
    <3>1. \A d : InWindow(r, Len(days), d) = InWindow(days, Len(days), d)
      BY <1>5, <2>1, Placing DEF InWindow
    <3>2. QED
      BY <1>5, <2>1, <3>1, Placing DEF SlotFree
  <2>6. /\ \A i \in 1..(Len(days) + 1) : r[i] \in Int
        /\ r[Len(days) + 1] = day
    <3>1. \A i \in 1..Len(r) : r[i] \in 0..Horizon
      BY <2>2, ElementOfSeq
    <3>2. r[Len(days) + 1] = day
      BY <1>5, <2>1, Placing
    <3>3. QED
      BY <2>2, <3>1, <3>2
  <2>7. \A i \in 1..Len(days) : r[i] =< r[Len(days) + 1]
    BY <1>5, <2>1, <2>6, Placing
  <2>8. Feasible(r, Len(days) + 1)
    BY <1>5, <2>2, <2>4, <2>5, <2>6, <2>7, FeasibleExtended, Placing
  <2>9. Feasible(r, Len(r))'
    BY <1>5, <2>2, <2>8, Placing, SameGates
  <2>10. \A i \in 1..Len(days') : days'[i] =< day'
    BY <1>5, <2>1, <2>2, <2>6, <2>7, Placing
  <2>11. QED
    BY <2>1, <2>9, <2>10
<1>6. QED
  BY <1>1, <1>2, <1>3, <1>4, <1>5 DEF SolverStep, Solve

(* A later day of the predecessors only takes more slots of a window.      *)
LEMMA EarlierIsFreer ==
  ASSUME NEW k \in Nat, NEW s, NEW r, NEW d \in Int,
         \A i \in 1..k : s[i] \in Int /\ r[i] \in Int /\ r[i] =< s[i],
         SlotFree(s, k, d)
  PROVE  SlotFree(r, k, d)
<1>1. SUFFICES ASSUME weekly[path[k + 1]]
               PROVE  /\ \A i \in 1..k : path[i] = path[k + 1] =>
                                           d - r[i] >= WeeklyWindow
                      /\ Cardinality(InWindow(r, k, d)) < WeeklySlots
  BY DEF SlotFree
<1>2. /\ \A i \in 1..k : path[i] = path[k + 1] => d - s[i] >= WeeklyWindow
      /\ Cardinality(InWindow(s, k, d)) < WeeklySlots
  BY <1>1 DEF SlotFree
<1>3. \A i \in 1..k : path[i] = path[k + 1] => d - r[i] >= WeeklyWindow
  BY <1>2, SchedulerAssumption
<1>4. InWindow(r, k, d) \in SUBSET InWindow(s, k, d)
  BY SchedulerAssumption DEF InWindow
<1>5. IsFiniteSet(InWindow(s, k, d))
  <2>1. IsFiniteSet(1..k)
    BY FS_Interval
  <2>2. InWindow(s, k, d) \in SUBSET (1..k)
    BY DEF InWindow
  <2>3. QED
    BY <2>1, <2>2, FS_Subset
<1>6. Cardinality(InWindow(r, k, d)) =< Cardinality(InWindow(s, k, d))
  BY <1>4, <1>5, FS_Subset
<1>7. /\ Cardinality(InWindow(r, k, d)) \in Nat
      /\ Cardinality(InWindow(s, k, d)) \in Nat
  BY <1>4, <1>5, FS_Subset, FS_CardinalityType
<1>8. QED
  BY <1>2, <1>3, <1>6, <1>7, SchedulerAssumption

(* The day some other schedule has for the candidate is one on which       *)
(* solve() would place it too, and it is not past.                         *)
LEMMA OthersAreNoFaster ==
  ASSUME SolveTypeOK, Spending, Paced, Ahead, Unplaced,
         NEW k \in 1..Len(path), NEW s \in [1..k -> 0..Horizon],
         Feasible(s, k), k > Len(days), NEW d, d = s[Len(days) + 1]
  PROVE  /\ d \in 0..Horizon /\ day =< d
         /\ OpensOn(Candidate, d) /\ Affordable(d)
         /\ SlotFree(days, Len(days), d)
<1> DEFINE n == Len(days)
<1>1. n \in Nat /\ n + 1 \in 1..k /\ k \in Nat /\ n + 1 - 1 = n
  BY DEF SolveTypeOK
<1>2. status = "solving" /\ ~exhausted /\ Candidate = path[n + 1]
  BY DEF Unplaced, Paced, Candidate
<1>3. Behind(s, k)
  BY <1>2 DEF Ahead
<1>4. d \in 0..Horizon /\ d \in Int
  BY <1>1
<1>5. day =< d
  BY <1>2, <1>3 DEF Behind
<1>6. /\ OpensOn(path[n + 1], d) /\ total[n + 1] =< onHand + rate * d
      /\ SlotFree(s, n, d)
  BY <1>1 DEF Feasible
<1>7. total[n + 1] = spent + cost[Candidate]
  <2>1. n + 1 \in 1..Len(path)
    BY CandidateTyped
  <2>2. total[n + 1] = total[n + 1 - 1] + cost[path[n + 1]]
    BY <1>2, <2>1 DEF Spending, SumsUp
  <2>3. spent = total[n]
    BY <1>2 DEF Spending
  <2>4. QED
    BY <1>1, <1>2, <2>2, <2>3
<1>8. Affordable(d)
  <2>1. spent \in Int /\ cost[Candidate] \in Int /\ onHand \in Int
    BY CandidateTyped DEF SolveTypeOK
  <2>2. rate * d \in Int
    BY <1>4 DEF SolveTypeOK
  <2>3. QED
    BY <1>6, <1>7, <2>1, <2>2, SMTT(20) DEF Affordable
<1>9. \A i \in 1..n : s[i] \in Int /\ days[i] \in Int /\ days[i] =< s[i]
  <2>1. \A i \in 1..n : days[i] \in 0..Horizon
    BY ElementOfSeq DEF SolveTypeOK
  <2>2. \A i \in 1..n : i \in 1..k
    BY <1>1
  <2>3. QED
    BY <1>1, <1>3, <2>1, <2>2 DEF Behind
<1>10. SlotFree(days, n, d)
  BY <1>1, <1>4, <1>6, <1>9, EarlierIsFreer
<1>11. QED
  BY <1>2, <1>4, <1>5, <1>6, <1>8, <1>10

(* Every step keeps the other schedules behind the plan.                   *)
LEMMA AheadKept ==
  ASSUME SolveTypeOK, SolverStep, Spending, Paced, Ahead
  PROVE  Ahead'
<1>1. CASE UNCHANGED solveVars
  <2>1. \A s, k : Feasible(s, k)' <=> Feasible(s, k)
    BY <1>1, SameGates DEF solveVars
  <2>2. \A s, k : Behind(s, k)' <=> Behind(s, k)
    BY <1>1 DEF Behind, solveVars, run
  <2>3. QED
    BY <1>1, <2>1, <2>2 DEF Ahead, solveVars, run, request
<1>2. CASE DrawStep \/ ResetStep
  BY <1>2 DEF Ahead, DrawStep, ResetStep, run
<1>3. CASE BeginStep
  <2>1. status' = "solving" /\ days' = <<>> /\ Len(days') = 0 /\ day' = 0
    BY <1>3 DEF BeginStep, Begin
  <2>2. path' \in Seq(Nodes)
    BY <1>3 DEF BeginStep, Begin, SumsUp
  <2>3. ASSUME NEW k \in 1..Len(path'), NEW s \in [1..k -> 0..Horizon]
        PROVE  Behind(s, k)'
    <3>1. k \in Nat /\ 1 \in 1..k
      BY <2>2
    <3>2. s[1] \in 0..Horizon
      BY <3>1
    <3>3. 0 =< s[1]
      BY <3>2, SchedulerAssumption
    <3>4. QED
      BY <2>1, <3>1, <3>3 DEF Behind
  <2>4. QED
    BY <2>3 DEF Ahead
<1>4. CASE Solve
  <2>1. UNCHANGED <<income, menu, request>> /\ UNCHANGED path /\ status # "idle"
    BY <1>4 DEF Solve, GiveUp, OffHorizon, Hopeless, NextDay, Place, Finish,
              Probing, Unplaced, request
  <2>2. SUFFICES ASSUME NEW k \in 1..Len(path),
                        NEW s \in [1..k -> 0..Horizon], Feasible(s, k)
                 PROVE  Behind(s, k)'
    BY <2>1, SameGates DEF Ahead
  <2>3. Behind(s, k)
    BY <2>1, <2>2 DEF Ahead
  <2>4. CASE GiveUp
    BY <2>3, <2>4 DEF GiveUp, Behind
  <2>5. CASE OffHorizon
    <3>1. Unplaced /\ day > Horizon /\ UNCHANGED <<days, exhausted>>
      BY <2>5 DEF OffHorizon
    <3>2. ~(k > Len(days))
      <4>1. SUFFICES ASSUME k > Len(days) PROVE FALSE
        OBVIOUS
      <4>2. PICK d : d = s[Len(days) + 1]
        OBVIOUS
      <4>3. d \in 0..Horizon /\ day =< d
        BY <2>2, <3>1, <4>1, <4>2, OthersAreNoFaster
      <4>4. QED
        BY <3>1, <4>3, SchedulerAssumption DEF SolveTypeOK
    <3>3. QED
      BY <2>3, <3>1, <3>2 DEF Behind
  <2>6. CASE Hopeless
    <3>1. Unplaced /\ UNCHANGED <<days, exhausted>> /\ rate = 0 /\ ~Affordable(day)
      BY <2>6 DEF Hopeless, Probing
    <3>2. ~(k > Len(days))
      <4>1. SUFFICES ASSUME k > Len(days) PROVE FALSE
        OBVIOUS
      <4>2. PICK d : d = s[Len(days) + 1]
        OBVIOUS
      <4>3. d \in 0..Horizon /\ Affordable(d)
        BY <2>2, <3>1, <4>1, <4>2, OthersAreNoFaster
      <4>4. rate * d = 0 /\ rate * day = 0
        BY <3>1, <4>3 DEF SolveTypeOK
      <4>5. QED
        BY <3>1, <4>3, <4>4 DEF Affordable
    <3>3. QED
      BY <2>3, <3>1, <3>2 DEF Behind
  <2>7. CASE NextDay
    <3>1. /\ Unplaced /\ UNCHANGED <<days, status, exhausted>>
          /\ day' = day + 1 /\ status = "solving"
      BY <2>7 DEF NextDay, Probing, Unplaced
    <3>2. k > Len(days) => day + 1 =< s[Len(days) + 1]
      <4>1. SUFFICES ASSUME k > Len(days)
                     PROVE  day + 1 =< s[Len(days) + 1]
        OBVIOUS
      <4>2. PICK d : d = s[Len(days) + 1]
        OBVIOUS
      <4>3. /\ d \in 0..Horizon /\ day =< d /\ OpensOn(Candidate, d)
            /\ Affordable(d) /\ SlotFree(days, Len(days), d)
        BY <2>2, <3>1, <4>1, <4>2, OthersAreNoFaster
      <4>4. d # day
        BY <2>7, <4>3 DEF NextDay
      <4>5. QED
        BY <4>2, <4>3, <4>4, SchedulerAssumption, SMTT(20) DEF SolveTypeOK
    <3>3. QED
      BY <2>3, <3>1, <3>2 DEF Behind
  <2>8. CASE Place
    <3>1. /\ Unplaced /\ status' = "solving" /\ day' = day
          /\ Len(days') = Len(days) + 1 /\ days'[Len(days) + 1] = day
          /\ \A i \in 1..Len(days) : days'[i] = days[i]
      BY <2>8, Placing
    <3>2. Len(days) \in Nat /\ k \in Nat
      BY DEF SolveTypeOK
    <3>3. k > Len(days) => day =< s[Len(days) + 1]
      <4>1. SUFFICES ASSUME k > Len(days) PROVE day =< s[Len(days) + 1]
        OBVIOUS
      <4>2. PICK d : d = s[Len(days) + 1]
        OBVIOUS
      <4>3. QED
        BY <2>2, <3>1, <4>1, <4>2, OthersAreNoFaster
    <3>4. ASSUME NEW i \in 1..k, i =< Len(days) + 1
          PROVE  days'[i] =< s[i]
      <4>1. CASE i =< Len(days)
        BY <2>3, <3>1, <3>2, <4>1 DEF Behind
      <4>2. CASE i = Len(days) + 1
        BY <3>1, <3>2, <3>3, <4>2
      <4>3. QED
        BY <3>2, <3>4, <4>1, <4>2
    <3>5. k > Len(days) + 1 => day =< s[Len(days) + 2]
      <4>1. SUFFICES ASSUME k > Len(days) + 1 PROVE day =< s[Len(days) + 2]
        OBVIOUS
      <4>2. Len(days) + 1 \in 1..k /\ Len(days) + 2 \in 1..k
        BY <3>2, <4>1
      <4>3. s[Len(days) + 1] =< s[Len(days) + 2]
        BY <2>2, <4>2, <3>2 DEF Feasible
      <4>4. s[Len(days) + 1] \in 0..Horizon /\ s[Len(days) + 2] \in 0..Horizon
        BY <4>2
      <4>5. day =< s[Len(days) + 1]
        BY <3>2, <3>3, <4>1
      <4>6. QED
        BY <4>3, <4>4, <4>5, SchedulerAssumption, SMTT(20) DEF SolveTypeOK
    <3>6. Len(days) + 1 + 1 = Len(days) + 2
      BY <3>2
    <3>7. QED
      BY <3>1, <3>2, <3>4, <3>5, <3>6 DEF Behind
  <2>9. CASE Finish
    <3>1. Len(days) = Len(path) /\ UNCHANGED <<days, exhausted>>
      BY <2>9 DEF Finish
    <3>2. ~(k > Len(days))
      BY <3>1 DEF SolveTypeOK
    <3>3. QED
      BY <2>3, <3>1, <3>2 DEF Behind
  <2>10. QED
    BY <1>4, <2>4, <2>5, <2>6, <2>7, <2>8, <2>9 DEF Solve
<1>5. QED
  BY <1>1, <1>2, <1>3, <1>4 DEF SolverStep

-----------------------------------------------------------------------------
(* The theorems about the day plan.                                        *)

(* The invariant of the day plan.                                          *)
LEMMA PlanInvariant == Spec => []PlanInv
<1>1. ASSUME Init PROVE PlanInv
  <2>1. /\ status = "idle" /\ exhausted = FALSE /\ path = <<>> /\ days = <<>>
        /\ day = 0 /\ spent = 0 /\ iterations = 0
        /\ rate = 0 /\ onHand = 0 /\ start = 0
        /\ cost = [n \in Nodes |-> 0] /\ weekdays = [n \in Nodes |-> {}]
        /\ weekly = [n \in Nodes |-> FALSE]
    BY <1>1 DEF Init, SolveInit
  <2>2. SolveTypeOK
    <3>1. exhausted \in BOOLEAN /\ weekly \in [Nodes -> BOOLEAN]
      BY <2>1
    <3>2. path \in Seq(Nodes) /\ days \in Seq(0..Horizon) /\ Len(days) =< Len(path)
      BY <2>1
    <3>3. QED
      BY <2>1, <3>1, <3>2, SchedulerAssumption
      DEF SolveTypeOK, Statuses, Weekdays
  <2>3. Paced /\ Spending /\ Kept /\ Ahead
    BY <2>1 DEF Paced, Spending, Kept, Ahead
  <2>4. NeverExhausted
    BY <2>1 DEF NeverExhausted
  <2>5. QED
    BY <2>2, <2>3, <2>4 DEF PlanInv
<1>2. PlanInv /\ IdleInv /\ [Next]_vars => PlanInv'
  <2> SUFFICES ASSUME PlanInv, IdleInv, [Next]_vars PROVE PlanInv'
    OBVIOUS
  <2>1. SolverStep
    BY SolverSteps
  <2>2. SolveTypeOK' /\ Paced' /\ NeverExhausted'
    BY <2>1, SolverTyped, PaceKept DEF PlanInv
  <2>3. Spending' /\ Kept' /\ Ahead'
    BY <2>1, SpendingKept, KeptKept, AheadKept DEF PlanInv
  <2>4. QED
    BY <2>2, <2>3 DEF PlanInv
<1>3. QED
  BY <1>1, <1>2, IdleBeforeDraw, PTL DEF Spec

(* Every task of a finished plan meets its gates.                          *)
THEOREM PlansCanBeRun == Spec => []Runnable
<1>1. PlanInv => Runnable
  BY DEF PlanInv, Kept, Runnable, Over
<1>2. QED
  BY <1>1, PlanInvariant, PTL

(* No feasible schedule is ahead of the plan at any node, and only what no *)
(* feasible schedule reaches is blocked.                                   *)
THEOREM PlansAreEarliest == Spec => []Earliest
<1>1. PlanInv => Earliest
  <2> SUFFICES ASSUME PlanInv, Over, ~exhausted,
                      NEW k \in 1..Len(path), NEW s \in [1..k -> 0..Horizon],
                      Feasible(s, k)
               PROVE  k =< Len(days) /\ days[k] =< s[k]
    BY DEF Earliest
  <2>1. status # "idle" /\ status # "solving"
    BY DEF Over
  <2>2. Behind(s, k)
    BY <2>1 DEF PlanInv, Ahead
  <2>3. k =< Len(days)
    BY <2>1, <2>2 DEF Behind, PlanInv, SolveTypeOK
  <2>4. QED
    BY <2>2, <2>3 DEF Behind
<1>2. QED
  BY <1>1, PlanInvariant, PTL

(* The iteration ceiling ends no search that fits MAX_SCHEDULE_ITERATIONS. *)
THEOREM CeilingIsOutOfReach == Spec => []NeverExhausted
<1>1. PlanInv => NeverExhausted
  BY DEF PlanInv
<1>2. QED
  BY <1>1, PlanInvariant, PTL

-----------------------------------------------------------------------------
(* The job uses the graph as Objectives specifies it.                      *)
THEOREM PlannerUsesTheGraph == Spec => GraphSpec
<1>1. Init => GraphInit
  BY DEF Init
<1>2. [Next]_vars => [GraphNext]_graphVars
  <2> SUFFICES ASSUME Next PROVE [GraphNext]_graphVars
    BY DEF vars
  <2>1. CASE Build \/ Inquire \/ Close
    BY <2>1 DEF Build, Inquire, Close, GraphNext
  <2>2. CASE TakeGoal
    <3>1. PICK g : Ask(g, {})
      BY <2>2 DEF TakeGoal
    <3>2. g \in index
      BY <3>1 DEF Ask
    <3>3. {} \in SUBSET index
      OBVIOUS
    <3>4. Question
      BY <3>1, <3>2, <3>3 DEF Question
    <3>5. QED
      BY <3>4 DEF GraphNext
  <2>3. CASE Draw \/ StartPlan \/ DayPlan \/ Collect
    BY <2>3 DEF Draw, StartPlan, DayPlan, Collect
  <2>4. QED
    BY <2>1, <2>2, <2>3 DEF Next
<1>3. QED
  BY <1>1, <1>2, PTL DEF Spec, GraphSpec

(* So what holds of every graph holds of the one that is planned.          *)
THEOREM PlannedGraphsAreSound ==
  Spec => [](OrderIsLeast /\ CycleIsReal /\ AnswerIsExact)
<1>1. QED
  BY PlannerUsesTheGraph, OrdersAreLeast, CyclesAreReal, AnswersAreExact, PTL

-----------------------------------------------------------------------------
(* The whole job: what critical_path gives the solver, what a plan takes   *)
(* from it, and that together the plans leave out no objective.            *)

(* Nth lists some places of an interval in their order, each once.         *)
LEMMA NthLists ==
  ASSUME NEW L \in Nat, NEW P \in SUBSET (1..L)
  PROVE  /\ IsFiniteSet(P) /\ Cardinality(P) \in Nat
         /\ \A k \in 1..Cardinality(P) : Nth(P, k) \in P
         /\ \A i \in P : \E k \in 1..Cardinality(P) : Nth(P, k) = i
         /\ \A k, l \in 1..Cardinality(P) : Nth(P, k) < Nth(P, l) <=> k < l
<1> DEFINE Rank(i) == Cardinality({j \in P : j =< i})
<1>1. IsFiniteSet(P) /\ Cardinality(P) \in Nat
  <2>1. IsFiniteSet(1..L)
    BY FS_Interval
  <2>2. IsFiniteSet(P)
    BY <2>1, FS_Subset
  <2>3. QED
    BY <2>2, FS_CardinalityType
<1>2. \A i \in P : Rank(i) \in 1..Cardinality(P)
  <2> TAKE i \in P
  <2> DEFINE below == {j \in P : j =< i}
  <2>1. below \in SUBSET P /\ i \in below
    OBVIOUS
  <2>2. IsFiniteSet(below) /\ Cardinality(below) =< Cardinality(P)
    BY <1>1, <2>1, FS_Subset
  <2>3. Cardinality(below) \in Nat /\ Cardinality(below) # 0
    BY <2>1, <2>2, FS_CardinalityType, FS_EmptySet
  <2>4. QED
    BY <1>1, <2>2, <2>3
<1>3. \A i, l \in P : i < l => Rank(i) < Rank(l)
  <2> SUFFICES ASSUME NEW i \in P, NEW l \in P, i < l PROVE Rank(i) < Rank(l)
    OBVIOUS
  <2> DEFINE lower == {j \in P : j =< i}
             upper == {j \in P : j =< l}
  <2>1. lower \in SUBSET upper /\ upper \in SUBSET P /\ l \in upper /\ l \notin lower
    <3>1. \A j \in P : j \in Nat
      OBVIOUS
    <3>2. lower \in SUBSET upper
      <4>1. \A j \in P : j =< i => j =< l
        BY <3>1
      <4>2. QED
        BY <4>1
    <3>3. l \in upper /\ l \notin lower
      BY <3>1
    <3>4. QED
      BY <3>2, <3>3
  <2>2. IsFiniteSet(upper) /\ IsFiniteSet(lower)
    BY <1>1, <2>1, FS_Subset
  <2>3. Cardinality(lower) =< Cardinality(upper)
        /\ Cardinality(lower) # Cardinality(upper)
    BY <2>1, <2>2, FS_Subset
  <2>4. Cardinality(lower) \in Nat /\ Cardinality(upper) \in Nat
    BY <2>2, FS_CardinalityType
  <2>5. QED
    BY <2>3, <2>4
<1> HIDE DEF Rank
<1>4. \A i, l \in P : i < l <=> Rank(i) < Rank(l)
  BY <1>2, <1>3
<1>5. \A i, l \in P : Rank(i) = Rank(l) => i = l
  BY <1>4
<1>6. \A k \in 1..Cardinality(P) : \E i \in P : Rank(i) = k
  <2> DEFINE rank == [i \in P |-> Rank(i)]
             T == 1..Cardinality(P)
  <2>1. rank \in Injection(P, T)
    BY <1>2, <1>5 DEF Injection, IsInjective
  <2>2. IsFiniteSet(T) /\ Cardinality(T) = Cardinality(P)
    BY <1>1, FS_Interval
  <2>3. rank \in Surjection(P, T)
    BY <2>1, <2>2, FS_Injection
  <2>4. QED
    BY <2>3 DEF Surjection
<1>7. \A k \in 1..Cardinality(P) : Nth(P, k) \in P /\ Rank(Nth(P, k)) = k
  BY <1>6 DEF Nth, Rank
<1>8. \A i \in P : Nth(P, Rank(i)) = i
  BY <1>2, <1>5, <1>7
<1>9. \A k, l \in 1..Cardinality(P) : Nth(P, k) < Nth(P, l) <=> k < l
  <2> TAKE k, l \in 1..Cardinality(P)
  <2>1. PICK i \in P : i = Nth(P, k) /\ Rank(i) = k
    BY <1>7
  <2>2. PICK j \in P : j = Nth(P, l) /\ Rank(j) = l
    BY <1>7
  <2>3. i < j <=> k < l
    BY <1>4, <2>1, <2>2
  <2>4. QED
    BY <2>1, <2>2, <2>3
<1>10. \A i \in P : \E k \in 1..Cardinality(P) : Nth(P, k) = i
  BY <1>2, <1>8
<1>11. QED
  BY <1>1, <1>7, <1>9, <1>10

(* A path to a goal: no node twice, each after all it depends on, the goal *)
(* at the end.                                                             *)
Leads(p, g) ==
  /\ p \in Seq(index) /\ Len(p) > 0 /\ p[Len(p)] = g
  /\ \A i, j \in 1..Len(p) : p[i] = p[j] => i = j
  /\ \A i \in 1..Len(p) : \A m \in dependsOn[p[i]] :
       \E j \in 1..Len(p) : j < i /\ p[j] = m

(* No node has two places in the order.                                    *)
LEMMA OrderIsInjective ==
  ASSUME SortInv
  PROVE  /\ DOMAIN order = 1..Len(order) /\ Len(order) \in Nat
         /\ \A i, j \in DOMAIN order : order[i] = order[j] => i = j
<1>1. DOMAIN order = 1..Len(order) /\ Len(order) \in Nat
  BY FiniteGraph DEF SortInv
<1>2. \A i, j \in DOMAIN order : i < j => order[i] # order[j]
  BY <1>1 DEF SortInv, OrderInv, Free, Earlier
<1>3. QED
  BY <1>1, <1>2

(* critical_path leads to the goal that was asked.                         *)
LEMMA PathLeads ==
  ASSUME SortInv, ClosureInv, phase = "answered", completed = {}
  PROVE  Leads(CriticalPath, goal) /\ Len(CriticalPath) \in Nat
<1> DEFINE P == {i \in DOMAIN order : order[i] \in seen}
           N == Cardinality(P)
<1>1. DOMAIN order = 1..Len(order) /\ Len(order) \in Nat
      /\ \A i, j \in DOMAIN order : order[i] = order[j] => i = j
  BY OrderIsInjective
<1>2. P \in SUBSET (1..Len(order))
  BY <1>1
<1>3. P \subseteq DOMAIN order /\ \A i \in DOMAIN order : i \in P <=> order[i] \in seen
  OBVIOUS
<1>4. CriticalPath = [k \in 1..N |-> order[Nth(P, k)]]
  BY DEF CriticalPath
<1> HIDE DEF P
<1>5. /\ N \in Nat
      /\ \A k \in 1..N : Nth(P, k) \in P
      /\ \A i \in P : \E k \in 1..N : Nth(P, k) = i
      /\ \A k, l \in 1..N : Nth(P, k) < Nth(P, l) <=> k < l
  BY <1>1, <1>2, NthLists
<1> HIDE DEF N
<1>6. /\ goal \in seen /\ seen \subseteq index
      /\ \A m \in seen : dependsOn[m] \subseteq seen /\ NotAfter(m, goal)
  BY DEF ClosureInv
<1>7. Elements(order) = index
      /\ \A i, j \in DOMAIN order : order[j] \in dependsOn[order[i]] => j < i
  BY OrderIsTopological DEF Sorted, Topological
<1> DEFINE p == CriticalPath
<1>8. p \in Seq(index) /\ Len(p) = N /\ \A k \in 1..N : p[k] = order[Nth(P, k)]
  <2>1. \A k \in 1..N : order[Nth(P, k)] \in index
    BY <1>3, <1>5, <1>6
  <2>2. QED
    BY <1>4, <1>5, <2>1
<1> HIDE DEF p
<1>9. PICK g \in P : order[g] = goal
  BY <1>3, <1>6, <1>7 DEF Elements
<1>10. \A i \in P : i =< g
  <2> TAKE i \in P
  <2>1. NotAfter(order[i], goal)
    BY <1>3, <1>6
  <2>2. PICK a, b \in DOMAIN order : a =< b /\ order[a] = order[i] /\ order[b] = goal
    BY <2>1 DEF NotAfter
  <2>3. a = i /\ b = g
    BY <1>1, <1>3, <1>9, <2>2
  <2>4. QED
    BY <2>2, <2>3
<1>11. PICK k \in 1..N : Nth(P, k) = g
  BY <1>5, <1>9
<1>12. k = N
  <2>1. N \in 1..N /\ Nth(P, N) \in P
    BY <1>5, <1>11
  <2>2. ~(k < N)
    <3>1. \A i \in P : i \in Nat
      BY <1>1, <1>2
    <3>4. Nth(P, N) =< g /\ g \in Nat /\ Nth(P, N) \in Nat
      BY <1>10, <2>1, <3>1
    <3>2. ~(Nth(P, k) < Nth(P, N))
      BY <1>11, <3>4
    <3>3. QED
      BY <1>5, <1>11, <2>1, <3>2
  <2>3. QED
    BY <1>5, <2>2
<1>13. Len(p) > 0 /\ p[Len(p)] = goal
  BY <1>8, <1>9, <1>11, <1>12
<1>14. \A i, j \in 1..N : p[i] = p[j] => i = j
  <2> SUFFICES ASSUME NEW i \in 1..N, NEW j \in 1..N, p[i] = p[j] PROVE i = j
    OBVIOUS
  <2>1. Nth(P, i) = Nth(P, j)
    BY <1>1, <1>3, <1>5, <1>8
  <2>2. ~(i < j) /\ ~(j < i)
    BY <1>2, <1>5, <2>1
  <2>3. QED
    BY <1>5, <2>2
<1>15. ASSUME NEW i \in 1..N, NEW m \in dependsOn[p[i]]
       PROVE  \E j \in 1..N : j < i /\ p[j] = m
  <2>1. p[i] = order[Nth(P, i)] /\ Nth(P, i) \in P
    BY <1>5, <1>8
  <2>2. m \in seen
    BY <1>3, <1>6, <1>15, <2>1
  <2>3. PICK b \in DOMAIN order : order[b] = m
    BY <1>6, <1>7, <2>2 DEF Elements
  <2>4. b \in P /\ b < Nth(P, i)
    BY <1>3, <1>7, <1>15, <2>1, <2>2, <2>3
  <2>5. PICK j \in 1..N : Nth(P, j) = b
    BY <1>5, <2>4
  <2>6. QED
    BY <1>5, <1>8, <2>3, <2>4, <2>5
<1>16. QED
  BY <1>5, <1>8, <1>13, <1>14, <1>15 DEF Leads, p

(* What each plan accounts for: the nodes of a closed set that holds its   *)
(* goal, each task after what it depends on.                               *)
Accounts(g, plan) ==
  LET tasks == plan.tasks
      part == DOMAIN tasks \union plan.blocked
  IN  /\ part \subseteq index /\ g \in part
      /\ \A n \in part : dependsOn[n] \subseteq part
      /\ g \in DOMAIN tasks => tasks[g] + 1 = plan.days
      /\ \A n \in DOMAIN tasks : \A m \in dependsOn[n] :
           m \in DOMAIN tasks /\ tasks[m] =< tasks[n]

(* A day plan that ended on a path to a goal accounts for all of the path. *)
LEMMA PlanAccounts ==
  ASSUME SolveTypeOK, Kept, Over, NEW g, Leads(path, g),
         status = "planned" => Len(days) = Len(path),
         status = "blocked" => Len(days) < Len(path),
         NEW tasks,
         tasks = [n \in {path[i] : i \in DOMAIN days} |->
                    days[CHOOSE i \in DOMAIN days : path[i] = n]]
  PROVE  Accounts(g, [tasks |-> tasks, blocked |-> BlockedOn, days |-> EstimatedDays])
<1> DEFINE plan == [tasks |-> tasks, blocked |-> BlockedOn, days |-> EstimatedDays]
           L == Len(path)
           D == Len(days)
<1>1. /\ L \in Nat /\ D \in Nat /\ D =< L /\ L > 0
      /\ DOMAIN days = 1..D
      /\ \A i \in 1..D : days[i] \in 0..Horizon
  <2>1. path \in Seq(Nodes) /\ days \in Seq(0..Horizon) /\ D =< L
    BY DEF SolveTypeOK
  <2>2. L > 0
    BY DEF Leads
  <2>3. \A i \in 1..D : days[i] \in 0..Horizon
    BY <2>1, ElementOfSeq
  <2>4. QED
    BY <2>1, <2>2, <2>3
<1>0. /\ \A i \in 1..L : path[i] \in index
      /\ path[L] = g
      /\ \A i, j \in 1..L : path[i] = path[j] => i = j
      /\ \A i \in 1..L : \A m \in dependsOn[path[i]] :
           \E j \in 1..L : j < i /\ path[j] = m
  <2>1. path \in Seq(index)
    BY DEF Leads
  <2>2. \A i \in 1..L : path[i] \in index
    BY <2>1, ElementOfSeq
  <2>3. QED
    BY <2>2, Zenon DEF Leads
<1>2. \A i, j \in 1..D : i =< j => days[i] =< days[j]
  BY DEF Kept, Over, Feasible
<1>3. DOMAIN tasks = {path[i] : i \in 1..D}
  BY <1>1
<1>4. \A i \in 1..D : tasks[path[i]] = days[i]
  <2> TAKE i \in 1..D
  <2> DEFINE k == CHOOSE j \in DOMAIN days : path[j] = path[i]
  <2>1. k \in 1..D /\ path[k] = path[i]
    BY <1>1
  <2> HIDE DEF k
  <2>2. k = i
    BY <1>0, <1>1, <2>1
  <2>3. tasks[path[i]] = days[k]
    BY <1>1 DEF k
  <2>4. QED
    BY <2>2, <2>3
<1>5. BlockedOn = {path[i] : i \in (D + 1)..L}
  BY DEF BlockedOn
<1>6. DOMAIN tasks \union BlockedOn = {path[i] : i \in 1..L}
  <2>1. 1..L = (1..D) \union ((D + 1)..L)
    BY <1>1
  <2>2. QED
    BY <1>3, <1>5, <2>1
<1> HIDE DEF L, D
<1>7. g \in DOMAIN tasks => tasks[g] + 1 = EstimatedDays
  <2> SUFFICES ASSUME g \in DOMAIN tasks PROVE tasks[g] + 1 = EstimatedDays
    OBVIOUS
  <2>1. PICK i \in 1..D : path[i] = g
    BY <1>3
  <2>2. i = L /\ D = L
    BY <1>0, <1>1, <2>1
  <2>3. status # "blocked" /\ days # <<>>
    BY <1>0, <1>1, <2>2 DEF L, D
  <2>4. EstimatedDays = days[D] + 1
    BY <2>3 DEF EstimatedDays, D
  <2>5. QED
    BY <1>4, <2>1, <2>2, <2>4
<1>8. \A n \in DOMAIN tasks \union BlockedOn :
         dependsOn[n] \subseteq DOMAIN tasks \union BlockedOn
  <2> TAKE n \in DOMAIN tasks \union BlockedOn
  <2>1. PICK i \in 1..L : path[i] = n
    BY <1>6
  <2>2. \A m \in dependsOn[n] : \E j \in 1..L : path[j] = m
    BY <1>0, <2>1
  <2>3. QED
    BY <1>6, <2>2
<1>9. ASSUME NEW n \in DOMAIN tasks, NEW m \in dependsOn[n]
      PROVE  m \in DOMAIN tasks /\ tasks[m] =< tasks[n]
  <2>1. PICK i \in 1..D : path[i] = n
    BY <1>3
  <2>0. i \in 1..L
    BY <1>1, <2>1
  <2>2. PICK j \in 1..L : j < i /\ path[j] = m
    BY <1>0, <1>9, <2>0, <2>1
  <2>3. j \in 1..D /\ j =< i
    BY <1>0, <1>1, <2>1, <2>2
  <2>4. QED
    BY <1>2, <1>3, <1>4, <2>1, <2>2, <2>3
<1>10. DOMAIN tasks \union BlockedOn \subseteq index /\ g \in DOMAIN tasks \union BlockedOn
  BY <1>0, <1>1, <1>6
<1>11. QED
  BY <1>7, <1>8, <1>9, <1>10 DEF Accounts

(* The invariant of the job: the caller who plans has an accepted graph,   *)
(* the solver works on a path to the goal that was asked, and every plan   *)
(* accounts for what its goal rests on.                                    *)
AskedInv ==
  drawn =>
    /\ Sorted
    /\ phase # "ordered" => completed = {} /\ goal \in Leaves

SolvingInv ==
  status # "idle" =>
    /\ phase = "answered" /\ Leads(path, goal)
    /\ status = "planned" => Len(days) = Len(path)
    /\ status = "blocked" => Len(days) < Len(path)

PlansInv == \A g \in DOMAIN plans : g \in Leaves /\ Accounts(g, plans[g])

JobInv == AskedInv /\ SolvingInv /\ PlansInv

(* No step changes the graph a caller gave.                                *)
LEMMA GivenStays ==
  ASSUME [Next]_vars
  PROVE  UNCHANGED <<index, dependsOn>>
<1>1. CASE Build
  BY <1>1 DEF Build, RefuseIds, Sorting, StartSort, Pop, EndSort, Searching, NextRoot, Descend,
              Retreat, ReportCycle, given
<1>2. CASE Inquire \/ TakeGoal \/ Close
  BY <1>2 DEF Inquire, Question, TakeGoal, Ask, Close, Closing, Visit, Answer, given
<1>3. CASE Draw \/ StartPlan \/ DayPlan \/ Collect \/ UNCHANGED vars
  BY <1>3 DEF Draw, StartPlan, DayPlan, Collect, vars, graphVars, given
<1>4. QED
  BY <1>1, <1>2, <1>3 DEF Next

(* Who plans has an accepted graph, and asks for the paths of its goals.   *)
LEMMA AskedInvNext ==
  ASSUME GraphInv, AskedInv, [Next]_vars
  PROVE  AskedInv'
<1>0. UNCHANGED <<index, dependsOn>> /\ Leaves' = Leaves
  BY GivenStays DEF Leaves, Dependents
<1>1. CASE Build \/ Inquire
  BY <1>1
  DEF AskedInv, Build, Inquire, Sorted, RefuseIds, Sorting, StartSort, Pop, EndSort, Searching,
      NextRoot, Descend, Retreat, ReportCycle
<1>2. CASE Draw
  BY <1>0, <1>2 DEF AskedInv, Draw, Sorted, graphVars
<1>3. CASE TakeGoal
  <2>1. Unplanned \subseteq Nat /\ Unplanned # {} /\ Unplanned \subseteq Leaves
    BY <1>3, ObjectivesAssumption DEF TakeGoal, Unplanned, Leaves, GraphInv
  <2>2. Least(Unplanned) \in Leaves
    BY <2>1, LeastIsLeast
  <2>3. phase' = "closing" /\ goal' = Least(Unplanned) /\ completed' = {}
    BY <1>3 DEF TakeGoal, Ask
  <2>4. QED
    BY <1>0, <2>2, <2>3 DEF AskedInv, Sorted
<1>4. CASE Close
  <2>1. phase = "closing" /\ phase' \in {"closing", "answered"}
        /\ UNCHANGED <<goal, completed, drawn>>
    BY <1>4 DEF Close, Closing, Visit, Answer, closing
  <2>2. QED
    BY <1>0, <2>1 DEF AskedInv, Sorted
<1>5. CASE StartPlan \/ DayPlan \/ Collect \/ UNCHANGED vars
  BY <1>0, <1>5 DEF AskedInv, Sorted, StartPlan, DayPlan, Collect, vars, graphVars, closing
<1>6. QED
  BY <1>1, <1>2, <1>3, <1>4, <1>5 DEF Next

(* The solver works on a path to the goal that was asked.                  *)
LEMMA SolvingInvNext ==
  ASSUME SortInv, ClosureInv, SolveTypeOK, IdleInv, AskedInv, SolvingInv, [Next]_vars
  PROVE  SolvingInv'
<1>0. UNCHANGED <<index, dependsOn>>
  BY GivenStays
<1>1. CASE Build \/ Inquire \/ TakeGoal \/ Close
  <2>1. status = "idle" /\ UNCHANGED status
    BY <1>1
    DEF SolvingInv, IdleInv, AskedInv, Sorted, Build, RefuseIds, Sorting, StartSort, Pop, EndSort,
        Searching, NextRoot, Descend, Retreat, ReportCycle, Inquire, TakeGoal, Close, Closing,
        Visit, Answer, solveVars, run
  <2>2. QED
    BY <2>1 DEF SolvingInv
<1>2. CASE Draw \/ Collect
  BY <1>2 DEF SolvingInv, IdleInv, Draw, Collect, run
<1>3. CASE StartPlan
  <2>1. /\ phase = "answered" /\ drawn /\ path' = CriticalPath /\ status' = "solving"
        /\ UNCHANGED <<phase, goal>>
    BY <1>3 DEF StartPlan, Begin, graphVars, closing
  <2>2. Leads(CriticalPath, goal)
    BY <2>1, PathLeads DEF AskedInv
  <2>3. QED
    BY <1>0, <2>1, <2>2 DEF SolvingInv, Leads
<1>4. CASE DayPlan
  <2>1. /\ status = "solving" /\ UNCHANGED <<phase, goal, path>>
        /\ status' = "planned" => Len(days') = Len(path')
        /\ status' = "blocked" => Len(days') < Len(path')
    BY <1>4
    DEF DayPlan, Solve, GiveUp, OffHorizon, Hopeless, NextDay, Place, Finish, Probing, Unplaced,
        request, graphVars, closing
  <2>2. QED
    BY <1>0, <2>1 DEF SolvingInv, Leads
<1>5. CASE UNCHANGED vars
  BY <1>0, <1>5 DEF SolvingInv, Leads, vars, solveVars, request, run, graphVars, closing
<1>6. QED
  BY <1>1, <1>2, <1>3, <1>4, <1>5 DEF Next

(* What is collected accounts for what its goal rests on.                  *)
LEMMA PlansInvNext ==
  ASSUME SolveTypeOK, Kept, IdleInv, AskedInv, SolvingInv, PlansInv, [Next]_vars
  PROVE  PlansInv'
<1>0. UNCHANGED <<index, dependsOn>> /\ Leaves' = Leaves
  BY GivenStays DEF Leaves, Dependents
<1>1. \A g, plan : Accounts(g, plan)' <=> Accounts(g, plan)
  BY <1>0 DEF Accounts
<1>2. CASE Collect
  <2> DEFINE tasks == [n \in {path[i] : i \in DOMAIN days} |->
                         days[CHOOSE i \in DOMAIN days : path[i] = n]]
             new == [tasks |-> tasks, blocked |-> BlockedOn, days |-> EstimatedDays]
  <2>1. plans' = [g \in DOMAIN plans \union {goal} |-> IF g = goal THEN new ELSE plans[g]]
        /\ Over
    BY <1>2 DEF Collect
  <2>2. Accounts(goal, new)
    BY <2>1, PlanAccounts DEF SolvingInv, Over
  <2>3. goal \in Leaves
    BY <2>1 DEF SolvingInv, Over, IdleInv, AskedInv
  <2> HIDE DEF new
  <2>4. ASSUME NEW g \in DOMAIN plans' PROVE g \in Leaves /\ Accounts(g, plans'[g])
    BY <2>1, <2>2, <2>3 DEF PlansInv
  <2>5. QED
    BY <1>0, <1>1, <2>4 DEF PlansInv
<1>3. CASE ~Collect
  <2>1. UNCHANGED plans
    BY <1>3 DEF Next, Build, Inquire, Draw, TakeGoal, Close, StartPlan, DayPlan, vars
  <2>2. QED
    BY <1>0, <1>1, <2>1 DEF PlansInv
<1>4. QED
  BY <1>2, <1>3

(* The parts of the invariant together.                                    *)
LEMMA JobInvariant == Spec => [](SortInv /\ JobInv)
<1>1. Init => JobInv
  BY DEF Init, SolveInit, JobInv, AskedInv, SolvingInv, PlansInv
<1>2. GraphInit => ClosureInv
  BY DEF GraphInit, ClosureInv
<1>3. SortInv /\ SortInv' /\ ClosureInv /\ [GraphNext]_graphVars => ClosureInv'
  BY ClosureInvKept
<1>4. GraphSpec => []ClosureInv
  BY <1>2, <1>3, SortInvariant, PTL DEF GraphSpec
<1>5. SortInv /\ ClosureInv /\ PlanInv /\ IdleInv /\ JobInv /\ [Next]_vars => JobInv'
  BY AskedInvNext, SolvingInvNext, PlansInvNext DEF JobInv, SortInv, PlanInv
<1>6. QED
  BY <1>1, <1>4, <1>5, SortInvariant, PlannerUsesTheGraph, PlanInvariant, IdleBeforeDraw, PTL
     DEF Spec

(* A node that no plan accounts for would have a dependent that none does, *)
(* and the last of the order would be a goal: so there is none.            *)
LEMMA NoneIsLeftOut ==
  ASSUME SortInv, Sorted, PlansInv, Leaves \subseteq DOMAIN plans,
         NEW covered,
         covered = UNION {DOMAIN plans[g].tasks \union plans[g].blocked : g \in DOMAIN plans}
  PROVE  index = covered
<1>1. covered \subseteq index /\ Leaves \subseteq covered
  BY DEF PlansInv, Accounts
<1>2. \A n \in covered : dependsOn[n] \subseteq covered
  BY DEF PlansInv, Accounts
<1>3. SUFFICES ASSUME NEW n \in index \ covered PROVE FALSE
  BY <1>1
<1>4. /\ DOMAIN order = 1..Len(order) /\ Len(order) \in Nat /\ Elements(order) = index
      /\ \A i, j \in DOMAIN order : order[j] \in dependsOn[order[i]] => j < i
  BY OrderIsTopological, OrderIsInjective DEF Topological
<1> DEFINE B == {k \in Nat : k < Len(order) /\ order[Len(order) - k] \notin covered}
<1>5. PICK k \in B : \A l \in B : k =< l
  <2>1. PICK i \in 1..Len(order) : order[i] = n
    BY <1>4 DEF Elements
  <2>2. Len(order) - i \in B
    BY <1>3, <1>4, <2>1
  <2>3. B \subseteq Nat
    OBVIOUS
  <2>4. QED
    BY <2>2, <2>3, LeastIsLeast
<1>6. PICK b \in 1..Len(order) : /\ order[b] \notin covered
                                /\ \A c \in 1..Len(order) : c > b => order[c] \in covered
  <2>1. Len(order) - k \in 1..Len(order) /\ order[Len(order) - k] \notin covered
    BY <1>4
  <2>2. ASSUME NEW c \in 1..Len(order), c > Len(order) - k PROVE order[c] \in covered
    <3>1. Len(order) - c \in Nat /\ Len(order) - c < Len(order) /\ Len(order) - (Len(order) - c) = c
          /\ ~(k =< Len(order) - c)
      BY <1>4, <2>2
    <3>2. QED
      BY <1>5, <3>1
  <2>3. QED
    BY <2>1, <2>2
<1>7. order[b] \in index /\ order[b] \notin Leaves
  BY <1>1, <1>4, <1>6 DEF Elements
<1>8. PICK m \in index : order[b] \in dependsOn[m]
  BY <1>7 DEF Leaves, Dependents
<1>9. PICK c \in 1..Len(order) : order[c] = m
  BY <1>4 DEF Elements
<1>10. m \in covered
  BY <1>4, <1>6, <1>8, <1>9
<1>11. QED
  BY <1>2, <1>6, <1>8, <1>10

(* When the job is done, every objective is accounted for.                 *)
THEOREM EveryObjectiveIsPlanned == Spec => []EveryObjectivePlanned
<1>1. SortInv /\ JobInv => EveryObjectivePlanned
  <2> SUFFICES ASSUME SortInv, JobInv, Planned PROVE EveryObjectivePlanned
    BY DEF EveryObjectivePlanned
  <2>1. Sorted /\ Leaves \subseteq DOMAIN plans
    BY DEF Planned, Unplanned, JobInv, AskedInv
  <2>2. index = UNION {DOMAIN plans[g].tasks \union plans[g].blocked : g \in DOMAIN plans}
    BY <2>1, NoneIsLeftOut DEF JobInv
  <2>3. ASSUME NEW g \in DOMAIN plans PROVE Accounts(g, plans[g])
    BY DEF JobInv, PlansInv
  <2>4. QED
    BY <2>2, <2>3 DEF EveryObjectivePlanned, Accounts
<1>2. QED
  BY <1>1, JobInvariant, PTL

-----------------------------------------------------------------------------
(* Types.                                                                  *)

(* Every step of a graph keeps its types.                                  *)
LEMMA GraphTyped ==
  ASSUME SortInv, TrailInv, GraphTypeOK, [GraphNext]_graphVars
  PROVE  GraphTypeOK'
<1> USE DEF GraphTypeOK, given, searching, closing
<1>1. CASE UNCHANGED graphVars
  BY <1>1 DEF graphVars, sorting
<1>2. CASE RefuseIds \/ EndSort
  BY <1>2 DEF RefuseIds, EndSort, sorting, Phases
<1>3. CASE StartSort
  <2>1. indegree' \in [index -> Nat]
    BY <1>3, FiniteGraph, FS_CardinalityType DEF StartSort, SortInv
  <2>2. QED
    BY <1>3, <2>1 DEF StartSort, Phases
<1>4. CASE Pop
  <2>1. PICK n : n = Least(ready)
    OBVIOUS
  <2>2. indegree' \in [index -> Nat] /\ ready' \subseteq index
    BY <1>4, <2>1, Releasing DEF SortInv
  <2>3. order' \in Seq(index)
    BY <1>4, <2>1, Popping DEF SortInv
  <2>4. QED
    BY <1>4, <2>2, <2>3 DEF Pop
<1>5. CASE Searching
  <2>1. /\ phase = "searching" /\ phase' \in {"searching", "cyclic"}
        /\ UNCHANGED <<given, sorting, closing>>
    BY <1>5 DEF Searching, NextRoot, Descend, Retreat, ReportCycle
  <2>2. IsTrail(trail) /\ Checked /\ GraphInv /\ trail \in Seq(index) /\ Len(trail) \in Nat
    BY <2>1 DEF TrailInv, SortInv, Checked, IsTrail
  <2>3. trail' \in Seq(index) /\ black' \subseteq index
    <3>1. CASE NextRoot
      <4>1. Least(White) \in White
        BY <2>2, <3>1, ObjectivesAssumption, LeastIsLeast DEF NextRoot, White, GraphInv
      <4>2. QED
        BY <3>1, <4>1 DEF NextRoot, White
    <3>2. CASE Descend
      BY <2>2, <3>2, NextEdge, AppendProperties DEF Descend
    <3>3. CASE Retreat
      <4>1. Top \in index /\ Len(trail) - 1 \in 0..Len(trail) /\ 1 \in 1..(Len(trail) + 1)
        BY <2>2, <3>3 DEF Retreat, Top
      <4>2. IsTrail(trail')
        BY <2>2, <3>3, <4>1, TrailPart DEF Retreat
      <4>3. QED
        BY <3>3, <4>1, <4>2 DEF Retreat, IsTrail
    <3>4. CASE ReportCycle
      <4>0. PICK a \in DOMAIN trail : trail' = Append(SubSeq(trail, a, Len(trail)), Least(Open))
        BY <3>4 DEF ReportCycle
      <4>1. a \in 1..(Len(trail) + 1) /\ Len(trail) \in 0..Len(trail)
        BY <2>2
      <4>2. Least(Open) \in index
        BY <2>2, <3>4, NextEdge DEF ReportCycle
      <4>3. IsTrail(SubSeq(trail, a, Len(trail)))
        BY <2>2, <4>1, TrailPart
      <4>4. QED
        BY <3>4, <4>0, <4>2, <4>3, AppendProperties DEF ReportCycle, IsTrail
    <3>5. QED
      BY <1>5, <3>1, <3>2, <3>3, <3>4 DEF Searching
  <2>4. QED
    BY <2>1, <2>3 DEF sorting, Phases
<1>6. CASE Question \/ Answer
  BY <1>6 DEF Question, Ask, Answer, sorting, Phases
<1>7. CASE Visit
  <2>1. PICK n \in todo :
          /\ seen' = seen \union {n}
          /\ todo' = (todo \union (IF n \in completed THEN {} ELSE dependsOn[n])) \ seen'
    BY <1>7 DEF Visit
  <2>2. dependsOn[n] \subseteq index
    BY <1>7, <2>1 DEF Visit, SortInv, GraphInv, Checked
  <2>3. QED
    BY <1>7, <2>1, <2>2 DEF Visit, sorting
<1>8. QED
  BY <1>1, <1>2, <1>3, <1>4, <1>5, <1>6, <1>7 DEF GraphNext, Sorting, Closing

(* Every variable of the job keeps its type.                               *)
THEOREM TypeCorrect == Spec => []TypeOK
<1>1. GraphInit => GraphTypeOK /\ TrailInv
  BY DEF GraphInit, GraphTypeOK, TrailInv, Phases
<1>2. SortInv /\ TrailInv /\ GraphTypeOK /\ [GraphNext]_graphVars => GraphTypeOK' /\ TrailInv'
  BY GraphTyped, TrailInvKept DEF SortInv
<1>3. GraphSpec => []GraphTypeOK
  BY <1>1, <1>2, SortInvariant, PTL DEF GraphSpec
<1>4. GraphTypeOK /\ PlanInv /\ JobInv => TypeOK
  BY DEF TypeOK, PlanInv, JobInv, PlansInv
<1>5. QED
  BY <1>3, <1>4, PlannerUsesTheGraph, PlanInvariant, JobInvariant, PTL
=============================================================================
