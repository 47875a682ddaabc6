------------------------------ MODULE MCPlanner ------------------------------
(* Instances of Planner for TLC. *)
EXTENDS Planner

\* A free step, a short and a long farm, a domain open one day, and a boss.
FiveKinds ==
  {[cost |-> 0, weekdays |-> {}, weekly |-> FALSE],
   [cost |-> 2, weekdays |-> {}, weekly |-> FALSE],
   [cost |-> 5, weekdays |-> {}, weekly |-> FALSE],
   [cost |-> 1, weekdays |-> {1}, weekly |-> FALSE],
   [cost |-> 1, weekdays |-> {}, weekly |-> TRUE]}

ThreeIds == 1..3
=============================================================================
