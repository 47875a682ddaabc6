----------------------------- MODULE LaneBucket -----------------------------
(***************************************************************************)
(* What a caller of slots.hold() may rely on: a counting semaphore of      *)
(* MaxSlots lanes whose holders may be robbed.  A holder in good standing  *)
(* counts against the width; a robbed one no longer does, so its lane is   *)
(* given away while it still runs.  Only a process that is not a holder in *)
(* good standing (a waiter, or a holder that was itself robbed) robs.      *)
(***************************************************************************)
EXTENDS Integers, FiniteSets

CONSTANTS Procs, MaxSlots

VARIABLES
  holders,  \* the processes that were given a lane and have not left it
  robbed    \* the holders whose lane was given back without them

bucket == <<holders, robbed>>

InGoodStanding == holders \ robbed

BucketInit == holders = {} /\ robbed = {}

(* A lane is free: no more than MaxSlots - 1 holders are in good standing. *)
Acquire(p) ==
  /\ p \notin holders
  /\ Cardinality(InGoodStanding) < MaxSlots
  /\ holders' = holders \cup {p}
  /\ UNCHANGED robbed

(* p gives its lane back; if it was robbed, it gives back another's too.   *)
Leave(p, victims) ==
  /\ p \in holders
  /\ p \notin robbed => victims = {}
  /\ victims \subseteq holders \ {p}
  /\ holders' = holders \ {p}
  /\ robbed' = (robbed \cup victims) \ {p}

(* A waiter takes a lane that it believes to be stale.                     *)
Rob(p, victims) ==
  /\ p \notin holders
  /\ victims \subseteq holders
  /\ robbed' = robbed \cup victims
  /\ UNCHANGED holders

BucketNext ==
  \E p \in Procs :
    \/ Acquire(p)
    \/ \E victims \in SUBSET holders : Leave(p, victims) \/ Rob(p, victims)

BucketSpec == BucketInit /\ [][BucketNext]_bucket

WithinWidth == Cardinality(InGoodStanding) <= MaxSlots
=============================================================================
