-------------------------------- MODULE MCTree --------------------------------
(***************************************************************************)
(* What guards a working tree: the lock around its git commands, and the   *)
(* lanes that hand out its worktrees.  They share no state - a lane's git  *)
(* runs in a worktree of its own - so each is explored beside the other's  *)
(* initial state.                                                          *)
(***************************************************************************)
EXTENDS GitLock, Lanes, TLC
CONSTANTS r1, r2, r3, f, m, l1, l2, l3, red, blue

MCNameOf == [r \in {l1, l2, l3} |-> IF r = l3 THEN blue ELSE red]
Twins == Permutations(Runs)

TreeInit == Init /\ LanesInit
TreeNext ==
  \/ LanesInit /\ Next /\ UNCHANGED laneVars
  \/ Init /\ LanesNext /\ UNCHANGED vars
TreeSpec == TreeInit /\ [][TreeNext]_<<vars, laneVars>>
=============================================================================
