----------------------------- MODULE MCHeadless -----------------------------
(* Instances of Headless for TLC: two trees share one slot; of the two     *)
(* calls of the first tree one takes no slot.                              *)
EXTENDS Headless, TLC
CONSTANTS a, b, x
MCTreeOf == (a :> "A" @@ b :> "A" @@ x :> "X")
=============================================================================
