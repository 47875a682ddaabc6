------------------------------- MODULE MCHooks -------------------------------
(***************************************************************************)
(* The hooks of a session: the file claims around its tool calls and the   *)
(* inbox reader at its start and at its prompts.  They share no state, so  *)
(* an interleaving of the two shows nothing that each beside the other's   *)
(* initial state does not.                                                 *)
(***************************************************************************)
EXTENDS Claims, Inbox, TLC
CONSTANTS a, b, a1, a2, b1, here, there, p, q, x, y, v1, v2, s, prompt, hand

MCOwner == [c \in {a1, a2, b1} |-> IF c = b1 THEN b ELSE a]
MCTreeOf == [f \in {p, q} |-> IF f = p THEN here ELSE there]
MCSessionOf == [r \in {prompt, hand} |-> IF r = prompt THEN s ELSE NoSession]
MCModes == [r \in {prompt, hand} |-> IF r = prompt THEN {"quiet"} ELSE {"mark"}]
Alike == Permutations({a1, a2}) \cup Permutations({x, y})

HooksInit == ClaimsInit /\ InboxInit
HooksNext ==
  \/ InboxInit /\ ClaimsNext /\ UNCHANGED inboxVars
  \/ ClaimsInit /\ InboxNext /\ UNCHANGED claimVars
HooksSpec == HooksInit /\ [][HooksNext]_<<claimVars, inboxVars>>
=============================================================================
