----------------------------- MODULE MCResponder -----------------------------
EXTENDS Responder, TLC
CONSTANTS m, t, w, main, sib
MCFrom == [n \in Notes |-> IF n = m THEN main ELSE sib]
MCKind == [n \in Notes |-> IF n = m THEN "main" ELSE IF n = t THEN "triage" ELSE "work"]
MCOrders == [n \in Notes |-> IF n = m THEN "order" ELSE "triage"]
=============================================================================
