----------------------------- MODULE MCSuiteGate -----------------------------
EXTENDS SuiteGate, TLC
CONSTANTS a, b, x
MCSuiteOf == (a :> "A" @@ b :> "A" @@ x :> "X")
=============================================================================
