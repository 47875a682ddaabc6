------------------------------ MODULE MCRunner ------------------------------
(* Instances of Runner for TLC: a registry of two jobs, of which the first *)
(* may hang, and processes that run full passes or name the first job.     *)
EXTENDS Runner
CONSTANTS hang, plain
Order == <<hang, plain>>
FullPasses == [p \in Procs |-> {}]
RetryByName == [p \in Procs |-> IF p \in Daemons THEN {} ELSE {hang}]
=============================================================================
