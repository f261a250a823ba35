---- MODULE MCDiagnosisPipeline ----
(***************************************************************************)
(* TLC instances of DiagnosisPipeline.                                     *)
(***************************************************************************)
EXTENDS DiagnosisPipeline, TLC

\* Traces, runs and approvals are interchangeable.
Symmetry == Permutations(Traces) \cup Permutations(Runs) \cup Permutations(Approvals)
====
