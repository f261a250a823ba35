---- MODULE MCHitlGateway ----
(***************************************************************************)
(* TLC instances of HitlGateway.                                           *)
(***************************************************************************)
EXTENDS HitlGateway, TLC

\* Approvals, requests and people are interchangeable.
Symmetry == Permutations(Approvals) \cup Permutations(Requests) \cup Permutations(Humans)
====
