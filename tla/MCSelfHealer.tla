---- MODULE MCSelfHealer ----
(***************************************************************************)
(* TLC instance of SelfHealer with the playbook the arbitrator generates.  *)
(***************************************************************************)
EXTENDS SelfHealer, DefaultPlaybook

\* At and just above the two thresholds, 3 for the latency and 5 for the rate.
ThresholdValues == {3, 4, 5, 6}
====
