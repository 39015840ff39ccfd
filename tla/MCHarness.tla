------------------------------ MODULE MCHarness ------------------------------
(***************************************************************************)
(* Instances of Harness.                                                   *)
(***************************************************************************)
EXTENDS Harness

\* One anomaly of each kind is retried once.
MCMaxAttempts ==
  [s \in Anomalies |->
     IF s \in {"link_unavailable", "frame_malformed_body", "frame_empty_message"}
     THEN 1 ELSE 0]
=============================================================================
