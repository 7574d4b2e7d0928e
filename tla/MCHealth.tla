------------------------------ MODULE MCHealth ------------------------------
(***************************************************************************)
(* The service under concurrent uploads, with a request to /health beside  *)
(* it, on small instances.                                                 *)
(***************************************************************************)
EXTENDS HealthReport, TLC

Symmetry == Permutations(JobIds) \cup Permutations(Workers) \cup Permutations(Handlers)

\* A job that expires before it is read is acked with its audio still there.
UploadEvents == {"expiry"}
=============================================================================
