--------------------------- MODULE StatusEndpoints --------------------------
(***************************************************************************)
(* GET /jobs/{id}: one HGETALL, a function of the state.  A request for it *)
(* changes nothing.  (GET /health reads at several instants: HealthReport.)*)
(***************************************************************************)
EXTENDS TranscriptionService

\* handleGetJob, when Redis answers.
JobCode(j) == IF Exists(j) THEN 200 ELSE 404

\* jobView: a field that is empty is left out.  The body of a 200 of the
\* upstream is taken to be non-empty.
jobView(j) ==
    [status |-> hash[j].status, result |-> hash[j].result, error |-> hash[j].error]
=============================================================================
