------------------------------ MODULE MCService -----------------------------
(***************************************************************************)
(* The service on small instances.  Job IDs, workers and handlers are      *)
(* interchangeable; the symmetry is used by the safety runs only.          *)
(***************************************************************************)
EXTENDS ServiceProperties, TLC

Symmetry == Permutations(JobIds) \cup Permutations(Workers) \cup Permutations(Handlers)

\* One upload, the other jobs by URL: the IDs are not interchangeable then.
MixedRequests ==
    LET upload == CHOOSE j \in JobIds : TRUE
    IN  {r \in AllRequests : r[2] = "upload" <=> r[1] = upload}

WorkerSymmetry == Permutations(Workers)

\* Handling is prompt: no message is ever idle for claimMinIdle in a hand.
PromptEvents == {"crash", "signal", "expiry"}

\* Redis is unreliable: it fails calls, loses replies, restarts empty.
RedisFaults == {"crash", "redisError", "redisRestart"}

\* A message may be claimed while its first handler is still at work.
SlowEvents == {"signal", "slowHandling"}

SettleEvents == {"crash", "window", "redisRestart"}
StopEvents   == {"signal"}
NoEvents     == {}
OnlySlow     == {"slowHandling"}
OnlyErrors   == {"redisError"}
WindowEvents == {"window"}
=============================================================================
