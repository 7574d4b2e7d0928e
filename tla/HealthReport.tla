---------------------------- MODULE HealthReport ----------------------------
(***************************************************************************)
(* GET /health.  handleHealth reads the depth of the queue from Redis, and *)
(* the number of handlings and of stashed clips from memory after a Ping:  *)
(* three instants between which the rest of the service goes on.  The      *)
(* module runs one such request beside the service, which it only watches, *)
(* and records what the requests that arrive meanwhile stash.              *)
(***************************************************************************)
EXTENDS ServiceProperties

VARIABLES probe,    \* what handleHealth has read last, or "idle"
          seen,     \* the entries XLEN counted
          busy,     \* the goroutines InFlight counted
          overlap   \* history: the jobs being created since XLEN

healthVars == <<probe, seen, busy, overlap>>

\* The jobs whose requests may still enqueue or roll back.
Creating == {hjob[h] : h \in OpenRequests}

HealthTypeOK ==
    /\ probe \in {"idle", "depth", "inFlight"}
    /\ seen \subseteq JobIds /\ overlap \subseteq JobIds
    /\ busy \subseteq Consumers

HealthInit == probe = "idle" /\ seen = {} /\ busy = {} /\ overlap = {}

Forget == probe' = "idle" /\ seen' = {} /\ busy' = {} /\ overlap' = {}

\* XLEN.  When it fails the report says so and shows no depth; left out.
ReadDepth ==
    /\ probe = "idle" /\ phase \in {"running", "draining"}
    /\ probe' = "depth"
    /\ seen' = stream
    /\ overlap' = Creating
    /\ UNCHANGED busy

\* pool.InFlight.  A goroutine counts from the start of handle to the end of
\* its deferred calls, of which the Drop is the first to run and the decrement,
\* which follows it, is taken to be one with it (Return); one that has just got
\* its message may not count yet.
ReadInFlight ==
    /\ probe = "depth"
    /\ probe' = "inFlight"
    /\ \E S \in SUBSET {c \in Consumers : pc[c] = "get"} :
          busy' = {c \in Consumers : pc[c] \in Handling \ {"get"}} \cup S
    /\ UNCHANGED <<seen, overlap>>

\* audio.Len, and the report: nothing is kept.
Report == probe = "inFlight" /\ Forget

\* The service goes on; a request ends with its process.
Meanwhile ==
    IF probe = "idle" \/ phase' = "down"
        THEN Forget
        ELSE overlap' = overlap \cup Creating' /\ UNCHANGED <<probe, seen, busy>>

HealthNext ==
    \/ Next /\ Meanwhile
    \/ (ReadDepth \/ ReadInFlight \/ Report) /\ UNCHANGED vars

HealthSpec == Init /\ HealthInit /\ [][HealthNext]_<<vars, healthVars>>

\* The numbers of the report.  audioInMemory is read last, in any state in which
\* the probe has the other two.
queueDepth    == Cardinality(seen)
inFlight      == Cardinality(busy)
audioInMemory == Cardinality(clips)

-----------------------------------------------------------------------------
\* The numbers of /health, read one after the other, account for the audio in
\* memory: whatever is enqueued, handled, acked or dropped between the reads, a
\* clip that is counted belongs to an entry XLEN saw, to a goroutine InFlight
\* saw, or to an upload that was being accepted while the report was made.  So
\* a surplus that outlasts the uploads is a leak.  Not under redisRestart.
HealthAccountsForAudio ==
    probe = "inFlight" => audioInMemory <= queueDepth + inFlight + Cardinality(overlap)
=============================================================================
