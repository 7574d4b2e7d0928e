------------------------ MODULE TranscriptionService ------------------------
(***************************************************************************)
(* One instance of the service: HTTP handlers that stash audio and enqueue *)
(* jobs, a pool of workers and a claimer that consume them, the graceful   *)
(* shutdown of main, crashes and restarts, over the shared RedisStore,     *)
(* AudioStore and WhisperClient.                                           *)
(*                                                                         *)
(* A goroutine's step ends where it next touches something shared: Redis,  *)
(* the audio map, the gate, the root context or the processing window.     *)
(***************************************************************************)
EXTENDS RedisStore, AudioStore, WhisperClient

CONSTANTS Workers,     \* the MAX_CONCURRENCY goroutines running consume
          Claimer,     \* the goroutine running claimLoop
          Handlers,    \* HTTP requests that can be in progress at a time
          Requests,    \* the requests clients may make: <<job ID, source>>
          MaxRetries,  \* maxRetries
          NoJob,       \* no job ID
          Events       \* what the environment may do; see EventKinds

\* crash        the process is killed
\* signal       SIGINT/SIGTERM, or the HTTP listener fails
\* redisError   a Redis call fails, before or after it took effect
\* redisRestart Redis restarts and has lost its data
\* slowHandling handling a message may take longer than claimMinIdle
\* expiry       JOB_TTL may elapse
\* window       a processing window is configured: it opens and closes
EventKinds == {"crash", "signal", "redisError", "redisRestart", "slowHandling",
               "expiry", "window"}

Consumers == Workers \cup {Claimer}

AllRequests == JobIds \X Source

ASSUME ServiceAssumption ==
    /\ Claimer \notin Workers
    /\ NoOne \notin Consumers
    /\ NoJob \notin JobIds
    /\ IsFiniteSet(Handlers) /\ IsFiniteSet(Workers)
    /\ Requests \subseteq AllRequests
    /\ MaxRetries \in Nat
    /\ Events \subseteq EventKinds

VARIABLES
    phase,       \* main: running, draining (context cancelled), shutdown, down
    windowOpen,  \* window.IsOpen(time.Now())
    pc,          \* where each consumer goroutine is
    msg,         \* the message it is handling
    batch,       \* the claimed messages it has yet to handle
    src,         \* j.Source, as Get returned it
    attempt,     \* the attempt of transcribeWithRetry
    held,        \* the consumers holding an audio buffer that is not zeroed
    hpc,         \* where each HTTP handler is
    hjob,        \* the job ID it generated
    hsrc,        \* upload or url: which handler it is; url when it is idle
    resp,        \* how its handler answered each job's request; "lost": it died
    local        \* the job IDs generated by the process now running

envVars      == <<phase, windowOpen>>
consumerVars == <<pc, msg, batch, src, attempt, held>>
httpVars     == <<hpc, hjob, hsrc, resp, local>>
vars == <<redisVars, clips, gate, envVars, consumerVars, httpVars>>

Handling   == {"get", "mark", "fetch", "gate", "call", "backoff",
               "complete", "fail", "ack", "drop"}
ConsumerPC == {"idle", "read", "stopped"} \cup Handling
HandlerPC  == {"idle", "check", "exec", "accepted", "full", "error"}
Response   == {"none", "open", "202", "429", "500", "lost"}

\* The messages consumer c is responsible for.
InHand(c) == IF pc[c] \in Handling THEN {msg[c]} \cup batch[c] ELSE {}

-----------------------------------------------------------------------------
(* The root context.  go-redis refuses a call whose context is cancelled.  *)

CtxDone     == phase \in {"draining", "shutdown"}
CallMayFail == CtxDone \/ "redisError" \in Events

\* A Redis update whose error is only logged: it took effect or it did not.
LoggedCall(A) ==
    \/ ~CtxDone /\ A
    \/ CallMayFail /\ UNCHANGED redisVars

Goto(c, from, to) == pc[c] = from /\ pc' = [pc EXCEPT ![c] = to]

-----------------------------------------------------------------------------
(* HTTP handlers.  Requests rejected by authentication or validation touch *)
(* no shared state and are left out.                                       *)

\* handleUpload and handleURL up to CreateAndEnqueue.  The audio of an
\* upload is stashed before the job can be seen.  The listener closes when
\* main calls Shutdown, a moment after the context is cancelled.
Accept(h, j, s) ==
    /\ <<j, s>> \in Requests
    /\ phase \in {"running", "draining"}
    /\ hpc[h] = "idle" /\ resp[j] = "none"
    /\ hpc' = [hpc EXCEPT ![h] = "check"]
    /\ hjob' = [hjob EXCEPT ![h] = j]
    /\ hsrc' = [hsrc EXCEPT ![h] = s]
    /\ resp' = [resp EXCEPT ![j] = "open"]
    /\ local' = local \cup {j}
    /\ IF s = "upload" THEN Put(j) ELSE UNCHANGED clips
    /\ UNCHANGED <<redisVars, gate, envVars, consumerVars>>

\* CreateAndEnqueue: XLEN against queueSize.  The request's own context is
\* cancelled when its client goes away, so the call can always fail.
CheckDepth(h) ==
    /\ hpc[h] = "check"
    /\ \/ QueueFull  /\ hpc' = [hpc EXCEPT ![h] = "full"]
       \/ ~QueueFull /\ hpc' = [hpc EXCEPT ![h] = "exec"]
       \/ hpc' = [hpc EXCEPT ![h] = "error"]
    /\ UNCHANGED <<redisVars, clips, gate, envVars, consumerVars,
                   hjob, hsrc, resp, local>>

\* Wrong variant: the rollback of the audio also runs on success.
ExecuteDropping(h) ==
    /\ hpc[h] = "exec"
    /\ Enqueue(hjob[h], hsrc[h])
    /\ Drop(hjob[h])
    /\ hpc' = [hpc EXCEPT ![h] = "accepted"]
    /\ UNCHANGED <<gate, envVars, consumerVars, hjob, hsrc, resp, local>>

\* CreateAndEnqueue: EXEC.  From here on workers and pollers see the job.
Execute(h) ==
    /\ hpc[h] = "exec"
    /\ Enqueue(hjob[h], hsrc[h])
    /\ hpc' = [hpc EXCEPT ![h] = "accepted"]
    /\ UNCHANGED <<clips, gate, envVars, consumerVars, hjob, hsrc, resp, local>>

\* EXEC fails: before it took effect, or after it, when the reply is lost.
ExecuteFails(h) ==
    /\ hpc[h] = "exec"
    /\ \/ UNCHANGED redisVars
       \/ "redisError" \in Events /\ Enqueue(hjob[h], hsrc[h])
    /\ hpc' = [hpc EXCEPT ![h] = "error"]
    /\ UNCHANGED <<clips, gate, envVars, consumerVars, hjob, hsrc, resp, local>>

\* The handler returns.
Finish(h) ==
    /\ hpc' = [hpc EXCEPT ![h] = "idle"]
    /\ hjob' = [hjob EXCEPT ![h] = NoJob]
    /\ hsrc' = [hsrc EXCEPT ![h] = "url"]

\* Wrong variant: the stashed audio is not rolled back.
RejectKeepingAudio(h) ==
    /\ hpc[h] \in {"full", "error"}
    /\ UNCHANGED clips
    /\ resp' = [resp EXCEPT ![hjob[h]] = IF hpc[h] = "full" THEN "429" ELSE "500"]
    /\ Finish(h)
    /\ UNCHANGED <<redisVars, gate, envVars, consumerVars, local>>

\* Wrong variant: every error of CreateAndEnqueue is taken for a full queue.
RejectAsFull(h) ==
    /\ hpc[h] \in {"full", "error"}
    /\ IF hsrc[h] = "upload" THEN Drop(hjob[h]) ELSE UNCHANGED clips
    /\ resp' = [resp EXCEPT ![hjob[h]] = "429"]
    /\ Finish(h)
    /\ UNCHANGED <<redisVars, gate, envVars, consumerVars, local>>

\* An upload rolls back its audio; handleEnqueueError answers 429 or 500.
Reject(h) ==
    /\ hpc[h] \in {"full", "error"}
    /\ IF hsrc[h] = "upload" THEN Drop(hjob[h]) ELSE UNCHANGED clips
    /\ resp' = [resp EXCEPT ![hjob[h]] = IF hpc[h] = "full" THEN "429" ELSE "500"]
    /\ Finish(h)
    /\ UNCHANGED <<redisVars, gate, envVars, consumerVars, local>>

\* The 202, which carries the job ID: the job may be finished by now.
AnswerAccepted(h) ==
    /\ hpc[h] = "accepted"
    /\ resp' = [resp EXCEPT ![hjob[h]] = "202"]
    /\ Finish(h)
    /\ UNCHANGED <<redisVars, clips, gate, envVars, consumerVars, local>>

-----------------------------------------------------------------------------
(* consume: the loop of a worker.                                          *)

\* Wrong variant: the loop goes on polling after the context is cancelled.
PollRegardless(c) ==
    /\ windowOpen
    /\ Goto(c, "idle", "read")
    /\ UNCHANGED <<redisVars, clips, gate, envVars, msg, batch, src, attempt, held, httpVars>>

\* Loop head: the context is alive and the window is open, so XREADGROUP is
\* issued.  While the window is closed the worker sleeps, which is stuttering.
Poll(c) ==
    /\ ~CtxDone /\ windowOpen
    /\ Goto(c, "idle", "read")
    /\ UNCHANGED <<redisVars, clips, gate, envVars, msg, batch, src, attempt, held, httpVars>>

\* XREADGROUP returns a message.  A call that is already blocked in Redis is
\* not interrupted by the context, nor by the window closing.
ReadMessage(c) ==
    /\ Goto(c, "read", "get")
    /\ \E j \in JobIds : Read(j) /\ msg' = [msg EXCEPT ![c] = j]
    /\ UNCHANGED <<clips, gate, envVars, batch, src, attempt, held, httpVars>>

\* The call times out on an empty queue, or fails: no group, context
\* cancelled, Redis error; in the last case the reply to a delivery may be
\* what got lost.
ReadNothing(c) ==
    /\ Goto(c, "read", "idle")
    /\ \/ (Undelivered = {} \/ ~group \/ CallMayFail) /\ UNCHANGED redisVars
       \/ "redisError" \in Events /\ \E j \in JobIds : Read(j)
    /\ UNCHANGED <<clips, gate, envVars, msg, batch, src, attempt, held, httpVars>>

\* Wrong variant: the loop does not look at the context.
StopNever(c) == CtxDone /\ pc[c] = "idle" /\ UNCHANGED vars

\* The loops of consume and claimLoop return once the context is cancelled.
Stop(c) ==
    /\ CtxDone
    /\ Goto(c, "idle", "stopped")
    /\ UNCHANGED <<redisVars, clips, gate, envVars, msg, batch, src, attempt, held, httpVars>>

-----------------------------------------------------------------------------
(* claimLoop: a tick with the window open reclaims a batch of idle entries *)
(* and handles them one after the other, in stream order.                  *)

ClaimOrphans(c) ==
    /\ ~CtxDone /\ windowOpen
    /\ Goto(c, "idle", "get")
    /\ \E B \in SUBSET JobIds : \E j \in B :
          /\ Claim(B) /\ Oldest({j}, B)
          /\ msg' = [msg EXCEPT ![c] = j]
          /\ batch' = [batch EXCEPT ![c] = B \ {j}]
    /\ UNCHANGED <<clips, gate, envVars, src, attempt, held, httpVars>>

\* XAUTOCLAIM took effect but its reply was lost.
ClaimLost(c) ==
    /\ "redisError" \in Events
    /\ ~CtxDone /\ windowOpen /\ pc[c] = "idle"
    /\ \E B \in SUBSET JobIds : Claim(B)
    /\ UNCHANGED <<clips, gate, envVars, consumerVars, httpVars>>

-----------------------------------------------------------------------------
(* handle: one message from Get to the deferred Drop.                      *)

\* Wrong variant: a finished job is transcribed again.
LoadAnything(c) ==
    /\ Goto(c, "get", "mark")
    /\ ~CtxDone /\ Exists(msg[c])
    /\ src' = [src EXCEPT ![c] = hash[msg[c]].source]
    /\ UNCHANGED <<redisVars, clips, gate, envVars, msg, batch, attempt, held, httpVars>>

\* Get returns a job that is not finished.
LoadJob(c) ==
    /\ Goto(c, "get", "mark")
    /\ ~CtxDone /\ Exists(msg[c]) /\ ~IsTerminal(msg[c])
    /\ src' = [src EXCEPT ![c] = hash[msg[c]].source]
    /\ UNCHANGED <<redisVars, clips, gate, envVars, msg, batch, attempt, held, httpVars>>

\* Get returns an error, of whatever kind, or a finished job: straight to ack.
SkipJob(c) ==
    /\ Goto(c, "get", "ack")
    /\ ~Exists(msg[c]) \/ IsTerminal(msg[c]) \/ CallMayFail
    /\ UNCHANGED <<redisVars, clips, gate, envVars, msg, batch, src, attempt, held, httpVars>>

MarkProcessing(c) ==
    /\ Goto(c, "mark", "fetch")
    /\ LoggedCall(SetProcessing(msg[c]))
    /\ UNCHANGED <<clips, gate, envVars, msg, batch, src, attempt, held, httpVars>>

\* fetchAudio succeeds: Take from the audio store, or download.
FetchAudio(c) ==
    /\ Goto(c, "fetch", "gate")
    /\ \/ src[c] = "upload" /\ HasClip(msg[c]) /\ Take(msg[c])
       \/ src[c] = "url" /\ ~CtxDone /\ UNCHANGED clips
    /\ held' = held \cup {c}
    /\ attempt' = [attempt EXCEPT ![c] = 0]
    /\ UNCHANGED <<redisVars, gate, envVars, msg, batch, src, httpVars>>

\* fetchAudio fails: no clip in this process, a failed download, no source.
FetchFails(c) ==
    /\ Goto(c, "fetch", "fail")
    /\ src[c] = "upload" => ~HasClip(msg[c])
    /\ UNCHANGED <<redisVars, clips, gate, envVars, msg, batch, src, attempt, held, httpVars>>

\* Wrong variant: one retry too many.
RetryOneMore(c, from) ==
    \/ /\ attempt[c] <= MaxRetries
       /\ Goto(c, from, "backoff")
       /\ attempt' = [attempt EXCEPT ![c] = @ + 1]
       /\ UNCHANGED held
    \/ /\ attempt[c] > MaxRetries
       /\ Goto(c, from, "fail")
       /\ held' = held \ {c}
       /\ UNCHANGED attempt

\* Wrong variant: an attempt that was cancelled or failed is not counted.
RetryForFree(c, from) ==
    /\ Goto(c, from, "backoff")
    /\ UNCHANGED <<held, attempt>>

\* Transcribe failed with a transient error: back off and retry, or give up
\* after maxRetries, zeroing the audio.
RetryOrGiveUp(c, from) ==
    \/ /\ attempt[c] < MaxRetries
       /\ Goto(c, from, "backoff")
       /\ attempt' = [attempt EXCEPT ![c] = @ + 1]
       /\ UNCHANGED held
    \/ /\ attempt[c] >= MaxRetries
       /\ Goto(c, from, "fail")
       /\ held' = held \ {c}
       /\ UNCHANGED attempt

\* Transcribe: wait for the gate; the select also watches the context.
EnterGate(c) ==
    /\ Goto(c, "gate", "call")
    /\ Acquire(c)
    /\ UNCHANGED <<redisVars, clips, envVars, msg, batch, src, attempt, held, httpVars>>

GateCancelled(c) ==
    /\ CtxDone
    /\ RetryOrGiveUp(c, "gate")
    /\ UNCHANGED <<redisVars, clips, gate, envVars, msg, batch, src, httpVars>>

\* The upstream call ends and the gate is released; a cancelled context ends
\* it with a transport error.  The audio is zeroed unless there is a retry.
FinishCall(c) ==
    /\ pc[c] = "call"
    /\ Release(c)
    /\ \E reply \in Replies :
          /\ CtxDone => reply = TransportError
          /\ \/ Outcome(reply) = "transient" /\ RetryOrGiveUp(c, "call")
             \/ /\ Outcome(reply) # "transient"
                /\ Goto(c, "call", IF Outcome(reply) = "ok" THEN "complete" ELSE "fail")
                /\ held' = held \ {c}
                /\ UNCHANGED attempt
    /\ UNCHANGED <<redisVars, clips, envVars, msg, batch, src, httpVars>>

\* Wrong variant: the cancelled backoff returns without zeroing the audio.
BackoffKeepingBuffer(c) ==
    /\ Goto(c, "backoff", "gate") \/ (CtxDone /\ Goto(c, "backoff", "fail"))
    /\ UNCHANGED <<redisVars, clips, gate, envVars, msg, batch, src, attempt, held, httpVars>>

\* The backoff elapses, or the context is cancelled during it.
Backoff(c) ==
    /\ \/ Goto(c, "backoff", "gate") /\ UNCHANGED held
       \/ CtxDone /\ Goto(c, "backoff", "fail") /\ held' = held \ {c}
    /\ UNCHANGED <<redisVars, clips, gate, envVars, msg, batch, src, attempt, httpVars>>

StoreResult(c) ==
    /\ Goto(c, "complete", "ack")
    /\ LoggedCall(SetCompleted(msg[c]))
    /\ UNCHANGED <<clips, gate, envVars, msg, batch, src, attempt, held, httpVars>>

\* Wrong variant: a failed job is acked without its outcome.
FailSilently(c) ==
    /\ Goto(c, "fail", "ack")
    /\ UNCHANGED <<redisVars, clips, gate, envVars, msg, batch, src, attempt, held, httpVars>>

StoreFailure(c) ==
    /\ Goto(c, "fail", "ack")
    /\ LoggedCall(SetFailed(msg[c]))
    /\ UNCHANGED <<clips, gate, envVars, msg, batch, src, attempt, held, httpVars>>

\* Wrong variant: the ack has a context of its own, which no signal cancels.
AckRegardless(c) ==
    /\ Goto(c, "ack", "drop")
    /\ Ack(msg[c])
    /\ UNCHANGED <<clips, gate, envVars, msg, batch, src, attempt, held, httpVars>>

AckMessage(c) ==
    /\ Goto(c, "ack", "drop")
    /\ LoggedCall(Ack(msg[c]))
    /\ UNCHANGED <<clips, gate, envVars, msg, batch, src, attempt, held, httpVars>>

\* The deferred Drop; then the next message of the batch, or the loop head.
Return(c) ==
    /\ Drop(msg[c])
    /\ \/ /\ batch[c] = {}
          /\ Goto(c, "drop", "idle")
          /\ msg' = [msg EXCEPT ![c] = NoJob]
          /\ UNCHANGED batch
       \/ \E j \in batch[c] :
             /\ Oldest({j}, batch[c])
             /\ Goto(c, "drop", "get")
             /\ msg' = [msg EXCEPT ![c] = j]
             /\ batch' = [batch EXCEPT ![c] = @ \ {j}]
    /\ src' = [src EXCEPT ![c] = "none"]
    /\ attempt' = [attempt EXCEPT ![c] = 0]
    /\ UNCHANGED <<redisVars, gate, envVars, held, httpVars>>

-----------------------------------------------------------------------------
(* main: graceful shutdown, crash and restart of the process.              *)

Signal ==
    /\ "signal" \in Events
    /\ phase = "running"
    /\ phase' = "draining"
    /\ UNCHANGED <<redisVars, clips, gate, windowOpen, consumerVars, httpVars>>

\* httpServer.Shutdown closes the listener.
CloseListener ==
    /\ phase = "draining"
    /\ phase' = "shutdown"
    /\ UNCHANGED <<redisVars, clips, gate, windowOpen, consumerVars, httpVars>>

\* The process is gone, and everything it kept in memory with it.
ProcessEnds ==
    /\ phase' = "down"
    /\ pc' = [c \in Consumers |-> "stopped"]
    /\ msg' = [c \in Consumers |-> NoJob]
    /\ batch' = [c \in Consumers |-> {}]
    /\ src' = [c \in Consumers |-> "none"]
    /\ attempt' = [c \in Consumers |-> 0]
    /\ held' = {} /\ clips' = {} /\ gate' = NoOne /\ local' = {}
    /\ hpc' = [h \in Handlers |-> "idle"]
    /\ hjob' = [h \in Handlers |-> NoJob]
    /\ hsrc' = [h \in Handlers |-> "url"]
    /\ resp' = [j \in JobIds |-> IF resp[j] = "open" THEN "lost" ELSE resp[j]]
    /\ UNCHANGED <<redisVars, windowOpen>>

\* run returns: the pool has stopped, and Shutdown has returned because the
\* handlers are done or because its 30 seconds are over.
Exit == phase = "shutdown" /\ (\A c \in Consumers : pc[c] = "stopped") /\ ProcessEnds

Crash == "crash" \in Events /\ phase # "down" /\ ProcessEnds

\* The container is restarted: redisstore.New, then the pool and the server.
Start ==
    /\ phase = "down"
    /\ phase' = "running"
    /\ EnsureGroup
    /\ pc' = [c \in Consumers |-> "idle"]
    /\ UNCHANGED <<clips, gate, windowOpen, msg, batch, src, attempt, held, httpVars>>

-----------------------------------------------------------------------------
(* Time and Redis.                                                         *)

TurnWindow ==
    /\ "window" \in Events
    /\ windowOpen' = ~windowOpen
    /\ UNCHANGED <<redisVars, clips, gate, phase, consumerVars, httpVars>>

\* claimMinIdle elapses on a pending entry: one that nobody is handling,
\* or any, when handling may take longer than that.
MessageIdle(j) ==
    /\ "slowHandling" \in Events \/ \A c \in Consumers : j \notin InHand(c)
    /\ GrowIdle(j)
    /\ UNCHANGED <<clips, gate, envVars, consumerVars, httpVars>>

JobExpires(j) ==
    /\ "expiry" \in Events
    /\ Expire(j)
    /\ UNCHANGED <<clips, gate, envVars, consumerVars, httpVars>>

RedisRestarts ==
    /\ "redisRestart" \in Events
    /\ Wipe
    /\ UNCHANGED <<clips, gate, envVars, consumerVars, httpVars>>

-----------------------------------------------------------------------------
Init ==
    /\ RedisInit /\ AudioInit /\ GateInit
    /\ phase = "running"
    /\ windowOpen \in {TRUE} \cup (IF "window" \in Events THEN {FALSE} ELSE {})
    /\ pc = [c \in Consumers |-> "idle"]
    /\ msg = [c \in Consumers |-> NoJob]
    /\ batch = [c \in Consumers |-> {}]
    /\ src = [c \in Consumers |-> "none"]
    /\ attempt = [c \in Consumers |-> 0]
    /\ held = {} /\ local = {}
    /\ hpc = [h \in Handlers |-> "idle"]
    /\ hjob = [h \in Handlers |-> NoJob]
    /\ hsrc = [h \in Handlers |-> "url"]
    /\ resp = [j \in JobIds |-> "none"]

HandlerStep(h) ==
    \/ CheckDepth(h) \/ Execute(h) \/ ExecuteFails(h)
    \/ AnswerAccepted(h) \/ Reject(h)

HandleStep(c) ==
    \/ LoadJob(c) \/ SkipJob(c) \/ MarkProcessing(c)
    \/ FetchAudio(c) \/ FetchFails(c)
    \/ EnterGate(c) \/ GateCancelled(c) \/ FinishCall(c) \/ Backoff(c)
    \/ StoreResult(c) \/ StoreFailure(c) \/ AckMessage(c) \/ Return(c)

Next ==
    \/ \E h \in Handlers, j \in JobIds, s \in Source : Accept(h, j, s)
    \/ \E h \in Handlers : HandlerStep(h)
    \/ \E c \in Workers : Poll(c) \/ ReadMessage(c) \/ ReadNothing(c)
    \/ ClaimOrphans(Claimer) \/ ClaimLost(Claimer)
    \/ \E c \in Consumers : HandleStep(c) \/ Stop(c)
    \/ Signal \/ CloseListener \/ Exit \/ Crash \/ Start
    \/ TurnWindow \/ RedisRestarts
    \/ \E j \in JobIds : MessageIdle(j) \/ JobExpires(j)

Spec == Init /\ [][Next]_vars
=============================================================================
