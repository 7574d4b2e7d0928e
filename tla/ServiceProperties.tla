-------------------------- MODULE ServiceProperties -------------------------
(***************************************************************************)
(* What the service is expected to guarantee.  Some guarantees hold only   *)
(* while the environment spares the service an event of EventKinds; the    *)
(* comment of each property names the events it cannot stand.              *)
(***************************************************************************)
EXTENDS StatusEndpoints

ConsumersTypeOK ==
    /\ gate \in Consumers \cup {NoOne}
    /\ pc \in [Consumers -> ConsumerPC]
    /\ msg \in [Consumers -> JobIds \cup {NoJob}]
    /\ batch \in [Consumers -> SUBSET JobIds]
    /\ src \in [Consumers -> Source \cup {"none"}]
    /\ attempt \in [Consumers -> 0..MaxRetries]
    /\ held \subseteq Consumers
    /\ \A c \in Consumers : pc[c] \in Handling <=> msg[c] \in JobIds
    /\ \A c \in Consumers : batch[c] # {} => pc[c] \in Handling

HandlersTypeOK ==
    /\ clips \subseteq JobIds
    /\ hpc \in [Handlers -> HandlerPC]
    /\ hjob \in [Handlers -> JobIds \cup {NoJob}]
    /\ hsrc \in [Handlers -> Source]
    /\ resp \in [JobIds -> Response]
    /\ local \subseteq JobIds
    /\ \A h \in Handlers : hpc[h] # "idle" <=> hjob[h] \in JobIds

\* The variables have their types; a goroutine has a message exactly while it
\* is in handle, a request a job exactly while it is being served, and no
\* transcription is attempted more than 1 + maxRetries times.
TypeOK ==
    /\ RedisTypeOK
    /\ phase \in {"running", "draining", "shutdown", "down"}
    /\ windowOpen \in BOOLEAN
    /\ ConsumersTypeOK
    /\ HandlersTypeOK

-----------------------------------------------------------------------------
(* Delivery.                                                               *)

\* No two goroutines are responsible for one job at the same time, through
\* crashes, lost replies and reclaims; a batch names a job once.
\* Not under slowHandling: XAUTOCLAIM asks for age only, not for death.
SingleHandler ==
    /\ \A c \in Consumers : msg[c] \notin batch[c]
    /\ \A c, d \in Consumers : c # d => InHand(c) \cap InHand(d) = {}

\* However long handling takes, a job is handled by one worker at most: only
\* the claimer can take a message from under somebody, and no message twice.
\* This bounds what slowHandling can do to two handlings of a job at a time:
\* one of them is the claimer's.
WorkersNeverShare ==
    /\ \A c, d \in Workers : c # d => InHand(c) \cap InHand(d) = {}
    /\ \A c \in Consumers : msg[c] \notin batch[c]

\* A job that is completed or failed stays as it is until its key expires:
\* no late SetProcessing or second outcome overwrites it.
\* Not under slowHandling.
TerminalIsFinal ==
    [][\A j \in JobIds : IsTerminal(j) => hash'[j] \in {hash[j], Absent}]_vars

\* A job that a client sees as queued or processing still has its stream
\* entry, so that a worker or the claimer can finish it, whenever the process
\* dies.  Not under redisError, redisRestart or slowHandling.
LiveJobIsQueued ==
    \A j \in JobIds : hash[j].status \in {"queued", "processing"} => j \in stream

\* A stream entry is removed only once its job has an outcome, or its key has
\* expired: a shutdown in the middle of handle loses nothing, because the ack
\* is refused like the update before it.  Not under redisError or slowHandling.
AckOnlySettled ==
    [][\A j \in stream \ stream' : hash[j].status \in Terminal \cup {"none"}
                                   \/ hash'[j] = Absent]_vars

\* The audio an upload left in this process is there when its worker fetches
\* it: neither a rollback nor the Drop of another handling took it first.
\* Not under redisError or slowHandling.
FetchFindsUpload ==
    \A c \in Consumers :
        pc[c] = "fetch" /\ src[c] = "upload" /\ msg[c] \in local => HasClip(msg[c])

\* Until its message is acked, a job that a goroutine is responsible for counts
\* in the queue's depth ("queued + in-flight", store.go:77): the limit bounds
\* all unfinished work.  Not under redisRestart or slowHandling.
BacklogCountsInFlight ==
    \A c \in Consumers :
        /\ pc[c] \in Handling \ {"drop"} => msg[c] \in stream
        /\ batch[c] \subseteq stream

\* An entry the cursor has passed without becoming pending is out of reach: it
\* counts as gone.
Place(j) == CASE entryId[j] = 0 -> "new"
              [] j \in Undelivered -> "waiting"
              [] j \in stream \cap pel -> "delivered"
              [] OTHER -> "gone"

\* Reads hand out every job once, in the order of the POSTs, and an entry goes
\* only when a goroutine that was given it acks it: XADD, the cursor, XAUTOCLAIM,
\* XACK+XDEL and the group that start creates add up to a queue, however calls
\* fail, processes crash and messages are claimed from one another.  What is
\* enqueued between a restart of Redis and that of the process is not skipped.
Queue == INSTANCE JobQueue WITH
    place   <- [j \in JobIds |-> Place(j)],
    ticket  <- entryId,
    issued  <- lastId,
    open    <- group,
    MayLose <- "redisRestart" \in Events

ImplementsQueue == Queue!QueueSpec

-----------------------------------------------------------------------------
(* What clients see.                                                       *)

\* A polled job that shows a result is completed and one that shows an error
\* has failed, and the other way round; no view mixes two handlings of a job.
\* Not under slowHandling.
ViewShowsOneOutcome ==
    \A j \in JobIds : JobCode(j) = 200 =>
        /\ jobView(j).result <=> jobView(j).status = "completed"
        /\ jobView(j).error <=> jobView(j).status = "failed"

\* A request whose handler has not answered yet has made no promise; a job has
\* been created once an entry was made for it.
Lifecycle == INSTANCE JobLifecycle WITH
    Lossy   <- "redisError" \in Events,
    view    <- [j \in JobIds |-> hash[j].status],
    created <- {j \in JobIds : entryId[j] # 0},
    answer  <- [j \in JobIds |-> IF resp[j] \in {"none", "open"} THEN "waiting" ELSE resp[j]]

\* "status: queued -> processing -> completed | failed" (README.md:57), each
\* only of a job that was created, each outcome final: the service with its
\* restarts and redeliveries implements the life of a job as clients know it.
\* Whoever got a 202 has a job, whoever got a 429 has none; a crash between EXEC
\* and the answer leaves a job that is processed and that nobody was told of.  A
\* lost reply can leave such a job behind a 500, or hide its processing, but an
\* outcome stays.  Not under slowHandling.
ImplementsLifecycle == Lifecycle!LifecycleSpec

-----------------------------------------------------------------------------
(* Resources.                                                              *)

\* The requests that may still enqueue their job or roll back.
OpenRequests == {h \in Handlers : hpc[h] \in {"check", "exec", "full", "error"}}

\* Somebody will free every clip in memory: the handler that stashed it, a
\* worker that is handling its job, or the worker that will read its stream
\* entry.  Not under redisRestart, which loses the entry.
NoAudioLeak ==
    \A j \in clips :
        \/ \E h \in OpenRequests : hjob[h] = j
        \/ j \in stream
        \/ \E c \in Consumers : j \in InHand(c)

\* The goroutines that have acked their message and not run the deferred Drop.
Dropping == {c \in Consumers : pc[c] = "drop"}

\* Stashed clips and buffers in use never outnumber the entries of the queue,
\* but for the requests that may still roll back and the Drops still to run: a
\* job accounts for one piece of audio at most (Take moves the clip, a URL job
\* never has one), so QUEUE_SIZE, through QueueBound, and not MAX_CONCURRENCY
\* bounds them.  Further copies of one piece are not counted: the form that was
\* parsed (server.go:184) and the multipart body built before the gate
\* (client.go:62).  Not under redisRestart or slowHandling.
AudioBound ==
    Cardinality(clips) + Cardinality(held)
        <= QueueLen + Cardinality(OpenRequests) + Cardinality(Dropping)

\* At most one request is at the upstream, and the gate is held exactly
\* while one is: no return path keeps it, none releases another's.
GateHeldByCaller == \A c \in Consumers : gate = c <=> pc[c] = "call"

\* A worker holds an audio buffer exactly between fetchAudio and the end of
\* transcribeWithRetry; it is zeroed on every path before Redis is touched.
BufferOnlyWhileTranscribing ==
    held = {c \in Consumers : pc[c] \in {"gate", "call", "backoff"}}

\* The handlers that have passed the depth check and may still enqueue.
Admitted == {h \in Handlers : hpc[h] = "exec"}

\* What the depth check guarantees when handlers race between XLEN and EXEC:
\* every concurrent request can add one entry beyond QueueSize, no more.
QueueBound ==
    QueueLen + Cardinality(Admitted) < QueueSize + Cardinality(Handlers)

-----------------------------------------------------------------------------
(* Progress: how many steps of its own a goroutine can still take.         *)

\* The steps of handle from Get to Drop, with every retry.
FullHandling == 8 + 3 * MaxRetries

Retries(c) == MaxRetries - attempt[c]

\* The most steps that are left of the message c is handling.
StepsLeft(c) ==
    CASE pc[c] = "get"                 -> FullHandling
      [] pc[c] = "mark"                -> FullHandling - 1
      [] pc[c] = "fetch"               -> FullHandling - 2
      [] pc[c] = "backoff"             -> 6 + 3 * Retries(c)
      [] pc[c] = "gate"                -> 5 + 3 * Retries(c)
      [] pc[c] = "call"                -> 4 + 3 * Retries(c)
      [] pc[c] \in {"complete", "fail"} -> 3
      [] pc[c] = "ack"                 -> 2
      [] pc[c] = "drop"                -> 1
      [] OTHER                         -> 0

\* The same with the rest of its batch.
WorkLeft(c) == StepsLeft(c) + Cardinality(batch[c]) * FullHandling

\* The same until the goroutine has returned, once the context is cancelled: a
\* read that is blocked may still deliver one message.
DrainLeft(c) ==
    CASE pc[c] = "stopped"             -> 0
      [] pc[c] = "idle"                -> 1
      [] pc[c] = "read"                -> 2 + FullHandling
      [] pc[c] \in Handling            -> 1 + WorkLeft(c)

\* Every step of a goroutine in handle brings it nearer to the end, no step of
\* another takes it back: retries, cancelled waits and failing Redis calls
\* never make handle run in a circle.
HandlingEnds ==
    [][\A c \in Consumers : pc[c] \in Handling =>
          IF pc'[c] = pc[c] THEN WorkLeft(c)' = WorkLeft(c) ELSE WorkLeft(c)' < WorkLeft(c)]_vars

\* What a goroutine has taken on is limited from the start: one message, or for
\* the claimer as many as XAUTOCLAIM was asked for.
WorkIsBounded ==
    \A c \in Consumers :
        WorkLeft(c) <= (IF c = Claimer THEN ClaimCount ELSE 1) * FullHandling

\* Once the context is cancelled every step of a goroutine brings it nearer to
\* its return: nothing new is polled, claimed or begun, except what a blocked
\* read still delivers.
ShutdownDrains ==
    [][\A c \in Consumers : CtxDone /\ CtxDone' =>
          IF pc'[c] = pc[c] THEN DrainLeft(c)' = DrainLeft(c)
                            ELSE DrainLeft(c)' < DrainLeft(c)]_vars

-----------------------------------------------------------------------------
(* Claims of the documentation that the code does not keep.                *)

\* "atomically rejecting the request with ErrQueueFull when the queue is at
\* capacity" (CreateAndEnqueue).
QueueWithinCapacity == QueueLen <= QueueSize

\* "o worker fica ocioso - nao baixa audio nem chama o Whisper" outside the
\* window, where only a job already in progress is finished: no goroutine
\* turns to another message while the window is closed.
StartsInWindow ==
    [][\A c \in Consumers : msg'[c] \in JobIds /\ msg'[c] # msg[c] => windowOpen]_vars

-----------------------------------------------------------------------------
(* Liveness.                                                               *)

\* The goroutines keep running: no call blocks for ever, a sleep ends.
GoroutinesRun ==
    /\ \A c \in Workers : WF_vars(ReadMessage(c) \/ ReadNothing(c))
    /\ \A c \in Consumers : WF_vars(HandleStep(c))

\* The loops look at the context; Shutdown waits 30 seconds for the requests at
\* most, and what main does after it ends.
StopFairness ==
    /\ GoroutinesRun
    /\ \A c \in Consumers : WF_vars(Stop(c))
    /\ WF_vars(CloseListener) /\ WF_vars(Exit)

\* Requests are served; a worker polls again and again although the window
\* closes in between, the claimer's ticker fires in every window, and a sender
\* blocked on the gate channel is served in its turn (SF).  The window opens
\* every day, an orphan grows old, docker restarts the container.
Fairness ==
    /\ GoroutinesRun
    /\ \A h \in Handlers : WF_vars(HandlerStep(h))
    /\ \A c \in Workers : SF_vars(Poll(c))
    /\ SF_vars(ClaimOrphans(Claimer))
    /\ \A c \in Consumers : SF_vars(EnterGate(c))
    /\ WF_vars(Start) /\ WF_vars(TurnWindow)
    /\ \A j \in JobIds : WF_vars(MessageIdle(j))

StopSpec == Spec /\ StopFairness
LiveSpec == Spec /\ Fairness

\* Once the process stays up and Redis keeps its data, every unfinished job of the
\* queue reaches an outcome: one orphaned by an earlier crash, and one enqueued
\* while Redis had lost the group, which the next start creates from "0".  (By
\* LiveJobIsQueued an unfinished job is in the queue.)  Not under redisError.
EveryJobSettles ==
    <>[](phase = "running" /\ group) =>
        \A j \in JobIds :
            hash[j].status \in {"queued", "processing"} /\ j \in stream
                ~> ~Exists(j) \/ IsTerminal(j)

\* A signal ends in the end of the process: no worker blocks on the gate, a
\* backoff, a sleep or its batch once the context is cancelled.  It needs no
\* fairness but that of the goroutines.
ShutdownCompletes == phase = "draining" ~> phase = "down"

\* A clip does not stay in memory for ever, unless Redis loses the entry of its job.
AudioIsReleased == \A j \in JobIds : HasClip(j) ~> ~HasClip(j) \/ ~group
=============================================================================
