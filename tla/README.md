# worker-thoth: TLA+ models, model checking and proofs

worker-thoth is a Go service that accepts audio (an upload or a URL), queues a
transcription job in Redis, transcribes it through a hosted Whisper service and
keeps the text in Redis for a while. This directory holds TLA+ models of the
service written from the code in `src/`, TLC configurations that check them on
small instances, and TLAPS proofs for instances of any size.

## 1. The system

| Component | State | Operations | Talks to |
|---|---|---|---|
| `internal/redisstore` | stream `transcription:queue` with group `workers` (cursor, pending entries), hashes `job:{id}` with TTL | CreateAndEnqueue (XLEN, then EXEC), Get, SetProcessing/Completed/Failed, Read (XREADGROUP), Claim (XAUTOCLAIM), Ack (XACK+XDEL), ensureGroup | Redis |
| `internal/audio` | map job ID -> clip, in memory, under a mutex | Put, Take, Drop, Len | - |
| `internal/whisper` | gate: a channel of capacity one | Transcribe: wait for the gate or the context, call, classify | upstream |
| `internal/worker` | N `consume` goroutines, one `claimLoop`; locals of `handle` | read or claim, load, mark, fetch, transcribe with retries, store, ack, drop | all of the above |
| `internal/server` | one goroutine per request | upload, url (create a job); jobs, health (read) | audio, redisstore |
| `cmd/server` | root context, wait group | start, signal, drain, shutdown, exit | all |
| `internal/window` | a daily window | IsOpen, NextOpen | worker |
| `internal/worker/download.go` | - | download with size and time limits | origin of the URL |
| `internal/config` | configuration | Load, validate | - |

What is hard about it:

* **Interleavings.** Requests race between the depth check and the enqueue; the
  claimer and the workers race for messages; an HTTP handler, a worker and the
  deferred `Drop` share a clip.
* **At-least-once delivery.** Whether a message is handled once depends on the
  group's cursor, the pending list, the idle time and what survives a crash.
* **Failure in the middle.** Any Redis call can fail before or after its effect,
  and most errors are only logged. After a signal the root context makes Redis
  calls fail from some point of `handle` on.
* **Stale checks.** `handle` acts on the status it read earlier; `consume` on a
  window it looked at before blocking; a TTL runs while a job waits.
* **Waiting.** Workers wait for messages, the gate, the upstream, backoffs and the
  window; all of it has to end at a shutdown.

Correct means, per component: the store strands no entry and hands out none twice;
the audio store leaks nothing and has what a worker needs; the gate is exclusive
and always freed; the pool gives a job to one goroutine, to exactly one outcome,
and acks it only then; the handlers respect the queue limit; the process always
stops when told to; and every job is eventually settled.

## 2. Modules

| Module | What it is |
|---|---|
| `RedisStore` | The store: one operator per operation, its own specification `RedisSpec` (any client, any order), `RedisTypeOK`, `EntriesReachable` |
| `AudioStore`, `WhisperClient` | The clip map; the gate and the classification of answers |
| `TranscriptionService` | Extends the three and composes them: HTTP handlers, workers, claimer, `main`, environment |
| `StatusEndpoints` | Extends it by what `GET /jobs/{id}` shows, as a function of the state |
| `JobLifecycle` | Abstract specification: what a client was answered, which jobs were created and what a poll shows, without queue, workers or processes |
| `JobQueue` | Abstract specification: a FIFO queue that hands out each job once, without cursor, pending list or idle times |
| `ServiceProperties` | The properties of the service, the refinement mappings to `JobLifecycle` and `JobQueue`, the measures of progress, the fairness assumptions, `StopSpec`, `LiveSpec` |
| `HealthReport` | Extends it by a request to `GET /health` and its three reads: `HealthSpec` |
| `ClosedWindow` | Extends it by a history of the jobs accepted while the window was closed: `WindowedSpec` |
| `Config` | The environment variables, `Load` and `validate`, and `window.Parse` |
| `ProcessingWindow` | Extends `Config`: `IsOpen`, `NextOpen`, `windowSleep`, and the loop of one worker on a clock |
| `AudioIntake` | Extends `Config`: the size checks of `handleUpload` and the whole of `download`, in int64 arithmetic |
| `SettingsProperties` | The properties of the two |
| `MCService`, `MCHealth`, `MCSettings` | Definitions for TLC: event sets, requests and symmetry; the environments |
| `RedisStoreProofs`, `ServiceProofs`, `DeliveryProofs`, `ResourceProofs`, `LifecycleProofs`, `RecoveryProofs`, `BoundProofs`, `SettingsProofs` | Theorems and proofs |

### State and actions

A goroutine's step runs up to the next point where it touches something shared.
A consumer's `pc` walks through `handle`:

    idle -> read -> get -> mark -> fetch -> gate -> call -> complete|fail -> ack -> drop -> idle
                     \-> ack (Get failed, or the job is finished)   gate|call <-> backoff

`Poll`, `ReadMessage`, `ReadNothing` and `Stop` are `consume`; `ClaimOrphans` and
`ClaimLost` a tick of `claimLoop`, whose batch is handled one message after the
other; `LoadJob` to `Return` are `handle`. An HTTP handler's `hpc` goes

    idle -> check -> exec -> accepted -> idle      check|exec -> full|error -> idle

The effect of EXEC (`Execute`) and the 202 (`AnswerAccepted`) are two steps: between
them a worker may take the job, even finish it, and the process may die. `phase` is
`main`: running, draining (context cancelled, listener still open), shutdown, down.
`ProcessEnds` clears everything kept in memory. The constant `Requests`, a subset of
`AllRequests`, says which jobs are uploads and which come by URL where a run fixes that.

`JobLifecycle` has three variables: `answer`, what the client that created the job was
told, `created`, and `view`, the status it polls. The mapping takes `view` from the
hash, `created` from the entries ever made, and `answer` from `resp`, where a request
that is not answered yet has promised nothing. EXEC, also one whose reply is lost, maps
to `CreateJob`, the 202 to `AcceptJob`, `SetProcessing` to `BeginJob`, the two outcomes
to `SettleJob`, a rejection or the end of the process to `RefuseJobs`, expiry and a Redis
restart to `ForgetJobs`; everything else, including redelivery, is a stutter. A crash
between EXEC and the 202 leaves a job nobody was told of, which lives on like any other.
The constant `Lossy` says whether replies may be lost (`redisError`). If not, a 429 and
a 500 deny that there is a job (`Denials`); if so, only a 429 does, and a lost
`SetProcessing` lets a job go from queued to its outcome. What stays: a 202 has a job,
a 429 has none, an outcome is final.

`HealthReport` is one request to `/health` that watches the service. `ReadDepth` is
XLEN, `ReadInFlight` the counter of handlings, and `audioInMemory` is read in any later
state until `Report`; the service goes on in between (`Meanwhile`). `seen` and `busy` are
what it read, as sets; the history `overlap` has the jobs whose requests were open at
some time since XLEN, which explain a surplus that is not a leak. `ClosedWindow` has the
history `accumulated`: the jobs answered 202 while the window was closed, less those
whose key ran out while it was open.

`JobQueue` has the place of each job (new, waiting, delivered, gone), its ticket, and
whether the queue is open. The mapping (`Place`) computes the place from the entry, the
cursor and the pending list: an entry past the cursor that is not pending counts as
gone, which is what it would be for the workers. EXEC maps to `Submit`, a read, also one
whose reply is lost, to `Deliver`, the ack to `Finish`, a Redis restart to `LoseAll` and
`EnsureGroup` after one to `Reopen`; XAUTOCLAIM, expiry and updates are stutters.

The worker of `ProcessingWindow` has its own, finer, time. `now` is the local time of
day (a minute, and units within it), `left` the units until its timer fires. It looks
at the window (`Look`), computes its sleep from a second look (`FallAsleep`), sleeps,
or blocks in Redis for up to `ReadBlock`. `Tick` passes time only when no goroutine is
due to run; between the two looks a unit may pass. `ClockJumps` sets the local time to
anything and leaves the timers alone, as Go's monotonic clock does. Uploads and
downloads share no state, so `AudioIntake` has operators instead of actions: the
answer to a form, the bytes read from a response.

Abstractions:

* A job ID is generated once (128 random bits), so a stream entry is identified by
  its job. `entryId` keeps the order in which XADD numbered the entries.
* Time is an event: a pending entry may become idle for `claimMinIdle`, a key may
  expire, the window may turn. Sleeps and timeouts end at any moment.
* A hash keeps the status, the source and whether result and error are set; other
  fields and all bytes are left out. An update of an expired key brings back a hash
  without source, as HSET does.
* go-redis refuses a call whose context is cancelled; a read already blocked in
  Redis is not interrupted. A request's own context can be cancelled any time.
* The reply to a call may be lost after its effect (`redisError`). go-redis's own retry
  of a call is not modelled. For the blocked read it would be a second `readBlock`, so
  that what is said of times in `ProcessingWindow` is said of reads that are not retried.
* A 200 of the upstream is taken to have a body. `jobView` (`helpers.go:45`) shows a
  result only when there is one, so that a job completed with an empty body would show
  none; `ViewShowsOneOutcome` rests on this.
* The errors that `Transcribe` could return before the gate (`client.go:65` to 83) are
  left out: writing to a buffer does not fail, and with an upstream URL that does not
  parse every job would fail alike.
* The deferred `Drop` and the decrement of `inFlight` after it are one step, `Return`.

`Events` is the set of things the environment may do (crash, signal, redisError,
redisRestart, slowHandling, expiry, window). It is a constant, so a property that
needs a benign environment says which event it cannot stand, and theorems have
that as their only hypothesis. `slowHandling` stands for the case that handling a
message takes longer than `claimMinIdle`: with the default UPSTREAM_TIMEOUT of ten
minutes and a `claimMinIdle` of two this is an ordinary long recording.

## 3. Runs

| Run | Instance | Checks |
|---|---|---|
| `prompt` | 1 worker + claimer, 1 handler, 2 jobs, queue 2, batch 2, 1 retry; crash, signal, expiry | `TypeOK`, `SingleHandler`, `LiveJobIsQueued`, `FetchFindsUpload`, `NoAudioLeak`, `BacklogCountsInFlight`, `GateHeldByCaller`, `BufferOnlyWhileTranscribing`, `TerminalIsFinal`, `AckOnlySettled`, `ImplementsLifecycle` |
| `redis_faults` | 1 worker + claimer, 2 handlers, 2 jobs, queue 1, batch 2, no retry; crash, redisError, redisRestart | `EntriesReachable`, `SingleHandler`, `ViewShowsOneOutcome`, `TerminalIsFinal`, `ImplementsLifecycle`, `ImplementsQueue` |
| `slow_handling` | 2 workers + claimer, 1 handler, one upload and one URL job, queue 1, batch 1, no retry; signal, slowHandling | `WorkersNeverShare`, `NoAudioLeak` |
| `backpressure` | `HealthSpec`: 1 worker + claimer, 2 handlers, 3 jobs, queue 1, batch 1, no retry; expiry | `QueueBound`, `AudioBound`, `HealthAccountsForAudio` |
| `settle` | `LiveSpec`: as `prompt` without retry, one upload and one URL job; crash, window, redisRestart | `EveryJobSettles`, `AudioIsReleased` |
| `shutdown` | `StopSpec`: as `prompt`; signal | `ShutdownCompletes`, `HandlingEnds`, `ShutdownDrains` |
| `settings` | a day of 6 minutes of 3 units, read block 2, largest integer 7, overhead 2; 257 environments | `WindowTypeOK`, `AcceptedSettings`, `OpenBetweenBounds`, `NextOpenIsExact`, `OpeningNoticed`, `StartsNearWindow`, `UploadLimitIsExact`, `DownloadLimitIsExact` |

Bounds. The only unbounded quantity is the number of jobs, and a job is used once:
the set `JobIds` bounds the behaviour. Two jobs are enough for two goroutines to
compete for the gate, for a batch with two members and for one job to be read
while another is claimed; one worker and the claimer are the two kinds of
consumer, and after a restart both have work. What else a question needs, its run has:

* `slow_handling`, whether two workers can meet on one job, a second worker, handling
  that is slow enough for the claimer to take from either, and a job of each source;
* `backpressure`, the race on a full queue, two requests and a third job with which the
  queue refills while the first two are in use, and `expiry`, after which an entry is
  acked with its clip still there. A queue of one is overrun, so that an XLEN check
  that lets one request too many pass breaks `QueueBound`;
* `redis_faults`, a queue of one with two requests, which brings the 429 and two
  entries at a time;
* `settle`, one job of each source too: a clip to be released and a job without one.

The window is an event only where it matters (`settle`, `window_start`,
`expired_in_queue`): in the other runs it would only keep goroutines from polling.
Job IDs, workers and handlers are interchangeable and the safety runs use that symmetry
(`slow_handling`, which tells its two jobs apart, that of the workers); the liveness runs
do not. Deadlock is checked in every run. The proofs lift
the bounds for the safety properties, and the choice of events where a property needs
none excluded.

What `AudioBound` counts is pieces of audio: a stashed clip, or the buffer of a worker.
It says that a piece has an entry, an open request or a `Drop` to come of its own; how
many entries there are is the matter of `QueueBound`. Only the two together give a
number, and `AudioIsLimited` states it as a theorem, since no instance that TLC could
finish comes near it: fewer pieces than QUEUE_SIZE, twice the requests at a time and the
deferred Drops. Bytes are not bounded by it: while one piece is there, the parsed form
(`server.go:184`) and the multipart body, which is built before the gate and held
through the wait for it (`client.go:62`), are further copies.

In `settings` the day has six minutes, enough for a window inside the day, one across
midnight, one that closes a minute before it opens and one open for a single minute,
and the clock may jump between any two instants. The integers are small enough for
`limit + 1` and `limit + overhead` to wrap within the limits that `Load` accepts. The
environments set the three window variables in every combination, each number, on
its own, to every value, each duration to a negative, zero or positive one, and leave
out a secret; all of them also occur malformed.

Fairness. Goroutines are scheduled (`GoroutinesRun`): weak fairness of the end of a
read and of every step of `handle`. A shutdown needs besides only that the loops look
at their context and that `main` goes on (`StopFairness`), where closing the listener
stands for `Shutdown`, which waits thirty seconds for the requests at most:
`ShutdownCompletes` holds although no request need ever be answered. `EveryJobSettles`
and `AudioIsReleased` need more (`Fairness`): that requests are served, that docker
restarts the container (`restart: unless-stopped`), that the window opens every day and
that an orphan grows old. Strong fairness is taken where a condition may come and go: a
worker polls although the window closes in between (it looks at least once a minute),
the claimer's ticker fires in every window, and a sender blocked on the gate channel is
served in turn (Go channels queue their senders). No fairness is assumed of requests
arriving, crashes, signals or failures. `EveryJobSettles` is stated for behaviours in
which the process finally stays up and Redis finally keeps its data; until then both may
restart any number of times. `AudioIsReleased` excepts the time after a Redis restart,
when the entry that would bring a worker to the clip is gone: such a clip stays until
the process ends.

### Progress

`WorkLeft` counts the steps of `handle` that a goroutine has before it, every retry it may
still make included, and a whole `FullHandling` for each message left in its batch.
`HandlingEnds` says that each step of the goroutine decreases it and that nobody else's
step changes it, except a crash; the theorem `WorkStaysBounded` that it is one handling at
most for a worker and `ClaimCount` handlings for the claimer; `ShutdownDrains` the same for the
way to the return once the context is cancelled. Unlike `ShutdownCompletes` these need no
fairness: the scheduler, Redis or the upstream can delay the end, no failure can make a
goroutine go round in circles.

### What the settings show

* The cap of one minute is what makes the sleep robust: a worker oversleeps an opening
  by a minute at most, and only when the clock jumped or the window opened between the
  looks of `consume` and of `windowSleep`, where `NextOpen` answers 0 and `windowSleep`
  takes the full minute. A window of one minute can be missed by a worker that way.
* A blocked read delivers at most `readBlock` after the closing; with a claimed batch
  (`window_start`) there is no such bound.
* `MAX_AUDIO_BYTES` within 1 MiB of the largest int64 is accepted, but makes every
  upload a 413; the largest int64 itself also makes every download an empty body, which
  is sent to Whisper. Nobody would set it; the two properties name the exceptions.
* Durations are not validated. A `DOWNLOAD_TIMEOUT` that is not positive fails every
  download, a `JOB_TTL` that is not positive deletes every job when it is created.

### Disagreements with the documentation

Five runs check a sentence of the documentation, and TLC finds a behaviour of the
code that contradicts it.

* `overshoot`: two requests pass XLEN before either EXEC; "atomically rejecting"
  (`store.go:75`) does not hold. `QueueBound` is what does.
* `late_overwrite`: a job handled for longer than two minutes is claimed by its own
  process; the second handling finds no audio (upload) or repeats the work (URL) and
  overwrites the outcome of the first, or is overwritten by it.
* `ack_unsettled`: any error of `Get` acks the message, so that a Redis hiccup loses
  a job; so does a failed `SetCompleted`.
* `window_start`: a blocked read, or the rest of a claimed batch, starts jobs after
  the window has closed.
* `expired_in_queue`: jobs are said to accumulate while the window is closed and to be
  worked off when it opens (`README.md:92`). A job answered 202 while it is closed can
  reach its JOB_TTL (default 1h) before that, and its entry is then acked unprocessed.

The document also says that `MAX_CONCURRENCY` limits the audio in memory
(`TRANSCRIPTION.md:139`). Uploads wait in RAM from the request until a worker takes
them, so QUEUE_SIZE limits them; `AudioIsLimited` is the bound that holds.

## 4. Proofs

All theorems hold for any finite set of jobs, handlers and workers, any
`QueueSize`, `ClaimCount` >= 1 and `MaxRetries` (`RedisAssumption`,
`ServiceAssumption`). A theorem that needs a benign environment has the events it
excludes as hypotheses.

* **`RedisStoreProofs`**: `RedisSpec => []EntriesReachable`. Not inductive alone: a
  read moves the cursor to the entry it delivers, so one needs that entry IDs are
  distinct, positive in the stream and at most `lastId`, that the cursor is at most
  `lastId`, and that a missing group has cursor 0 (`IdsOrdered`).
* **`ServiceProofs`**: `ServiceInv`, the invariant of the whole service: types, a
  process that is down runs nothing, the store's invariant, a job waiting for its EXEC
  has no entry yet (`FreshJobs`), and what a goroutine has in hand is behind the cursor
  (`HandsDelivered`). From it every step of the service is a step of the store:
  `Spec => RedisSpec`, and the store's theorem carries over.
* **`DeliveryProofs`**, assuming prompt handling: a message in hand is not idle, hence
  cannot be claimed, and is delivered, hence cannot be read: `SingleHandler`. Then a
  handler between `Get` and its update works on a job without outcome, and at the ack
  the job is settled or the context is cancelled (`OutcomeInv`): `TerminalIsFinal`, and
  `AckOnlySettled` if Redis answers. Without the assumption: what a worker gains was
  undelivered, so in no hand, and only the claimer claims: `WorkersNeverShare`.
* **`ResourceProofs`**: the gate, the buffers, the clips (if Redis keeps its data: a
  clip present while a request runs belongs to an upload, so `Reject` drops it) and the
  bound on the queue, by counting entries and admitted requests together.
  `HealthAccountsForAudio`, for `HealthSpec`: in every state a clip has a request, an
  entry or a `Drop` to come (`ClipsAccounted`). So a clip of neither `seen` nor `overlap`, whose job was no longer
  being created when XLEN counted and had left the stream, waits for its `Drop`; nothing
  makes such a clip anew, and from the read of `inFlight` on its goroutine is in `busy`
  (`ClipsReported`).
* **`LifecycleProofs`**. `ViewShowsOneOutcome`, assuming prompt handling: an update
  finds no outcome in the hash, so it leaves the one field of its The refinement
  `ImplementsLifecycle`, assuming the same: the answers agree with the entries
  (`AnswersAgree`): a job whose 202 is due has been created, one whose 429 is due has not,
  nor, if no reply is lost, one whose 500 is due. Moreover, if no reply is lost, a handler past
  `SetProcessing` finds `processing`, or a forgotten job, or its context is cancelled
  and it cannot write (`MarkedProcessing`); then one lemma per actor maps its
  steps. The refinement `ImplementsQueue`, in every environment, rests on `ServiceInv`
  alone: the store's invariant says that ahead of the cursor and not pending are the
  same, so each command moves one job or none (`CommandIsQueueStep`).
* **`RecoveryProofs`**, assuming prompt handling. `BacklogCountsInFlight`: only its own
  ack removes the entry a goroutine works on. `LiveJobIsQueued` from that and
  `AckFollowsOutcome`. `FetchFindsUpload`: while the context lives, an entry of a local
  job that was delivered is with the worker it was delivered to until its ack
  (`DeliveredOnce`), so that a claim brings only jobs of earlier processes
  (`ClaimsAreForeign`), and the clip is there from before EXEC (`StashedClip`) through
  the queue (`QueuedClip`) to the fetch (`LoadedClip`). It survives a Redis restart.
* **`BoundProofs`**. Progress, in every environment: a lemma per part of `handle` shows
  that the measure decreases (`WalkDescends`, `ReturnDescends`, where a message leaves
  the batch and a `FullHandling` with it), another that no other step touches it, and the
  COUNT of XAUTOCLAIM bounds the batch (`BatchInv`), hence `WorkStaysBounded`.
  `AudioBound`, assuming prompt handling and a Redis that keeps its data: no job has a
  clip and a buffer (`OneCopy`: a job read as a URL job never had a clip, an upload's was
  taken), so clips and buffers belong to different jobs, each with an entry, an open
  request or a deferred `Drop`; counting these uses every invariant of the other modules
  about audio and the queue. With `QueueBound` it gives `AudioIsLimited`.
* **`SettingsProofs`**: all eight properties of the settings, for every day length,
  unit, read block and set of environments. `OpeningNoticed` needs how a timer relates
  to the opening: unless the clock jumped, a sleeping worker's timer fires no later
  than the window opens. `StartsNearWindow`: unless it jumped, a read was issued in the
  window, so that it has been closed for no longer than the read is blocked.

Only model-checked: what is under fairness (`EveryJobSettles`, `AudioIsReleased`,
`ShutdownCompletes`), since TLAPS does not handle ENABLED. Every invariant, every action
property and both refinements that the passing runs check are also theorems.

## 5. Not modelled

Authentication and the access log, which keep no state; the names, languages and
URLs that accompany a job; the text of answers and errors, heap size and Redis ping of
/health; a failing start (docker starts again); several instances of the service on
one Redis, for which uploads are documented not to work. In the service model
timeouts have no length and may fire at any moment; only `ProcessingWindow` has time.

## 6. Plan

Done: every component with state, its runs, and proofs of all safety properties.

1. Time in the service: `claimMinIdle` against the durations a handling adds up from
   (download, three attempts, backoffs), to say for which settings `slowHandling` is
   impossible.
2. Liveness of the refinement: every accepted job reaches an outcome or is forgotten,
   as a property of `JobLifecycle` under its own fairness.
3. A window and a batch together: how long after the closing a claimed batch goes on.
