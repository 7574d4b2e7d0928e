----------------------------- MODULE RedisStore -----------------------------
(***************************************************************************)
(* internal/redisstore: the job queue (a Redis Stream read through one     *)
(* consumer group) and the job-state hashes job:{id} that carry a TTL.     *)
(*                                                                         *)
(* Every operation of the Store is one atomic step: single commands are    *)
(* atomic in Redis and the others are MULTI/EXEC pipelines.  The one       *)
(* exception is CreateAndEnqueue, whose XLEN and EXEC are separate steps   *)
(* here (QueueFull, Enqueue) because they are separate round trips.        *)
(*                                                                         *)
(* A job ID is enqueued at most once, so a stream entry is identified by   *)
(* its job; entryId[j] is the ID that XADD gave it.                        *)
(***************************************************************************)
EXTENDS Naturals, FiniteSets

CONSTANTS JobIds,      \* the job identifiers newJobID may return
          QueueSize,   \* QUEUE_SIZE
          ClaimCount   \* COUNT of XAUTOCLAIM (10 in claimLoop)

ASSUME RedisAssumption ==
    /\ IsFiniteSet(JobIds)
    /\ QueueSize  \in Nat \ {0}
    /\ ClaimCount \in Nat \ {0}

VARIABLES
    hash,           \* job:{id}: the fields that are set; Absent = no such key
    stream,         \* the jobs whose entry is in transcription:queue
    entryId,        \* the ID XADD returned for the job's entry, 0 before it
    lastId,         \* the last ID generated by the stream
    group,          \* does the consumer group "workers" exist
    lastDelivered,  \* the group's last-delivered-id
    pel,            \* the group's pending entries: delivered, not yet acked
    idle            \* the pending entries idle for at least claimMinIdle

redisVars  == <<hash, stream, entryId, lastId, group, lastDelivered, pel, idle>>
streamVars == <<stream, entryId, lastId, group, lastDelivered, pel, idle>>

-----------------------------------------------------------------------------
(* The job record (internal/job), without the fields no decision reads.    *)

Terminal == {"completed", "failed"}
Status   == {"queued", "processing"} \cup Terminal
Source   == {"upload", "url"}

\* A hash as HGETALL shows it.  Every HSET writes status, so a key exists
\* exactly when its status does; source can be missing from a key that an
\* update brought back after it had expired.
Hash   == [status: Status \cup {"none"}, source: Source \cup {"none"},
           result: BOOLEAN, error: BOOLEAN]
Absent == [status |-> "none", source |-> "none", result |-> FALSE, error |-> FALSE]

Exists(j)     == hash[j].status # "none"
IsTerminal(j) == hash[j].status \in Terminal

RedisInit ==
    /\ hash = [j \in JobIds |-> Absent]
    /\ stream = {} /\ pel = {} /\ idle = {}
    /\ entryId = [j \in JobIds |-> 0]
    /\ lastId = 0 /\ lastDelivered = 0
    /\ group = TRUE

-----------------------------------------------------------------------------
(* State of a job: HSET merges fields into the key, or creates it.         *)

Update(j, fields) == hash' = [hash EXCEPT ![j] = fields] /\ UNCHANGED streamVars

SetProcessing(j) == Update(j, [hash[j] EXCEPT !.status = "processing"])

SetCompleted(j) ==
    Update(j, [hash[j] EXCEPT !.status = "completed", !.result = TRUE])

SetFailed(j) ==
    Update(j, [hash[j] EXCEPT !.status = "failed", !.error = TRUE])

\* JOB_TTL elapses on the key.
Expire(j) == Exists(j) /\ Update(j, Absent)

-----------------------------------------------------------------------------
(* The stream and its consumer group.                                      *)

QueueLen  == Cardinality(stream)

\* Wrong variant: an off-by-one in the depth check.
QueueFullOffByOne == QueueLen > QueueSize

\* CreateAndEnqueue, first round trip: the depth check.
QueueFull == QueueLen >= QueueSize

\* CreateAndEnqueue, second round trip: HSET, EXPIRE and XADD in one EXEC.
Enqueue(j, s) ==
    /\ hash' = [hash EXCEPT ![j] = [Absent EXCEPT !.status = "queued", !.source = s]]
    /\ lastId' = lastId + 1
    /\ entryId' = [entryId EXCEPT ![j] = lastId + 1]
    /\ stream' = stream \cup {j}
    /\ UNCHANGED <<group, lastDelivered, pel, idle>>

\* Wrong variant: the entry at the cursor is still new.
UndeliveredAgain == {j \in stream : entryId[j] >= lastDelivered}

Undelivered == {j \in stream : entryId[j] > lastDelivered}

\* The members of B precede, in stream order, the rest of S.
Oldest(B, S) == B \subseteq S /\ \A j \in B, k \in S \ B : entryId[j] <= entryId[k]

\* XREADGROUP ... COUNT 1 STREAMS transcription:queue > : the oldest entry
\* past the group's cursor is delivered and becomes pending.
Read(j) ==
    /\ group
    /\ j \in Undelivered /\ Oldest({j}, Undelivered)
    /\ lastDelivered' = entryId[j]
    /\ pel' = pel \cup {j}
    /\ UNCHANGED <<hash, stream, entryId, lastId, group, idle>>

\* Wrong variant: XAUTOCLAIM with a MinIdle of zero.
ClaimableAnyAge == pel

\* What XAUTOCLAIM MINIDLE claimMinIdle may take: no owner is asked about.
Claimable == idle

\* XAUTOCLAIM from "0-0": the oldest ClaimCount claimable entries change
\* owner, and their idle time starts again.
Claim(B) ==
    /\ group
    /\ B # {} /\ Oldest(B, Claimable)
    /\ \/ B = Claimable /\ Cardinality(B) <= ClaimCount
       \/ Cardinality(B) = ClaimCount
    /\ idle' = idle \ B
    /\ UNCHANGED <<hash, stream, entryId, lastId, group, lastDelivered, pel>>

\* XACK and XDEL in one EXEC.
Ack(j) ==
    /\ stream' = stream \ {j} /\ pel' = pel \ {j} /\ idle' = idle \ {j}
    /\ UNCHANGED <<hash, entryId, lastId, group, lastDelivered>>

\* A pending entry has been idle for claimMinIdle.
GrowIdle(j) ==
    /\ j \in pel \ idle
    /\ idle' = idle \cup {j}
    /\ UNCHANGED <<hash, stream, entryId, lastId, group, lastDelivered, pel>>

\* Wrong variant: the group starts at "$", past the entries already there.
EnsureGroupAtEnd ==
    /\ group' = TRUE
    /\ lastDelivered' = IF group THEN lastDelivered ELSE lastId
    /\ UNCHANGED <<hash, stream, entryId, lastId, pel, idle>>

\* XGROUP CREATE ... "0" MKSTREAM; an existing group is left as it is.
EnsureGroup ==
    /\ group' = TRUE
    /\ lastDelivered' = IF group THEN lastDelivered ELSE 0
    /\ UNCHANGED <<hash, stream, entryId, lastId, pel, idle>>

\* Redis restarts.  The deployment runs it without persistence, so keys,
\* stream and group are gone; entry IDs are clock based and keep growing.
Wipe ==
    /\ hash' = [j \in JobIds |-> Absent]
    /\ stream' = {} /\ pel' = {} /\ idle' = {}
    /\ group' = FALSE /\ lastDelivered' = 0
    /\ UNCHANGED <<entryId, lastId>>

-----------------------------------------------------------------------------
(* The store on its own: clients may call any operation at any time.  Only *)
(* a new job is enqueued and only a delivered message is acked.            *)

RedisCommand ==
    \/ \E j \in JobIds :
          \/ SetProcessing(j) \/ SetCompleted(j) \/ SetFailed(j) \/ Expire(j)
          \/ entryId[j] = 0 /\ \E s \in Source : Enqueue(j, s)
          \/ Read(j) \/ GrowIdle(j)
          \/ j \notin Undelivered /\ Ack(j)
    \/ \E B \in SUBSET JobIds : Claim(B)
    \/ EnsureGroup

RedisNext == RedisCommand \/ Wipe

RedisSpec == RedisInit /\ [][RedisNext]_redisVars

RedisTypeOK ==
    /\ hash \in [JobIds -> Hash]
    /\ stream \in SUBSET JobIds /\ pel \in SUBSET JobIds /\ idle \in SUBSET JobIds
    /\ entryId \in [JobIds -> Nat]
    /\ lastId \in Nat /\ lastDelivered \in Nat
    /\ group \in BOOLEAN

\* At-least-once delivery rests on this: an entry is pending exactly when
\* the group's cursor has passed it.  An entry behind the cursor that is not
\* pending could be neither read nor claimed again, and would occupy the
\* queue (XLEN) for ever; a pending one ahead of it would be delivered twice.
EntriesReachable ==
    /\ pel \subseteq stream
    /\ idle \subseteq pel
    /\ \A j \in stream : j \in pel <=> entryId[j] <= lastDelivered
=============================================================================
