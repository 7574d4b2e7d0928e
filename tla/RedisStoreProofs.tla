-------------------------- MODULE RedisStoreProofs --------------------------
(***************************************************************************)
(* Delivery through the consumer group, for any number of jobs and any use *)
(* of the store that enqueues a job once.                                  *)
(***************************************************************************)
EXTENDS RedisStore, TLAPS

(* Why EntriesReachable is preserved: entry IDs are handed out in order,   *)
(* the cursor never passes the last of them, and a group that does not     *)
(* exist has no cursor to lose.                                            *)

IdsOrdered ==
    /\ lastDelivered <= lastId
    /\ \A j \in JobIds : entryId[j] <= lastId
    /\ \A j \in stream : entryId[j] > 0
    /\ \A j, k \in JobIds : entryId[j] = entryId[k] /\ entryId[j] > 0 => j = k
    /\ ~group => lastDelivered = 0

RedisInv == RedisTypeOK /\ EntriesReachable /\ IdsOrdered

\* The empty store satisfies the invariant.
LEMMA RedisInitInv == RedisInit => RedisInv
  BY RedisAssumption
  DEF RedisInit, RedisInv, RedisTypeOK, EntriesReachable, IdsOrdered, Hash, Absent,
      Status, Terminal, Source

\* HSET of any well-formed fields leaves the stream alone.
LEMMA UpdateInv ==
  ASSUME RedisInv, NEW j \in JobIds, NEW fields \in Hash, Update(j, fields)
  PROVE  RedisInv'
  BY DEF RedisInv, RedisTypeOK, EntriesReachable, IdsOrdered, Update, streamVars

\* SetProcessing, SetCompleted, SetFailed and Expire write well-formed hashes.
LEMMA StateChangeInv ==
  ASSUME RedisInv, NEW j \in JobIds,
         SetProcessing(j) \/ SetCompleted(j) \/ SetFailed(j) \/ Expire(j)
  PROVE  RedisInv'
<1>0. hash[j] \in Hash
  BY DEF RedisInv, RedisTypeOK
<1>1. CASE SetProcessing(j)
  <2>1. [hash[j] EXCEPT !.status = "processing"] \in Hash
    BY <1>0 DEF Hash, Status
  <2> QED  BY <1>1, <2>1, UpdateInv DEF SetProcessing
<1>2. CASE SetCompleted(j)
  <2>1. [hash[j] EXCEPT !.status = "completed", !.result = TRUE] \in Hash
    BY <1>0 DEF Hash, Status, Terminal
  <2> QED  BY <1>2, <2>1, UpdateInv DEF SetCompleted
<1>3. CASE SetFailed(j)
  <2>1. [hash[j] EXCEPT !.status = "failed", !.error = TRUE] \in Hash
    BY <1>0 DEF Hash, Status, Terminal
  <2> QED  BY <1>3, <2>1, UpdateInv DEF SetFailed
<1>4. CASE Expire(j)
  <2>1. Absent \in Hash
    BY DEF Absent, Hash
  <2> QED  BY <1>4, <2>1, UpdateInv DEF Expire
<1> QED  BY <1>1, <1>2, <1>3, <1>4

\* XADD gives a new job an ID past the group's cursor.
LEMMA EnqueueInv ==
  ASSUME RedisInv, NEW j \in JobIds, NEW s \in Source, entryId[j] = 0, Enqueue(j, s)
  PROVE  RedisInv'
<1>1. [Absent EXCEPT !.status = "queued", !.source = s] \in Hash
  BY DEF Absent, Hash, Status
<1>2. RedisTypeOK'
  BY <1>1 DEF RedisInv, RedisTypeOK, Enqueue
<1>3. j \notin stream
  BY DEF RedisInv, IdsOrdered, RedisTypeOK
<1>4. EntriesReachable'
  BY <1>3 DEF RedisInv, RedisTypeOK, EntriesReachable, IdsOrdered, Enqueue
<1>5. IdsOrdered'
  BY DEF RedisInv, RedisTypeOK, IdsOrdered, Enqueue
<1> QED  BY <1>2, <1>4, <1>5 DEF RedisInv

\* XREADGROUP moves the cursor over one entry only, the one it delivers.
LEMMA ReadInv ==
  ASSUME RedisInv, NEW j \in JobIds, Read(j)
  PROVE  RedisInv'
<1>1. RedisTypeOK' /\ IdsOrdered'
  BY DEF RedisInv, RedisTypeOK, IdsOrdered, Read
<1>2. ASSUME NEW k \in stream, k # j
      PROVE  k \in pel <=> entryId[k] <= entryId[j]
  BY <1>2 DEF RedisInv, RedisTypeOK, EntriesReachable, IdsOrdered, Read, Undelivered, Oldest
<1>3. EntriesReachable'
  BY <1>2 DEF RedisInv, RedisTypeOK, EntriesReachable, Read, Undelivered
<1> QED  BY <1>1, <1>3 DEF RedisInv

\* The operations that move no cursor and add no entry.
LEMMA OtherInv ==
  ASSUME RedisInv,
         \/ \E j \in JobIds : GrowIdle(j) \/ Ack(j)
         \/ \E B \in SUBSET JobIds : Claim(B)
         \/ EnsureGroup
         \/ Wipe
  PROVE  RedisInv'
<1>1. ASSUME NEW j \in JobIds, GrowIdle(j) PROVE RedisInv'
  BY <1>1 DEF RedisInv, RedisTypeOK, EntriesReachable, IdsOrdered, GrowIdle
<1>2. ASSUME NEW j \in JobIds, Ack(j) PROVE RedisInv'
  BY <1>2 DEF RedisInv, RedisTypeOK, EntriesReachable, IdsOrdered, Ack
<1>3. ASSUME NEW B \in SUBSET JobIds, Claim(B) PROVE RedisInv'
  BY <1>3 DEF RedisInv, RedisTypeOK, EntriesReachable, IdsOrdered, Claim
<1>4. ASSUME EnsureGroup PROVE RedisInv'
  BY <1>4 DEF RedisInv, RedisTypeOK, EntriesReachable, IdsOrdered, EnsureGroup
<1>5. ASSUME Wipe PROVE RedisInv'
  <2>1. Absent \in Hash
    BY DEF Absent, Hash
  <2>2. hash' \in [JobIds -> Hash]
    BY <1>5, <2>1 DEF Wipe
  <2>3. RedisTypeOK'
    BY <1>5, <2>2 DEF RedisInv, RedisTypeOK, Wipe
  <2>4. EntriesReachable' /\ IdsOrdered'
    BY <1>5 DEF RedisInv, RedisTypeOK, EntriesReachable, IdsOrdered, Wipe
  <2> QED  BY <2>3, <2>4 DEF RedisInv
<1> QED  BY <1>1, <1>2, <1>3, <1>4, <1>5

\* The invariant is inductive.
LEMMA RedisNextInv == RedisInv /\ [RedisNext]_redisVars => RedisInv'
<1> SUFFICES ASSUME RedisInv, [RedisNext]_redisVars PROVE RedisInv'
  OBVIOUS
<1>1. CASE UNCHANGED redisVars
  BY <1>1 DEF RedisInv, RedisTypeOK, EntriesReachable, IdsOrdered, redisVars
<1>2. CASE RedisNext
  BY <1>2, StateChangeInv, EnqueueInv, ReadInv, OtherInv DEF RedisNext, RedisCommand
<1> QED  BY <1>1, <1>2

\* Type correctness of the store, whatever its clients do.
THEOREM StoreTypeCorrect == RedisSpec => []RedisTypeOK
  BY RedisInitInv, RedisNextInv, PTL DEF RedisSpec, RedisInv

\* Every entry of the stream can still be read or claimed, and none that was
\* delivered is read again: no interleaving of XADD, XREADGROUP, XAUTOCLAIM,
\* XACK+XDEL, XGROUP CREATE and restarts of Redis strands an entry.
THEOREM StoreKeepsEntriesReachable == RedisSpec => []EntriesReachable
  BY RedisInitInv, RedisNextInv, PTL DEF RedisSpec, RedisInv
=============================================================================
