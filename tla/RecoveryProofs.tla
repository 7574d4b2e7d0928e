--------------------------- MODULE RecoveryProofs ---------------------------
(***************************************************************************)
(* What keeps a job recoverable: its entry stays in the stream while the   *)
(* job is unfinished, and the audio of an upload in memory until it is     *)
(* fetched.                                                                *)
(***************************************************************************)
EXTENDS LifecycleProofs

(* Entries.  A goroutine gets hold of entries of the stream only, and only *)
(* its own ack removes them, since no other goroutine has them.            *)

BacklogInv == HandInv /\ BacklogCountsInFlight

\* Only an ack by c or a restart of Redis takes an entry out of the stream.
LEMMA ConsumerStream ==
  ASSUME NEW c \in Consumers, ConsumerStep(c)
  PROVE  \/ stream' = stream
         \/ AckMessage(c) /\ Ack(msg[c])
<1>1. CASE AckMessage(c)
  BY <1>1 DEF AckMessage, LoggedCall, redisVars
<1>2. CASE ~AckMessage(c)
  BY <1>2 DEF ConsumerStep, HandleStep, Poll, ReadMessage, ReadNothing, ClaimOrphans,
     ClaimLost, Stop, LoadJob, SkipJob, MarkProcessing, FetchAudio, FetchFails, EnterGate,
     GateCancelled, FinishCall, Backoff, StoreResult, StoreFailure, Return, LoggedCall,
     SetProcessing, SetCompleted, SetFailed, Update, streamVars, Read, Claim, redisVars
<1> QED  BY <1>1, <1>2

\* A consumer changes no batch but its own.
LEMMA ConsumerBatch ==
  ASSUME Types, NEW c \in Consumers, ConsumerStep(c)
  PROVE  \A d \in Consumers \ {c} : batch'[d] = batch[d]
  BY DEF Types, TypeOK, ConsumersTypeOK, ConsumerStep, HandleStep, Poll, ReadMessage,
     ReadNothing, ClaimOrphans, ClaimLost, Stop, LoadJob, SkipJob, MarkProcessing, FetchAudio,
     FetchFails, EnterGate, GateCancelled, FinishCall, Backoff, StoreResult, StoreFailure,
     AckMessage, Return, consumerVars

\* The messages c has after its step are those it had, or entries it just got.
LEMMA OwnBacklog ==
  ASSUME BacklogInv, NEW c \in Consumers, ConsumerStep(c)
  PROVE  /\ pc'[c] \in Handling \ {"drop"} => msg'[c] \in stream'
         /\ batch'[c] \subseteq stream'
<1> USE DEF Goto, Handling
<1>0. /\ Types /\ RedisInv
      /\ pc[c] \in Handling \ {"drop"} => msg[c] \in stream
      /\ batch[c] \subseteq stream /\ msg[c] \notin batch[c]
      /\ pc \in [Consumers -> ConsumerPC] /\ msg \in [Consumers -> JobIds \cup {NoJob}]
      /\ batch \in [Consumers -> SUBSET JobIds]
      /\ batch[c] # {} => pc[c] \in Handling
  BY DEF BacklogInv, BacklogCountsInFlight, HandInv, SingleHandler, ServiceInv, Types, TypeOK,
         ConsumersTypeOK
<1>1. CASE AckMessage(c)
  BY <1>0, <1>1 DEF AckMessage, LoggedCall, Ack, redisVars
<1>2. CASE ReadMessage(c)
  BY <1>0, <1>2 DEF ReadMessage, Read, Undelivered
<1>3. CASE ClaimOrphans(c)
  BY <1>0, <1>3 DEF ClaimOrphans, Claim, Claimable, Oldest, RedisInv, EntriesReachable
<1>4. CASE Return(c)
  BY <1>0, <1>4 DEF Return, redisVars
<1>5. CASE ~(AckMessage(c) \/ ReadMessage(c) \/ ClaimOrphans(c) \/ Return(c))
  <2>1. stream' = stream
    BY <1>5, ConsumerStream
  <2>2. /\ UNCHANGED <<msg, batch>>
        /\ pc'[c] \in Handling \ {"drop"} => pc[c] \in Handling \ {"drop"}
    <3>1. CASE Poll(c) \/ ReadNothing(c) \/ Stop(c)
      BY <1>0, <3>1 DEF Poll, ReadNothing, Stop
    <3>2. CASE ClaimLost(c)
      BY <3>2 DEF ClaimLost, consumerVars
    <3>3. CASE LoadJob(c) \/ SkipJob(c) \/ MarkProcessing(c) \/ FetchAudio(c) \/ FetchFails(c)
      BY <1>0, <3>3 DEF LoadJob, SkipJob, MarkProcessing, FetchAudio, FetchFails
    <3>4. CASE EnterGate(c) \/ GateCancelled(c) \/ FinishCall(c) \/ Backoff(c)
      BY <1>0, <3>4 DEF EnterGate, GateCancelled, FinishCall, Backoff, RetryOrGiveUp
    <3>5. CASE StoreResult(c) \/ StoreFailure(c)
      BY <1>0, <3>5 DEF StoreResult, StoreFailure
    <3> QED  BY <1>5, <3>1, <3>2, <3>3, <3>4, <3>5 DEF ConsumerStep, HandleStep
  <2> QED  BY <1>0, <2>1, <2>2
<1> QED  BY <1>1, <1>2, <1>3, <1>4, <1>5

\* The invariant is inductive when handling is prompt and Redis keeps its data.
LEMMA BacklogNext ==
  ASSUME "slowHandling" \notin Events, "redisRestart" \notin Events, BacklogInv, [Next]_vars
  PROVE  BacklogInv'
<1>1. HandInv'
  BY HandNext DEF BacklogInv
<1>2. Types /\ SingleHandler
  BY DEF BacklogInv, HandInv, ServiceInv
<1>3. ASSUME NEW c \in Consumers, ConsumerStep(c)
      PROVE  BacklogCountsInFlight'
  <2>1. ASSUME NEW d \in Consumers \ {c}
        PROVE  /\ pc'[d] \in Handling \ {"drop"} => msg'[d] \in stream'
               /\ batch'[d] \subseteq stream'
    <3>1. pc'[d] = pc[d] /\ msg'[d] = msg[d] /\ batch'[d] = batch[d]
      BY <1>2, <1>3, ConsumerLocal, ConsumerBatch
    <3>2. CASE stream' = stream
      BY <3>1, <3>2 DEF BacklogInv, BacklogCountsInFlight
    <3>3. CASE AckMessage(c) /\ Ack(msg[c])
      <4>1. msg[c] \in InHand(c)
        BY <3>3 DEF AckMessage, Goto, InHand, Handling
      <4>2. msg[c] \notin InHand(d)
        BY <1>2, <4>1 DEF SingleHandler
      <4>3. /\ pc[d] \in Handling => msg[c] # msg[d]
            /\ msg[c] \notin batch[d]
        BY <1>2, <4>2 DEF InHand, Types, TypeOK, ConsumersTypeOK
      <4> QED  BY <3>1, <3>3, <4>3 DEF Ack, BacklogInv, BacklogCountsInFlight
    <3> QED  BY <1>3, <3>2, <3>3, ConsumerStream
  <2> QED  BY <1>3, <2>1, OwnBacklog DEF BacklogCountsInFlight
<1>4. ASSUME UNCHANGED <<pc, msg, batch>>, stream \subseteq stream'
      PROVE  BacklogCountsInFlight'
  BY <1>4 DEF BacklogInv, BacklogCountsInFlight
<1>5. ASSUME NEW h \in Handlers, HandlerStep(h) \/ \E j \in JobIds, s \in Source : Accept(h, j, s)
      PROVE  UNCHANGED <<pc, msg, batch>> /\ stream \subseteq stream'
  BY <1>5 DEF HandlerStep, CheckDepth, Execute, ExecuteFails, AnswerAccepted, Reject, Finish, Accept, Enqueue,
              redisVars, consumerVars
<1>6. ASSUME EnvironmentStep
      PROVE  BacklogCountsInFlight'
  <2>1. CASE Exit \/ Crash
    BY <2>1 DEF Exit, Crash, ProcessEnds, BacklogCountsInFlight, Handling
  <2>2. CASE Start
    BY <2>2 DEF Start, EnsureGroup, BacklogInv, BacklogCountsInFlight, Handling
  <2>3. CASE ~(Exit \/ Crash \/ Start)
    <3>1. UNCHANGED <<pc, msg, batch>> /\ stream \subseteq stream'
      BY <1>6, <2>3 DEF EnvironmentStep, Signal, CloseListener, TurnWindow, RedisRestarts,
         MessageIdle, GrowIdle, JobExpires, Expire, Update, streamVars, redisVars, consumerVars
    <3> QED  BY <1>4, <3>1 DEF BacklogInv, BacklogCountsInFlight
  <2> QED  BY <2>1, <2>2, <2>3
<1>7. ASSUME UNCHANGED vars
      PROVE  UNCHANGED <<pc, msg, batch>> /\ stream \subseteq stream'
  BY <1>7 DEF vars, redisVars, consumerVars
<1> QED
  BY <1>1, <1>3, <1>4, <1>5, <1>6, <1>7, NextSplits DEF BacklogInv, BacklogCountsInFlight

\* The initial states.
LEMMA BacklogInit == Init => BacklogInv
  BY HandInit DEF Init, BacklogInv, BacklogCountsInFlight, Handling

\* What a goroutine works on counts in the queue's depth until it is acked,
\* so QUEUE_SIZE limits all unfinished work, also when Redis calls fail.
THEOREM BacklogIsCounted ==
  ASSUME "slowHandling" \notin Events, "redisRestart" \notin Events
  PROVE  Spec => []BacklogCountsInFlight
<1>1. BacklogInv /\ [Next]_vars => BacklogInv'
  BY BacklogNext
<1> QED  BY <1>1, BacklogInit, PTL DEF Spec, BacklogInv

-----------------------------------------------------------------------------
(* Unfinished jobs.  An update comes while the entry is still there, and   *)
(* the entry goes when the job is settled.                                 *)

LiveInv == BacklogInv /\ OutcomeInv /\ LiveJobIsQueued

\* The invariant is inductive when, besides, Redis answers.
LEMMA LiveNext ==
  ASSUME "slowHandling" \notin Events, "redisRestart" \notin Events,
         "redisError" \notin Events, LiveInv, [Next]_vars
  PROVE  LiveInv'
<1>1. BacklogInv' /\ OutcomeInv'
  BY BacklogNext, OutcomeNext DEF LiveInv
<1>2. /\ Types /\ ServiceInv /\ hash \in [JobIds -> Hash] /\ LiveJobIsQueued
  BY DEF LiveInv, OutcomeInv, HandInv, ServiceInv, Types, TypeOK, RedisTypeOK
<1>3. ASSUME NEW c \in Consumers, ConsumerStep(c)
      PROVE  LiveJobIsQueued'
  <2>1. CASE AckMessage(c) /\ Ack(msg[c])
    <3>1. CASE CtxDone
      BY <2>1, <3>1, <1>2 DEF AckMessage, LoggedCall, CallMayFail, redisVars, LiveJobIsQueued
    <3>2. CASE ~CtxDone
      <4>1. hash[msg[c]].status \in Settled /\ hash' = hash /\ stream' = stream \ {msg[c]}
        BY <2>1, <3>2 DEF AckMessage, Goto, Ack, LiveInv, OutcomeInv, AckFollowsOutcome
      <4> QED  BY <1>2, <4>1 DEF LiveJobIsQueued, Settled, Terminal
    <3> QED  BY <3>1, <3>2
  <2>2. CASE stream' = stream
    <3>1. CASE hash' = hash
      BY <1>2, <2>2, <3>1 DEF LiveJobIsQueued
    <3>2. CASE /\ pc[c] \in Working /\ msg[c] \in JobIds
               /\ \A j \in JobIds \ {msg[c]} : hash'[j] = hash[j]
      <4>1. msg[c] \in stream
        BY <3>2 DEF LiveInv, BacklogInv, BacklogCountsInFlight, Working, Handling
      <4> QED  BY <1>2, <2>2, <3>2, <4>1 DEF LiveJobIsQueued
    <3> QED  BY <1>2, <1>3, <3>1, <3>2, ConsumerLocal
  <2> QED  BY <1>3, <2>1, <2>2, ConsumerStream
<1>4. ASSUME NEW h \in Handlers, HandlerStep(h) \/ \E j \in JobIds, s \in Source : Accept(h, j, s)
      PROVE  LiveJobIsQueued'
  <2>1. CASE UNCHANGED redisVars
    BY <1>2, <2>1 DEF redisVars, LiveJobIsQueued
  <2>2. CASE Enqueue(hjob[h], hsrc[h])
    BY <1>2, <2>2 DEF Enqueue, LiveJobIsQueued
  <2> QED
    BY <1>4, <2>1, <2>2 DEF HandlerStep, CheckDepth, Execute, ExecuteFails, AnswerAccepted, Reject, Finish, Accept
<1>5. ASSUME EnvironmentStep
      PROVE  LiveJobIsQueued'
  <2>1. ASSUME NEW j \in JobIds, JobExpires(j)
        PROVE  LiveJobIsQueued'
    BY <1>2, <2>1 DEF JobExpires, Expire, Update, streamVars, LiveJobIsQueued, Absent
  <2>2. CASE UNCHANGED <<hash, stream>>
    BY <1>2, <2>2 DEF LiveJobIsQueued
  <2>3. UNCHANGED <<hash, stream>> \/ \E j \in JobIds : JobExpires(j)
    BY <1>5 DEF EnvironmentStep, Signal, CloseListener, Exit, Crash, ProcessEnds, Start,
       EnsureGroup, TurnWindow, RedisRestarts, MessageIdle, GrowIdle, redisVars
  <2> QED  BY <2>1, <2>2, <2>3
<1>6. ASSUME UNCHANGED vars
      PROVE  LiveJobIsQueued'
  BY <1>2, <1>6 DEF vars, redisVars, LiveJobIsQueued
<1> QED  BY <1>1, <1>3, <1>4, <1>5, <1>6, NextSplits DEF LiveInv

\* No job that a client sees as queued or processing is without its entry:
\* whenever the process dies, somebody can still finish the job.
THEOREM LiveJobsStayQueued ==
  ASSUME "slowHandling" \notin Events, "redisRestart" \notin Events,
         "redisError" \notin Events
  PROVE  Spec => []LiveJobIsQueued
<1>1. ASSUME Init PROVE LiveInv
  <2>1. LiveJobIsQueued
    BY <1>1 DEF Init, RedisInit, LiveJobIsQueued, Absent
  <2> QED  BY <1>1, <2>1, BacklogInit, OutcomeInit DEF LiveInv
<1>2. LiveInv /\ [Next]_vars => LiveInv'
  BY LiveNext
<1> QED  BY <1>1, <1>2, PTL DEF Spec, LiveInv
-----------------------------------------------------------------------------
(* Uploads.  A job of this process is handled once in it: while the        *)
(* context lives, an entry that was delivered is in the hands of the       *)
(* worker it was delivered to, until that worker's ack removes it.  So the *)
(* clip is there from before EXEC until the one FetchAudio.                *)

DownForgets == phase = "down" => local = {}

DeliveredOnce ==
    \A j \in local \cap pel :
        CtxDone \/ \E c \in Consumers : msg[c] = j /\ pc[c] \in Handling \ {"drop"}

ClaimsAreForeign == \A c \in Consumers : batch[c] \cap local = {}

StashedClip ==
    \A h \in Handlers :
        hpc[h] \in {"check", "exec"} /\ hsrc[h] = "upload" => HasClip(hjob[h])

QueuedClip ==
    \A j \in local \cap Undelivered : hash[j].source = "upload" => HasClip(j)

\* The source of c's job, as Get is about to return it or has returned it.
Uploaded(c) == \/ pc[c] = "get" /\ hash[msg[c]].source = "upload"
               \/ pc[c] \in {"mark", "fetch"} /\ src[c] = "upload"

LoadedClip ==
    \A c \in Consumers : Uploaded(c) /\ msg[c] \in local => HasClip(msg[c])

UploadInv == /\ OutcomeInv /\ AnswersAgree
             /\ DownForgets /\ DeliveredOnce /\ ClaimsAreForeign
             /\ StashedClip /\ QueuedClip /\ LoadedClip

\* What the invariant says of the store, the requests and the hands.
LEMMA UploadFacts ==
  ASSUME UploadInv
  PROVE  /\ Types /\ ServiceInv /\ DeliveredOnce /\ ClaimsAreForeign
         /\ pc \in [Consumers -> ConsumerPC] /\ msg \in [Consumers -> JobIds \cup {NoJob}]
         /\ batch \in [Consumers -> SUBSET JobIds]
         /\ src \in [Consumers -> Source \cup {"none"}]
         /\ hash \in [JobIds -> Hash] /\ entryId \in [JobIds -> Nat]
         /\ lastId \in Nat /\ lastDelivered \in Nat /\ lastDelivered <= lastId
         /\ stream \subseteq JobIds /\ pel \subseteq stream /\ idle \subseteq pel
         /\ local \subseteq JobIds
         /\ \A j \in stream : entryId[j] > 0
         /\ \A j \in JobIds : resp[j] = "none" => entryId[j] = 0
         /\ \A c \in Consumers : pc[c] \in Handling => msg[c] \in JobIds
         /\ \A c \in Consumers : \A j \in batch[c] : entryId[j] > 0
         /\ \A c \in Consumers : pc[c] \in Handling =>
               entryId[msg[c]] > 0 /\ msg[c] \notin Undelivered /\ msg[c] \notin idle
         /\ \A c, d \in Consumers :
               c # d /\ pc[c] \in Handling /\ pc[d] \in Handling => msg[c] # msg[d]
<1>1. /\ Types /\ ServiceInv /\ RedisInv /\ FreshJobs /\ HandsDelivered /\ SingleHandler
      /\ HandsNotIdle
  BY DEF UploadInv, OutcomeInv, HandInv, ServiceInv
<1>2. \A c \in Consumers : pc[c] \in Handling => InHand(c) = {msg[c]} \cup batch[c]
  BY DEF InHand
<1>3. \A c \in Consumers : batch[c] # {} => pc[c] \in Handling
  BY <1>1 DEF Types, TypeOK, ConsumersTypeOK
<1>4. /\ \A c \in Consumers : \A j \in batch[c] : entryId[j] > 0
      /\ \A c \in Consumers : pc[c] \in Handling =>
            entryId[msg[c]] > 0 /\ msg[c] \notin Undelivered /\ msg[c] \notin idle
      /\ \A c, d \in Consumers :
            c # d /\ pc[c] \in Handling /\ pc[d] \in Handling => msg[c] # msg[d]
  BY <1>1, <1>2, <1>3 DEF HandsDelivered, HandsNotIdle, SingleHandler
<1> QED
  BY <1>1, <1>4 DEF UploadInv, Types, TypeOK, RedisTypeOK, ConsumersTypeOK, HandlersTypeOK,
     RedisInv, EntriesReachable, IdsOrdered, FreshJobs

\* What a claim brings was generated by another process: a local entry that
\* was delivered is in a hand, hence not idle.
LEMMA ClaimForeign ==
  ASSUME UploadInv, ~CtxDone, NEW B \in SUBSET JobIds, Claim(B)
  PROVE  B \cap local = {}
<1> SUFFICES ASSUME NEW j \in B \cap local PROVE FALSE
  OBVIOUS
<1>1. j \in idle /\ j \in pel
  BY UploadFacts DEF Claim, Oldest, Claimable
<1>2. PICK c \in Consumers : msg[c] = j /\ pc[c] \in Handling
  BY <1>1, UploadFacts DEF DeliveredOnce
<1> QED  BY <1>1, <1>2, UploadFacts

\* How a consumer's step changes the pending entries.
LEMMA ConsumerPending ==
  ASSUME "redisError" \notin Events, NEW c \in Consumers, ConsumerStep(c)
  PROVE  \/ pel' = pel
         \/ ReadMessage(c)
         \/ AckMessage(c) /\ Ack(msg[c])
<1>1. CASE ReadMessage(c) \/ AckMessage(c)
  BY <1>1 DEF AckMessage, LoggedCall, redisVars
<1>2. CASE ~(ReadMessage(c) \/ AckMessage(c))
  BY <1>2 DEF ConsumerStep, HandleStep, Poll, ReadNothing, ClaimOrphans, ClaimLost, Stop,
     LoadJob, SkipJob, MarkProcessing, FetchAudio, FetchFails, EnterGate, GateCancelled,
     FinishCall, Backoff, StoreResult, StoreFailure, Return, LoggedCall, SetProcessing,
     SetCompleted, SetFailed, Update, streamVars, Claim, redisVars
<1> QED  BY <1>1, <1>2

\* A consumer that handles a message keeps it until its ack went through, or
\* was refused by the cancelled context.
LEMMA KeepsUntilAck ==
  ASSUME UploadInv, "redisError" \notin Events, NEW c \in Consumers, ConsumerStep(c),
         pc[c] \in Handling \ {"drop"}
  PROVE  /\ msg'[c] = msg[c]
         /\ \/ pc'[c] \in Handling \ {"drop"}
            \/ CtxDone
            \/ Ack(msg[c])
<1> USE UploadFacts DEF Goto, Handling
<1>1. CASE LoadJob(c) \/ SkipJob(c) \/ MarkProcessing(c) \/ FetchAudio(c) \/ FetchFails(c)
  BY <1>1 DEF LoadJob, SkipJob, MarkProcessing, FetchAudio, FetchFails
<1>2. CASE EnterGate(c) \/ GateCancelled(c) \/ FinishCall(c) \/ Backoff(c)
  BY <1>2 DEF EnterGate, GateCancelled, FinishCall, Backoff, RetryOrGiveUp
<1>3. CASE StoreResult(c) \/ StoreFailure(c)
  BY <1>3 DEF StoreResult, StoreFailure
<1>4. CASE AckMessage(c)
  BY <1>4 DEF AckMessage, LoggedCall, CallMayFail
<1>5. CASE ~HandleStep(c) \/ Return(c)
  BY <1>5 DEF ConsumerStep, Poll, ReadMessage, ReadNothing, ClaimOrphans, ClaimLost, Stop,
     Return
<1> QED  BY <1>1, <1>2, <1>3, <1>4, <1>5 DEF HandleStep

\* A consumer's step hands out no local entry twice.
LEMMA DeliveredConsumer ==
  ASSUME UploadInv, "redisError" \notin Events, NEW c \in Consumers, ConsumerStep(c)
  PROVE  DeliveredOnce' /\ ClaimsAreForeign'
<1>1. /\ UNCHANGED <<phase, local>>
      /\ \A d \in Consumers \ {c} : pc'[d] = pc[d] /\ msg'[d] = msg[d] /\ batch'[d] = batch[d]
  BY UploadFacts, ConsumerLocal, ConsumerBatch, ConsumerFrame DEF httpVars
<1>2. ASSUME NEW j \in local \cap pel', ~CtxDone
      PROVE  \E d \in Consumers : msg'[d] = j /\ pc'[d] \in Handling \ {"drop"}
  <2>1. ASSUME j \in pel, AckMessage(c) => j # msg[c] \/ ~Ack(msg[c])
        PROVE  \E d \in Consumers : msg'[d] = j /\ pc'[d] \in Handling \ {"drop"}
    <3>1. PICK d \in Consumers : msg[d] = j /\ pc[d] \in Handling \ {"drop"}
      BY <1>2, <2>1, UploadFacts DEF DeliveredOnce
    <3>2. CASE d # c
      BY <1>1, <3>1, <3>2
    <3>3. CASE d = c
      <4>1. ~Ack(msg[c])
        BY <1>2, <2>1, <3>1, <3>3 DEF Ack
      <4> QED  BY <1>2, <3>1, <3>3, <4>1, KeepsUntilAck
    <3> QED  BY <3>2, <3>3
  <2>2. CASE pel' = pel /\ ~AckMessage(c)
    BY <2>1, <2>2
  <2>3. CASE AckMessage(c)
    <3>1. CASE Ack(msg[c])
      BY <2>1, <3>1 DEF Ack
    <3>2. CASE ~Ack(msg[c])
      BY <1>2, <2>3, <3>2 DEF AckMessage, LoggedCall, CallMayFail
    <3> QED  BY <3>1, <3>2
  <2>4. CASE ReadMessage(c)
    <3>1. PICK k \in JobIds : Read(k) /\ msg' = [msg EXCEPT ![c] = k]
      BY <2>4 DEF ReadMessage
    <3>2. msg'[c] = k /\ pc'[c] = "get" /\ pel' = pel \cup {k}
      BY <2>4, <3>1, UploadFacts DEF ReadMessage, Goto, Read
    <3>3. CASE j = k
      BY <3>2, <3>3 DEF Handling
    <3>4. CASE j # k
      BY <2>1, <2>4, <3>2, <3>4, UploadFacts DEF ReadMessage, AckMessage, Goto
    <3> QED  BY <3>3, <3>4
  <2> QED  BY <2>2, <2>3, <2>4, ConsumerPending
<1>3. batch'[c] \cap local = {}
  <2>1. CASE ClaimOrphans(c)
    BY <2>1, ClaimForeign, UploadFacts DEF ClaimOrphans
  <2>2. CASE ~ClaimOrphans(c)
    <3>1. CASE Return(c)
      BY <3>1, UploadFacts DEF Return, ClaimsAreForeign
    <3>2. CASE ~Return(c)
      <4>1. UNCHANGED batch
        BY <2>2, <3>2 DEF ConsumerStep, HandleStep, Poll, ReadMessage, ReadNothing,
           ClaimLost, Stop, LoadJob, SkipJob, MarkProcessing, FetchAudio, FetchFails,
           EnterGate, GateCancelled, FinishCall, Backoff, StoreResult, StoreFailure,
           AckMessage, consumerVars
      <4> QED  BY <4>1, UploadFacts DEF ClaimsAreForeign
    <3> QED  BY <3>1, <3>2
  <2> QED  BY <2>1, <2>2
<1>4. ClaimsAreForeign'
  BY <1>1, <1>3, UploadFacts DEF ClaimsAreForeign
<1>5. DeliveredOnce'
  BY <1>1, <1>2 DEF DeliveredOnce, CtxDone
<1> QED  BY <1>4, <1>5

\* Neither does any other step; a process that is gone leaves no local job.
LEMMA DeliveredNext ==
  ASSUME "redisError" \notin Events, UploadInv, [Next]_vars
  PROVE  DownForgets' /\ DeliveredOnce' /\ ClaimsAreForeign'
<1>0. DownForgets /\ DeliveredOnce /\ ClaimsAreForeign
  BY DEF UploadInv
<1>1. ASSUME UNCHANGED <<pc, msg, batch, local>>, pel' \subseteq pel, CtxDone => CtxDone'
      PROVE  DeliveredOnce' /\ ClaimsAreForeign'
  BY <1>0, <1>1 DEF DeliveredOnce, ClaimsAreForeign
<1>2. ASSUME NEW h \in Handlers, NEW j \in JobIds, NEW s \in Source, Accept(h, j, s)
      PROVE  DownForgets' /\ DeliveredOnce' /\ ClaimsAreForeign'
  <2>1. /\ UNCHANGED <<pc, msg, batch, pel, phase>> /\ local' = local \cup {j}
        /\ phase \in {"running", "draining"} /\ entryId[j] = 0
    BY <1>2, UploadFacts DEF Accept, redisVars, consumerVars, envVars
  <2>2. j \notin pel /\ \A c \in Consumers : j \notin batch[c]
    BY <2>1, UploadFacts
  <2> QED  BY <1>0, <2>1, <2>2 DEF DownForgets, DeliveredOnce, ClaimsAreForeign, CtxDone
<1>3. ASSUME NEW h \in Handlers, HandlerStep(h)
      PROVE  DownForgets' /\ DeliveredOnce' /\ ClaimsAreForeign'
  <2>1. UNCHANGED <<pc, msg, batch, local, pel, phase>>
    BY <1>3 DEF HandlerStep, CheckDepth, Execute, ExecuteFails, AnswerAccepted, Reject, Enqueue,
       redisVars, consumerVars, envVars
  <2> QED  BY <1>0, <1>1, <2>1 DEF DownForgets, CtxDone
<1>4. ASSUME NEW c \in Consumers, ConsumerStep(c)
      PROVE  DownForgets' /\ DeliveredOnce' /\ ClaimsAreForeign'
  <2>1. UNCHANGED <<phase, local>>
    BY <1>4, UploadFacts, ConsumerLocal, ConsumerFrame DEF httpVars
  <2> QED  BY <1>0, <1>4, <2>1, DeliveredConsumer DEF DownForgets
<1>5. ASSUME EnvironmentStep
      PROVE  DownForgets' /\ DeliveredOnce' /\ ClaimsAreForeign'
  <2>1. CASE Exit \/ Crash
    <3>1. local' = {}
      BY <2>1 DEF Exit, Crash, ProcessEnds
    <3> QED  BY <3>1 DEF DownForgets, DeliveredOnce, ClaimsAreForeign
  <2>2. CASE Start
    <3>1. local' = {}
      BY <1>0, <2>2 DEF Start, httpVars, DownForgets
    <3> QED  BY <3>1 DEF DownForgets, DeliveredOnce, ClaimsAreForeign
  <2>3. CASE Signal \/ CloseListener
    BY <1>0, <1>1, <2>3 DEF Signal, CloseListener, consumerVars, httpVars, redisVars,
       DownForgets, CtxDone
  <2>4. CASE ~(Exit \/ Crash \/ Start \/ Signal \/ CloseListener)
    <3>1. UNCHANGED <<pc, msg, batch, local, phase>> /\ pel' \subseteq pel
      BY <1>5, <2>4 DEF EnvironmentStep, TurnWindow, RedisRestarts, Wipe, MessageIdle,
         GrowIdle, JobExpires, Expire, Update, streamVars, redisVars, consumerVars, httpVars,
         envVars
    <3> QED  BY <1>0, <1>1, <3>1 DEF DownForgets, CtxDone
  <2> QED  BY <2>1, <2>2, <2>3, <2>4
<1>6. CASE UNCHANGED vars
  BY <1>0, <1>1, <1>6 DEF vars, redisVars, consumerVars, httpVars, envVars, DownForgets, CtxDone
<1> QED  BY <1>2, <1>3, <1>4, <1>5, <1>6, NextSplits

\* Only the worker at work on a job takes or drops its clip.
LEMMA ConsumerClips ==
  ASSUME NEW c \in Consumers, ConsumerStep(c)
  PROVE  \/ clips' = clips
         \/ /\ FetchAudio(c) \/ Return(c)
            /\ pc[c] \in Handling /\ clips' = clips \ {msg[c]}
<1>1. CASE FetchAudio(c) \/ Return(c)
  BY <1>1 DEF FetchAudio, Return, Take, Drop, Goto, Handling
<1>2. CASE ~(FetchAudio(c) \/ Return(c))
  BY <1>2 DEF ConsumerStep, HandleStep, Poll, ReadMessage, ReadNothing, ClaimOrphans,
     ClaimLost, Stop, LoadJob, SkipJob, MarkProcessing, FetchFails, EnterGate, GateCancelled,
     FinishCall, Backoff, StoreResult, StoreFailure, AckMessage
<1> QED  BY <1>1, <1>2

\* No update of a consumer changes a job's source.
LEMMA ConsumerSource ==
  ASSUME Types, NEW c \in Consumers, ConsumerStep(c)
  PROVE  \A j \in JobIds : hash'[j].source = hash[j].source
<1>1. CASE hash' = hash
  BY <1>1
<1>2. ASSUME SetProcessing(msg[c]) \/ SetCompleted(msg[c]) \/ SetFailed(msg[c]),
             msg[c] \in JobIds
      PROVE  \A j \in JobIds : hash'[j].source = hash[j].source
  <2>1. hash \in [JobIds -> Hash]
    BY DEF Types, TypeOK, RedisTypeOK
  <2>2. CASE SetProcessing(msg[c])
    BY <1>2, <2>1, <2>2 DEF SetProcessing, Update, Hash
  <2>3. CASE SetCompleted(msg[c])
    BY <1>2, <2>1, <2>3 DEF SetCompleted, Update, Hash
  <2>4. CASE SetFailed(msg[c])
    BY <1>2, <2>1, <2>4 DEF SetFailed, Update, Hash
  <2> QED  BY <1>2, <2>2, <2>3, <2>4
<1> QED  BY <1>1, <1>2, ConsumerHashes

\* What a request does to the clips and the stream; it touches no job in hand.
LEMMA RequestClips ==
  ASSUME UploadInv, "redisError" \notin Events, NEW h \in Handlers, HandlerStep(h)
  PROVE  /\ UNCHANGED <<pc, msg, src, local, lastDelivered>>
         /\ hjob[h] \in JobIds
         /\ \/ UNCHANGED <<clips, hash, stream, entryId>>
            \/ /\ entryId[hjob[h]] = 0
               /\ \A c \in Consumers : pc[c] \in Handling => msg[c] # hjob[h]
               /\ \/ UNCHANGED clips /\ hpc[h] = "exec" /\ Enqueue(hjob[h], hsrc[h])
                  \/ UNCHANGED <<hash, stream, entryId>> /\ clips' = clips \ {hjob[h]}
<1>1. hjob[h] \in JobIds /\ UNCHANGED <<pc, msg, src, local, lastDelivered>>
  <2>1. hpc[h] # "idle"
    BY DEF HandlerStep, CheckDepth, Execute, ExecuteFails, AnswerAccepted, Reject
  <2>2. hjob[h] \in JobIds
    BY <2>1, UploadFacts DEF Types, TypeOK, HandlersTypeOK
  <2>3. UNCHANGED <<pc, msg, src, local, lastDelivered>>
    BY DEF HandlerStep, CheckDepth, Execute, ExecuteFails, AnswerAccepted, Reject, Enqueue,
       redisVars, consumerVars
  <2> QED  BY <2>2, <2>3
<1>2. ASSUME hpc[h] \in {"exec", "full", "error"}
      PROVE  /\ entryId[hjob[h]] = 0
             /\ \A c \in Consumers : pc[c] \in Handling => msg[c] # hjob[h]
  <2>1. entryId[hjob[h]] = 0
    BY <1>2 DEF UploadInv, AnswersAgree, OutcomeInv, HandInv, ServiceInv, FreshJobs
  <2> QED  BY <2>1, UploadFacts
<1>3. CASE CheckDepth(h) \/ AnswerAccepted(h) \/ ExecuteFails(h)
  BY <1>1, <1>3 DEF CheckDepth, AnswerAccepted, ExecuteFails, redisVars
<1>4. CASE Execute(h)
  BY <1>1, <1>2, <1>4 DEF Execute
<1>5. CASE Reject(h)
  <2>1. UNCHANGED <<hash, stream, entryId>>
    BY <1>5 DEF Reject, redisVars
  <2> QED  BY <1>1, <1>2, <1>5, <2>1 DEF Reject, Drop
<1> QED  BY <1>3, <1>4, <1>5 DEF HandlerStep

\* EXEC creates the hash of the new job and adds its entry, nothing else.
LEMMA EnqueueEffect ==
  ASSUME UploadInv, NEW j \in JobIds, NEW s \in Source, Enqueue(j, s)
  PROVE  /\ \A k \in JobIds : k # j => hash'[k] = hash[k]
         /\ hash'[j].source = s
         /\ Undelivered' \subseteq Undelivered \cup {j}
<1>1. hash' = [hash EXCEPT ![j] = [Absent EXCEPT !.status = "queued", !.source = s]]
  BY DEF Enqueue
<1>2. [Absent EXCEPT !.status = "queued", !.source = s].source = s
  BY DEF Absent
<1>3. \A k \in Undelivered' : k = j \/ k \in Undelivered
  BY UploadFacts DEF Enqueue, Undelivered
<1> QED  BY <1>1, <1>2, <1>3, UploadFacts

\* The clip a request stashed stays until the request has its answer.
LEMMA StashedNext ==
  ASSUME UploadInv, [Next]_vars
  PROVE  StashedClip'
<1> USE DEF HasClip
<1>0. /\ StashedClip
      /\ \A h \in Handlers : hpc[h] \in {"check", "exec"} => entryId[hjob[h]] = 0
      /\ \A g, h \in Handlers : hpc[g] # "idle" /\ hjob[g] = hjob[h] => g = h
      /\ hpc \in [Handlers -> HandlerPC] /\ hjob \in [Handlers -> JobIds \cup {NoJob}]
      /\ hsrc \in [Handlers -> Source]
  BY UploadFacts DEF UploadInv, ServiceInv, FreshJobs, Types, TypeOK, HandlersTypeOK
<1>1. CASE UNCHANGED <<clips, hpc, hjob, hsrc>>
  BY <1>0, <1>1 DEF StashedClip
<1>2. ASSUME NEW h \in Handlers, NEW j \in JobIds, NEW s \in Source, Accept(h, j, s)
      PROVE  StashedClip'
  BY <1>0, <1>2 DEF Accept, Put, StashedClip
<1>3. ASSUME NEW h \in Handlers, HandlerStep(h)
      PROVE  StashedClip'
  <2>1. CASE CheckDepth(h)
    BY <1>0, <2>1 DEF CheckDepth, StashedClip
  <2>2. CASE Execute(h) \/ ExecuteFails(h)
    BY <1>0, <2>2 DEF Execute, ExecuteFails, StashedClip
  <2>3. CASE Reject(h) \/ AnswerAccepted(h)
    BY <1>0, <2>3 DEF Reject, AnswerAccepted, Finish, Drop, StashedClip
  <2> QED  BY <1>3, <2>1, <2>2, <2>3 DEF HandlerStep
<1>4. ASSUME NEW c \in Consumers, ConsumerStep(c)
      PROVE  StashedClip'
  <2>1. UNCHANGED <<hpc, hjob, hsrc>>
    BY <1>4, UploadFacts, ConsumerFrame DEF httpVars
  <2>2. CASE pc[c] \in Handling /\ clips' = clips \ {msg[c]}
    <3>1. entryId[msg[c]] > 0
      BY <2>2, UploadFacts
    <3>2. \A h \in Handlers : hpc[h] \in {"check", "exec"} => hjob[h] # msg[c]
      BY <1>0, <3>1
    <3> QED  BY <1>0, <2>1, <2>2, <3>2 DEF StashedClip
  <2> QED  BY <1>1, <1>4, <2>1, <2>2, ConsumerClips
<1>5. CASE EnvironmentStep
  <2>1. CASE Exit \/ Crash
    BY <2>1 DEF Exit, Crash, ProcessEnds, StashedClip
  <2>2. CASE ~(Exit \/ Crash)
    BY <1>1, <1>5, <2>2 DEF EnvironmentStep, Signal, CloseListener, Start, TurnWindow,
       RedisRestarts, MessageIdle, JobExpires, httpVars
  <2> QED  BY <2>1, <2>2
<1>6. CASE UNCHANGED vars
  BY <1>1, <1>6 DEF vars, httpVars
<1> QED  BY <1>2, <1>3, <1>4, <1>5, <1>6, NextSplits

\* The environment ends the process, or leaves the clips and the hands alone.
LEMMA EnvironmentClips ==
  ASSUME UploadInv, EnvironmentStep
  PROVE  \/ local' = {}
         \/ /\ UNCHANGED <<clips, local, pc, msg, src>>
            /\ Undelivered' \subseteq Undelivered
            /\ \A j \in JobIds : hash'[j].source = "upload" => hash[j].source = "upload"
<1>1. CASE Exit \/ Crash
  BY <1>1 DEF Exit, Crash, ProcessEnds
<1>2. CASE Start
  BY <1>2 DEF Start, httpVars, UploadInv, DownForgets
<1>3. CASE RedisRestarts
  <2>1. \A j \in JobIds : hash'[j].source = "none"
    BY <1>3 DEF RedisRestarts, Wipe, Absent
  <2>2. UNCHANGED <<clips, local, pc, msg, src>> /\ Undelivered' = {}
    BY <1>3 DEF RedisRestarts, Wipe, Undelivered, httpVars, consumerVars
  <2> QED  BY <2>1, <2>2
<1>4. ASSUME NEW k \in JobIds, JobExpires(k)
      PROVE  /\ UNCHANGED <<clips, local, pc, msg, src>>
             /\ Undelivered' \subseteq Undelivered
             /\ \A j \in JobIds : hash'[j].source = "upload" => hash[j].source = "upload"
  <2>1. UNCHANGED <<clips, local, pc, msg, src>> /\ Undelivered' = Undelivered
    BY <1>4 DEF JobExpires, Expire, Update, streamVars, Undelivered, httpVars, consumerVars
  <2>2. hash' = [hash EXCEPT ![k] = Absent] /\ Absent.source = "none"
    BY <1>4 DEF JobExpires, Expire, Update, Absent
  <2> QED  BY <2>1, <2>2, UploadFacts
<1>5. CASE Signal \/ CloseListener \/ TurnWindow \/ \E j \in JobIds : MessageIdle(j)
  BY <1>5 DEF Signal, CloseListener, TurnWindow, MessageIdle, GrowIdle, Undelivered, redisVars,
     httpVars, consumerVars
<1> QED  BY <1>1, <1>2, <1>3, <1>4, <1>5 DEF EnvironmentStep

\* The clip waits for the job's entry to be read.
LEMMA QueuedNext ==
  ASSUME "redisError" \notin Events, UploadInv, [Next]_vars
  PROVE  QueuedClip'
<1> USE DEF HasClip
<1>0. QueuedClip /\ StashedClip
  BY DEF UploadInv
<1>1. ASSUME UNCHANGED <<clips, local>>, Undelivered' \subseteq Undelivered,
             \A j \in JobIds : hash'[j].source = "upload" => hash[j].source = "upload"
      PROVE  QueuedClip'
  BY <1>0, <1>1, UploadFacts DEF QueuedClip
<1>2. ASSUME NEW h \in Handlers, NEW j \in JobIds, NEW s \in Source, Accept(h, j, s)
      PROVE  QueuedClip'
  <2>1. /\ local' = local \cup {j} /\ clips \subseteq clips' /\ entryId[j] = 0
        /\ hash' = hash /\ Undelivered' = Undelivered
    BY <1>2, UploadFacts DEF Accept, Put, redisVars, Undelivered
  <2>2. j \notin Undelivered
    BY <2>1, UploadFacts DEF Undelivered
  <2> QED  BY <1>0, <2>1, <2>2 DEF QueuedClip
<1>3. ASSUME NEW h \in Handlers, HandlerStep(h)
      PROVE  QueuedClip'
  <2>1. CASE UNCHANGED <<clips, hash, stream, entryId>>
    BY <1>1, <1>3, <2>1, RequestClips DEF Undelivered
  <2>2. CASE UNCHANGED clips /\ hpc[h] = "exec" /\ Enqueue(hjob[h], hsrc[h])
    <3>1. hjob[h] \in JobIds /\ hsrc[h] \in Source
      BY <1>3, UploadFacts, RequestClips DEF Types, TypeOK, HandlersTypeOK
    <3>2. /\ \A j \in JobIds : j # hjob[h] => hash'[j] = hash[j]
          /\ hash'[hjob[h]].source = hsrc[h]
          /\ Undelivered' \subseteq Undelivered \cup {hjob[h]}
      BY <2>2, <3>1, EnqueueEffect
    <3>3. Undelivered \subseteq JobIds
      BY UploadFacts DEF Undelivered
    <3> QED
      BY <1>0, <1>3, <2>2, <3>1, <3>2, <3>3, RequestClips DEF QueuedClip, StashedClip
  <2>3. CASE /\ UNCHANGED <<hash, stream, entryId>>
             /\ clips' = clips \ {hjob[h]} /\ entryId[hjob[h]] = 0
    <3>1. Undelivered' = Undelivered /\ hjob[h] \notin Undelivered /\ local' = local
      BY <1>3, <2>3, UploadFacts, RequestClips DEF Undelivered
    <3> QED  BY <1>0, <2>3, <3>1 DEF QueuedClip
  <2> QED  BY <1>3, <2>1, <2>2, <2>3, RequestClips
<1>4. ASSUME NEW c \in Consumers, ConsumerStep(c)
      PROVE  QueuedClip'
  <2>1. /\ local' = local /\ Undelivered' \subseteq Undelivered
        /\ \A j \in JobIds : hash'[j].source = hash[j].source
    BY <1>4, UploadFacts, ConsumerFrame, ConsumerSource DEF httpVars
  <2>2. CASE pc[c] \in Handling /\ clips' = clips \ {msg[c]}
    <3>1. msg[c] \notin Undelivered
      BY <2>2, UploadFacts
    <3> QED  BY <1>0, <2>1, <2>2, <3>1, UploadFacts DEF QueuedClip
  <2> QED  BY <1>1, <1>4, <2>1, <2>2, ConsumerClips
<1>5. CASE EnvironmentStep
  <2>1. CASE local' = {}
    BY <2>1 DEF QueuedClip
  <2> QED  BY <1>1, <1>5, <2>1, EnvironmentClips
<1>6. CASE UNCHANGED vars
  BY <1>1, <1>6 DEF vars, redisVars, httpVars, Undelivered
<1> QED  BY <1>2, <1>3, <1>4, <1>5, <1>6, NextSplits

\* A worker's own message: its clip is there when Get shows an upload.
LEMMA OwnClip ==
  ASSUME "redisError" \notin Events, UploadInv, NEW c \in Consumers, ConsumerStep(c),
         Uploaded(c)', msg'[c] \in local
  PROVE  HasClip(msg[c])'
<1> USE UploadFacts DEF Goto, HasClip
<1>0. /\ LoadedClip /\ QueuedClip
      /\ \A j \in JobIds : hash'[j].source = hash[j].source
      /\ pc'[c] \in {"get", "mark", "fetch"}
  BY ConsumerSource DEF UploadInv, Uploaded
<1>1. CASE ReadMessage(c)
  <2>1. PICK j \in Undelivered : msg'[c] = j
    BY <1>1 DEF ReadMessage, Read
  <2> QED  BY <1>0, <1>1, <2>1 DEF ReadMessage, Uploaded, QueuedClip, Undelivered
<1>2. CASE ClaimOrphans(c)
  BY <1>2, ClaimForeign DEF ClaimOrphans
<1>3. CASE Return(c)
  <2>1. msg'[c] \in batch[c]
    BY <1>0, <1>3 DEF Return
  <2> QED  BY <2>1 DEF ClaimsAreForeign
<1>4. CASE LoadJob(c)
  BY <1>0, <1>4 DEF LoadJob, Uploaded, LoadedClip, Handling
<1>5. CASE MarkProcessing(c)
  BY <1>0, <1>5 DEF MarkProcessing, Uploaded, LoadedClip
<1>6. CASE ClaimLost(c)
  BY <1>6 DEF ClaimLost
<1>7. pc'[c] \notin {"get", "mark", "fetch"} \/ ReadMessage(c) \/ ClaimOrphans(c) \/ Return(c)
      \/ LoadJob(c) \/ MarkProcessing(c) \/ ClaimLost(c)
  <2>1. CASE Poll(c) \/ ReadNothing(c) \/ Stop(c) \/ SkipJob(c) \/ FetchAudio(c) \/ FetchFails(c)
    BY <2>1 DEF Poll, ReadNothing, Stop, SkipJob, FetchAudio, FetchFails
  <2>2. CASE EnterGate(c) \/ GateCancelled(c) \/ FinishCall(c) \/ Backoff(c)
    BY <2>2 DEF EnterGate, GateCancelled, FinishCall, Backoff, RetryOrGiveUp
  <2>3. CASE StoreResult(c) \/ StoreFailure(c) \/ AckMessage(c)
    BY <2>3 DEF StoreResult, StoreFailure, AckMessage
  <2> QED  BY <2>1, <2>2, <2>3 DEF ConsumerStep, HandleStep
<1> QED  BY <1>0, <1>1, <1>2, <1>3, <1>4, <1>5, <1>6, <1>7

\* The others leave alone the job, the source and the clip a worker works on.
LEMMA LoadedNext ==
  ASSUME "redisError" \notin Events, UploadInv, [Next]_vars
  PROVE  LoadedClip'
<1> USE DEF HasClip
<1>0. LoadedClip /\ \A c \in Consumers : Uploaded(c) => pc[c] \in Handling
  BY DEF UploadInv, Uploaded, Handling
<1>1. ASSUME UNCHANGED <<clips, local, pc, msg, src>>,
             \A j \in JobIds : hash'[j].source = "upload" => hash[j].source = "upload"
      PROVE  LoadedClip'
  <2>1. \A c \in Consumers : Uploaded(c)' => Uploaded(c)
    BY <1>1, UploadFacts DEF Uploaded, Handling
  <2> QED  BY <1>0, <1>1, <2>1 DEF LoadedClip
<1>2. ASSUME NEW h \in Handlers, NEW j \in JobIds, NEW s \in Source, Accept(h, j, s)
      PROVE  LoadedClip'
  <2>1. /\ local' = local \cup {j} /\ clips \subseteq clips' /\ entryId[j] = 0
        /\ UNCHANGED <<hash, pc, msg, src>>
    BY <1>2, UploadFacts DEF Accept, Put, redisVars, consumerVars
  <2>2. \A c \in Consumers : Uploaded(c)' => Uploaded(c) /\ msg[c] # j
    BY <1>0, <2>1, UploadFacts DEF Uploaded
  <2> QED  BY <1>0, <2>1, <2>2 DEF LoadedClip
<1>3. ASSUME NEW h \in Handlers, HandlerStep(h)
      PROVE  LoadedClip'
  <2>1. \A c \in Consumers : pc[c] \in Handling => hash'[msg[c]] = hash[msg[c]]
    <3>1. hjob[h] \in JobIds /\ hsrc[h] \in Source
      BY <1>3, UploadFacts, RequestClips DEF Types, TypeOK, HandlersTypeOK
    <3>2. \A j \in JobIds : j # hjob[h] => hash'[j] = hash[j]
      BY <1>3, <3>1, RequestClips, EnqueueEffect
    <3> QED  BY <1>3, <3>2, UploadFacts, RequestClips
  <2>2. \A c \in Consumers : Uploaded(c)' => Uploaded(c)
    BY <1>3, <2>1, RequestClips DEF Uploaded, Handling
  <2>3. \A c \in Consumers : pc[c] \in Handling /\ msg[c] \in clips => msg[c] \in clips'
    BY <1>3, RequestClips
  <2>4. UNCHANGED <<local, msg>>
    BY <1>3, RequestClips
  <2> QED  BY <1>0, <2>2, <2>3, <2>4 DEF LoadedClip
<1>4. ASSUME NEW c \in Consumers, ConsumerStep(c)
      PROVE  LoadedClip'
  <2>1. /\ local' = local /\ \A j \in JobIds : hash'[j].source = hash[j].source
        /\ \A d \in Consumers \ {c} : pc'[d] = pc[d] /\ msg'[d] = msg[d]
    BY <1>4, UploadFacts, ConsumerLocal, ConsumerFrame, ConsumerSource DEF httpVars
  <2>2. \A d \in Consumers \ {c} : src'[d] = src[d]
    BY <1>4, UploadFacts DEF ConsumerStep, HandleStep, Poll, ReadMessage, ReadNothing,
       ClaimOrphans, ClaimLost, Stop, LoadJob, SkipJob, MarkProcessing, FetchAudio, FetchFails,
       EnterGate, GateCancelled, FinishCall, Backoff, StoreResult, StoreFailure, AckMessage,
       Return, consumerVars
  <2>3. ASSUME NEW d \in Consumers \ {c}, Uploaded(d)', msg'[d] \in local
        PROVE  HasClip(msg[d])'
    <3>1. Uploaded(d) /\ pc[d] \in Handling /\ msg[d] \in clips
      <4>1. pc'[d] \in {"get", "mark", "fetch"}
        BY <2>3 DEF Uploaded
      <4>2. Uploaded(d)
        BY <2>1, <2>2, <2>3, <4>1, UploadFacts DEF Uploaded, Handling
      <4> QED  BY <1>0, <2>1, <2>3, <4>2 DEF LoadedClip
    <3> QED  BY <1>4, <2>1, <3>1, UploadFacts, ConsumerClips
  <2> QED  BY <1>4, <2>1, <2>3, OwnClip DEF LoadedClip
<1>5. CASE EnvironmentStep
  <2>1. CASE local' = {}
    BY <2>1 DEF LoadedClip
  <2> QED  BY <1>1, <1>5, <2>1, EnvironmentClips
<1>6. CASE UNCHANGED vars
  BY <1>1, <1>6 DEF vars, redisVars, httpVars, consumerVars
<1> QED  BY <1>2, <1>3, <1>4, <1>5, <1>6, NextSplits

\* The audio stashed for an accepted upload is in memory when the worker of
\* this process fetches it, also when Redis loses its data on the way.
THEOREM UploadsAreFound ==
  ASSUME "slowHandling" \notin Events, "redisError" \notin Events
  PROVE  Spec => []FetchFindsUpload
<1>1. ASSUME Init PROVE UploadInv
  <2>1. OutcomeInv /\ AnswersAgree
    BY <1>1, OutcomeInit DEF Init, AnswersAgree
  <2> QED
    BY <1>1, <2>1 DEF Init, RedisInit, Undelivered, UploadInv, DownForgets, DeliveredOnce,
       ClaimsAreForeign, StashedClip, QueuedClip, LoadedClip, Uploaded
<1>2. UploadInv /\ [Next]_vars => UploadInv'
  <2> SUFFICES ASSUME UploadInv, [Next]_vars PROVE UploadInv'
    OBVIOUS
  <2>1. OutcomeInv' /\ AnswersAgree'
    BY OutcomeNext, AnswersNext DEF UploadInv
  <2> QED
    BY <2>1, DeliveredNext, StashedNext, QueuedNext, LoadedNext DEF UploadInv
<1>3. UploadInv => FetchFindsUpload
  BY DEF UploadInv, LoadedClip, Uploaded, FetchFindsUpload
<1> QED  BY <1>1, <1>2, <1>3, PTL DEF Spec
=============================================================================
