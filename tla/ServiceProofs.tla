---------------------------- MODULE ServiceProofs ---------------------------
(***************************************************************************)
(* Theorems about the service for any number of jobs, workers, requests    *)
(* and retries, and for any set of Events unless one is excluded by name.  *)
(***************************************************************************)
EXTENDS ServiceProperties, RedisStoreProofs

(* The steps of one consumer, of one handler, and of everything else.      *)

ConsumerStep(c) ==
    \/ c \in Workers /\ (Poll(c) \/ ReadMessage(c) \/ ReadNothing(c))
    \/ c = Claimer /\ (ClaimOrphans(c) \/ ClaimLost(c))
    \/ HandleStep(c) \/ Stop(c)

EnvironmentStep ==
    \/ Signal \/ CloseListener \/ Exit \/ Crash \/ Start
    \/ TurnWindow \/ RedisRestarts
    \/ \E j \in JobIds : MessageIdle(j) \/ JobExpires(j)

\* Every step of Next is one of the three.
LEMMA NextSplits ==
  ASSUME Next
  PROVE  \/ \E h \in Handlers, j \in JobIds, s \in Source : Accept(h, j, s)
         \/ \E h \in Handlers : HandlerStep(h)
         \/ \E c \in Consumers : ConsumerStep(c)
         \/ EnvironmentStep
  BY DEF Next, ConsumerStep, EnvironmentStep, Consumers

-----------------------------------------------------------------------------
(* Types.                                                                  *)

\* A process that is down runs no goroutine, so that Start finds none at work.
DownIsStopped == phase = "down" => \A c \in Consumers : pc[c] = "stopped"

Types == TypeOK /\ DownIsStopped

MemoryTypeOK ==
    /\ phase \in {"running", "draining", "shutdown", "down"}
    /\ windowOpen \in BOOLEAN
    /\ ConsumersTypeOK
    /\ HandlersTypeOK
    /\ DownIsStopped

\* A worker's own steps before and after handle.
LEMMA LoopTypes ==
  ASSUME Types, NEW c \in Consumers,
         \/ Poll(c) \/ ReadMessage(c) \/ ReadNothing(c) \/ Stop(c)
         \/ ClaimOrphans(c) \/ ClaimLost(c)
  PROVE  MemoryTypeOK'
<1> USE ServiceAssumption DEF Types, TypeOK, MemoryTypeOK, ConsumersTypeOK, HandlersTypeOK,
        DownIsStopped, envVars, Goto, ConsumerPC,
        Handling, httpVars, consumerVars
<1>1. CASE Poll(c)          BY <1>1 DEF Poll
<1>2. CASE ReadMessage(c)   BY <1>2 DEF ReadMessage
<1>3. CASE ReadNothing(c)   BY <1>3 DEF ReadNothing
<1>4. CASE Stop(c)          BY <1>4 DEF Stop
<1>5. CASE ClaimOrphans(c)  BY <1>5 DEF ClaimOrphans
<1>6. CASE ClaimLost(c)     BY <1>6 DEF ClaimLost
<1> QED  BY <1>1, <1>2, <1>3, <1>4, <1>5, <1>6

\* The steps of handle.
LEMMA HandleTypes ==
  ASSUME Types, NEW c \in Consumers, HandleStep(c)
  PROVE  MemoryTypeOK'
<1> USE ServiceAssumption DEF Types, TypeOK, MemoryTypeOK, ConsumersTypeOK, HandlersTypeOK,
        DownIsStopped, envVars, Goto, ConsumerPC,
        Handling, httpVars
<1>1. CASE LoadJob(c)
  BY <1>1 DEF LoadJob, RedisTypeOK, Hash
<1>2. CASE SkipJob(c)         BY <1>2 DEF SkipJob
<1>3. CASE MarkProcessing(c)  BY <1>3 DEF MarkProcessing
<1>4. CASE FetchAudio(c)      BY <1>4 DEF FetchAudio, Take
<1>5. CASE FetchFails(c)      BY <1>5 DEF FetchFails
<1>6. CASE EnterGate(c)       BY <1>6 DEF EnterGate, Acquire
<1>7. CASE GateCancelled(c)   BY <1>7 DEF GateCancelled, RetryOrGiveUp
<1>8. CASE FinishCall(c)
  BY <1>8 DEF FinishCall, RetryOrGiveUp, Release
<1>9. CASE Backoff(c)         BY <1>9 DEF Backoff
<1>10. CASE StoreResult(c)    BY <1>10 DEF StoreResult
<1>11. CASE StoreFailure(c)   BY <1>11 DEF StoreFailure
<1>12. CASE AckMessage(c)     BY <1>12 DEF AckMessage
<1>13. CASE Return(c)
  <2>1. CASE batch[c] = {} /\ Goto(c, "drop", "idle") /\ msg' = [msg EXCEPT ![c] = NoJob]
             /\ UNCHANGED batch
    BY <1>13, <2>1 DEF Return, Drop
  <2>2. ASSUME NEW j \in batch[c], Goto(c, "drop", "get"), msg' = [msg EXCEPT ![c] = j],
               batch' = [batch EXCEPT ![c] = @ \ {j}]
        PROVE  MemoryTypeOK'
    <3>1. j \in JobIds /\ batch[c] \ {j} \in SUBSET JobIds
      OBVIOUS
    <3> QED  BY <1>13, <2>2, <3>1 DEF Return, Drop
  <2> QED  BY <1>13, <2>1, <2>2 DEF Return
<1> QED
  BY <1>1, <1>2, <1>3, <1>4, <1>5, <1>6, <1>7, <1>8, <1>9, <1>10, <1>11, <1>12, <1>13
  DEF HandleStep

\* The steps of an HTTP handler.
LEMMA HandlerTypes ==
  ASSUME Types, NEW h \in Handlers,
         HandlerStep(h) \/ \E j \in JobIds, s \in Source : Accept(h, j, s)
  PROVE  MemoryTypeOK'
<1> USE ServiceAssumption DEF Types, TypeOK, MemoryTypeOK, ConsumersTypeOK, HandlersTypeOK,
        DownIsStopped, envVars, HandlerPC, Response,
        consumerVars, Source
<1>1. ASSUME NEW j \in JobIds, NEW s \in Source, Accept(h, j, s)
      PROVE  MemoryTypeOK'
  BY <1>1 DEF Accept, Put
<1>2. CASE CheckDepth(h)    BY <1>2 DEF CheckDepth
<1>3. CASE Execute(h)       BY <1>3 DEF Execute
<1>4. CASE ExecuteFails(h)  BY <1>4 DEF ExecuteFails
<1>5. CASE AnswerAccepted(h)
  BY <1>5 DEF AnswerAccepted, Finish
<1>6. CASE Reject(h)
  <2>1. clips' \subseteq clips
    BY <1>6 DEF Reject, Drop
  <2> QED  BY <1>6, <2>1 DEF Reject, Finish
<1> QED  BY <1>1, <1>2, <1>3, <1>4, <1>5, <1>6 DEF HandlerStep

\* The steps of main, time and Redis.
LEMMA EnvironmentTypes ==
  ASSUME Types, EnvironmentStep
  PROVE  MemoryTypeOK'
<1> USE ServiceAssumption DEF Types, TypeOK, MemoryTypeOK, ConsumersTypeOK, HandlersTypeOK,
        DownIsStopped, envVars, ConsumerPC, Handling,
        HandlerPC, Response, consumerVars, httpVars
<1>1. CASE Signal \/ CloseListener \/ TurnWindow \/ RedisRestarts
  BY <1>1 DEF Signal, CloseListener, TurnWindow, RedisRestarts
<1>2. CASE Exit \/ Crash
  BY <1>2 DEF Exit, Crash, ProcessEnds, Source
<1>3. CASE Start
  BY <1>3 DEF Start
<1>4. ASSUME NEW j \in JobIds, MessageIdle(j) \/ JobExpires(j)
      PROVE  MemoryTypeOK'
  BY <1>4 DEF MessageIdle, JobExpires
<1> QED  BY <1>1, <1>2, <1>3, <1>4 DEF EnvironmentStep

-----------------------------------------------------------------------------
(* The service uses the store as RedisSpec allows.                         *)

\* A job waits for its EXEC unqueued, and is generated and enqueued once.
FreshJobs ==
    /\ \A j \in JobIds : resp[j] = "none" => entryId[j] = 0
    /\ \A h \in Handlers : hpc[h] # "idle" => resp[hjob[h]] = "open"
    /\ \A h \in Handlers : hpc[h] \in {"check", "exec"} => entryId[hjob[h]] = 0
    /\ \A g, h \in Handlers : hpc[g] # "idle" /\ hjob[g] = hjob[h] => g = h

\* What a goroutine has in hand has been delivered to it.
HandsDelivered ==
    \A c \in Consumers : \A j \in InHand(c) : entryId[j] > 0 /\ j \notin Undelivered

ServiceInv == Types /\ RedisInv /\ FreshJobs /\ HandsDelivered

\* The initial states.
LEMMA ServiceInitInv == Init => ServiceInv
<1> SUFFICES ASSUME Init PROVE ServiceInv
  OBVIOUS
<1> USE DEF Init
<1>1. RedisInv
  BY RedisInitInv
<1>2. Types
  <2>1. ConsumersTypeOK
    BY ServiceAssumption DEF ConsumersTypeOK, GateInit, ConsumerPC, Handling
  <2>2. HandlersTypeOK
    BY ServiceAssumption DEF HandlersTypeOK, AudioInit, HandlerPC, Source, Response
  <2>3. windowOpen \in BOOLEAN
    OBVIOUS
  <2> QED  BY <1>1, <2>1, <2>2, <2>3 DEF Types, TypeOK, RedisInv, DownIsStopped
<1>3. FreshJobs
  BY DEF FreshJobs, RedisInit
<1>4. HandsDelivered
  BY DEF HandsDelivered, InHand, Handling
<1> QED  BY <1>1, <1>2, <1>3, <1>4 DEF ServiceInv

\* Every step of the service is a command to the store, or leaves it alone,
\* unless Redis restarts.
LEMMA StepIsCommand ==
  ASSUME ServiceInv, Next, ~RedisRestarts
  PROVE  [RedisCommand]_redisVars
<1>1. ASSUME NEW h \in Handlers, NEW j \in JobIds, NEW s \in Source, Accept(h, j, s)
      PROVE  UNCHANGED redisVars
  BY <1>1 DEF Accept
<1>2. ASSUME NEW h \in Handlers, HandlerStep(h)
      PROVE  [RedisCommand]_redisVars
  <2>1. CASE CheckDepth(h) \/ AnswerAccepted(h) \/ Reject(h)
    BY <2>1 DEF CheckDepth, AnswerAccepted, Reject
  <2>2. CASE Execute(h) \/ ExecuteFails(h)
    <3>1. hjob[h] \in JobIds /\ hsrc[h] \in Source /\ entryId[hjob[h]] = 0
      BY <2>2 DEF ServiceInv, Types, TypeOK, HandlersTypeOK, FreshJobs, Execute, ExecuteFails
    <3> QED  BY <2>2, <3>1 DEF Execute, ExecuteFails, RedisCommand
  <2> QED  BY <1>2, <2>1, <2>2 DEF HandlerStep
<1>3. ASSUME NEW c \in Consumers, ConsumerStep(c)
      PROVE  [RedisCommand]_redisVars
  <2>1. CASE Poll(c) \/ Stop(c)
    BY <2>1 DEF Poll, Stop
  <2>2. CASE ReadMessage(c) \/ ReadNothing(c)
    BY <2>2 DEF ReadMessage, ReadNothing, RedisCommand
  <2>3. CASE ClaimOrphans(c) \/ ClaimLost(c)
    BY <2>3 DEF ClaimOrphans, ClaimLost, RedisCommand
  <2>4. CASE HandleStep(c)
    <3>1. CASE \/ LoadJob(c) \/ SkipJob(c) \/ FetchAudio(c) \/ FetchFails(c) \/ EnterGate(c)
               \/ GateCancelled(c) \/ FinishCall(c) \/ Backoff(c) \/ Return(c)
      BY <3>1 DEF LoadJob, SkipJob, FetchAudio, FetchFails, EnterGate, GateCancelled,
                  FinishCall, Backoff, Return
    <3>2. CASE MarkProcessing(c) \/ StoreResult(c) \/ StoreFailure(c) \/ AckMessage(c)
      <4>1. msg[c] \in JobIds /\ msg[c] \notin Undelivered
        BY <3>2 DEF ServiceInv, Types, TypeOK, ConsumersTypeOK, HandsDelivered, InHand,
                    MarkProcessing, StoreResult, StoreFailure, AckMessage, Goto, Handling
      <4> QED
        BY <3>2, <4>1 DEF MarkProcessing, StoreResult, StoreFailure, AckMessage,
                          LoggedCall, RedisCommand
    <3> QED  BY <2>4, <3>1, <3>2 DEF HandleStep
  <2> QED  BY <1>3, <2>1, <2>2, <2>3, <2>4 DEF ConsumerStep
<1>4. CASE EnvironmentStep
  <2>1. CASE Signal \/ CloseListener \/ TurnWindow \/ Exit \/ Crash
    BY <2>1 DEF Signal, CloseListener, TurnWindow, Exit, Crash, ProcessEnds
  <2>2. CASE Start
    BY <2>2 DEF Start, RedisCommand
  <2>3. ASSUME NEW j \in JobIds, MessageIdle(j) \/ JobExpires(j)
        PROVE  RedisCommand
    BY <2>3 DEF MessageIdle, JobExpires, RedisCommand
  <2> QED  BY <1>4, <2>1, <2>2, <2>3 DEF EnvironmentStep
<1> QED  BY <1>1, <1>2, <1>3, <1>4, NextSplits

\* Every step of the service is a step of the store, or leaves it alone.
LEMMA StepIsStoreStep == ServiceInv /\ [Next]_vars => [RedisNext]_redisVars
<1>1. RedisRestarts => Wipe
  BY DEF RedisRestarts
<1>2. UNCHANGED vars => UNCHANGED redisVars
  BY DEF vars
<1> QED  BY <1>1, <1>2, StepIsCommand DEF RedisNext

\* Types are preserved; the part of Redis is the store's own invariant.
LEMMA TypesPreserved ==
  ASSUME ServiceInv, [Next]_vars
  PROVE  Types' /\ RedisInv'
<1>1. RedisInv'
  BY StepIsStoreStep, RedisNextInv DEF ServiceInv
<1>2. MemoryTypeOK'
  <2>1. CASE UNCHANGED vars
    BY <2>1 DEF vars, ServiceInv, Types, TypeOK, MemoryTypeOK, ConsumersTypeOK,
                HandlersTypeOK, DownIsStopped, envVars, consumerVars, httpVars
  <2>2. CASE Next
    BY <2>2, NextSplits, LoopTypes, HandleTypes, HandlerTypes, EnvironmentTypes
    DEF ServiceInv, ConsumerStep
  <2> QED  BY <2>1, <2>2
<1> QED  BY <1>1, <1>2 DEF Types, TypeOK, MemoryTypeOK, RedisInv

-----------------------------------------------------------------------------
(* What one step can do to the messages in hand.                           *)

\* The steps inside handle change no other hand and at most shrink their own.
LEMMA HandleKeepsHands ==
  ASSUME Types, NEW c \in Consumers, HandleStep(c)
  PROVE  /\ \A d \in Consumers \ {c} : InHand(d)' = InHand(d)
         /\ InHand(c)' \subseteq InHand(c)
<1> USE DEF Types, TypeOK, ConsumersTypeOK, InHand, Goto, Handling
<1>1. CASE LoadJob(c) \/ SkipJob(c) \/ MarkProcessing(c) \/ FetchAudio(c) \/ FetchFails(c)
  BY <1>1 DEF LoadJob, SkipJob, MarkProcessing, FetchAudio, FetchFails
<1>2. CASE EnterGate(c) \/ GateCancelled(c) \/ FinishCall(c) \/ Backoff(c)
  BY <1>2 DEF EnterGate, GateCancelled, FinishCall, Backoff, RetryOrGiveUp
<1>3. CASE StoreResult(c) \/ StoreFailure(c) \/ AckMessage(c)
  BY <1>3 DEF StoreResult, StoreFailure, AckMessage
<1>4. CASE Return(c)
  <2>1. InHand(c) = {msg[c]} \cup batch[c]
    BY <1>4 DEF Return
  <2>2. CASE batch[c] = {} /\ Goto(c, "drop", "idle") /\ msg' = [msg EXCEPT ![c] = NoJob]
             /\ UNCHANGED batch
    BY <2>2
  <2>3. ASSUME NEW j \in batch[c], Goto(c, "drop", "get"), msg' = [msg EXCEPT ![c] = j],
               batch' = [batch EXCEPT ![c] = @ \ {j}]
        PROVE  /\ \A d \in Consumers \ {c} : InHand(d)' = InHand(d)
               /\ InHand(c)' \subseteq InHand(c)
    <3>1. InHand(c)' = {j} \cup (batch[c] \ {j})
      BY <2>3
    <3>2. \A d \in Consumers \ {c} : InHand(d)' = InHand(d)
      BY <2>3
    <3> QED  BY <2>1, <3>1, <3>2
  <2> QED  BY <1>4, <2>2, <2>3 DEF Return
<1> QED  BY <1>1, <1>2, <1>3, <1>4 DEF HandleStep

\* A hand gains only what the step reads or, the claimer's, claims, and gains
\* it when empty.
LEMMA HandChange ==
  ASSUME Types, NEW c \in Consumers, ConsumerStep(c)
  PROVE  /\ \A d \in Consumers \ {c} : InHand(d)' = InHand(d)
         /\ \/ InHand(c)' \subseteq InHand(c)
            \/ \E j \in JobIds : Read(j) /\ InHand(c)' = {j}
            \/ c = Claimer /\ \E B \in SUBSET JobIds : Claim(B) /\ InHand(c)' = B
<1> USE DEF Types, TypeOK, ConsumersTypeOK, InHand, Goto, Handling
<1>1. CASE Poll(c) \/ Stop(c) \/ ReadNothing(c) \/ ClaimLost(c)
  BY <1>1 DEF Poll, Stop, ReadNothing, ClaimLost, consumerVars
<1>2. CASE ReadMessage(c)
  BY <1>2 DEF ReadMessage
<1>3. CASE c = Claimer /\ ClaimOrphans(c)
  BY <1>3 DEF ClaimOrphans
<1>4. CASE HandleStep(c)
  BY <1>4, HandleKeepsHands
<1> QED  BY <1>1, <1>2, <1>3, <1>4 DEF ConsumerStep

\* A consumer gives no entry an ID, takes none back from behind the cursor,
\* and does not touch the handlers.
LEMMA ConsumerFrame ==
  ASSUME ServiceInv, NEW c \in Consumers, ConsumerStep(c)
  PROVE  entryId' = entryId /\ Undelivered' \subseteq Undelivered /\ UNCHANGED httpVars
<1>1. UNCHANGED httpVars
  BY DEF ConsumerStep, HandleStep, Poll, ReadMessage, ReadNothing, ClaimOrphans, ClaimLost,
         LoadJob, SkipJob, MarkProcessing, FetchAudio, FetchFails, EnterGate, GateCancelled,
         FinishCall, Backoff, StoreResult, StoreFailure, AckMessage, Return, Stop
<1>2. \/ UNCHANGED redisVars
      \/ \E j \in JobIds : \/ SetProcessing(j) \/ SetCompleted(j) \/ SetFailed(j)
                            \/ Read(j) \/ Ack(j)
      \/ \E B \in SUBSET JobIds : Claim(B)
  <2>1. CASE HandleStep(c)
    <3>1. pc[c] \in Handling => msg[c] \in JobIds
      BY DEF ServiceInv, Types, TypeOK, ConsumersTypeOK
    <3>2. CASE MarkProcessing(c) \/ StoreResult(c) \/ StoreFailure(c) \/ AckMessage(c)
      BY <3>1, <3>2 DEF MarkProcessing, StoreResult, StoreFailure, AckMessage, LoggedCall,
                        Goto, Handling
    <3>3. CASE \/ LoadJob(c) \/ SkipJob(c) \/ FetchAudio(c) \/ FetchFails(c) \/ EnterGate(c)
               \/ GateCancelled(c) \/ FinishCall(c) \/ Backoff(c) \/ Return(c)
      BY <3>3 DEF LoadJob, SkipJob, FetchAudio, FetchFails, EnterGate, GateCancelled,
                  FinishCall, Backoff, Return
    <3> QED  BY <2>1, <3>2, <3>3 DEF HandleStep
  <2>2. CASE ~HandleStep(c)
    BY <2>2 DEF ConsumerStep, Poll, ReadMessage, ReadNothing, ClaimOrphans, ClaimLost, Stop
  <2> QED  BY <2>1, <2>2
<1>3. ASSUME NEW j \in JobIds, Read(j)
      PROVE  entryId' = entryId /\ Undelivered' \subseteq Undelivered
  BY <1>3 DEF ServiceInv, RedisInv, RedisTypeOK, Read, Undelivered
<1>4. CASE \/ UNCHANGED redisVars
           \/ \E j \in JobIds : \/ SetProcessing(j) \/ SetCompleted(j) \/ SetFailed(j)
                                 \/ Ack(j)
           \/ \E B \in SUBSET JobIds : Claim(B)
  <2>1. entryId' = entryId /\ lastDelivered' = lastDelivered /\ stream' \subseteq stream
    BY <1>4 DEF redisVars, SetProcessing, SetCompleted, SetFailed, Update, streamVars, Ack,
                Claim
  <2> QED  BY <1>1, <2>1 DEF Undelivered
<1> QED  BY <1>1, <1>2, <1>3, <1>4

-----------------------------------------------------------------------------
(* The two facts StepIsStoreStep rests on are preserved.                   *)

\* A job is generated once and enqueued at most once.
LEMMA FreshPreserved ==
  ASSUME ServiceInv, [Next]_vars
  PROVE  FreshJobs'
<1> USE DEF ServiceInv, Types, TypeOK, RedisTypeOK, HandlersTypeOK, FreshJobs
<1>1. CASE UNCHANGED vars
  BY <1>1 DEF vars, redisVars, httpVars
<1>2. ASSUME NEW h \in Handlers, NEW j \in JobIds, NEW s \in Source, Accept(h, j, s)
      PROVE  FreshJobs'
  BY <1>2 DEF Accept, redisVars
<1>3. ASSUME NEW h \in Handlers, HandlerStep(h)
      PROVE  FreshJobs'
  <2>1. CASE CheckDepth(h)
    BY <2>1 DEF CheckDepth, redisVars
  <2>2. CASE AnswerAccepted(h) \/ Reject(h)
    <3>1. /\ hpc[h] # "idle" /\ hjob[h] \in JobIds
          /\ hpc' = [hpc EXCEPT ![h] = "idle"]
          /\ hjob' = [hjob EXCEPT ![h] = NoJob]
          /\ \E answer \in {"202", "429", "500"} : resp' = [resp EXCEPT ![hjob[h]] = answer]
      BY <2>2 DEF AnswerAccepted, Reject, Finish
    <3>2. entryId' = entryId /\ \A k \in JobIds \ {hjob[h]} : resp'[k] = resp[k]
      BY <2>2, <3>1 DEF AnswerAccepted, Reject, redisVars
    <3>3. resp'[hjob[h]] # "none"
      BY <3>1
    <3>4. \A g \in Handlers : hpc'[g] # "idle" =>
              g # h /\ hjob'[g] = hjob[g] /\ hjob[g] \in JobIds \ {hjob[h]} /\ hpc'[g] = hpc[g]
      BY <3>1
    <3>5. \A g \in Handlers : hpc'[g] # "idle" =>
              /\ resp'[hjob'[g]] = "open"
              /\ hpc'[g] \in {"check", "exec"} => entryId'[hjob'[g]] = 0
      BY <3>2, <3>4
    <3>6. \A g, k \in Handlers : hpc'[g] # "idle" /\ hjob'[g] = hjob'[k] => g = k
      BY <3>1, <3>4, ServiceAssumption
    <3> QED  BY <3>2, <3>3, <3>5, <3>6
  <2>3. CASE Execute(h) \/ ExecuteFails(h)
    BY <2>3 DEF Execute, ExecuteFails, Enqueue, redisVars
  <2> QED  BY <1>3, <2>1, <2>2, <2>3 DEF HandlerStep
<1>4. ASSUME NEW c \in Consumers, ConsumerStep(c)
      PROVE  FreshJobs'
  BY <1>4, ConsumerFrame DEF httpVars
<1>5. CASE EnvironmentStep
  <2>1. CASE Exit \/ Crash
    BY <2>1 DEF Exit, Crash, ProcessEnds, redisVars
  <2>2. CASE ~(Exit \/ Crash)
    <3>1. UNCHANGED <<httpVars, entryId>>
      BY <1>5, <2>2 DEF EnvironmentStep, Signal, CloseListener, Start, TurnWindow,
         RedisRestarts, MessageIdle, JobExpires, redisVars, Wipe, EnsureGroup, GrowIdle,
         Expire, Update, streamVars
    <3> QED  BY <3>1 DEF httpVars
  <2> QED  BY <2>1, <2>2
<1> QED  BY <1>1, <1>2, <1>3, <1>4, <1>5, NextSplits

\* What is in hand stays behind the cursor.
LEMMA HandsPreserved ==
  ASSUME ServiceInv, [Next]_vars
  PROVE  HandsDelivered'
<1>1. ASSUME UNCHANGED <<consumerVars, entryId>>, Undelivered' \subseteq Undelivered
      PROVE  HandsDelivered'
  <2>1. \A c \in Consumers : InHand(c)' = InHand(c)
    BY <1>1 DEF InHand, consumerVars
  <2> QED  BY <1>1, <2>1 DEF ServiceInv, HandsDelivered
<1>2. CASE UNCHANGED vars
  BY <1>1, <1>2 DEF vars, redisVars, Undelivered
<1>3. ASSUME NEW h \in Handlers, NEW j \in JobIds, NEW s \in Source, Accept(h, j, s)
      PROVE  HandsDelivered'
  BY <1>1, <1>3 DEF Accept, redisVars, Undelivered
<1>4. ASSUME NEW h \in Handlers, HandlerStep(h)
      PROVE  HandsDelivered'
  <2>1. CASE UNCHANGED <<redisVars, consumerVars>>
    BY <1>1, <2>1 DEF redisVars, Undelivered
  <2>2. CASE Enqueue(hjob[h], hsrc[h]) /\ hpc[h] = "exec" /\ UNCHANGED consumerVars
    <3>1. \A c \in Consumers : InHand(c)' = InHand(c)
      BY <2>2 DEF InHand, consumerVars
    <3>2. \A c \in Consumers : InHand(c) \subseteq JobIds
      BY DEF ServiceInv, Types, TypeOK, ConsumersTypeOK, InHand
    <3>3. hjob[h] \in JobIds /\ entryId[hjob[h]] = 0
      BY <2>2 DEF ServiceInv, Types, TypeOK, HandlersTypeOK, FreshJobs
    <3>4. \A k \in JobIds : k # hjob[h] => entryId'[k] = entryId[k]
                                          /\ (k \in Undelivered' => k \in Undelivered)
      BY <2>2, <3>3 DEF ServiceInv, RedisInv, RedisTypeOK, Enqueue, Undelivered
    <3> QED
      BY <3>1, <3>2, <3>3, <3>4 DEF ServiceInv, HandsDelivered
  <2> QED
    BY <1>4, <2>1, <2>2 DEF HandlerStep, CheckDepth, Execute, ExecuteFails, AnswerAccepted, Reject, Finish
<1>5. ASSUME NEW c \in Consumers, ConsumerStep(c)
      PROVE  HandsDelivered'
  <2>1. entryId' = entryId /\ Undelivered' \subseteq Undelivered
    BY <1>5, ConsumerFrame
  <2>2. ASSUME NEW j \in JobIds, Read(j)
        PROVE  entryId[j] > 0 /\ j \notin Undelivered'
    BY <2>2 DEF ServiceInv, RedisInv, RedisTypeOK, IdsOrdered, Read, Undelivered
  <2>3. ASSUME NEW B \in SUBSET JobIds, Claim(B)
        PROVE  \A j \in B : entryId[j] > 0 /\ j \notin Undelivered
    BY <2>3 DEF ServiceInv, RedisInv, RedisTypeOK, IdsOrdered, EntriesReachable, Claim,
                Claimable, Oldest, Undelivered
  <2>4. \A j \in InHand(c)' : entryId[j] > 0 /\ j \notin Undelivered'
    BY <1>5, <2>1, <2>2, <2>3, HandChange DEF ServiceInv, HandsDelivered
  <2>5. \A d \in Consumers \ {c} : InHand(d)' = InHand(d)
    BY <1>5, HandChange DEF ServiceInv
  <2> QED  BY <2>1, <2>4, <2>5 DEF ServiceInv, HandsDelivered
<1>6. CASE EnvironmentStep
  <2>1. CASE Exit \/ Crash \/ Start
    <3>1. \A c \in Consumers : InHand(c)' = {}
      BY <2>1 DEF Exit, Crash, ProcessEnds, Start, InHand, Handling
    <3> QED  BY <3>1 DEF HandsDelivered
  <2>2. CASE ~(Exit \/ Crash \/ Start)
    <3>1. UNCHANGED <<consumerVars, entryId>> /\ Undelivered' \subseteq Undelivered
      BY <1>6, <2>2 DEF EnvironmentStep, Signal, CloseListener, TurnWindow,
         RedisRestarts, MessageIdle, JobExpires, redisVars, Wipe, GrowIdle,
         Expire, Update, streamVars, Undelivered
    <3> QED  BY <1>1, <3>1
  <2> QED  BY <2>1, <2>2
<1> QED  BY <1>2, <1>3, <1>4, <1>5, <1>6, NextSplits

\* The invariant is inductive.
LEMMA ServiceNextInv == ServiceInv /\ [Next]_vars => ServiceInv'
  BY TypesPreserved, FreshPreserved, HandsPreserved DEF ServiceInv

\* The service always satisfies it.
LEMMA ServiceInvariant == Spec => []ServiceInv
  BY ServiceInitInv, ServiceNextInv, PTL DEF Spec

\* Type correctness of the service: in particular a goroutine has a message
\* exactly while it is in handle, and Transcribe is retried at most maxRetries
\* times, through every error path, shutdown, crash and restart.
THEOREM TypeCorrect == Spec => []TypeOK
  BY ServiceInvariant, PTL DEF ServiceInv, Types

\* The service implements the store's own specification: it enqueues no job
\* twice and acks no message it was not delivered.
THEOREM ServiceUsesStore == Spec => RedisSpec
<1>1. Init => RedisInit
  BY DEF Init
<1> QED  BY <1>1, ServiceInvariant, StepIsStoreStep, PTL DEF Spec, RedisSpec

\* Hence no entry of the queue is ever stranded, whatever the environment does.
THEOREM EntriesStayReachable == Spec => []EntriesReachable
  BY ServiceUsesStore, StoreKeepsEntriesReachable, PTL
=============================================================================
