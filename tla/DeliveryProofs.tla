--------------------------- MODULE DeliveryProofs ---------------------------
(***************************************************************************)
(* One handler per job, final outcomes, and acks that follow them, as long *)
(* as no message stays in a hand for claimMinIdle.                         *)
(***************************************************************************)
EXTENDS ServiceProofs

(* A message in hand is not idle, so the claimer cannot take it; a message *)
(* not yet delivered is in no hand, so a read cannot duplicate it.         *)

HandsNotIdle == \A c \in Consumers : InHand(c) \cap idle = {}

HandInv == ServiceInv /\ SingleHandler /\ HandsNotIdle

\* The initial states.
LEMMA HandInit == Init => HandInv
<1> SUFFICES ASSUME Init PROVE HandInv
  OBVIOUS
<1>1. ServiceInv
  BY ServiceInitInv
<1>2. \A c \in Consumers : InHand(c) = {} /\ batch[c] = {}
  BY DEF Init, InHand, Handling
<1> QED  BY <1>1, <1>2 DEF HandInv, SingleHandler, HandsNotIdle

\* A batch names a job once, and never the one being handled.
LEMMA BatchesApart ==
  ASSUME Types, \A c \in Consumers : msg[c] \notin batch[c],
         NEW c \in Consumers, ConsumerStep(c)
  PROVE  \A d \in Consumers : msg'[d] \notin batch'[d]
<1> USE DEF Types, TypeOK, ConsumersTypeOK, Goto
<1>1. CASE UNCHANGED <<msg, batch>>
  BY <1>1
<1>2. CASE ReadMessage(c)
  BY <1>2 DEF ReadMessage, Handling
<1>3. CASE ClaimOrphans(c)
  BY <1>3 DEF ClaimOrphans
<1>4. CASE Return(c)
  <2>1. CASE msg' = [msg EXCEPT ![c] = NoJob] /\ UNCHANGED batch
    BY <2>1, ServiceAssumption
  <2>2. ASSUME NEW j \in batch[c], msg' = [msg EXCEPT ![c] = j],
               batch' = [batch EXCEPT ![c] = @ \ {j}]
        PROVE  \A d \in Consumers : msg'[d] \notin batch'[d]
    BY <2>2
  <2> QED  BY <1>4, <2>1, <2>2 DEF Return
<1> QED
  BY <1>1, <1>2, <1>3, <1>4 DEF ConsumerStep, HandleStep, Poll, ReadNothing, ClaimLost,
     LoadJob, SkipJob, MarkProcessing, FetchAudio, FetchFails, EnterGate, GateCancelled,
     FinishCall, Backoff, StoreResult, StoreFailure, AckMessage, Stop, consumerVars

\* What a consumer's step may do to the idle entries.
LEMMA ConsumerIdle ==
  ASSUME ServiceInv, NEW c \in Consumers, ConsumerStep(c)
  PROVE  idle' \subseteq idle
<1>1. pc[c] \in Handling => msg[c] \in JobIds
  BY DEF ServiceInv, Types, TypeOK, ConsumersTypeOK
<1>2. CASE HandleStep(c)
  BY <1>1, <1>2 DEF HandleStep, LoadJob, SkipJob, MarkProcessing, FetchAudio, FetchFails,
     EnterGate, GateCancelled, FinishCall, Backoff, StoreResult, StoreFailure, AckMessage,
     Return, LoggedCall, SetProcessing, SetCompleted, SetFailed, Update, streamVars, Ack,
     redisVars
<1>3. CASE ~HandleStep(c)
  BY <1>3 DEF ConsumerStep, Poll, ReadMessage, ReadNothing, ClaimOrphans, ClaimLost, Stop,
     Read, Claim, redisVars
<1> QED  BY <1>2, <1>3

\* A consumer's step: what it gains was in no hand.
LEMMA HandConsumer ==
  ASSUME HandInv, NEW c \in Consumers, ConsumerStep(c)
  PROVE  SingleHandler' /\ HandsNotIdle'
<1>1. ServiceInv /\ Types
  BY DEF HandInv, ServiceInv
<1>2. \A d \in Consumers : msg'[d] \notin batch'[d]
  BY <1>1, BatchesApart DEF HandInv, SingleHandler
<1>3. \A d \in Consumers \ {c} : InHand(d)' = InHand(d)
  BY <1>1, HandChange
<1>4. idle' \subseteq idle
  BY <1>1, ConsumerIdle
<1>5. \A d \in Consumers \ {c} : InHand(c)' \cap InHand(d) = {}
  <2>1. CASE InHand(c)' \subseteq InHand(c)
    BY <2>1 DEF HandInv, SingleHandler
  <2>2. ASSUME NEW j \in JobIds, Read(j), InHand(c)' = {j}
        PROVE  \A d \in Consumers \ {c} : InHand(c)' \cap InHand(d) = {}
    BY <1>1, <2>2 DEF ServiceInv, HandsDelivered, Read
  <2>3. ASSUME NEW B \in SUBSET JobIds, Claim(B), InHand(c)' = B
        PROVE  \A d \in Consumers \ {c} : InHand(c)' \cap InHand(d) = {}
    BY <2>3 DEF Claim, Claimable, Oldest, HandInv, HandsNotIdle
  <2> QED  BY <1>1, <2>1, <2>2, <2>3, HandChange
<1>6. InHand(c)' \cap idle' = {}
  <2>1. CASE InHand(c)' \subseteq InHand(c)
    BY <1>4, <2>1 DEF HandInv, HandsNotIdle
  <2>2. ASSUME NEW j \in JobIds, Read(j), InHand(c)' = {j}
        PROVE  InHand(c)' \cap idle' = {}
    BY <1>1, <2>2 DEF ServiceInv, RedisInv, RedisTypeOK, EntriesReachable, Read, Undelivered
  <2>3. ASSUME NEW B \in SUBSET JobIds, Claim(B), InHand(c)' = B
        PROVE  InHand(c)' \cap idle' = {}
    BY <2>3 DEF Claim
  <2> QED  BY <1>1, <2>1, <2>2, <2>3, HandChange
<1>7. HandsNotIdle'
  BY <1>3, <1>4, <1>6 DEF HandInv, HandsNotIdle
<1>8. SingleHandler'
  BY <1>2, <1>3, <1>5 DEF HandInv, SingleHandler
<1> QED  BY <1>7, <1>8

\* The invariant is inductive when handling is prompt.
LEMMA HandNext ==
  ASSUME "slowHandling" \notin Events, HandInv, [Next]_vars
  PROVE  HandInv'
<1>1. ServiceInv'
  BY ServiceNextInv DEF HandInv
<1>2. ASSUME UNCHANGED consumerVars, \A c \in Consumers : InHand(c) \cap idle' = {}
      PROVE  SingleHandler' /\ HandsNotIdle'
  <2>1. \A c \in Consumers : InHand(c)' = InHand(c) /\ msg'[c] = msg[c] /\ batch'[c] = batch[c]
    BY <1>2 DEF InHand, consumerVars
  <2> QED  BY <1>2, <2>1 DEF HandInv, SingleHandler, HandsNotIdle
<1>3. CASE UNCHANGED <<consumerVars, idle>>
  BY <1>1, <1>2, <1>3 DEF HandInv, HandsNotIdle
<1>4. ASSUME NEW h \in Handlers, HandlerStep(h) \/ \E j \in JobIds, s \in Source : Accept(h, j, s)
      PROVE  UNCHANGED <<consumerVars, idle>>
  BY <1>4 DEF HandlerStep, CheckDepth, Execute, ExecuteFails, AnswerAccepted, Reject, Finish, Accept, Enqueue, redisVars
<1>5. CASE EnvironmentStep
  <2>1. CASE Exit \/ Crash \/ Start
    <3>1. \A c \in Consumers : InHand(c)' = {}
      BY <2>1 DEF Exit, Crash, ProcessEnds, Start, InHand, Handling
    <3>2. \A c \in Consumers : msg'[c] \notin batch'[c]
      BY <2>1 DEF HandInv, SingleHandler, Start, Exit, Crash, ProcessEnds
    <3> QED  BY <1>1, <3>1, <3>2 DEF HandInv, SingleHandler, HandsNotIdle
  <2>2. CASE \E j \in JobIds : MessageIdle(j)
    <3>1. UNCHANGED consumerVars /\ \A c \in Consumers : InHand(c) \cap idle' = {}
      BY <2>2 DEF MessageIdle, GrowIdle, HandInv, HandsNotIdle
    <3> QED  BY <1>1, <1>2, <3>1 DEF HandInv
  <2>3. CASE RedisRestarts
    BY <1>1, <1>2, <2>3 DEF RedisRestarts, Wipe, HandInv
  <2>4. CASE \/ Signal \/ CloseListener \/ TurnWindow \/ \E j \in JobIds : JobExpires(j)
    <3>1. UNCHANGED <<consumerVars, idle>>
      BY <2>4 DEF Signal, CloseListener, TurnWindow, JobExpires, Expire, Update, streamVars,
                  redisVars
    <3> QED  BY <1>1, <1>3, <3>1 DEF HandInv
  <2> QED  BY <1>5, <2>1, <2>2, <2>3, <2>4 DEF EnvironmentStep
<1>6. CASE UNCHANGED vars
  BY <1>1, <1>3, <1>6 DEF vars, redisVars, HandInv
<1> QED
  BY <1>1, <1>3, <1>4, <1>5, <1>6, NextSplits, HandConsumer DEF HandInv

\* At any time at most one goroutine is responsible for a job: neither a
\* lost reply, nor a restart of the process or of Redis, nor a reclaim gives
\* a job to a second one, provided handling is prompt.
THEOREM OneHandlerPerJob ==
  ASSUME "slowHandling" \notin Events
  PROVE  Spec => []SingleHandler
<1>1. HandInv /\ [Next]_vars => HandInv'
  BY HandNext
<1> QED  BY <1>1, HandInit, PTL DEF Spec, HandInv

-----------------------------------------------------------------------------
(* Slow handling.  A read gives what no hand has, whoever claims what.     *)

WorkerInv == ServiceInv /\ WorkersNeverShare

\* A consumer's step: what a worker gains has just been delivered.
LEMMA WorkerConsumer ==
  ASSUME WorkerInv, NEW c \in Consumers, ConsumerStep(c)
  PROVE  WorkersNeverShare'
<1>1. ServiceInv /\ Types
  BY DEF WorkerInv, ServiceInv
<1>2. \A d \in Consumers : msg'[d] \notin batch'[d]
  BY <1>1, BatchesApart DEF WorkerInv, WorkersNeverShare
<1>3. \A d \in Consumers \ {c} : InHand(d)' = InHand(d)
  BY <1>1, HandChange
<1>4. ASSUME c \in Workers, NEW d \in Workers \ {c}
      PROVE  InHand(c)' \cap InHand(d) = {}
  <2>1. c # Claimer /\ d \in Consumers
    BY <1>4, ServiceAssumption DEF Consumers
  <2>2. CASE InHand(c)' \subseteq InHand(c)
    BY <1>4, <2>2 DEF WorkerInv, WorkersNeverShare
  <2>3. ASSUME NEW j \in JobIds, Read(j), InHand(c)' = {j}
        PROVE  InHand(c)' \cap InHand(d) = {}
    BY <1>1, <2>1, <2>3 DEF ServiceInv, HandsDelivered, Read
  <2> QED  BY <1>1, <2>1, <2>2, <2>3, HandChange
<1>5. \A a, b \in Workers : a # b => InHand(a)' \cap InHand(b)' = {}
  BY <1>3, <1>4 DEF WorkerInv, WorkersNeverShare, Consumers
<1> QED  BY <1>2, <1>5 DEF WorkersNeverShare

\* The invariant is inductive.
LEMMA WorkerNext == WorkerInv /\ [Next]_vars => WorkerInv'
<1> SUFFICES ASSUME WorkerInv, [Next]_vars PROVE WorkerInv'
  OBVIOUS
<1>1. ServiceInv'
  BY ServiceNextInv DEF WorkerInv
<1>2. CASE UNCHANGED consumerVars
  <2>1. \A c \in Consumers : InHand(c)' = InHand(c) /\ msg'[c] = msg[c] /\ batch'[c] = batch[c]
    BY <1>2 DEF InHand, consumerVars
  <2> QED  BY <1>1, <2>1 DEF WorkerInv, WorkersNeverShare, Consumers
<1>3. ASSUME NEW h \in Handlers, HandlerStep(h) \/ \E j \in JobIds, s \in Source : Accept(h, j, s)
      PROVE  UNCHANGED consumerVars
  BY <1>3 DEF HandlerStep, CheckDepth, Execute, ExecuteFails, AnswerAccepted, Reject, Finish, Accept
<1>4. CASE EnvironmentStep
  <2>1. CASE Exit \/ Crash \/ Start
    <3>1. \A c \in Consumers : InHand(c)' = {} /\ msg'[c] \notin batch'[c]
      BY <2>1 DEF Exit, Crash, ProcessEnds, Start, InHand, Handling, WorkerInv,
                  WorkersNeverShare
    <3> QED  BY <1>1, <3>1 DEF WorkerInv, WorkersNeverShare, Consumers
  <2>2. CASE ~(Exit \/ Crash \/ Start)
    BY <1>2, <1>4, <2>2 DEF EnvironmentStep, Signal, CloseListener, TurnWindow, RedisRestarts,
       MessageIdle, JobExpires
  <2> QED  BY <2>1, <2>2
<1>5. CASE UNCHANGED vars
  BY <1>2, <1>5 DEF vars
<1> QED  BY <1>1, <1>2, <1>3, <1>4, <1>5, NextSplits, WorkerConsumer DEF WorkerInv

\* Whatever fails and however long handling takes, no two workers handle one
\* job, so a job is never handled by more than a worker and the claimer.
THEOREM WorkersAreApart == Spec => []WorkersNeverShare
<1>1. ASSUME Init PROVE WorkerInv
  BY <1>1, HandInit DEF HandInv, SingleHandler, WorkerInv, WorkersNeverShare, Consumers
<1> QED  BY <1>1, WorkerNext, PTL DEF Spec, WorkerInv

-----------------------------------------------------------------------------
(* Outcomes.  Between Get and the update a handler works on a job that has *)
(* no outcome; after the update, or without one, only a settled job is     *)
(* acked, unless the context is cancelled, when the ack is refused too.    *)

Working == {"mark", "fetch", "gate", "call", "backoff", "complete", "fail"}
Settled == Terminal \cup {"none"}

NoOutcomeYet == \A c \in Consumers : pc[c] \in Working => ~IsTerminal(msg[c])

AckFollowsOutcome ==
    "redisError" \notin Events =>
        \A c \in Consumers : pc[c] = "ack" => hash[msg[c]].status \in Settled \/ CtxDone

FreshAbsent == \A j \in JobIds : entryId[j] = 0 => hash[j] = Absent

OutcomeInv == HandInv /\ NoOutcomeYet /\ AckFollowsOutcome /\ FreshAbsent

\* The initial states.
LEMMA OutcomeInit == Init => OutcomeInv
<1> SUFFICES ASSUME Init PROVE OutcomeInv
  OBVIOUS
<1>1. HandInv
  BY HandInit
<1>2. NoOutcomeYet /\ AckFollowsOutcome
  BY DEF Init, NoOutcomeYet, AckFollowsOutcome, Working
<1>3. FreshAbsent
  BY DEF Init, RedisInit, FreshAbsent
<1> QED  BY <1>1, <1>2, <1>3 DEF OutcomeInv

\* A consumer moves itself only, and changes no job but its own.
LEMMA ConsumerLocal ==
  ASSUME Types, NEW c \in Consumers, ConsumerStep(c)
  PROVE  /\ UNCHANGED phase
         /\ \A d \in Consumers \ {c} : pc'[d] = pc[d] /\ msg'[d] = msg[d]
         /\ \/ hash' = hash
            \/ /\ pc[c] \in Working /\ msg[c] \in JobIds
               /\ \A j \in JobIds \ {msg[c]} : hash'[j] = hash[j]
<1> USE DEF Types, TypeOK, RedisTypeOK, ConsumersTypeOK, Goto, Handling, Working, envVars
<1>1. CASE Poll(c) \/ Stop(c) \/ ReadNothing(c) \/ ClaimLost(c) \/ ReadMessage(c)
  BY <1>1 DEF Poll, Stop, ReadNothing, ClaimLost, ReadMessage, Read, Claim, redisVars,
              consumerVars
<1>2. CASE ClaimOrphans(c)
  BY <1>2 DEF ClaimOrphans, Claim
<1>3. CASE HandleStep(c)
  <2>1. CASE LoadJob(c) \/ SkipJob(c) \/ FetchAudio(c) \/ FetchFails(c)
    BY <2>1 DEF LoadJob, SkipJob, FetchAudio, FetchFails, redisVars
  <2>2. CASE EnterGate(c) \/ GateCancelled(c) \/ FinishCall(c) \/ Backoff(c)
    BY <2>2 DEF EnterGate, GateCancelled, FinishCall, Backoff, RetryOrGiveUp, redisVars
  <2>3. CASE MarkProcessing(c) \/ StoreResult(c) \/ StoreFailure(c)
    BY <2>3 DEF MarkProcessing, StoreResult, StoreFailure, LoggedCall, SetProcessing,
                SetCompleted, SetFailed, Update, redisVars
  <2>4. CASE AckMessage(c)
    BY <2>4 DEF AckMessage, LoggedCall, Ack, redisVars
  <2>5. CASE Return(c)
    BY <2>5 DEF Return, redisVars
  <2> QED  BY <1>3, <2>1, <2>2, <2>3, <2>4, <2>5 DEF HandleStep
<1> QED  BY <1>1, <1>2, <1>3 DEF ConsumerStep

\* The consumer's own part of the invariant.
LEMMA OwnOutcome ==
  ASSUME OutcomeInv, NEW c \in Consumers, ConsumerStep(c)
  PROVE  /\ pc'[c] \in Working => ~IsTerminal(msg[c])' 
         /\ "redisError" \notin Events /\ pc'[c] = "ack"
               => (hash[msg[c]].status \in Settled)' \/ CtxDone'
<1> USE DEF Goto, Working
<1>0. /\ pc \in [Consumers -> ConsumerPC] /\ msg \in [Consumers -> JobIds \cup {NoJob}]
      /\ hash \in [JobIds -> Hash]
      /\ pc[c] \in Working => msg[c] \in JobIds /\ ~IsTerminal(msg[c])
      /\ UNCHANGED phase
  BY ConsumerLocal DEF OutcomeInv, HandInv, ServiceInv, Types, TypeOK, RedisTypeOK,
     ConsumersTypeOK, NoOutcomeYet, Handling
<1>1. CASE Poll(c) \/ Stop(c) \/ ReadNothing(c) \/ ReadMessage(c) \/ ClaimOrphans(c)
  BY <1>0, <1>1 DEF Poll, Stop, ReadNothing, ReadMessage, ClaimOrphans
<1>2. CASE ClaimLost(c)
  BY <1>0, <1>2 DEF ClaimLost, consumerVars
<1>3. CASE LoadJob(c) \/ SkipJob(c)
  BY <1>0, <1>3 DEF LoadJob, SkipJob, redisVars, IsTerminal, Exists, Settled, CallMayFail,
                    CtxDone
<1>4. CASE MarkProcessing(c)
  BY <1>0, <1>4 DEF MarkProcessing, LoggedCall, SetProcessing, Update, redisVars, IsTerminal,
                    Terminal, Hash
<1>5. CASE FetchAudio(c) \/ FetchFails(c) \/ EnterGate(c) \/ Backoff(c)
  BY <1>0, <1>5 DEF FetchAudio, FetchFails, EnterGate, Backoff, redisVars, IsTerminal
<1>6. CASE GateCancelled(c) \/ FinishCall(c)
  BY <1>0, <1>6 DEF GateCancelled, FinishCall, RetryOrGiveUp, redisVars, IsTerminal
<1>7. CASE StoreResult(c)
  <2>1. pc'[c] = "ack" /\ msg' = msg /\ msg[c] \in JobIds
    BY <1>0, <1>7 DEF StoreResult
  <2>2. CASE SetCompleted(msg[c])
    <3>1. hash'[msg[c]].status = "completed"
      BY <1>0, <2>1, <2>2 DEF SetCompleted, Update, Hash
    <3> QED  BY <2>1, <3>1 DEF Settled, Terminal
  <2>3. CASE CallMayFail
    BY <1>0, <2>1, <2>3 DEF CallMayFail, CtxDone
  <2> QED  BY <1>7, <2>2, <2>3 DEF StoreResult, LoggedCall
<1>8. CASE StoreFailure(c)
  <2>1. pc'[c] = "ack" /\ msg' = msg /\ msg[c] \in JobIds
    BY <1>0, <1>8 DEF StoreFailure
  <2>2. CASE SetFailed(msg[c])
    <3>1. hash'[msg[c]].status = "failed"
      BY <1>0, <2>1, <2>2 DEF SetFailed, Update, Hash
    <3> QED  BY <2>1, <3>1 DEF Settled, Terminal
  <2>3. CASE CallMayFail
    BY <1>0, <2>1, <2>3 DEF CallMayFail, CtxDone
  <2> QED  BY <1>8, <2>2, <2>3 DEF StoreFailure, LoggedCall
<1>9. CASE AckMessage(c) \/ Return(c)
  BY <1>0, <1>9 DEF AckMessage, Return
<1> QED
  BY <1>1, <1>2, <1>3, <1>4, <1>5, <1>6, <1>7, <1>8, <1>9 DEF ConsumerStep, HandleStep

\* Nothing but a consumer's own step gives a job in hand an outcome, and
\* nothing at all takes it back.
LEMMA OutcomeConsumer ==
  ASSUME OutcomeInv, NEW c \in Consumers, ConsumerStep(c)
  PROVE  NoOutcomeYet' /\ AckFollowsOutcome' /\ FreshAbsent'
<1>1. ServiceInv /\ Types
  BY DEF OutcomeInv, HandInv, ServiceInv
<1>2. \A d \in Consumers \ {c} : pc'[d] = pc[d] /\ msg'[d] = msg[d]
  BY <1>1, ConsumerLocal
<1>3. ASSUME NEW d \in Consumers \ {c}, pc[d] \in Working \cup {"ack"}
      PROVE  hash'[msg[d]] = hash[msg[d]]
  <2>1. CASE hash' = hash
    BY <2>1
  <2>2. CASE /\ pc[c] \in Working
             /\ \A j \in JobIds \ {msg[c]} : hash'[j] = hash[j]
    <3>1. msg[d] \in InHand(d) /\ msg[c] \in InHand(c) /\ msg[d] \in JobIds
      BY <1>1, <1>3, <2>2 DEF InHand, Handling, Working, Types, TypeOK, ConsumersTypeOK
    <3>2. msg[d] # msg[c]
      BY <3>1 DEF OutcomeInv, HandInv, SingleHandler
    <3> QED  BY <2>2, <3>1, <3>2
  <2> QED  BY <1>1, <2>1, <2>2, ConsumerLocal
<1>4. UNCHANGED phase
  BY <1>1, ConsumerLocal
<1>5. NoOutcomeYet'
  BY <1>2, <1>3, OwnOutcome DEF OutcomeInv, NoOutcomeYet, IsTerminal
<1>6. AckFollowsOutcome'
  BY <1>2, <1>3, <1>4, OwnOutcome DEF OutcomeInv, AckFollowsOutcome, CtxDone
<1>7. FreshAbsent'
  <2>1. entryId' = entryId
    BY <1>1, ConsumerFrame
  <2>2. pc[c] \in Working => entryId[msg[c]] > 0
    BY <1>1 DEF ServiceInv, HandsDelivered, InHand, Handling, Working
  <2> QED  BY <1>1, <2>1, <2>2, ConsumerLocal DEF OutcomeInv, FreshAbsent
<1> QED  BY <1>5, <1>6, <1>7

\* What the other steps do to the hashes: a fresh job gets its first one, a
\* key disappears, or nothing changes.
LEMMA OtherHashes ==
  ASSUME OutcomeInv,
         \/ \E h \in Handlers : HandlerStep(h) \/ \E j \in JobIds, s \in Source : Accept(h, j, s)
         \/ EnvironmentStep
         \/ UNCHANGED vars
  PROVE  /\ \A j \in JobIds : \/ hash'[j] = hash[j]
                              \/ hash'[j] = Absent
                              \/ entryId[j] = 0 /\ entryId'[j] > 0
         /\ \A j \in JobIds : entryId'[j] = 0 => entryId[j] = 0
<1> DEFINE Goal == /\ \A j \in JobIds : \/ hash'[j] = hash[j]
                                        \/ hash'[j] = Absent
                                        \/ entryId[j] = 0 /\ entryId'[j] > 0
                   /\ \A j \in JobIds : entryId'[j] = 0 => entryId[j] = 0
<1>0. hash \in [JobIds -> Hash] /\ entryId \in [JobIds -> Nat] /\ lastId \in Nat
  BY DEF OutcomeInv, HandInv, ServiceInv, RedisInv, RedisTypeOK
<1>1. CASE UNCHANGED redisVars
  BY <1>1 DEF redisVars
<1>2. ASSUME NEW h \in Handlers, HandlerStep(h)
      PROVE  Goal
  <2>1. CASE hpc[h] = "exec" /\ Enqueue(hjob[h], hsrc[h])
    <3>1. hjob[h] \in JobIds /\ entryId[hjob[h]] = 0
      BY <2>1 DEF OutcomeInv, HandInv, ServiceInv, Types, TypeOK, HandlersTypeOK, FreshJobs
    <3> QED  BY <1>0, <2>1, <3>1 DEF Enqueue
  <2> QED  BY <1>1, <1>2, <2>1 DEF HandlerStep, CheckDepth, Execute, ExecuteFails, AnswerAccepted, Reject, Finish
<1>3. ASSUME NEW h \in Handlers, NEW j \in JobIds, NEW s \in Source, Accept(h, j, s)
      PROVE  Goal
  BY <1>1, <1>3 DEF Accept
<1>4. CASE EnvironmentStep
  <2>1. CASE RedisRestarts
    BY <1>0, <2>1 DEF RedisRestarts, Wipe
  <2>2. ASSUME NEW j \in JobIds, JobExpires(j) PROVE Goal
    BY <1>0, <2>2 DEF JobExpires, Expire, Update, streamVars
  <2>3. CASE Start \/ \E j \in JobIds : MessageIdle(j)
    BY <2>3 DEF Start, EnsureGroup, MessageIdle, GrowIdle
  <2>4. CASE Signal \/ CloseListener \/ TurnWindow \/ Exit \/ Crash
    BY <1>1, <2>4 DEF Signal, CloseListener, TurnWindow, Exit, Crash, ProcessEnds
  <2> QED  BY <1>4, <2>1, <2>2, <2>3, <2>4 DEF EnvironmentStep
<1>5. CASE UNCHANGED vars
  BY <1>1, <1>5 DEF vars
<1> QED  BY <1>2, <1>3, <1>4, <1>5

\* The other steps stop the goroutines, or leave them alone and do not revive
\* a cancelled context.
LEMMA OtherControl ==
  ASSUME \/ \E h \in Handlers : HandlerStep(h) \/ \E j \in JobIds, s \in Source : Accept(h, j, s)
         \/ EnvironmentStep
         \/ UNCHANGED vars
  PROVE  \/ \A c \in Consumers : pc'[c] \notin Working \cup {"ack"}
         \/ UNCHANGED <<pc, msg>> /\ (CtxDone => CtxDone')
<1>1. CASE UNCHANGED <<envVars, consumerVars>>
  BY <1>1 DEF envVars, consumerVars, CtxDone
<1>2. ASSUME NEW h \in Handlers, HandlerStep(h) \/ \E j \in JobIds, s \in Source : Accept(h, j, s)
      PROVE  UNCHANGED <<envVars, consumerVars>>
  BY <1>2 DEF HandlerStep, CheckDepth, Execute, ExecuteFails, AnswerAccepted, Reject, Finish, Accept
<1>3. CASE EnvironmentStep
  <2>1. CASE Exit \/ Crash \/ Start
    BY <2>1 DEF Exit, Crash, ProcessEnds, Start, Working
  <2>2. CASE Signal \/ CloseListener \/ TurnWindow
    BY <2>2 DEF Signal, CloseListener, TurnWindow, consumerVars, CtxDone
  <2>3. CASE RedisRestarts \/ \E j \in JobIds : MessageIdle(j) \/ JobExpires(j)
    BY <1>1, <2>3 DEF RedisRestarts, MessageIdle, JobExpires
  <2> QED  BY <1>3, <2>1, <2>2, <2>3 DEF EnvironmentStep
<1>4. CASE UNCHANGED vars
  BY <1>1, <1>4 DEF vars
<1> QED  BY <1>1, <1>2, <1>3, <1>4

\* The invariant is inductive when handling is prompt.
LEMMA OutcomeNext ==
  ASSUME "slowHandling" \notin Events, OutcomeInv, [Next]_vars
  PROVE  OutcomeInv'
<1>1. HandInv'
  BY HandNext DEF OutcomeInv
<1>2. ASSUME NEW c \in Consumers, ConsumerStep(c)
      PROVE  OutcomeInv'
  BY <1>1, <1>2, OutcomeConsumer DEF OutcomeInv
<1>3. CASE \/ \E h \in Handlers : HandlerStep(h) \/ \E j \in JobIds, s \in Source : Accept(h, j, s)
           \/ EnvironmentStep
           \/ UNCHANGED vars
  <2>1. ASSUME NEW c \in Consumers, pc[c] \in Working \cup {"ack"}
        PROVE  msg[c] \in JobIds /\ hash'[msg[c]] \in {hash[msg[c]], Absent}
    <3>1. msg[c] \in JobIds /\ entryId[msg[c]] > 0
      BY <2>1 DEF OutcomeInv, HandInv, ServiceInv, Types, TypeOK, ConsumersTypeOK,
                  HandsDelivered, InHand, Handling, Working
    <3>2. entryId[msg[c]] # 0
      BY <3>1
    <3> QED  BY <1>3, <3>1, <3>2, OtherHashes
  <2>2. NoOutcomeYet'
    BY <1>3, <2>1, OtherControl
    DEF OutcomeInv, NoOutcomeYet, IsTerminal, Absent, Terminal
  <2>3. AckFollowsOutcome'
    BY <1>3, <2>1, OtherControl
    DEF OutcomeInv, AckFollowsOutcome, Settled, Absent
  <2>4. FreshAbsent'
    <3>1. ASSUME NEW j \in JobIds, entryId'[j] = 0
          PROVE  hash'[j] = Absent
      BY <1>3, <3>1, OtherHashes DEF OutcomeInv, FreshAbsent
    <3> QED  BY <3>1 DEF FreshAbsent
  <2> QED  BY <1>1, <2>2, <2>3, <2>4 DEF OutcomeInv
<1> QED  BY <1>2, <1>3, NextSplits

\* No step changes an outcome.
LEMMA OutcomeKept ==
  ASSUME OutcomeInv, [Next]_vars, NEW j \in JobIds, IsTerminal(j)
  PROVE  hash'[j] \in {hash[j], Absent}
<1>1. entryId[j] # 0
  BY DEF OutcomeInv, FreshAbsent, IsTerminal, Terminal, Absent
<1>2. ASSUME NEW c \in Consumers, ConsumerStep(c)
      PROVE  hash'[j] = hash[j]
  BY <1>2, ConsumerLocal DEF OutcomeInv, HandInv, ServiceInv, NoOutcomeYet
<1>3. CASE \/ \E h \in Handlers : HandlerStep(h) \/ \E k \in JobIds, s \in Source : Accept(h, k, s)
           \/ EnvironmentStep
           \/ UNCHANGED vars
  BY <1>1, <1>3, OtherHashes
<1> QED  BY <1>2, <1>3, NextSplits

\* An entry leaves the stream by an ack under a live context, or with all of
\* Redis.
LEMMA EntryLeaves ==
  ASSUME Types, [Next]_vars, NEW j \in stream, j \notin stream'
  PROVE  \/ \E c \in Consumers : pc[c] = "ack" /\ msg[c] = j /\ ~CtxDone /\ hash' = hash
         \/ hash'[j] = Absent
<1>1. j \in JobIds
  BY DEF Types, TypeOK, RedisTypeOK
<1>2. CASE UNCHANGED vars
  BY <1>2 DEF vars, redisVars
<1>3. ASSUME NEW h \in Handlers, HandlerStep(h) \/ \E k \in JobIds, s \in Source : Accept(h, k, s)
      PROVE  FALSE
  BY <1>3 DEF HandlerStep, CheckDepth, Execute, ExecuteFails, AnswerAccepted, Reject, Finish, Accept, Enqueue, redisVars
<1>4. CASE EnvironmentStep
  <2>1. CASE RedisRestarts
    BY <1>1, <2>1 DEF RedisRestarts, Wipe
  <2>2. CASE ~RedisRestarts
    BY <1>4, <2>2 DEF EnvironmentStep, Signal, CloseListener, Exit, Crash, ProcessEnds, Start,
       EnsureGroup, TurnWindow, MessageIdle, GrowIdle, JobExpires, Expire, Update, streamVars,
       redisVars
  <2> QED  BY <2>1, <2>2
<1>5. ASSUME NEW c \in Consumers, ConsumerStep(c)
      PROVE  pc[c] = "ack" /\ msg[c] = j /\ ~CtxDone /\ hash' = hash
  <2>1. CASE AckMessage(c)
    BY <2>1 DEF AckMessage, Goto, LoggedCall, Ack, redisVars
  <2>2. CASE ~AckMessage(c)
    BY <1>5, <2>2 DEF ConsumerStep, HandleStep, Poll, ReadMessage, ReadNothing, ClaimOrphans,
       ClaimLost, Stop, LoadJob, SkipJob, MarkProcessing, FetchAudio, FetchFails, EnterGate,
       GateCancelled, FinishCall, Backoff, StoreResult, StoreFailure, Return, LoggedCall,
       SetProcessing, SetCompleted, SetFailed, Update, streamVars, Read, Claim, redisVars
  <2> QED  BY <2>1, <2>2
<1> QED  BY <1>2, <1>3, <1>4, <1>5, NextSplits

\* A finished job is never reopened or overwritten while handling is prompt,
\* even when updates and acks fail and the message is delivered again.
THEOREM OutcomesAreFinal ==
  ASSUME "slowHandling" \notin Events
  PROVE  Spec => TerminalIsFinal
<1>1. OutcomeInv /\ [Next]_vars => OutcomeInv'
  BY OutcomeNext
<1>2. OutcomeInv /\ [Next]_vars
        => [\A j \in JobIds : IsTerminal(j) => hash'[j] \in {hash[j], Absent}]_vars
  BY OutcomeKept
<1> QED  BY <1>1, <1>2, OutcomeInit, PTL DEF Spec, TerminalIsFinal

\* While Redis answers, a message is acked only when its job has an outcome or
\* has expired; a shutdown at any point of handle leaves the message pending.
THEOREM AcksFollowOutcomes ==
  ASSUME "slowHandling" \notin Events, "redisError" \notin Events
  PROVE  Spec => AckOnlySettled
<1>1. OutcomeInv /\ [Next]_vars => OutcomeInv'
  BY OutcomeNext
<1>2. OutcomeInv /\ [Next]_vars
        => [\A j \in stream \ stream' : hash[j].status \in Terminal \cup {"none"}
                                          \/ hash'[j] = Absent]_vars
  BY EntryLeaves
  DEF OutcomeInv, HandInv, ServiceInv, AckFollowsOutcome, Settled
<1> QED  BY <1>1, <1>2, OutcomeInit, PTL DEF Spec, AckOnlySettled
=============================================================================
