--------------------------- MODULE LifecycleProofs --------------------------
(***************************************************************************)
(* What clients see: every view shows one outcome, and the service with    *)
(* its restarts and redeliveries implements JobLifecycle.                  *)
(***************************************************************************)
EXTENDS DeliveryProofs

(* Views.  An update finds no outcome in the hash (NoOutcomeYet), so it    *)
(* leaves exactly the field of its own.                                    *)

Agrees(fields) == /\ fields.result <=> fields.status = "completed"
                  /\ fields.error <=> fields.status = "failed"

ViewsAgree == \A j \in JobIds : Agrees(hash[j])

ViewInv == OutcomeInv /\ ViewsAgree

\* A missing and a fresh hash agree.
LEMMA NewHashAgrees ==
  /\ Agrees(Absent)
  /\ \A s \in Source : Agrees([Absent EXCEPT !.status = "queued", !.source = s])
<1>1. Agrees(Absent)
  BY DEF Agrees, Absent
<1>2. ASSUME NEW s \in Source
      PROVE  Agrees([Absent EXCEPT !.status = "queued", !.source = s])
  <2> DEFINE fresh == [Absent EXCEPT !.status = "queued", !.source = s]
  <2>1. fresh.status = "queued" /\ fresh.result = FALSE /\ fresh.error = FALSE
    BY DEF Absent
  <2> HIDE DEF fresh
  <2>2. Agrees(fresh)
    BY <2>1 DEF Agrees
  <2> QED  BY <2>2 DEF fresh
<1> QED  BY <1>1, <1>2

\* An update of a hash without outcome keeps its fields in agreement.
LEMMA UpdateAgrees ==
  ASSUME ViewInv, NEW j \in JobIds, ~IsTerminal(j),
         SetProcessing(j) \/ SetCompleted(j) \/ SetFailed(j)
  PROVE  ViewsAgree'
<1>0. hash \in [JobIds -> Hash] /\ ViewsAgree
  BY DEF ViewInv, OutcomeInv, HandInv, ServiceInv, RedisInv, RedisTypeOK
<1>1. ~hash[j].result /\ ~hash[j].error
  BY <1>0 DEF ViewsAgree, Agrees, IsTerminal, Terminal
<1>2. CASE SetProcessing(j)
  BY <1>0, <1>1, <1>2 DEF SetProcessing, Update, ViewsAgree, Agrees, Hash
<1>3. CASE SetCompleted(j)
  BY <1>0, <1>1, <1>3 DEF SetCompleted, Update, ViewsAgree, Agrees, Hash
<1>4. CASE SetFailed(j)
  BY <1>0, <1>1, <1>4 DEF SetFailed, Update, ViewsAgree, Agrees, Hash
<1> QED  BY <1>2, <1>3, <1>4

\* What a consumer's step does to the hashes.
LEMMA ConsumerHashes ==
  ASSUME Types, NEW c \in Consumers, ConsumerStep(c), hash' # hash
  PROVE  /\ msg[c] \in JobIds /\ msg' = msg
         /\ \/ MarkProcessing(c) /\ ~CtxDone /\ SetProcessing(msg[c])
            \/ StoreResult(c) /\ SetCompleted(msg[c]) /\ ~CtxDone
            \/ StoreFailure(c) /\ SetFailed(msg[c]) /\ ~CtxDone
<1>1. MarkProcessing(c) \/ StoreResult(c) \/ StoreFailure(c)
  BY DEF ConsumerStep, HandleStep, Poll, ReadMessage, ReadNothing, ClaimOrphans, ClaimLost,
     Stop, LoadJob, SkipJob, FetchAudio, FetchFails, EnterGate, GateCancelled, FinishCall,
     Backoff, AckMessage, Return, LoggedCall, Ack, Read, Claim, redisVars
<1>2. msg[c] \in JobIds /\ msg' = msg
  BY <1>1 DEF MarkProcessing, StoreResult, StoreFailure, Goto, Types, TypeOK, ConsumersTypeOK,
     Handling
<1> QED
  BY <1>1, <1>2 DEF MarkProcessing, StoreResult, StoreFailure, LoggedCall, redisVars

\* The invariant is inductive when handling is prompt.
LEMMA ViewNext ==
  ASSUME "slowHandling" \notin Events, ViewInv, [Next]_vars
  PROVE  ViewInv'
<1>1. OutcomeInv'
  BY OutcomeNext DEF ViewInv
<1>2. ASSUME NEW c \in Consumers, ConsumerStep(c)
      PROVE  ViewsAgree'
  <2>1. CASE hash' = hash
    BY <2>1 DEF ViewInv, ViewsAgree
  <2>2. CASE hash' # hash
    <3>1. Types
      BY DEF ViewInv, OutcomeInv, HandInv, ServiceInv
    <3>2. /\ msg[c] \in JobIds /\ pc[c] \in Working
          /\ SetProcessing(msg[c]) \/ SetCompleted(msg[c]) \/ SetFailed(msg[c])
      BY <1>2, <2>2, <3>1, ConsumerHashes
      DEF MarkProcessing, StoreResult, StoreFailure, Goto, Working
    <3>3. ~IsTerminal(msg[c])
      BY <3>2 DEF ViewInv, OutcomeInv, NoOutcomeYet
    <3> QED  BY <3>2, <3>3, UpdateAgrees
  <2> QED  BY <2>1, <2>2
<1>3. ASSUME \/ \E h \in Handlers : \/ HandlerStep(h)
                                   \/ \E j \in JobIds, s \in Source : Accept(h, j, s)
             \/ EnvironmentStep
             \/ UNCHANGED vars
      PROVE  ViewsAgree'
  <2>1. hash \in [JobIds -> Hash]
    BY DEF ViewInv, OutcomeInv, HandInv, ServiceInv, RedisInv, RedisTypeOK
  <2>2. CASE UNCHANGED hash
    BY <2>2 DEF ViewInv, ViewsAgree, Agrees
  <2>3. ASSUME NEW h \in Handlers, Enqueue(hjob[h], hsrc[h])
        PROVE  ViewsAgree'
    <3>1. hsrc[h] \in Source
      BY DEF ViewInv, OutcomeInv, HandInv, ServiceInv, Types, TypeOK, HandlersTypeOK
    <3> QED  BY <2>1, <2>3, <3>1, NewHashAgrees DEF Enqueue, ViewInv, ViewsAgree, Agrees
  <2>4. CASE RedisRestarts
    BY <2>4, NewHashAgrees DEF RedisRestarts, Wipe, ViewsAgree, Agrees
  <2>5. ASSUME NEW j \in JobIds, JobExpires(j) PROVE ViewsAgree'
    BY <2>1, <2>5, NewHashAgrees DEF JobExpires, Expire, Update, ViewInv, ViewsAgree, Agrees
  <2>6. CASE UNCHANGED vars
    BY <2>2, <2>6 DEF vars, redisVars
  <2>7. ASSUME NEW h \in Handlers,
               HandlerStep(h) \/ \E j \in JobIds, s \in Source : Accept(h, j, s)
        PROVE  hash' = hash \/ Enqueue(hjob[h], hsrc[h])
    BY <2>7 DEF HandlerStep, CheckDepth, Execute, ExecuteFails, AnswerAccepted, Reject, Finish, Accept, redisVars
  <2>8. CASE EnvironmentStep
    <3>1. \/ hash' = hash \/ RedisRestarts \/ \E j \in JobIds : JobExpires(j)
      BY <2>8 DEF EnvironmentStep, Signal, CloseListener, Exit, Crash, ProcessEnds, Start,
         EnsureGroup, TurnWindow, MessageIdle, GrowIdle, redisVars
    <3> QED  BY <2>2, <2>4, <2>5, <3>1 DEF ViewsAgree, Agrees
  <2> QED  BY <1>3, <2>2, <2>3, <2>6, <2>7, <2>8 DEF ViewsAgree, Agrees
<1> QED  BY <1>1, <1>2, <1>3, NextSplits DEF ViewInv

\* A polled job never shows a result and an error, nor either of them with a
\* status that contradicts it, whatever fails or restarts, while handling is
\* prompt.
THEOREM ViewsShowOneOutcome ==
  ASSUME "slowHandling" \notin Events
  PROVE  Spec => []ViewShowsOneOutcome
<1>1. ASSUME Init PROVE ViewInv
  <2>1. \A j \in JobIds : hash[j] = Absent
    BY <1>1 DEF Init, RedisInit
  <2> QED  BY <1>1, <2>1, OutcomeInit, NewHashAgrees DEF ViewInv, ViewsAgree
<1>2. ViewInv /\ [Next]_vars => ViewInv'
  BY ViewNext
<1>3. ViewInv => ViewShowsOneOutcome
  BY DEF ViewInv, ViewsAgree, Agrees, ViewShowsOneOutcome, jobView
<1> QED  BY <1>1, <1>2, <1>3, PTL DEF Spec

-----------------------------------------------------------------------------
(* The life of a job.  Without lost replies, past SetProcessing the status *)
(* a handler works on is processing or forgotten, unless the context is    *)
(* cancelled, when no outcome can be stored any more.                      *)

Marked == {"fetch", "gate", "call", "backoff", "complete", "fail"}

MarkedProcessing ==
    \A c \in Consumers :
        pc[c] \in Marked => CtxDone \/ hash[msg[c]].status \in {"processing", "none"}

LifeInv == OutcomeInv /\ MarkedProcessing

\* A handler's own part.
LEMMA OwnMarked ==
  ASSUME "redisError" \notin Events, LifeInv, NEW c \in Consumers, ConsumerStep(c),
         pc'[c] \in Marked
  PROVE  CtxDone' \/ (hash[msg[c]].status \in {"processing", "none"})'
<1> USE DEF Goto, Marked
<1>0. /\ pc \in [Consumers -> ConsumerPC] /\ msg \in [Consumers -> JobIds \cup {NoJob}]
      /\ hash \in [JobIds -> Hash] /\ MarkedProcessing
      /\ pc[c] \in Handling => msg[c] \in JobIds
      /\ UNCHANGED phase
  BY ConsumerLocal DEF LifeInv, OutcomeInv, HandInv, ServiceInv, Types, TypeOK, RedisTypeOK,
     ConsumersTypeOK
<1>1. CASE MarkProcessing(c)
  <2>1. msg' = msg /\ msg[c] \in JobIds
    BY <1>0, <1>1 DEF MarkProcessing, Handling
  <2>2. CASE SetProcessing(msg[c])
    <3>1. hash'[msg[c]].status = "processing"
      BY <1>0, <2>1, <2>2 DEF SetProcessing, Update, Hash
    <3> QED  BY <2>1, <3>1
  <2>3. CASE CallMayFail
    BY <1>0, <2>3 DEF CallMayFail, CtxDone
  <2> QED  BY <1>1, <2>2, <2>3 DEF MarkProcessing, LoggedCall
<1>2. CASE /\ pc[c] \in Marked /\ UNCHANGED <<hash, msg>>
  BY <1>0, <1>2 DEF MarkedProcessing, CtxDone
<1>3. MarkProcessing(c) \/ (pc[c] \in Marked /\ UNCHANGED <<hash, msg>>)
  <2>1. CASE Poll(c) \/ Stop(c) \/ ReadNothing(c) \/ ReadMessage(c) \/ ClaimOrphans(c)
    BY <1>0, <2>1 DEF Poll, Stop, ReadNothing, ReadMessage, ClaimOrphans
  <2>2. CASE ClaimLost(c)
    BY <2>2 DEF ClaimLost
  <2>3. CASE LoadJob(c) \/ SkipJob(c) \/ StoreResult(c) \/ StoreFailure(c) \/ AckMessage(c)
    BY <1>0, <2>3 DEF LoadJob, SkipJob, StoreResult, StoreFailure, AckMessage
  <2>4. CASE FetchAudio(c) \/ FetchFails(c) \/ EnterGate(c) \/ Backoff(c)
    BY <1>0, <2>4 DEF FetchAudio, FetchFails, EnterGate, Backoff, redisVars
  <2>5. CASE GateCancelled(c) \/ FinishCall(c)
    BY <1>0, <2>5 DEF GateCancelled, FinishCall, RetryOrGiveUp, redisVars
  <2>6. CASE Return(c)
    BY <1>0, <2>6 DEF Return
  <2> QED
    BY <2>1, <2>2, <2>3, <2>4, <2>5, <2>6 DEF ConsumerStep, HandleStep
<1> QED  BY <1>1, <1>2, <1>3

\* The others touch neither the job in hand nor the status a handler works on.
LEMMA MarkedNext ==
  ASSUME "redisError" \notin Events, LifeInv, [Next]_vars
  PROVE  MarkedProcessing'
<1>0. ServiceInv /\ Types /\ MarkedProcessing
  BY DEF LifeInv, OutcomeInv, HandInv, ServiceInv
<1>1. ASSUME NEW c \in Consumers, ConsumerStep(c)
      PROVE  MarkedProcessing'
  <2>1. /\ UNCHANGED phase
        /\ \A d \in Consumers \ {c} : pc'[d] = pc[d] /\ msg'[d] = msg[d]
        /\ \/ hash' = hash
           \/ /\ pc[c] \in Working /\ msg[c] \in JobIds
              /\ \A j \in JobIds \ {msg[c]} : hash'[j] = hash[j]
    BY <1>0, <1>1, ConsumerLocal
  <2>2. ASSUME NEW d \in Consumers \ {c}, pc[d] \in Marked
        PROVE  hash'[msg[d]] = hash[msg[d]]
    <3>1. CASE hash' = hash
      BY <3>1
    <3>2. CASE /\ pc[c] \in Working
               /\ \A j \in JobIds \ {msg[c]} : hash'[j] = hash[j]
      <4>1. msg[d] \in InHand(d) /\ msg[c] \in InHand(c) /\ msg[d] \in JobIds
        BY <1>0, <2>2, <3>2 DEF InHand, Handling, Working, Marked, Types, TypeOK,
           ConsumersTypeOK
      <4>2. msg[d] # msg[c]
        BY <4>1 DEF LifeInv, OutcomeInv, HandInv, SingleHandler
      <4> QED  BY <3>2, <4>1, <4>2
    <3> QED  BY <2>1, <3>1, <3>2
  <2>3. ASSUME NEW d \in Consumers, pc'[d] \in Marked
        PROVE  CtxDone' \/ (hash[msg[d]].status \in {"processing", "none"})'
    <3>1. CASE d = c
      BY <1>1, <2>3, <3>1, OwnMarked
    <3>2. CASE d # c
      BY <1>0, <2>1, <2>2, <2>3, <3>2 DEF MarkedProcessing, CtxDone
    <3> QED  BY <3>1, <3>2
  <2> QED  BY <2>3 DEF MarkedProcessing
<1>2. ASSUME \/ \E h \in Handlers : \/ HandlerStep(h)
                                   \/ \E j \in JobIds, s \in Source : Accept(h, j, s)
             \/ EnvironmentStep
             \/ UNCHANGED vars
      PROVE  MarkedProcessing'
  <2>1. ASSUME NEW c \in Consumers, pc[c] \in Marked
        PROVE  msg[c] \in JobIds /\ hash'[msg[c]] \in {hash[msg[c]], Absent}
    <3>1. msg[c] \in JobIds /\ entryId[msg[c]] > 0
      BY <1>0, <2>1 DEF ServiceInv, Types, TypeOK, ConsumersTypeOK, HandsDelivered, InHand,
         Handling, Marked
    <3>2. entryId[msg[c]] # 0
      BY <3>1
    <3> QED  BY <1>2, <3>1, <3>2, OtherHashes DEF LifeInv
  <2>2. \/ \A c \in Consumers : pc'[c] \notin Marked
        \/ UNCHANGED <<pc, msg>> /\ (CtxDone => CtxDone')
    BY <1>2, OtherControl DEF Working, Marked
  <2> QED  BY <1>0, <2>1, <2>2 DEF MarkedProcessing, Absent
<1> QED  BY <1>1, <1>2, NextSplits

\* The initial states.
LEMMA LifeInit == Init => LifeInv
<1> SUFFICES ASSUME Init PROVE LifeInv
  OBVIOUS
<1>1. MarkedProcessing
  BY DEF Init, MarkedProcessing, Marked
<1> QED  BY <1>1, OutcomeInit DEF LifeInv

-----------------------------------------------------------------------------
(* The answers.  A handler that is about to answer 202 has created its job,*)
(* one that is about to refuse has not, unless a reply can be lost.        *)

AnswersAgree ==
    \A h \in Handlers :
        /\ hpc[h] = "accepted" => entryId[hjob[h]] # 0
        /\ hpc[h] = "full" => entryId[hjob[h]] = 0
        /\ hpc[h] = "error" => entryId[hjob[h]] = 0 \/ "redisError" \in Events

SeenInv == /\ OutcomeInv /\ AnswersAgree
           /\ "redisError" \notin Events => LifeInv

\* "full" comes from the depth check, before EXEC; only EXEC leads to "accepted".
LEMMA AnswersNext ==
  ASSUME OutcomeInv, AnswersAgree, [Next]_vars
  PROVE  AnswersAgree'
<1>0. /\ ServiceInv /\ Types
      /\ entryId \in [JobIds -> Nat] /\ lastId \in Nat
      /\ hpc \in [Handlers -> HandlerPC] /\ hjob \in [Handlers -> JobIds \cup {NoJob}]
      /\ \A h \in Handlers : hpc[h] # "idle" => hjob[h] \in JobIds
      /\ \A h \in Handlers : hpc[h] \in {"check", "exec"} => entryId[hjob[h]] = 0
      /\ \A g, h \in Handlers : hpc[g] # "idle" /\ hjob[g] = hjob[h] => g = h
  BY DEF OutcomeInv, HandInv, ServiceInv, Types, TypeOK, RedisTypeOK, HandlersTypeOK, FreshJobs
<1> USE DEF AnswersAgree
<1>1. CASE UNCHANGED <<entryId, httpVars>>
  BY <1>1 DEF httpVars
<1>2. ASSUME NEW c \in Consumers, ConsumerStep(c)
      PROVE  AnswersAgree'
  BY <1>0, <1>1, <1>2, ConsumerFrame
<1>3. ASSUME NEW h \in Handlers, NEW j \in JobIds, NEW s \in Source, Accept(h, j, s)
      PROVE  AnswersAgree'
  <2>1. /\ entryId' = entryId
        /\ hpc' = [hpc EXCEPT ![h] = "check"] /\ hjob' = [hjob EXCEPT ![h] = j]
    BY <1>3 DEF Accept, redisVars
  <2> QED  BY <1>0, <2>1
<1>4. ASSUME NEW h \in Handlers, HandlerStep(h)
      PROVE  AnswersAgree'
  <2>1. CASE CheckDepth(h)
    BY <1>0, <2>1 DEF CheckDepth, redisVars
  <2>2. CASE hpc[h] = "exec" /\ Enqueue(hjob[h], hsrc[h]) /\ UNCHANGED hjob
             /\ \/ hpc' = [hpc EXCEPT ![h] = "accepted"]
                \/ "redisError" \in Events /\ hpc' = [hpc EXCEPT ![h] = "error"]
    <3>1. hjob[h] \in JobIds
      BY <1>0, <2>2
    <3>2. entryId' = [entryId EXCEPT ![hjob[h]] = lastId + 1]
      BY <2>2 DEF Enqueue
    <3>3. entryId'[hjob'[h]] # 0
      BY <1>0, <2>2, <3>1, <3>2
    <3>4. \A g \in Handlers \ {h} :
            hpc'[g] # "idle" => hpc'[g] = hpc[g] /\ entryId'[hjob'[g]] = entryId[hjob[g]]
      BY <1>0, <2>2, <3>1, <3>2
    <3> QED  BY <1>0, <2>2, <3>3, <3>4
  <2>3. CASE hpc[h] = "exec" /\ UNCHANGED <<entryId, hjob>>
             /\ hpc' = [hpc EXCEPT ![h] = "error"]
    BY <1>0, <2>3
  <2>4. CASE Reject(h) \/ AnswerAccepted(h)
    <3>1. /\ entryId' = entryId
          /\ hpc' = [hpc EXCEPT ![h] = "idle"] /\ hjob' = [hjob EXCEPT ![h] = NoJob]
      BY <2>4 DEF Reject, AnswerAccepted, Finish, redisVars
    <3> QED  BY <1>0, <3>1
  <2> QED
    BY <1>4, <2>1, <2>2, <2>3, <2>4 DEF HandlerStep, Execute, ExecuteFails, redisVars
<1>5. CASE EnvironmentStep
  <2>1. CASE Exit \/ Crash
    <3>1. hpc' = [h \in Handlers |-> "idle"]
      BY <2>1 DEF Exit, Crash, ProcessEnds
    <3> QED  BY <3>1
  <2>2. CASE ~(Exit \/ Crash)
    BY <1>1, <1>5, <2>2 DEF EnvironmentStep, Signal, CloseListener, Start, EnsureGroup,
       TurnWindow, RedisRestarts, Wipe, MessageIdle, GrowIdle, JobExpires, Expire, Update,
       streamVars, redisVars
  <2> QED  BY <2>1, <2>2
<1>6. CASE UNCHANGED vars
  BY <1>1, <1>6 DEF vars, redisVars, httpVars
<1> QED  BY <1>2, <1>3, <1>4, <1>5, <1>6, NextSplits

\* The invariant always holds when handling is prompt.
LEMMA SeenInvariant ==
  ASSUME "slowHandling" \notin Events
  PROVE  Spec => []SeenInv
<1>1. ASSUME Init PROVE SeenInv
  <2>1. AnswersAgree
    BY <1>1 DEF Init, AnswersAgree
  <2> QED  BY <1>1, <2>1, OutcomeInit, LifeInit DEF SeenInv
<1>2. SeenInv /\ [Next]_vars => SeenInv'
  BY OutcomeNext, AnswersNext, MarkedNext DEF SeenInv, LifeInv
<1> QED  BY <1>1, <1>2, PTL DEF Spec

-----------------------------------------------------------------------------
(* The refinement: each step changes what a client sees as JobLifecycle    *)
(* allows, or leaves it alone.                                             *)

View     == [j \in JobIds |-> hash[j].status]
Created  == {j \in JobIds : entryId[j] # 0}
Answered == [j \in JobIds |-> IF resp[j] \in {"none", "open"} THEN "waiting" ELSE resp[j]]

\* The steps of one job.
LEMMA JobSteps ==
  ASSUME NEW j \in JobIds,
         \/ Lifecycle!CreateJob(j) \/ Lifecycle!AcceptJob(j)
         \/ Lifecycle!BeginJob(j) \/ Lifecycle!SettleJob(j)
  PROVE  Lifecycle!LifecycleNext
  BY DEF Lifecycle!LifecycleNext

\* Steps that no client sees.
LEMMA NothingSeen ==
  ASSUME UNCHANGED <<hash, resp, entryId>>
  PROVE  UNCHANGED Lifecycle!lifecycleVars
  BY DEF Lifecycle!lifecycleVars

\* An update under a live context: SetProcessing begins the job, SetCompleted
\* and SetFailed settle it.
LEMMA UpdateSeen ==
  ASSUME SeenInv, NEW c \in Consumers, ConsumerStep(c)
  PROVE  [Lifecycle!LifecycleNext]_(Lifecycle!lifecycleVars)
<1>0. /\ ServiceInv /\ Types /\ UNCHANGED <<resp, entryId>>
      /\ hash \in [JobIds -> Hash]
  BY ConsumerFrame DEF SeenInv, OutcomeInv, HandInv, ServiceInv, Types, TypeOK, RedisTypeOK,
     httpVars
<1>1. CASE hash' = hash
  BY <1>0, <1>1, NothingSeen
<1>2. CASE hash' # hash
  <2>0. PICK j \in JobIds : j = msg[c]
    BY <1>0, <1>2, ConsumerHashes
  <2>1. /\ j \in JobIds /\ pc[c] \in Working /\ ~CtxDone
        /\ \/ pc[c] = "mark" /\ SetProcessing(j)
           \/ pc[c] \in Marked /\ (SetCompleted(j) \/ SetFailed(j))
    BY <1>0, <1>2, <2>0, ConsumerHashes
    DEF MarkProcessing, StoreResult, StoreFailure, Goto, Working, Marked
  <2>2. /\ View[j] \in {"queued", "processing", "none"}
        /\ j \in Created
    <3>1. entryId[j] > 0
      BY <1>0, <2>0, <2>1 DEF ServiceInv, HandsDelivered, InHand, Handling, Working
    <3>2. j \in Created
      BY <2>1, <3>1 DEF Created
    <3>3. ~IsTerminal(j)
      BY <2>0, <2>1 DEF SeenInv, OutcomeInv, NoOutcomeYet
    <3> QED  BY <1>0, <2>1, <3>2, <3>3 DEF View, IsTerminal, Terminal, Hash, Status
  <2>3. /\ pc[c] \in Marked
             => View[j] \in {"processing", "none"} \/ "redisError" \in Events
        /\ UNCHANGED <<Answered, Created>>
    BY <1>0, <2>0, <2>1 DEF SeenInv, LifeInv, MarkedProcessing, View, Answered, Created
  <2>4. CASE pc[c] = "mark" /\ SetProcessing(j)
    <3>1. View' = [View EXCEPT ![j] = "processing"]
      BY <1>0, <2>1, <2>4 DEF SetProcessing, Update, Hash, View
    <3>2. CASE View[j] = "processing"
      <4>1. View' = View
        BY <2>1, <3>1, <3>2 DEF View
      <4> QED  BY <2>3, <4>1 DEF Lifecycle!lifecycleVars, View, Answered, Created
    <3>3. CASE View[j] # "processing"
      <4>1. Lifecycle!BeginJob(j)
        BY <2>2, <2>3, <3>1, <3>3
        DEF Lifecycle!BeginJob, Lifecycle!Show, View, Answered, Created
      <4> QED  BY <2>1, <4>1, JobSteps
    <3> QED  BY <3>2, <3>3
  <2>5. CASE pc[c] \in Marked /\ (SetCompleted(j) \/ SetFailed(j))
    <3>1. \E outcome \in {"completed", "failed"} : View' = [View EXCEPT ![j] = outcome]
      <4>1. CASE SetCompleted(j)
        <5>1. View' = [View EXCEPT ![j] = "completed"]
          BY <1>0, <2>1, <4>1 DEF SetCompleted, Update, Hash, View
        <5> QED  BY <5>1
      <4>2. CASE SetFailed(j)
        <5>1. View' = [View EXCEPT ![j] = "failed"]
          BY <1>0, <2>1, <4>2 DEF SetFailed, Update, Hash, View
        <5> QED  BY <5>1
      <4> QED  BY <2>5, <4>1, <4>2
    <3>2. Lifecycle!SettleJob(j)
      BY <2>2, <2>3, <2>5, <3>1
      DEF Lifecycle!SettleJob, Lifecycle!Show, Lifecycle!Outcomes, View, Answered, Created
    <3> QED  BY <2>1, <3>2, JobSteps
  <2> QED  BY <2>1, <2>4, <2>5
<1> QED  BY <1>1, <1>2

\* EXEC creates a job, whether or not its reply arrives; the 202 comes with a
\* job, a 429 without, and a 500 without unless the reply was lost.
LEMMA RequestSeen ==
  ASSUME SeenInv, NEW h \in Handlers,
         HandlerStep(h) \/ \E j \in JobIds, s \in Source : Accept(h, j, s)
  PROVE  [Lifecycle!LifecycleNext]_(Lifecycle!lifecycleVars)
<1>0. /\ hash \in [JobIds -> Hash] /\ resp \in [JobIds -> Response]
      /\ entryId \in [JobIds -> Nat] /\ lastId \in Nat
      /\ hpc[h] # "idle" => hjob[h] \in JobIds /\ resp[hjob[h]] = "open"
      /\ hpc[h] = "exec" => entryId[hjob[h]] = 0
      /\ AnswersAgree
  BY DEF SeenInv, OutcomeInv, HandInv, ServiceInv, Types, TypeOK, RedisTypeOK, HandlersTypeOK,
     FreshJobs
<1>1. ASSUME NEW j \in JobIds, NEW s \in Source, Accept(h, j, s)
      PROVE  UNCHANGED Lifecycle!lifecycleVars
  <2>1. UNCHANGED <<hash, entryId>> /\ UNCHANGED Answered
    BY <1>0, <1>1 DEF Accept, redisVars, Answered
  <2> QED  BY <2>1 DEF Lifecycle!lifecycleVars, Answered
<1>2. CASE CheckDepth(h) \/ (ExecuteFails(h) /\ UNCHANGED redisVars)
  BY <1>2, NothingSeen DEF CheckDepth, ExecuteFails, redisVars
<1>3. CASE hpc[h] = "exec" /\ Enqueue(hjob[h], hsrc[h]) /\ UNCHANGED resp
  <2>0. PICK j \in JobIds : j = hjob[h]
    BY <1>0, <1>3
  <2>1. resp[j] = "open" /\ entryId[j] = 0 /\ Enqueue(j, hsrc[h])
    BY <1>0, <1>3, <2>0
  <2>2. [Absent EXCEPT !.status = "queued", !.source = hsrc[h]].status = "queued"
    BY DEF Absent
  <2>3. View' = [View EXCEPT ![j] = "queued"]
    BY <1>0, <2>1, <2>2 DEF Enqueue, View
  <2>4. entryId' = [entryId EXCEPT ![j] = lastId + 1]
    BY <2>1 DEF Enqueue
  <2>5. j \notin Created /\ Created' = Created \cup {j}
    BY <1>0, <2>1, <2>4 DEF Created
  <2>6. Answered[j] = "waiting" /\ UNCHANGED Answered
    BY <1>3, <2>1 DEF Answered
  <2>7. Lifecycle!CreateJob(j)
    BY <2>3, <2>5, <2>6 DEF Lifecycle!CreateJob, Lifecycle!Show, View, Answered, Created
  <2> QED  BY <2>7, JobSteps
<1>4. CASE AnswerAccepted(h)
  <2>0. PICK j \in JobIds : j = hjob[h]
    BY <1>0, <1>4 DEF AnswerAccepted
  <2>1. /\ resp[j] = "open" /\ entryId[j] # 0
        /\ resp' = [resp EXCEPT ![j] = "202"] /\ UNCHANGED <<hash, entryId>>
    BY <1>0, <1>4, <2>0 DEF AnswerAccepted, AnswersAgree, redisVars
  <2>2. Answered[j] = "waiting" /\ Answered' = [Answered EXCEPT ![j] = "202"]
    BY <1>0, <2>1 DEF Answered
  <2>3. j \in Created /\ UNCHANGED <<View, Created>>
    BY <2>1 DEF View, Created
  <2>4. Lifecycle!AcceptJob(j)
    BY <2>2, <2>3 DEF Lifecycle!AcceptJob, View, Answered, Created
  <2> QED  BY <2>4, JobSteps
<1>5. CASE Reject(h)
  <2>0. PICK j \in JobIds : j = hjob[h]
    BY <1>0, <1>5 DEF Reject
  <2>1. PICK r \in {"429", "500"} : /\ resp' = [resp EXCEPT ![j] = r]
                                   /\ hpc[h] = IF r = "429" THEN "full" ELSE "error"
    BY <1>5, <2>0 DEF Reject
  <2>2. resp[j] = "open" /\ UNCHANGED <<hash, entryId>>
    BY <1>0, <1>5, <2>0 DEF Reject, redisVars
  <2>3. r \in Lifecycle!Denials => entryId[j] = 0
    BY <1>0, <2>0, <2>1 DEF AnswersAgree, Lifecycle!Denials
  <2>4. /\ \A k \in {j} : /\ Answered[k] = "waiting"
                          /\ (r \in Lifecycle!Denials => k \notin Created)
        /\ Answered' = [k \in JobIds |-> IF k \in {j} THEN r ELSE Answered[k]]
    BY <1>0, <2>1, <2>2, <2>3 DEF Answered, Created
  <2>5. {j} \in SUBSET JobIds /\ r \in Lifecycle!Refusals /\ UNCHANGED <<View, Created>>
    BY <2>2 DEF Lifecycle!Refusals, View, Created
  <2>6. Lifecycle!RefuseJobs
    BY <2>4, <2>5 DEF Lifecycle!RefuseJobs, View, Answered, Created
  <2> QED  BY <2>6 DEF Lifecycle!LifecycleNext
<1> QED  BY <1>1, <1>2, <1>3, <1>4, <1>5 DEF HandlerStep, Execute, ExecuteFails

\* The end of the process refuses every open request; a key that expires and
\* a restart of Redis make clients forget.
LEMMA EnvironmentSeen ==
  ASSUME SeenInv, EnvironmentStep
  PROVE  [Lifecycle!LifecycleNext]_(Lifecycle!lifecycleVars)
<1>0. hash \in [JobIds -> Hash] /\ resp \in [JobIds -> Response]
  BY DEF SeenInv, OutcomeInv, HandInv, ServiceInv, Types, TypeOK, RedisTypeOK, HandlersTypeOK
<1>1. CASE Exit \/ Crash
  <2> DEFINE S == {j \in JobIds : resp[j] = "open"}
  <2>1. /\ UNCHANGED <<hash, entryId>>
        /\ resp' = [j \in JobIds |-> IF resp[j] = "open" THEN "lost" ELSE resp[j]]
    BY <1>1 DEF Exit, Crash, ProcessEnds, redisVars
  <2>2. /\ \A j \in S : Answered[j] = "waiting"
        /\ Answered' = [j \in JobIds |-> IF j \in S THEN "lost" ELSE Answered[j]]
    BY <1>0, <2>1 DEF Answered
  <2>3. /\ S \in SUBSET JobIds /\ UNCHANGED <<View, Created>>
        /\ "lost" \in Lifecycle!Refusals /\ "lost" \notin Lifecycle!Denials
    BY <2>1 DEF Lifecycle!Refusals, Lifecycle!Denials, View, Created
  <2> HIDE DEF S
  <2>4. Lifecycle!RefuseJobs
    BY <2>2, <2>3 DEF Lifecycle!RefuseJobs, View, Answered, Created
  <2> QED  BY <2>4 DEF Lifecycle!LifecycleNext
<1>2. ASSUME UNCHANGED <<resp, entryId>>, NEW S \in SUBSET JobIds,
             hash' = [j \in JobIds |-> IF j \in S THEN Absent ELSE hash[j]]
      PROVE  [Lifecycle!LifecycleNext]_(Lifecycle!lifecycleVars)
  <2>1. /\ View' = [j \in JobIds |-> IF j \in S THEN "none" ELSE View[j]]
        /\ UNCHANGED <<Answered, Created>>
    BY <1>0, <1>2 DEF View, Answered, Created, Absent
  <2>2. Lifecycle!ForgetJobs
    BY <2>1 DEF Lifecycle!ForgetJobs, View, Answered, Created
  <2> QED  BY <2>2 DEF Lifecycle!LifecycleNext
<1>3. ASSUME NEW j \in JobIds, JobExpires(j)
      PROVE  [Lifecycle!LifecycleNext]_(Lifecycle!lifecycleVars)
  <2>1. UNCHANGED <<resp, entryId>> /\ hash' = [k \in JobIds |-> IF k \in {j} THEN Absent ELSE hash[k]]
    BY <1>0, <1>3 DEF JobExpires, Expire, Update, streamVars, httpVars
  <2> QED  BY <1>2, <2>1
<1>4. CASE RedisRestarts
  <2>1. UNCHANGED <<resp, entryId>> /\ hash' = [k \in JobIds |-> IF k \in JobIds THEN Absent ELSE hash[k]]
    BY <1>4 DEF RedisRestarts, Wipe, httpVars
  <2> QED  BY <1>2, <2>1
<1>5. CASE \/ Signal \/ CloseListener \/ Start \/ TurnWindow
           \/ \E j \in JobIds : MessageIdle(j)
  <2>1. UNCHANGED <<hash, resp, entryId>>
    BY <1>5 DEF Signal, CloseListener, Start, EnsureGroup, TurnWindow, MessageIdle, GrowIdle,
       redisVars, httpVars
  <2> QED  BY <2>1, NothingSeen
<1> QED  BY <1>1, <1>3, <1>4, <1>5 DEF EnvironmentStep

\* To its clients the service is JobLifecycle: whoever got a 202 has a job and
\* whoever got a 429 has none, although EXEC and the answer are two steps and the
\* process may die between them; every job that was created goes from queued over
\* processing to one final outcome; crashes, shutdowns, reclaims, expiry and a
\* restart of Redis show up at most as a forgotten status; lost replies excuse
\* what JobLifecycle says they excuse.  The only proviso is that handling is
\* prompt.
THEOREM ServiceImplementsLifecycle ==
  ASSUME "slowHandling" \notin Events
  PROVE  Spec => ImplementsLifecycle
<1>1. Init => Lifecycle!LifecycleInit
  <2> SUFFICES ASSUME Init PROVE Lifecycle!LifecycleInit
    OBVIOUS
  <2>1. /\ View = [j \in JobIds |-> "none"] /\ Answered = [j \in JobIds |-> "waiting"]
        /\ Created = {}
    BY DEF Init, RedisInit, Absent, View, Answered, Created
  <2> QED  BY <2>1 DEF Lifecycle!LifecycleInit, View, Answered, Created
<1>2. SeenInv /\ [Next]_vars => [Lifecycle!LifecycleNext]_(Lifecycle!lifecycleVars)
  <2> SUFFICES ASSUME SeenInv, [Next]_vars
               PROVE  [Lifecycle!LifecycleNext]_(Lifecycle!lifecycleVars)
    OBVIOUS
  <2>1. CASE UNCHANGED vars
    BY <2>1, NothingSeen DEF vars, redisVars, httpVars
  <2> QED  BY <2>1, NextSplits, UpdateSeen, RequestSeen, EnvironmentSeen
<1> QED
  BY <1>1, <1>2, SeenInvariant, PTL DEF Spec, ImplementsLifecycle, Lifecycle!LifecycleSpec
-----------------------------------------------------------------------------
(* The queue.  EntriesReachable leaves an entry two places, ahead of the   *)
(* cursor and pending; the order of the IDs is the order of the tickets.   *)

Places == [j \in JobIds |-> Place(j)]

\* What leaves IDs, cursor, stream and pending entries alone moves no job.
LEMMA NothingMoves ==
  ASSUME UNCHANGED <<stream, entryId, lastId, lastDelivered, pel>>
  PROVE  /\ UNCHANGED <<Places, entryId, lastId>>
         /\ group' = group => UNCHANGED Queue!queueVars
<1>1. Undelivered' = Undelivered
  BY DEF Undelivered
<1>2. \A j \in JobIds : Place(j)' = Place(j)
  BY <1>1 DEF Place
<1> QED  BY <1>2 DEF Queue!queueVars, Places

\* XADD is Submit: the ID it gives is the next ticket, and past the cursor.
LEMMA EnqueueSubmits ==
  ASSUME RedisInv, NEW j \in JobIds, NEW s \in Source, entryId[j] = 0, Enqueue(j, s)
  PROVE  Queue!Submit(j)
<1>0. /\ j \notin stream
      /\ j \in Undelivered' /\ j \notin pel' /\ entryId'[j] # 0
      /\ \A k \in JobIds \ {j} : /\ entryId'[k] = entryId[k]
                                 /\ k \in Undelivered' <=> k \in Undelivered
                                 /\ k \in (stream \cap pel)' <=> k \in stream \cap pel
  BY DEF RedisInv, RedisTypeOK, IdsOrdered, EntriesReachable, Enqueue, Undelivered
<1>1. j \notin Undelivered
  BY <1>0 DEF Undelivered
<1>2. Place(j) = "new" /\ Place(j)' = "waiting"
  BY <1>0, <1>1 DEF Place
<1>3. \A k \in JobIds \ {j} : Place(k)' = Place(k)
  BY <1>0 DEF Place
<1>4. Places' = [Places EXCEPT ![j] = "waiting"]
  BY <1>2, <1>3 DEF Places
<1> QED  BY <1>2, <1>4 DEF Queue!Submit, Queue!Move, Places, Enqueue

\* XREADGROUP is Deliver: of all the entries past the cursor it takes the one
\* with the first ticket, and passes no other.
LEMMA ReadDelivers ==
  ASSUME RedisInv, NEW j \in JobIds, Read(j)
  PROVE  Queue!Deliver(j)
<1> USE DEF RedisInv, RedisTypeOK, IdsOrdered, EntriesReachable, Read, Undelivered
<1>1. Place(j) = "waiting" /\ Place(j)' = "delivered"
  BY DEF Place
<1>2. \A k \in JobIds : Place(k) = "waiting" => entryId[j] <= entryId[k]
  BY DEF Place, Oldest
<1>3. \A k \in JobIds \ {j} : Place(k)' = Place(k)
  <2> SUFFICES ASSUME NEW k \in JobIds \ {j} PROVE Place(k)' = Place(k)
    OBVIOUS
  <2>1. k \in Undelivered' <=> k \in Undelivered
    BY DEF Oldest
  <2>2. k \in (stream \cap pel)' <=> k \in stream \cap pel
    OBVIOUS
  <2> HIDE DEF Undelivered, IdsOrdered, EntriesReachable
  <2> QED  BY <2>1, <2>2 DEF Place
<1>4. Places' = [Places EXCEPT ![j] = "delivered"]
  BY <1>1, <1>3 DEF Places
<1> QED  BY <1>1, <1>2, <1>4 DEF Queue!Deliver, Queue!Move, Places

\* XACK+XDEL of what was delivered is Finish, or finds the entry gone.
LEMMA AckFinishes ==
  ASSUME RedisInv, NEW j \in JobIds, j \notin Undelivered, Ack(j)
  PROVE  Queue!Finish(j) \/ UNCHANGED Queue!queueVars
<1> USE DEF RedisInv, RedisTypeOK, IdsOrdered, EntriesReachable, Ack, Undelivered
<1>1. \A k \in JobIds \ {j} : Place(k)' = Place(k)
  BY DEF Place
<1>2. CASE j \in stream
  <2>1. Place(j) = "delivered" /\ Place(j)' = "gone"
    BY <1>2 DEF Place
  <2>2. Places' = [Places EXCEPT ![j] = "gone"]
    BY <1>1, <2>1 DEF Places
  <2> QED  BY <2>1, <2>2 DEF Queue!Finish, Queue!Move, Places
<1>3. CASE j \notin stream
  BY <1>3, NothingMoves
<1> QED  BY <1>2, <1>3

\* A command to the store is at most one step of the queue.  The group that
\* start creates has the cursor a missing group has, so it moves no job.
LEMMA CommandIsQueueStep ==
  ASSUME RedisInv, [RedisCommand]_redisVars
  PROVE  [Queue!QueueNext]_(Queue!queueVars)
<1>1. ASSUME NEW j \in JobIds, NEW s \in Source, entryId[j] = 0, Enqueue(j, s)
      PROVE  Queue!QueueNext
  BY <1>1, EnqueueSubmits DEF Queue!QueueNext
<1>2. ASSUME NEW j \in JobIds, Read(j)
      PROVE  Queue!QueueNext
  BY <1>2, ReadDelivers DEF Queue!QueueNext
<1>3. ASSUME NEW j \in JobIds, j \notin Undelivered, Ack(j)
      PROVE  [Queue!QueueNext]_(Queue!queueVars)
  BY <1>3, AckFinishes DEF Queue!QueueNext
<1>4. ASSUME \/ UNCHANGED redisVars
             \/ \E j \in JobIds : SetProcessing(j) \/ SetCompleted(j) \/ SetFailed(j)
                                  \/ Expire(j) \/ GrowIdle(j)
             \/ \E B \in SUBSET JobIds : Claim(B)
      PROVE  UNCHANGED Queue!queueVars
  <2>1. UNCHANGED <<stream, entryId, lastId, group, lastDelivered, pel>>
    BY <1>4 DEF redisVars, SetProcessing, SetCompleted, SetFailed, Expire, Update, streamVars,
                GrowIdle, Claim
  <2> QED  BY <2>1, NothingMoves
<1>5. CASE EnsureGroup
  <2>1. UNCHANGED <<stream, entryId, lastId, lastDelivered, pel>> /\ group' = TRUE
    BY <1>5 DEF EnsureGroup, RedisInv, IdsOrdered
  <2>2. Queue!Reopen
    BY <2>1, NothingMoves DEF Queue!Reopen, Places
  <2> QED  BY <2>2 DEF Queue!QueueNext
<1> QED  BY <1>1, <1>2, <1>3, <1>4, <1>5 DEF RedisCommand

\* A restart of Redis loses the queue.
LEMMA WipeLoses ==
  ASSUME RedisInv, RedisRestarts
  PROVE  Queue!LoseAll
<1>1. "redisRestart" \in Events /\ Wipe
  BY DEF RedisRestarts
<1>2. \A j \in JobIds : Place(j)' = IF Place(j) = "new" THEN "new" ELSE "gone"
  BY <1>1 DEF RedisInv, RedisTypeOK, IdsOrdered, Wipe, Place, Undelivered
<1>3. Places' = [j \in JobIds |-> IF Places[j] = "new" THEN "new" ELSE "gone"]
  BY <1>2 DEF Places
<1> QED  BY <1>1, <1>3 DEF Queue!LoseAll, Places, Wipe

\* The store, used as the service uses it, is a queue that delivers each job
\* once and in the order of the POSTs, and keeps it until a goroutine that was
\* given it acks it: whatever fails, crashes or is claimed, and however long
\* handling takes.  Only a restart of Redis loses jobs.
THEOREM ServiceImplementsQueue == Spec => ImplementsQueue
<1>1. Init => Queue!QueueInit
  <2> SUFFICES ASSUME Init PROVE Queue!QueueInit
    OBVIOUS
  <2>0. entryId = [j \in JobIds |-> 0] /\ stream = {} /\ Undelivered = {}
    BY DEF Init, RedisInit, Undelivered
  <2>1. \A j \in JobIds : Place(j) = "new"
    BY <2>0 DEF Place
  <2> QED  BY <2>1 DEF Init, RedisInit, Queue!QueueInit
<1>2. ServiceInv /\ [Next]_vars => [Queue!QueueNext]_(Queue!queueVars)
  <2> SUFFICES ASSUME ServiceInv, [Next]_vars
               PROVE  [Queue!QueueNext]_(Queue!queueVars)
    OBVIOUS
  <2>1. CASE RedisRestarts
    BY <2>1, WipeLoses DEF ServiceInv, Queue!QueueNext
  <2>2. CASE ~RedisRestarts
    <3>1. [RedisCommand]_redisVars
      BY <2>2, StepIsCommand DEF vars
    <3> QED  BY <3>1, CommandIsQueueStep DEF ServiceInv
  <2> QED  BY <2>1, <2>2
<1> QED
  BY <1>1, <1>2, ServiceInvariant, PTL DEF Spec, ImplementsQueue, Queue!QueueSpec
=============================================================================
