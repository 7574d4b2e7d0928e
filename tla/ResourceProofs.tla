--------------------------- MODULE ResourceProofs ---------------------------
(***************************************************************************)
(* The bounded resources: the Whisper gate, the audio in memory, the queue.*)
(***************************************************************************)
EXTENDS DeliveryProofs, HealthReport, FiniteSetTheorems

(* The gate and the audio buffers.                                         *)

GateInv == ServiceInv /\ GateHeldByCaller /\ BufferOnlyWhileTranscribing

\* Both are local to a goroutine's walk through Transcribe.
LEMMA GateConsumer ==
  ASSUME GateInv, NEW c \in Consumers, ConsumerStep(c)
  PROVE  GateHeldByCaller' /\ BufferOnlyWhileTranscribing'
<1> USE ServiceAssumption DEF GateInv, GateHeldByCaller, BufferOnlyWhileTranscribing, Goto
<1>0. pc \in [Consumers -> ConsumerPC]
  BY DEF ServiceInv, Types, TypeOK, ConsumersTypeOK
<1>1. CASE Poll(c) \/ ReadMessage(c) \/ ReadNothing(c) \/ ClaimOrphans(c) \/ Stop(c)
  BY <1>0, <1>1 DEF Poll, ReadMessage, ReadNothing, ClaimOrphans, Stop
<1>2. CASE ClaimLost(c)
  BY <1>2 DEF ClaimLost, consumerVars
<1>3. CASE LoadJob(c) \/ SkipJob(c) \/ MarkProcessing(c) \/ FetchFails(c)
  BY <1>0, <1>3 DEF LoadJob, SkipJob, MarkProcessing, FetchFails
<1>4. CASE StoreResult(c) \/ StoreFailure(c) \/ AckMessage(c)
  BY <1>0, <1>4 DEF StoreResult, StoreFailure, AckMessage
<1>5. CASE FetchAudio(c)
  BY <1>0, <1>5 DEF FetchAudio
<1>6. CASE EnterGate(c)
  BY <1>0, <1>6 DEF EnterGate, Acquire
<1>7. CASE GateCancelled(c)
  BY <1>0, <1>7 DEF GateCancelled, RetryOrGiveUp
<1>8. CASE FinishCall(c)
  BY <1>0, <1>8 DEF FinishCall, RetryOrGiveUp, Release
<1>9. CASE Backoff(c)
  BY <1>0, <1>9 DEF Backoff
<1>10. CASE Return(c)
  <2>1. /\ pc[c] = "drop" /\ UNCHANGED <<gate, held>>
        /\ \E to \in {"idle", "get"} : pc' = [pc EXCEPT ![c] = to]
    BY <1>10 DEF Return
  <2> QED  BY <1>0, <2>1
<1> QED
  BY <1>1, <1>2, <1>3, <1>4, <1>5, <1>6, <1>7, <1>8, <1>9, <1>10 DEF ConsumerStep, HandleStep

\* The invariant is inductive.
LEMMA GateNext == GateInv /\ [Next]_vars => GateInv'
<1> SUFFICES ASSUME GateInv, [Next]_vars PROVE GateInv'
  OBVIOUS
<1> USE DEF GateHeldByCaller, BufferOnlyWhileTranscribing
<1>1. ServiceInv'
  BY ServiceNextInv DEF GateInv
<1>2. CASE UNCHANGED <<pc, gate, held>>
  BY <1>1, <1>2 DEF GateInv
<1>3. ASSUME NEW h \in Handlers, HandlerStep(h) \/ \E j \in JobIds, s \in Source : Accept(h, j, s)
      PROVE  UNCHANGED <<pc, gate, held>>
  BY <1>3 DEF HandlerStep, CheckDepth, Execute, ExecuteFails, AnswerAccepted, Reject, Finish, Accept, consumerVars
<1>4. CASE EnvironmentStep
  <2>1. CASE Exit \/ Crash
    BY <1>1, <2>1, ServiceAssumption DEF GateInv, Exit, Crash, ProcessEnds
  <2>2. CASE Start
    BY <1>1, <2>2 DEF GateInv, Start, ServiceInv, Types, DownIsStopped
  <2>3. CASE ~(Exit \/ Crash \/ Start)
    BY <1>2, <1>4, <2>3 DEF EnvironmentStep, Signal, CloseListener, TurnWindow, RedisRestarts,
       MessageIdle, JobExpires, consumerVars
  <2> QED  BY <2>1, <2>2, <2>3
<1>5. CASE UNCHANGED vars
  BY <1>2, <1>5 DEF vars, consumerVars
<1> QED
  BY <1>1, <1>2, <1>3, <1>4, <1>5, NextSplits, GateConsumer DEF GateInv

\* The initial states.
LEMMA GateInitial == Init => GateInv
<1> SUFFICES ASSUME Init PROVE GateInv
  OBVIOUS
<1>1. GateHeldByCaller /\ BufferOnlyWhileTranscribing
  BY ServiceAssumption DEF Init, GateInit, GateHeldByCaller, BufferOnlyWhileTranscribing
<1> QED  BY <1>1, ServiceInitInv DEF GateInv

\* At most one request is at the Whisper upstream, whatever the number of
\* workers, and the gate is free whenever none is.
THEOREM GateIsExclusive == Spec => []GateHeldByCaller
  BY GateInitial, GateNext, PTL DEF Spec, GateInv

\* Audio fetched by a worker is zeroed on every path out of Transcribe.
THEOREM BuffersAreZeroed == Spec => []BufferOnlyWhileTranscribing
  BY GateInitial, GateNext, PTL DEF Spec, GateInv

-----------------------------------------------------------------------------
(* Uploaded audio.                                                         *)

\* Stronger than NoAudioLeak: only the Drop that follows the ack is needed, since
\* the other messages in hand are in the stream until then.
ClipsAccounted ==
    \A j \in clips : j \in Creating \cup stream \/ \E c \in Dropping : msg[c] = j

\* A clip is there only after its job was generated, and the request that
\* stashed it, while it runs, is an upload: Reject will drop it.
ClipsAreUploads ==
    /\ \A j \in clips : resp[j] # "none"
    /\ \A h \in Handlers : hjob[h] \in clips => hsrc[h] = "upload"

AudioInv == ServiceInv /\ ClipsAccounted /\ ClipsAreUploads

\* Consumers add no clip.
LEMMA ConsumerAddsNoClip ==
  ASSUME NEW c \in Consumers, ConsumerStep(c)
  PROVE  clips' \subseteq clips
  BY DEF ConsumerStep, HandleStep, Poll, ReadMessage, ReadNothing, ClaimOrphans, ClaimLost,
         LoadJob, SkipJob, MarkProcessing, FetchAudio, FetchFails, EnterGate, GateCancelled,
         FinishCall, Backoff, StoreResult, StoreFailure, AckMessage, Return, Stop, Take, Drop

\* The environment adds none either, and the end of the process frees all.
LEMMA EnvironmentAddsNoClip ==
  ASSUME EnvironmentStep \/ UNCHANGED vars
  PROVE  \/ clips' = {} /\ hjob' = [h \in Handlers |-> NoJob]
         \/ Start
         \/ UNCHANGED <<clips, pc, msg, httpVars>>
<1>1. CASE Exit \/ Crash
  BY <1>1 DEF Exit, Crash, ProcessEnds
<1>2. CASE ~(Exit \/ Crash \/ Start)
  BY <1>2 DEF EnvironmentStep, Signal, CloseListener, TurnWindow, RedisRestarts, MessageIdle,
     JobExpires, consumerVars, vars
<1> QED  BY <1>1, <1>2

\* Requests do not touch the goroutines.
LEMMA RequestFrame ==
  ASSUME NEW h \in Handlers, HandlerStep(h) \/ \E j \in JobIds, s \in Source : Accept(h, j, s)
  PROVE  UNCHANGED <<pc, msg>>
  BY DEF HandlerStep, CheckDepth, Execute, ExecuteFails, AnswerAccepted, Reject, Accept,
         consumerVars

\* A clip that appears is being stashed by a request.
LEMMA ClipsArrive ==
  ASSUME ServiceInv, [Next]_vars, NEW j \in clips', j \notin clips
  PROVE  j \in Creating'
<1>1. ASSUME NEW h \in Handlers, NEW k \in JobIds, NEW s \in Source, Accept(h, k, s)
      PROVE  j \in Creating'
  <2>1. j = k /\ hpc'[h] = "check" /\ hjob'[h] = k
    BY <1>1 DEF Accept, Put, ServiceInv, Types, TypeOK, HandlersTypeOK
  <2> QED  BY <2>1 DEF Creating, OpenRequests
<1>2. ASSUME NEW h \in Handlers, HandlerStep(h)
      PROVE  FALSE
  BY <1>2 DEF HandlerStep, CheckDepth, Execute, ExecuteFails, AnswerAccepted, Reject, Drop
<1>3. CASE EnvironmentStep \/ UNCHANGED vars
  BY <1>3, EnvironmentAddsNoClip DEF Start
<1> QED  BY <1>1, <1>2, <1>3, NextSplits, ConsumerAddsNoClip

\* An entry goes by the ack of a goroutine, whose Drop is still to come.
LEMMA EntriesLeave ==
  ASSUME "redisRestart" \notin Events, ServiceInv, [Next]_vars, NEW j \in stream, j \notin stream'
  PROVE  \E c \in Dropping' : msg'[c] = j
<1>1. ASSUME NEW c \in Consumers, ConsumerStep(c)
      PROVE  \E d \in Dropping' : msg'[d] = j
  <2>1. CASE AckMessage(c)
    <3>1. msg[c] = j /\ msg' = msg /\ pc'[c] = "drop"
      BY <2>1 DEF AckMessage, LoggedCall, Ack, redisVars, Goto, ServiceInv, Types, TypeOK,
                  ConsumersTypeOK
    <3> QED  BY <3>1 DEF Dropping
  <2>2. CASE ~AckMessage(c)
    BY <1>1, <2>2 DEF ConsumerStep, HandleStep, Poll, ReadMessage, ReadNothing, ClaimOrphans,
       ClaimLost, Stop, LoadJob, SkipJob, MarkProcessing, FetchAudio, FetchFails, EnterGate,
       GateCancelled, FinishCall, Backoff, StoreResult, StoreFailure, Return, LoggedCall,
       SetProcessing, SetCompleted, SetFailed, Update, streamVars, Read, Claim, redisVars
  <2> QED  BY <2>1, <2>2
<1>2. ASSUME NEW h \in Handlers, HandlerStep(h) \/ \E k \in JobIds, s \in Source : Accept(h, k, s)
      PROVE  FALSE
  BY <1>2 DEF HandlerStep, CheckDepth, Execute, ExecuteFails, AnswerAccepted, Reject, Accept,
     Enqueue, redisVars
<1>3. CASE EnvironmentStep \/ UNCHANGED vars
  BY <1>3 DEF EnvironmentStep, Signal, CloseListener, Exit, Crash, ProcessEnds, Start,
     EnsureGroup, TurnWindow, RedisRestarts, MessageIdle, GrowIdle, JobExpires, Expire, Update,
     streamVars, redisVars, vars
<1> QED  BY <1>1, <1>2, <1>3, NextSplits

\* A Drop that is to come frees its clip, or is still to come.
LEMMA DropsStay ==
  ASSUME ServiceInv, [Next]_vars, NEW c \in Dropping, msg[c] \in clips'
  PROVE  c \in Dropping' /\ msg'[c] = msg[c]
<1>0. c \in Consumers /\ pc[c] = "drop" /\ Types
  BY DEF Dropping, ServiceInv
<1>1. CASE pc'[c] = pc[c] /\ msg'[c] = msg[c]
  BY <1>0, <1>1 DEF Dropping
<1>2. ASSUME NEW d \in Consumers, ConsumerStep(d), d # c
      PROVE  pc'[c] = pc[c] /\ msg'[c] = msg[c]
  BY <1>0, <1>2, ConsumerLocal
<1>3. ASSUME ConsumerStep(c)
      PROVE  FALSE
  <2>1. ~Return(c)
    BY DEF Return, Drop
  <2> QED
    BY <1>0, <1>3, <2>1 DEF ConsumerStep, HandleStep, Poll, ReadMessage, ReadNothing,
       ClaimOrphans, ClaimLost, Stop, LoadJob, SkipJob, MarkProcessing, FetchAudio, FetchFails,
       EnterGate, GateCancelled, RetryOrGiveUp, FinishCall, Backoff, StoreResult, StoreFailure,
       AckMessage, Goto
<1>4. CASE EnvironmentStep \/ UNCHANGED vars
  <2>1. ~Start
    BY <1>0 DEF Start, Types, DownIsStopped
  <2> QED  BY <1>1, <1>4, <2>1, EnvironmentAddsNoClip
<1> QED  BY <1>1, <1>2, <1>3, <1>4, NextSplits, RequestFrame

\* A request that has a clip enqueues its job, or rolls back and frees the clip.
LEMMA RequestsEnd ==
  ASSUME AudioInv, [Next]_vars, NEW j \in clips', j \in Creating
  PROVE  j \in Creating' \cup stream'
<1>0. PICK g \in OpenRequests : hjob[g] = j
  BY DEF Creating
<1>1. /\ g \in Handlers /\ hpc[g] # "idle" /\ j \in JobIds
      /\ hpc \in [Handlers -> HandlerPC] /\ hjob \in [Handlers -> JobIds \cup {NoJob}]
  BY <1>0 DEF OpenRequests, AudioInv, ServiceInv, Types, TypeOK, HandlersTypeOK
<1>2. CASE g \in OpenRequests' /\ hjob'[g] = j
  BY <1>2 DEF Creating
<1>3. ASSUME NEW h \in Handlers, NEW k \in JobIds, NEW s \in Source, Accept(h, k, s)
      PROVE  g \in OpenRequests' /\ hjob'[g] = j
  BY <1>0, <1>1, <1>3 DEF Accept, OpenRequests
<1>4. ASSUME NEW h \in Handlers, HandlerStep(h), h # g
      PROVE  g \in OpenRequests' /\ hjob'[g] = j
  BY <1>0, <1>1, <1>4 DEF HandlerStep, CheckDepth, Execute, ExecuteFails, AnswerAccepted, Reject,
     Finish, OpenRequests
<1>5. CASE HandlerStep(g)
  <2>1. CASE CheckDepth(g) \/ ExecuteFails(g)
    BY <1>0, <1>1, <1>2, <2>1 DEF CheckDepth, ExecuteFails, OpenRequests
  <2>2. CASE Execute(g)
    BY <1>0, <2>2 DEF Execute, Enqueue
  <2>3. ~AnswerAccepted(g)
    BY <1>0 DEF AnswerAccepted, OpenRequests
  <2>4. CASE Reject(g)
    <3>1. j \notin clips'
      BY <1>0, <1>1, <2>4 DEF Reject, Drop, AudioInv, ClipsAreUploads
    <3> QED  BY <3>1
  <2> QED  BY <1>5, <2>1, <2>2, <2>3, <2>4 DEF HandlerStep
<1>6. ASSUME NEW c \in Consumers, ConsumerStep(c)
      PROVE  g \in OpenRequests' /\ hjob'[g] = j
  BY <1>0, <1>6, ConsumerFrame DEF AudioInv, httpVars, OpenRequests
<1>7. CASE EnvironmentStep \/ UNCHANGED vars
  <2>1. UNCHANGED httpVars
    BY <1>7, EnvironmentAddsNoClip DEF Start
  <2> QED  BY <1>0, <1>2, <2>1 DEF httpVars, OpenRequests
<1> QED  BY <1>2, <1>3, <1>4, <1>5, <1>6, <1>7, NextSplits

\* The uploads stay uploads.
LEMMA UploadsNext ==
  ASSUME AudioInv, [Next]_vars
  PROVE  ClipsAreUploads'
<1> USE DEF ClipsAreUploads
<1>0. /\ hjob \in [Handlers -> JobIds \cup {NoJob}] /\ hsrc \in [Handlers -> Source]
      /\ resp \in [JobIds -> Response] /\ clips \subseteq JobIds /\ ServiceInv
      /\ \A h \in Handlers : hpc[h] # "idle" <=> hjob[h] \in JobIds
  BY DEF AudioInv, ServiceInv, Types, TypeOK, HandlersTypeOK
<1>1. CASE clips' \subseteq clips /\ UNCHANGED <<hjob, hsrc, resp>>
  BY <1>1 DEF AudioInv
<1>2. ASSUME NEW h \in Handlers, NEW j \in JobIds, NEW s \in Source, Accept(h, j, s)
      PROVE  ClipsAreUploads'
  <2>1. j \notin clips
    BY <1>2 DEF Accept, AudioInv
  <2>2. /\ hjob' = [hjob EXCEPT ![h] = j] /\ hsrc' = [hsrc EXCEPT ![h] = s]
        /\ resp' = [resp EXCEPT ![j] = "open"]
        /\ clips' = clips \/ (s = "upload" /\ clips' = clips \cup {j})
    BY <1>2 DEF Accept, Put
  <2>3. \A g \in Handlers : hjob[g] # j
    <3>1. \A g \in Handlers : hjob[g] \in JobIds => resp[hjob[g]] = "open"
      BY <1>0 DEF ServiceInv, FreshJobs
    <3> QED  BY <1>2, <3>1 DEF Accept
  <2> QED  BY <1>0, <2>1, <2>2, <2>3 DEF AudioInv
<1>3. ASSUME NEW h \in Handlers, HandlerStep(h)
      PROVE  ClipsAreUploads'
  <2>1. CASE CheckDepth(h) \/ Execute(h) \/ ExecuteFails(h)
    BY <1>1, <2>1 DEF CheckDepth, Execute, ExecuteFails
  <2>2. CASE AnswerAccepted(h) \/ Reject(h)
    <3>1. /\ hjob[h] \in JobIds /\ hjob' = [hjob EXCEPT ![h] = NoJob]
          /\ hsrc' = [hsrc EXCEPT ![h] = "url"]
          /\ \E answer \in {"202", "429", "500"} : resp' = [resp EXCEPT ![hjob[h]] = answer]
          /\ clips' \subseteq clips
      BY <1>0, <2>2 DEF AnswerAccepted, Reject, Finish, Drop
    <3> QED  BY <1>0, <3>1, ServiceAssumption DEF AudioInv
  <2> QED  BY <1>3, <2>1, <2>2 DEF HandlerStep
<1>4. ASSUME NEW c \in Consumers, ConsumerStep(c)
      PROVE  ClipsAreUploads'
  BY <1>0, <1>1, <1>4, ConsumerFrame, ConsumerAddsNoClip DEF httpVars
<1>5. CASE EnvironmentStep \/ UNCHANGED vars
  <2>1. CASE clips' = {} /\ hjob' = [h \in Handlers |-> NoJob]
    BY <2>1
  <2>2. CASE UNCHANGED <<clips, hjob, hsrc, resp>>
    BY <1>1, <2>2
  <2> QED  BY <1>5, <2>1, <2>2, EnvironmentAddsNoClip DEF Start, httpVars
<1> QED  BY <1>2, <1>3, <1>4, <1>5, NextSplits

\* The invariant is inductive unless Redis may lose the queue.
LEMMA AudioNext ==
  ASSUME "redisRestart" \notin Events, AudioInv, [Next]_vars
  PROVE  AudioInv'
<1>1. ServiceInv /\ ServiceInv'
  BY ServiceNextInv DEF AudioInv
<1>2. ASSUME NEW j \in clips'
      PROVE  j \in Creating' \cup stream' \/ \E c \in Dropping' : msg'[c] = j
  <2>1. CASE j \notin clips
    BY <1>1, <2>1, ClipsArrive
  <2>2. CASE j \in Creating
    BY <1>2, <2>2, RequestsEnd
  <2>3. CASE j \in stream
    BY <1>1, <2>3, EntriesLeave
  <2>4. CASE \E c \in Dropping : msg[c] = j
    BY <1>1, <1>2, <2>4, DropsStay
  <2> QED  BY <2>1, <2>2, <2>3, <2>4 DEF AudioInv, ClipsAccounted
<1> QED  BY <1>1, <1>2, UploadsNext DEF AudioInv, ClipsAccounted

\* The initial states.
LEMMA AudioInitial == Init => AudioInv
  BY ServiceInitInv, ServiceAssumption
  DEF Init, AudioInit, AudioInv, ClipsAccounted, ClipsAreUploads

\* The invariant holds unless Redis may lose the queue.
LEMMA AudioInvariant ==
  ASSUME "redisRestart" \notin Events
  PROVE  Spec => []AudioInv
<1>1. AudioInv /\ [Next]_vars => AudioInv'
  BY AudioNext
<1> QED  BY <1>1, AudioInitial, PTL DEF Spec

\* Every clip in memory has somebody who will free it, as long as Redis does
\* not lose the queue: the error paths of the handlers roll their clip back
\* and handle drops it whatever the outcome.
THEOREM AudioDoesNotLeak ==
  ASSUME "redisRestart" \notin Events
  PROVE  Spec => []NoAudioLeak
<1>1. AudioInv => NoAudioLeak
  BY DEF AudioInv, ClipsAccounted, Creating, Dropping, NoAudioLeak, InHand, Handling
<1> QED  BY <1>1, AudioInvariant, PTL

\* The values of a function on a finite set are at most as many as its elements.
LEMMA ImageSize ==
  ASSUME NEW S, IsFiniteSet(S), NEW f
  PROVE  /\ IsFiniteSet({f[x] : x \in S})
         /\ Cardinality({f[x] : x \in S}) <= Cardinality(S)
<1> DEFINE T == {f[x] : x \in S}
           g == [x \in S |-> f[x]]
<1>1. g \in Surjection(S, T)
  BY DEF Surjection
<1> QED  BY <1>1, FS_Surjection

\* A union has at most as many elements as its parts.
LEMMA UnionSize ==
  ASSUME NEW S, NEW T, IsFiniteSet(S), IsFiniteSet(T)
  PROVE  IsFiniteSet(S \cup T) /\ Cardinality(S \cup T) <= Cardinality(S) + Cardinality(T)
<1>1. /\ IsFiniteSet(S \cup T) /\ IsFiniteSet(S \cap T)
      /\ Cardinality(S \cup T) = Cardinality(S) + Cardinality(T) - Cardinality(S \cap T)
  BY FS_Union, FS_Intersection
<1> QED  BY <1>1, FS_CardinalityType

-----------------------------------------------------------------------------
(* GET /health.                                                            *)

\* What the probe can say of every clip in memory: its request was open since
\* the depth was read, its entry was seen, or its Drop is to come, by a goroutine
\* that is counted as busy once InFlight has been read.
ClipsReported ==
    probe # "idle" =>
        \A j \in clips :
            \/ j \in overlap \cup seen
            \/ \E c \in Dropping : msg[c] = j /\ (probe = "inFlight" => c \in busy)

HealthInv == AudioInv /\ HealthTypeOK /\ ClipsReported

\* A step of the service.
LEMMA HealthMeanwhile ==
  ASSUME "redisRestart" \notin Events, HealthInv, Next, Meanwhile
  PROVE  HealthInv'
<1>1. AudioInv /\ AudioInv' /\ ServiceInv
  BY AudioNext DEF HealthInv, AudioInv
<1>2. CASE Forget
  BY <1>1, <1>2 DEF Forget, HealthInv, HealthTypeOK, ClipsReported
<1>3. CASE overlap' = overlap \cup Creating' /\ UNCHANGED <<probe, seen, busy>>
  <2>1. HealthTypeOK'
    <3>1. Creating' \subseteq JobIds
      BY <1>1 DEF Creating, OpenRequests, AudioInv, ServiceInv, Types, TypeOK, HandlersTypeOK
    <3> QED  BY <1>3, <3>1 DEF HealthInv, HealthTypeOK
  <2>2. ASSUME NEW j \in clips', probe # "idle", j \notin overlap' \cup seen'
        PROVE  \E c \in Dropping' : msg'[c] = j /\ (probe = "inFlight" => c \in busy)
    <3>1. j \in clips /\ j \notin overlap \cup seen
      BY <1>1, <1>3, <2>2, ClipsArrive
    <3>2. PICK c \in Dropping : msg[c] = j /\ (probe = "inFlight" => c \in busy)
      BY <2>2, <3>1 DEF HealthInv, ClipsReported
    <3>3. c \in Dropping' /\ msg'[c] = msg[c]
      BY <1>1, <3>2, DropsStay
    <3> QED  BY <3>2, <3>3
  <2> QED  BY <1>1, <1>3, <2>1, <2>2 DEF HealthInv, ClipsReported
<1> QED  BY <1>2, <1>3 DEF Meanwhile

\* A step of the probe.
LEMMA HealthProbes ==
  ASSUME "redisRestart" \notin Events, HealthInv, ReadDepth \/ ReadInFlight \/ Report, UNCHANGED vars
  PROVE  HealthInv'
<1>1. AudioInv' /\ UNCHANGED <<clips, pc, msg>>
  BY AudioNext DEF HealthInv, vars, consumerVars
<1>2. CASE ReadDepth
  <2>1. Creating \subseteq JobIds /\ stream \subseteq JobIds
    BY DEF Creating, OpenRequests, HealthInv, AudioInv, ServiceInv, Types, TypeOK, HandlersTypeOK,
           RedisTypeOK
  <2> QED
    BY <1>1, <1>2, <2>1 DEF HealthInv, HealthTypeOK, AudioInv, ClipsAccounted, ClipsReported,
                            ReadDepth, Dropping
<1>3. CASE ReadInFlight
  <2>1. Dropping \subseteq busy' /\ busy' \subseteq Consumers
    BY <1>3 DEF ReadInFlight, Dropping, Handling
  <2> QED
    BY <1>1, <1>3, <2>1 DEF HealthInv, HealthTypeOK, ClipsReported, ReadInFlight, Dropping
<1>4. CASE Report
  BY <1>1, <1>4 DEF HealthInv, HealthTypeOK, ClipsReported, Report, Forget
<1> QED  BY <1>2, <1>3, <1>4

\* The invariant holds, for any number of probes.
LEMMA HealthInvariant ==
  ASSUME "redisRestart" \notin Events
  PROVE  HealthSpec => []HealthInv
<1>1. Init /\ HealthInit => HealthInv
  BY AudioInitial DEF HealthInit, HealthInv, HealthTypeOK, ClipsReported
<1>2. HealthInv /\ [HealthNext]_<<vars, healthVars>> => HealthInv'
  <2> SUFFICES ASSUME HealthInv, [HealthNext]_<<vars, healthVars>> PROVE HealthInv'
    OBVIOUS
  <2>1. CASE UNCHANGED <<vars, healthVars>>
    <3>1. AudioInv'
      BY <2>1, AudioNext DEF HealthInv
    <3>2. UNCHANGED <<clips, pc, msg, probe, seen, busy, overlap>>
      BY <2>1 DEF vars, consumerVars, healthVars
    <3> QED  BY <3>1, <3>2 DEF HealthInv, HealthTypeOK, ClipsReported, Dropping
  <2> QED  BY <2>1, HealthMeanwhile, HealthProbes DEF HealthNext
<1> QED  BY <1>1, <1>2, PTL DEF HealthSpec

\* As many clips as seen entries, busy goroutines and requests since, at most.
LEMMA ClipsCounted == HealthInv => HealthAccountsForAudio
<1> SUFFICES ASSUME HealthInv, probe = "inFlight"
             PROVE  audioInMemory <= queueDepth + inFlight + Cardinality(overlap)
  BY DEF HealthAccountsForAudio
<1> DEFINE Handled == {msg[c] : c \in busy}
<1>1. IsFiniteSet(busy) /\ IsFiniteSet(overlap) /\ IsFiniteSet(seen)
  <2>1. IsFiniteSet(Consumers)
    BY ServiceAssumption, FS_Singleton, FS_Union DEF Consumers
  <2> QED
    BY <2>1, RedisAssumption, FS_Subset DEF HealthInv, HealthTypeOK
<1>2. clips \subseteq seen \cup (Handled \cup overlap)
  BY DEF HealthInv, ClipsReported
<1>3. IsFiniteSet(Handled) /\ Cardinality(Handled) <= Cardinality(busy)
  BY <1>1, ImageSize
<1> HIDE DEF Handled
<1>4. /\ IsFiniteSet(Handled \cup overlap)
      /\ Cardinality(Handled \cup overlap) <= Cardinality(Handled) + Cardinality(overlap)
  BY <1>1, <1>3, UnionSize
<1>5. /\ IsFiniteSet(seen \cup (Handled \cup overlap))
      /\ Cardinality(seen \cup (Handled \cup overlap))
           <= Cardinality(seen) + Cardinality(Handled \cup overlap)
  BY <1>1, <1>4, UnionSize
<1>6. /\ Cardinality(clips) <= Cardinality(seen \cup (Handled \cup overlap))
      /\ IsFiniteSet(clips)
  BY <1>2, <1>5, FS_Subset
<1>7. /\ Cardinality(clips) \in Nat /\ Cardinality(seen) \in Nat
      /\ Cardinality(Handled) \in Nat /\ Cardinality(overlap) \in Nat
      /\ Cardinality(busy) \in Nat /\ Cardinality(Handled \cup overlap) \in Nat
      /\ Cardinality(seen \cup (Handled \cup overlap)) \in Nat
  BY <1>1, <1>3, <1>4, <1>5, <1>6, FS_CardinalityType
<1>8. Cardinality(clips) <= Cardinality(seen) + Cardinality(busy) + Cardinality(overlap)
  BY <1>3, <1>4, <1>5, <1>6, <1>7
<1> QED  BY <1>8 DEF audioInMemory, queueDepth, inFlight

\* handleHealth reads its three numbers at different times, and still they
\* account for the audio: whatever the service does between the reads, the
\* clips it counts last are no more than the entries and the handlings it
\* counted before and the uploads that arrived while it read.
THEOREM AudioIsAccountedFor ==
  ASSUME "redisRestart" \notin Events
  PROVE  HealthSpec => []HealthAccountsForAudio
  BY HealthInvariant, ClipsCounted, PTL

-----------------------------------------------------------------------------
(* Backpressure.                                                           *)

QueueInv == ServiceInv /\ QueueBound

\* The sets that QueueBound counts are finite.
LEMMA QueueFinite ==
  ASSUME TypeOK
  PROVE  /\ IsFiniteSet(stream) /\ QueueLen \in Nat
         /\ IsFiniteSet(Admitted) /\ Cardinality(Admitted) \in Nat
         /\ Cardinality(Admitted) <= Cardinality(Handlers) /\ Cardinality(Handlers) \in Nat
<1>1. stream \subseteq JobIds /\ Admitted \subseteq Handlers
  BY DEF TypeOK, RedisTypeOK, Admitted
<1>2. IsFiniteSet(JobIds) /\ IsFiniteSet(Handlers)
  BY RedisAssumption, ServiceAssumption
<1> QED  BY <1>1, <1>2, FS_Subset, FS_CardinalityType DEF QueueLen

\* Steps that neither enqueue nor admit.
LEMMA QueueShrinks ==
  ASSUME QueueInv, ServiceInv', stream' \subseteq stream, Admitted' \subseteq Admitted
  PROVE  QueueBound'
<1>1. TypeOK /\ TypeOK'
  BY DEF QueueInv, ServiceInv, Types
<1>2. Cardinality(stream') <= Cardinality(stream)
      /\ Cardinality(Admitted') <= Cardinality(Admitted)
      /\ Cardinality(stream') \in Nat /\ Cardinality(Admitted') \in Nat
  BY <1>1, QueueFinite, FS_Subset, FS_CardinalityType
<1> QED
  BY <1>1, <1>2, QueueFinite, RedisAssumption DEF QueueInv, QueueBound, QueueLen

\* EXEC turns an admitted handler into one entry.
LEMMA QueueExec ==
  ASSUME QueueInv, ServiceInv', NEW h \in Handlers, hpc[h] = "exec",
         stream' = stream \cup {hjob[h]}, Admitted' = Admitted \ {h}
  PROVE  QueueBound'
<1>1. TypeOK
  BY DEF QueueInv, ServiceInv, Types
<1>2. h \in Admitted
  BY DEF Admitted
<1>3. Cardinality(Admitted') = Cardinality(Admitted) - 1
  BY <1>1, <1>2, QueueFinite, FS_RemoveElement
<1>4. Cardinality(stream') <= Cardinality(stream) + 1 /\ Cardinality(stream') \in Nat
  <2>1. IsFiniteSet(stream) /\ Cardinality(stream) \in Nat
    BY <1>1, QueueFinite DEF QueueLen
  <2>2. Cardinality(stream') = IF hjob[h] \in stream THEN Cardinality(stream)
                                                     ELSE Cardinality(stream) + 1
    BY <2>1, FS_AddElement
  <2> QED  BY <2>1, <2>2
<1> QED
  BY <1>1, <1>3, <1>4, QueueFinite, RedisAssumption DEF QueueInv, QueueBound, QueueLen

\* The invariant is inductive.
LEMMA QueueNext == QueueInv /\ [Next]_vars => QueueInv'
<1> SUFFICES ASSUME QueueInv, [Next]_vars PROVE QueueInv'
  OBVIOUS
<1>1. ServiceInv'
  BY ServiceNextInv DEF QueueInv
<1>2. TypeOK /\ TypeOK' /\ hpc \in [Handlers -> HandlerPC]
  BY <1>1 DEF QueueInv, ServiceInv, Types, TypeOK, HandlersTypeOK
<1>3. CASE stream' \subseteq stream /\ Admitted' \subseteq Admitted
  BY <1>1, <1>3, QueueShrinks DEF QueueInv
<1>4. ASSUME NEW h \in Handlers, NEW j \in JobIds, NEW s \in Source, Accept(h, j, s)
      PROVE  QueueInv'
  BY <1>2, <1>3, <1>4 DEF Accept, redisVars, Admitted
<1>5. ASSUME NEW h \in Handlers, HandlerStep(h)
      PROVE  QueueInv'
  <2>1. CASE CheckDepth(h)
    <3>1. CASE ~QueueFull
      <4>1. stream' = stream
        BY <2>1 DEF CheckDepth, redisVars
      <4>2. Cardinality(stream) \in Nat /\ Cardinality(stream) < QueueSize
        BY <1>2, <3>1, QueueFinite, RedisAssumption DEF QueueFull, QueueLen
      <4>3. /\ Cardinality(Admitted') \in Nat /\ Cardinality(Handlers) \in Nat
            /\ Cardinality(Admitted') <= Cardinality(Handlers)
        <5>1. Admitted' \in SUBSET Handlers
          BY DEF Admitted
        <5> QED  BY <5>1, ServiceAssumption, FS_Subset, FS_CardinalityType
      <4>4. QueueBound'
        BY <4>1, <4>2, <4>3, RedisAssumption DEF QueueBound, QueueLen
      <4> QED  BY <1>1, <4>4 DEF QueueInv
    <3>2. CASE QueueFull
      BY <1>2, <1>3, <2>1, <3>2 DEF CheckDepth, redisVars, Admitted
    <3> QED  BY <3>1, <3>2
  <2>2. CASE AnswerAccepted(h) \/ Reject(h)
    BY <1>2, <1>3, <2>2 DEF AnswerAccepted, Reject, Finish, redisVars, Admitted
  <2>3. CASE hpc[h] = "exec" /\ Enqueue(hjob[h], hsrc[h])
             /\ \E to \in {"accepted", "error"} : hpc' = [hpc EXCEPT ![h] = to]
    <3>1. stream' = stream \cup {hjob[h]} /\ Admitted' = Admitted \ {h}
      BY <1>2, <2>3 DEF Enqueue, Admitted
    <3> QED  BY <1>1, <2>3, <3>1, QueueExec DEF QueueInv
  <2>4. CASE ExecuteFails(h) /\ UNCHANGED redisVars
    BY <1>2, <1>3, <2>4 DEF ExecuteFails, redisVars, Admitted
  <2> QED
    BY <1>5, <2>1, <2>2, <2>3, <2>4 DEF HandlerStep, Execute, ExecuteFails
<1>6. ASSUME NEW c \in Consumers, ConsumerStep(c)
      PROVE  QueueInv'
  <2>1. hpc' = hpc
    BY <1>6, ConsumerFrame DEF QueueInv, httpVars
  <2>2. stream' \subseteq stream
    <3>1. CASE HandleStep(c)
      BY <3>1 DEF HandleStep, LoadJob, SkipJob, MarkProcessing, FetchAudio, FetchFails,
         EnterGate, GateCancelled, FinishCall, Backoff, StoreResult, StoreFailure, AckMessage,
         Return, LoggedCall, SetProcessing, SetCompleted, SetFailed, Update, streamVars, Ack,
         redisVars
    <3>2. CASE ~HandleStep(c)
      BY <1>6, <3>2 DEF ConsumerStep, Poll, ReadMessage, ReadNothing, ClaimOrphans, ClaimLost,
         Stop, Read, Claim, redisVars
    <3> QED  BY <3>1, <3>2
  <2> QED  BY <1>3, <2>1, <2>2 DEF Admitted
<1>7. CASE EnvironmentStep
  <2>1. stream' \subseteq stream
    BY <1>7 DEF EnvironmentStep, Signal, CloseListener, Exit, Crash, ProcessEnds, Start,
       EnsureGroup, TurnWindow, RedisRestarts, Wipe, MessageIdle, GrowIdle, JobExpires, Expire,
       Update, streamVars, redisVars
  <2>2. Admitted' \subseteq Admitted
    BY <1>7 DEF EnvironmentStep, Signal, CloseListener, Exit, Crash, ProcessEnds, Start,
       TurnWindow, RedisRestarts, MessageIdle, JobExpires, httpVars, Admitted
  <2> QED  BY <1>3, <2>1, <2>2
<1>8. CASE UNCHANGED vars
  BY <1>3, <1>8 DEF vars, redisVars, httpVars, Admitted
<1> QED  BY <1>4, <1>5, <1>6, <1>7, <1>8, NextSplits

\* The initial states.
LEMMA QueueInitial == Init => QueueInv
<1> SUFFICES ASSUME Init PROVE QueueInv
  OBVIOUS
<1>1. ServiceInv
  BY ServiceInitInv
<1>2. stream = {} /\ Admitted = {}
  BY DEF Init, RedisInit, Admitted
<1>3. Cardinality(Handlers) \in Nat
  BY ServiceAssumption, FS_CardinalityType
<1> QED
  BY <1>1, <1>2, <1>3, FS_EmptySet, RedisAssumption DEF QueueInv, QueueBound, QueueLen

\* However requests race between XLEN and EXEC, they overshoot QUEUE_SIZE by
\* less than the number of requests being served at once; this holds for any
\* failures, lost replies, crashes and restarts.
THEOREM OvershootIsBounded == Spec => []QueueBound
  BY QueueInitial, QueueNext, PTL DEF Spec, QueueInv
=============================================================================
