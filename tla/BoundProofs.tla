----------------------------- MODULE BoundProofs -----------------------------
(***************************************************************************)
(* How much there can be at most: steps that a goroutine still takes, and  *)
(* pieces of audio in memory.                                              *)
(***************************************************************************)
EXTENDS RecoveryProofs, ResourceProofs

(* Progress.  WorkLeft weighs a retry with the three steps it repeats and  *)
(* a message of the batch with all of handle, so every step weighs less    *)
(* than what it replaces.                                                  *)

\* The arithmetic of the batch.
LEMMA Products ==
  ASSUME NEW n \in Nat
  PROVE  /\ \A m \in Nat : m * n \in Nat /\ (m + 1) * n = m * n + n
         /\ \A l, m \in Nat : l <= m => l * n <= m * n
  OBVIOUS

\* The measures are numbers, and a message is at most FullHandling.
LEMMA MeasureTypes ==
  ASSUME TypeOK, NEW c \in Consumers
  PROVE  /\ FullHandling \in Nat /\ Retries(c) \in 0..MaxRetries
         /\ IsFiniteSet(batch[c]) /\ Cardinality(batch[c]) \in Nat
         /\ StepsLeft(c) \in 0..FullHandling
         /\ StepsLeft(c) > 0 <=> pc[c] \in Handling
         /\ Cardinality(batch[c]) * FullHandling \in Nat
         /\ WorkLeft(c) \in Nat
         /\ pc[c] \in Handling => WorkLeft(c) > 0
<1>1. /\ attempt[c] \in 0..MaxRetries /\ pc[c] \in ConsumerPC /\ batch[c] \subseteq JobIds
      /\ MaxRetries \in Nat
  BY ServiceAssumption DEF TypeOK, ConsumersTypeOK
<1>2. FullHandling \in Nat /\ Retries(c) \in 0..MaxRetries
  BY <1>1 DEF FullHandling, Retries
<1>3. IsFiniteSet(batch[c]) /\ Cardinality(batch[c]) \in Nat
  BY <1>1, RedisAssumption, FS_Subset, FS_CardinalityType
<1>4. StepsLeft(c) \in 0..FullHandling /\ (StepsLeft(c) > 0 <=> pc[c] \in Handling)
  BY <1>1, <1>2 DEF StepsLeft, FullHandling, ConsumerPC, Handling
<1>5. Cardinality(batch[c]) * FullHandling \in Nat
  BY <1>2, <1>3, Products
<1> QED  BY <1>2, <1>3, <1>4, <1>5 DEF WorkLeft

\* A consumer changes neither the control nor the attempts of another.
LEMMA ConsumerPrivate ==
  ASSUME Types, NEW c \in Consumers, ConsumerStep(c), NEW d \in Consumers \ {c}
  PROVE  pc'[d] = pc[d] /\ batch'[d] = batch[d] /\ attempt'[d] = attempt[d]
<1>1. pc'[d] = pc[d] /\ batch'[d] = batch[d]
  BY ConsumerLocal, ConsumerBatch
<1>2. attempt'[d] = attempt[d]
  BY DEF Types, TypeOK, ConsumersTypeOK, ConsumerStep, HandleStep, Poll, ReadMessage,
     ReadNothing, ClaimOrphans, ClaimLost, Stop, LoadJob, SkipJob, MarkProcessing, FetchAudio,
     FetchFails, EnterGate, GateCancelled, RetryOrGiveUp, FinishCall, Backoff, StoreResult,
     StoreFailure, AckMessage, Return, consumerVars
<1> QED  BY <1>1, <1>2

\* Inside handle every step is counted.
LEMMA WalkDescends ==
  ASSUME Types, NEW c \in Consumers, HandleStep(c), ~Return(c)
  PROVE  /\ pc[c] \in Handling /\ pc'[c] # pc[c] /\ pc'[c] \in Handling
         /\ batch' = batch
         /\ StepsLeft(c)' \in Nat /\ StepsLeft(c)' < StepsLeft(c)
<1>0. /\ pc \in [Consumers -> ConsumerPC] /\ attempt \in [Consumers -> 0..MaxRetries]
      /\ MaxRetries \in Nat
  BY ServiceAssumption DEF Types, TypeOK, ConsumersTypeOK
<1> USE DEF Goto, Handling, StepsLeft, FullHandling, Retries
<1>1. CASE LoadJob(c) \/ SkipJob(c) \/ MarkProcessing(c)
  BY <1>0, <1>1 DEF LoadJob, SkipJob, MarkProcessing
<1>2. CASE FetchAudio(c) \/ FetchFails(c)
  BY <1>0, <1>2 DEF FetchAudio, FetchFails
<1>3. CASE EnterGate(c) \/ Backoff(c)
  BY <1>0, <1>3 DEF EnterGate, Backoff
<1>4. CASE GateCancelled(c)
  BY <1>0, <1>4 DEF GateCancelled, RetryOrGiveUp
<1>5. CASE FinishCall(c)
  BY <1>0, <1>5 DEF FinishCall, RetryOrGiveUp
<1>6. CASE StoreResult(c) \/ StoreFailure(c) \/ AckMessage(c)
  BY <1>0, <1>6 DEF StoreResult, StoreFailure, AckMessage
<1> QED  BY <1>1, <1>2, <1>3, <1>4, <1>5, <1>6 DEF HandleStep

\* Return takes the next message off the batch, or has none left.
LEMMA ReturnDescends ==
  ASSUME Types, NEW c \in Consumers, Return(c)
  PROVE  /\ pc[c] \in Handling /\ pc'[c] # pc[c] /\ pc'[c] \in Handling \cup {"idle"}
         /\ batch'[c] \subseteq batch[c]
         /\ WorkLeft(c)' \in Nat /\ WorkLeft(c)' < WorkLeft(c)
<1>0. /\ pc \in [Consumers -> ConsumerPC] /\ batch \in [Consumers -> SUBSET JobIds]
      /\ pc[c] = "drop"
  BY DEF Types, TypeOK, ConsumersTypeOK, Return, Goto
<1>1. /\ FullHandling \in Nat /\ IsFiniteSet(batch[c]) /\ Cardinality(batch[c]) \in Nat
      /\ StepsLeft(c) = 1 /\ WorkLeft(c) \in Nat
  BY <1>0, MeasureTypes DEF Types, StepsLeft
<1>2. CASE Goto(c, "drop", "idle") /\ UNCHANGED batch
  <2>1. StepsLeft(c)' = 0 /\ pc'[c] = "idle"
    BY <1>0, <1>2 DEF Goto, StepsLeft
  <2>2. Cardinality(batch[c]) * FullHandling \in Nat
    BY MeasureTypes DEF Types
  <2> QED  BY <1>0, <1>1, <1>2, <2>1, <2>2 DEF WorkLeft, Handling
<1>3. ASSUME NEW j \in batch[c], Goto(c, "drop", "get"), batch' = [batch EXCEPT ![c] = @ \ {j}]
      PROVE  /\ pc'[c] = "get" /\ batch'[c] \subseteq batch[c]
             /\ WorkLeft(c)' \in Nat /\ WorkLeft(c)' < WorkLeft(c)
  <2>1. pc'[c] = "get" /\ batch'[c] = batch[c] \ {j} /\ StepsLeft(c)' = FullHandling
    BY <1>0, <1>3 DEF Goto, StepsLeft
  <2>2. Cardinality(batch'[c]) \in Nat /\ Cardinality(batch[c]) = Cardinality(batch'[c]) + 1
    <3>1. /\ IsFiniteSet(batch[c] \ {j})
          /\ Cardinality(batch[c] \ {j}) = Cardinality(batch[c]) - 1
      BY <1>1, <1>3, FS_RemoveElement
    <3>2. Cardinality(batch[c] \ {j}) \in Nat
      BY <3>1, FS_CardinalityType
    <3> QED  BY <1>1, <2>1, <3>1, <3>2
  <2>3. /\ Cardinality(batch'[c]) * FullHandling \in Nat
        /\ Cardinality(batch[c]) * FullHandling
             = Cardinality(batch'[c]) * FullHandling + FullHandling
    BY <1>1, <2>2, Products
  <2> QED  BY <1>1, <2>1, <2>3 DEF WorkLeft
<1> QED  BY <1>0, <1>2, <1>3 DEF Return, Handling

\* A step of handle, of one goroutine.
LEMMA HandleDescends ==
  ASSUME Types, NEW c \in Consumers, HandleStep(c)
  PROVE  /\ pc[c] \in Handling /\ pc'[c] # pc[c] /\ pc'[c] \in Handling \cup {"idle"}
         /\ WorkLeft(c)' \in Nat /\ WorkLeft(c)' < WorkLeft(c)
<1>1. CASE Return(c)
  BY <1>1, ReturnDescends
<1>2. CASE ~Return(c)
  <2>1. batch' = batch /\ StepsLeft(c)' \in Nat /\ StepsLeft(c)' < StepsLeft(c)
    BY <1>2, WalkDescends
  <2>2. /\ StepsLeft(c) \in Nat
        /\ Cardinality(batch[c]) * FullHandling \in Nat
    BY MeasureTypes DEF Types
  <2>3. WorkLeft(c)' \in Nat /\ WorkLeft(c)' < WorkLeft(c)
    BY <2>1, <2>2 DEF WorkLeft
  <2> QED  BY <1>2, <2>3, WalkDescends
<1> QED  BY <1>1, <1>2

\* What all other steps do to the goroutines.
LEMMA OthersDoNotWork ==
  ASSUME Types,
         \/ \E h \in Handlers : HandlerStep(h) \/ \E j \in JobIds, s \in Source : Accept(h, j, s)
         \/ EnvironmentStep
         \/ UNCHANGED vars
  PROVE  \/ UNCHANGED <<pc, batch, attempt>>
         \/ /\ phase' = "down"
            /\ pc' = [c \in Consumers |-> "stopped"] /\ batch' = [c \in Consumers |-> {}]
         \/ phase' = "running" /\ \A c \in Consumers : pc[c] \notin Handling
<1>1. ASSUME NEW h \in Handlers, HandlerStep(h) \/ \E j \in JobIds, s \in Source : Accept(h, j, s)
      PROVE  UNCHANGED consumerVars
  BY <1>1 DEF HandlerStep, CheckDepth, Execute, ExecuteFails, AnswerAccepted, Reject, Finish, Accept
<1>2. CASE EnvironmentStep
  <2>1. CASE Exit \/ Crash
    BY <2>1 DEF Exit, Crash, ProcessEnds
  <2>2. CASE Start
    BY <2>2 DEF Start, Types, DownIsStopped, Handling
  <2>3. CASE ~(Exit \/ Crash \/ Start)
    <3>1. UNCHANGED consumerVars
      BY <1>2, <2>3 DEF EnvironmentStep, Signal, CloseListener, TurnWindow, RedisRestarts,
         MessageIdle, JobExpires
    <3> QED  BY <3>1 DEF consumerVars
  <2> QED  BY <2>1, <2>2, <2>3
<1>3. UNCHANGED vars => UNCHANGED consumerVars
  BY DEF vars
<1> QED  BY <1>1, <1>2, <1>3 DEF consumerVars

\* A goroutine that did not move has the work it had.
LEMMA WorkStays ==
  ASSUME NEW c \in Consumers, pc'[c] = pc[c], batch'[c] = batch[c], attempt'[c] = attempt[c]
  PROVE  WorkLeft(c)' = WorkLeft(c) /\ DrainLeft(c)' = DrainLeft(c)
<1>1. WorkLeft(c)' = WorkLeft(c)
  BY DEF WorkLeft, StepsLeft, Retries
<1> QED  BY <1>1 DEF DrainLeft

\* Every step of handle decreases the work of the goroutine that takes it, and
\* nobody else's step increases it.
LEMMA HandlingDescends ==
  ASSUME Types, [Next]_vars, NEW c \in Consumers, pc[c] \in Handling
  PROVE  IF pc'[c] = pc[c] THEN WorkLeft(c)' = WorkLeft(c) ELSE WorkLeft(c)' < WorkLeft(c)
<1>1. ASSUME NEW d \in Consumers, ConsumerStep(d), d # c
      PROVE  pc'[c] = pc[c] /\ WorkLeft(c)' = WorkLeft(c)
  BY <1>1, ConsumerPrivate, WorkStays
<1>2. ASSUME ConsumerStep(c)
      PROVE  \/ pc'[c] # pc[c] /\ WorkLeft(c)' < WorkLeft(c)
             \/ pc'[c] = pc[c] /\ WorkLeft(c)' = WorkLeft(c)
  <2>1. CASE HandleStep(c)
    BY <2>1, HandleDescends
  <2>2. CASE ClaimLost(c)
    BY <2>2, WorkStays DEF ClaimLost, consumerVars
  <2>3. CASE ~HandleStep(c) /\ ~ClaimLost(c)
    BY <1>2, <2>3 DEF ConsumerStep, Poll, ReadMessage, ReadNothing, ClaimOrphans, Stop, Goto,
                      Handling
  <2> QED  BY <2>1, <2>2, <2>3
<1>3. CASE \/ \E h \in Handlers : HandlerStep(h) \/ \E j \in JobIds, s \in Source : Accept(h, j, s)
           \/ EnvironmentStep
           \/ UNCHANGED vars
  <2>1. CASE UNCHANGED <<pc, batch, attempt>>
    BY <2>1, WorkStays
  <2>2. CASE /\ pc' = [d \in Consumers |-> "stopped"]
             /\ batch' = [d \in Consumers |-> {}]
    <3>1. pc'[c] = "stopped" /\ batch'[c] = {}
      BY <2>2
    <3>2. WorkLeft(c)' = 0
      BY <3>1, FS_EmptySet, MeasureTypes DEF WorkLeft, StepsLeft, FullHandling, Types
    <3> QED  BY <3>1, <3>2, MeasureTypes DEF Types, Handling
  <2> QED  BY <1>3, <2>1, <2>2, OthersDoNotWork
<1> QED  BY <1>1, <1>2, <1>3, NextSplits

\* handle terminates: whatever fails and whoever is scheduled, the work that a
\* goroutine has taken on decreases with every step it takes.
THEOREM HandlingTerminates == Spec => HandlingEnds
<1>1. ServiceInv /\ [Next]_vars
        => [\A c \in Consumers : pc[c] \in Handling =>
              IF pc'[c] = pc[c] THEN WorkLeft(c)' = WorkLeft(c)
                                ELSE WorkLeft(c)' < WorkLeft(c)]_vars
  BY HandlingDescends DEF ServiceInv
<1> QED  BY <1>1, ServiceInvariant, PTL DEF Spec, HandlingEnds

\* The messages a goroutine may take on: it had one when it took the batch.
Allowance(c) == IF c = Claimer THEN ClaimCount ELSE 1

BatchInv ==
    /\ ServiceInv
    /\ \A c \in Consumers : Cardinality(batch[c]) < Allowance(c)

\* XAUTOCLAIM's COUNT bounds the batch, and only the claimer has one.
LEMMA BatchConsumer ==
  ASSUME BatchInv, NEW c \in Consumers, ConsumerStep(c)
  PROVE  \A d \in Consumers : Cardinality(batch'[d]) < Allowance(d)
<1>0. /\ Types /\ batch \in [Consumers -> SUBSET JobIds] /\ ClaimCount \in Nat
      /\ IsFiniteSet(batch[c]) /\ Cardinality(batch[c]) \in Nat
  BY MeasureTypes, RedisAssumption
  DEF BatchInv, ServiceInv, Types, TypeOK, ConsumersTypeOK
<1>1. \A d \in Consumers \ {c} : batch'[d] = batch[d]
  BY <1>0, ConsumerBatch
<1>2. CASE ClaimOrphans(c) /\ c = Claimer
  <2>1. PICK B \in SUBSET JobIds : \E j \in B : Claim(B) /\ batch' = [batch EXCEPT ![c] = B \ {j}]
    BY <1>2 DEF ClaimOrphans
  <2>2. PICK j \in B : Claim(B) /\ batch'[c] = B \ {j}
    BY <1>0, <2>1
  <2>3. IsFiniteSet(B) /\ Cardinality(B) \in Nat /\ Cardinality(B) <= ClaimCount
    <3>1. IsFiniteSet(B) /\ Cardinality(B) \in Nat
      BY RedisAssumption, FS_Subset, FS_CardinalityType
    <3> QED  BY <1>0, <2>2, <3>1 DEF Claim
  <2>4. Cardinality(B \ {j}) = Cardinality(B) - 1
    BY <2>3, FS_RemoveElement
  <2>5. Cardinality(batch'[c]) < ClaimCount
    BY <1>0, <2>2, <2>3, <2>4
  <2> QED  BY <1>1, <1>2, <2>5 DEF BatchInv, Allowance
<1>3. CASE \/ Poll(c) \/ ReadMessage(c) \/ ReadNothing(c) \/ ClaimLost(c)
           \/ HandleStep(c) \/ Stop(c)
  <2>1. batch'[c] \subseteq batch[c]
    <3>1. CASE Return(c)
      BY <1>0, <3>1, ReturnDescends
    <3>2. CASE ~Return(c)
      BY <1>3, <3>2 DEF HandleStep, Poll, ReadMessage, ReadNothing, ClaimLost,
         Stop, LoadJob, SkipJob, MarkProcessing, FetchAudio, FetchFails, EnterGate,
         GateCancelled, FinishCall, Backoff, StoreResult, StoreFailure, AckMessage, consumerVars
    <3> QED  BY <3>1, <3>2
  <2>2. Cardinality(batch'[c]) <= Cardinality(batch[c]) /\ Cardinality(batch'[c]) \in Nat
    BY <1>0, <2>1, FS_Subset, FS_CardinalityType
  <2>3. Cardinality(batch'[c]) < Allowance(c)
    BY <1>0, <2>2 DEF BatchInv, Allowance
  <2> QED  BY <1>1, <2>3 DEF BatchInv
<1> QED  BY <1>2, <1>3 DEF ConsumerStep

\* The invariant is inductive.
LEMMA BatchNext == BatchInv /\ [Next]_vars => BatchInv'
<1> SUFFICES ASSUME BatchInv, [Next]_vars PROVE BatchInv'
  OBVIOUS
<1>1. ServiceInv' /\ Types
  BY ServiceNextInv DEF BatchInv, ServiceInv
<1>2. ASSUME NEW c \in Consumers, ConsumerStep(c)
      PROVE  BatchInv'
  BY <1>1, <1>2, BatchConsumer DEF BatchInv, Allowance
<1>3. CASE \/ \E h \in Handlers : HandlerStep(h) \/ \E j \in JobIds, s \in Source : Accept(h, j, s)
           \/ EnvironmentStep
           \/ UNCHANGED vars
  <2>1. CASE UNCHANGED batch
    BY <1>1, <2>1 DEF BatchInv, Allowance
  <2>2. CASE batch' = [c \in Consumers |-> {}]
    BY <1>1, <2>2, FS_EmptySet, RedisAssumption DEF BatchInv, Allowance
  <2>3. UNCHANGED batch \/ batch' = [c \in Consumers |-> {}]
    <3>1. CASE Exit \/ Crash
      BY <3>1 DEF Exit, Crash, ProcessEnds
    <3>2. CASE ~(Exit \/ Crash)
      BY <1>3, <3>2 DEF HandlerStep, CheckDepth, Execute, ExecuteFails, AnswerAccepted, Reject, Finish, Accept,
         EnvironmentStep, Signal, CloseListener, Start, TurnWindow, RedisRestarts, MessageIdle,
         JobExpires, consumerVars, vars
    <3> QED  BY <3>1, <3>2
  <2> QED  BY <2>1, <2>2, <2>3
<1> QED  BY <1>2, <1>3, NextSplits

\* The invariant always holds.
LEMMA BatchInvariant == Spec => []BatchInv
<1>1. ASSUME Init PROVE BatchInv
  <2>1. \A c \in Consumers : batch[c] = {}
    BY <1>1 DEF Init
  <2> QED
    BY <1>1, <2>1, ServiceInitInv, FS_EmptySet, RedisAssumption DEF BatchInv, Allowance
<1> QED  BY <1>1, BatchNext, PTL DEF Spec

\* A worker has at most one handling before it, the claimer at most as many as
\* the COUNT of XAUTOCLAIM, retries included.
THEOREM WorkStaysBounded == Spec => []WorkIsBounded
<1>1. ASSUME BatchInv, NEW c \in Consumers
      PROVE  WorkLeft(c) <= Allowance(c) * FullHandling
  <2> DEFINE n == Cardinality(batch[c])
  <2>1. /\ n \in Nat /\ FullHandling \in Nat /\ StepsLeft(c) \in 0..FullHandling
        /\ Allowance(c) \in Nat /\ n + 1 <= Allowance(c)
    BY <1>1, MeasureTypes, RedisAssumption DEF BatchInv, ServiceInv, Types, Allowance
  <2> HIDE DEF n
  <2>2. /\ n * FullHandling \in Nat /\ Allowance(c) * FullHandling \in Nat
        /\ n * FullHandling + FullHandling <= Allowance(c) * FullHandling
    <3>1. n + 1 \in Nat
      BY <2>1
    <3>2. (n + 1) * FullHandling = n * FullHandling + FullHandling
      BY <2>1, Products
    <3>3. (n + 1) * FullHandling <= Allowance(c) * FullHandling
      BY <2>1, <3>1, Products
    <3> QED  BY <2>1, <3>2, <3>3, Products
  <2>3. StepsLeft(c) + n * FullHandling <= Allowance(c) * FullHandling
    BY <2>1, <2>2
  <2> QED  BY <2>3 DEF WorkLeft, n
<1>2. BatchInv => WorkIsBounded
  BY <1>1 DEF WorkIsBounded, Allowance
<1> QED  BY <1>2, BatchInvariant, PTL

\* With the context cancelled a goroutine only goes on towards its return.
LEMMA DrainDescends ==
  ASSUME Types, [Next]_vars, CtxDone, CtxDone', NEW c \in Consumers
  PROVE  IF pc'[c] = pc[c] THEN DrainLeft(c)' = DrainLeft(c)
                           ELSE DrainLeft(c)' < DrainLeft(c)
<1>1. ASSUME NEW d \in Consumers, ConsumerStep(d), d # c
      PROVE  pc'[c] = pc[c] /\ DrainLeft(c)' = DrainLeft(c)
  BY <1>1, ConsumerPrivate, WorkStays
<1>2. ASSUME ConsumerStep(c)
      PROVE  \/ pc'[c] # pc[c] /\ DrainLeft(c)' < DrainLeft(c)
             \/ pc'[c] = pc[c] /\ DrainLeft(c)' = DrainLeft(c)
  <2>0. pc \in [Consumers -> ConsumerPC] /\ FullHandling \in Nat
    BY MeasureTypes DEF Types, TypeOK, ConsumersTypeOK
  <2>1. CASE HandleStep(c)
    <3>1. /\ pc[c] \in Handling /\ pc'[c] # pc[c] /\ pc'[c] \in Handling \cup {"idle"}
          /\ WorkLeft(c)' \in Nat /\ WorkLeft(c)' < WorkLeft(c)
          /\ WorkLeft(c) \in Nat /\ WorkLeft(c) > 0
      BY <2>1, HandleDescends, MeasureTypes DEF Types
    <3>2. DrainLeft(c) = 1 + WorkLeft(c)
      BY <3>1 DEF DrainLeft, Handling
    <3>3. DrainLeft(c)' = IF pc'[c] = "idle" THEN 1 ELSE 1 + WorkLeft(c)'
      BY <3>1 DEF DrainLeft, Handling
    <3> QED  BY <3>1, <3>2, <3>3
  <2>2. CASE ReadMessage(c)
    <3>1. pc[c] = "read" /\ pc'[c] = "get" /\ batch'[c] = {}
      BY <2>0, <2>2 DEF ReadMessage, Goto, Types, TypeOK, ConsumersTypeOK, Handling
    <3>2. WorkLeft(c)' = FullHandling
      BY <2>0, <3>1, FS_EmptySet DEF WorkLeft, StepsLeft
    <3> QED  BY <2>0, <3>1, <3>2 DEF DrainLeft, Handling
  <2>3. CASE ReadNothing(c) \/ Stop(c)
    BY <2>0, <2>3 DEF ReadNothing, Stop, Goto, DrainLeft, Handling
  <2>4. ~(Poll(c) \/ ClaimOrphans(c) \/ ClaimLost(c))
    BY DEF Poll, ClaimOrphans, ClaimLost
  <2> QED  BY <1>2, <2>1, <2>2, <2>3, <2>4 DEF ConsumerStep
<1>3. CASE \/ \E h \in Handlers : HandlerStep(h) \/ \E j \in JobIds, s \in Source : Accept(h, j, s)
           \/ EnvironmentStep
           \/ UNCHANGED vars
  <2>1. UNCHANGED <<pc, batch, attempt>>
    BY <1>3, OthersDoNotWork DEF CtxDone
  <2> QED  BY <2>1, WorkStays
<1> QED  BY <1>1, <1>2, <1>3, NextSplits

\* Once the context is cancelled no goroutine takes on anything but what its
\* blocked read still delivers, and each step brings it nearer to its return:
\* however late Redis, the upstream and the scheduler are, the drain is finite.
THEOREM ShutdownOnlyDrains == Spec => ShutdownDrains
<1>1. ServiceInv /\ [Next]_vars
        => [\A c \in Consumers : CtxDone /\ CtxDone' =>
              IF pc'[c] = pc[c] THEN DrainLeft(c)' = DrainLeft(c)
                                ELSE DrainLeft(c)' < DrainLeft(c)]_vars
  BY DrainDescends DEF ServiceInv
<1> QED  BY <1>1, ServiceInvariant, PTL DEF Spec, ShutdownDrains

-----------------------------------------------------------------------------
(* Audio in memory.  Every piece belongs to a job: a clip to one in the    *)
(* queue, with a handler or about to be dropped, a buffer to one in the    *)
(* queue.  It remains to see that no job has both.                         *)

\* The job of c has no clip: it was taken, or there never was one.
HasNoClip(c) ==
    \/ pc[c] \in {"gate", "call", "backoff"}
    \/ pc[c] \in {"mark", "fetch"} /\ src[c] = "url"

OneCopy ==
    /\ \A j \in clips : hash[j].source # "url"
    /\ \A c \in Consumers : HasNoClip(c) => msg[c] \notin clips

CopyInv == OutcomeInv /\ AudioInv /\ OneCopy

\* A consumer comes to work without a clip by taking it, or by reading that
\* the job has a URL.
LEMMA CopyConsumer ==
  ASSUME CopyInv, NEW c \in Consumers, ConsumerStep(c)
  PROVE  OneCopy'
<1>0. /\ Types /\ pc \in [Consumers -> ConsumerPC] /\ src \in [Consumers -> Source \cup {"none"}]
      /\ msg \in [Consumers -> JobIds \cup {NoJob}]
      /\ clips \subseteq JobIds /\ clips' \subseteq clips
      /\ pc[c] \in Handling => msg[c] \in JobIds
  BY ConsumerClips DEF CopyInv, AudioInv, ServiceInv, Types, TypeOK, ConsumersTypeOK,
     HandlersTypeOK
<1>1. \A j \in clips' : hash'[j].source # "url"
  BY <1>0, ConsumerSource DEF CopyInv, OneCopy
<1>2. ASSUME NEW d \in Consumers \ {c}, HasNoClip(d)'
      PROVE  msg'[d] \notin clips'
  <2>1. pc'[d] = pc[d] /\ msg'[d] = msg[d]
    BY <1>0, ConsumerLocal
  <2>2. src'[d] = src[d]
    BY <1>0 DEF ConsumerStep, HandleStep, Poll, ReadMessage,
     ReadNothing, ClaimOrphans, ClaimLost, Stop, LoadJob, SkipJob, MarkProcessing, FetchAudio,
     FetchFails, EnterGate, GateCancelled, FinishCall, Backoff, StoreResult,
     StoreFailure, AckMessage, Return, consumerVars
  <2> QED  BY <1>0, <1>2, <2>1, <2>2 DEF HasNoClip, CopyInv, OneCopy
<1>3. ASSUME HasNoClip(c)'
      PROVE  msg'[c] \notin clips'
  <2> USE DEF HasNoClip, Goto
  <2>1. CASE LoadJob(c)
    BY <1>0, <1>3, <2>1 DEF LoadJob, CopyInv, OneCopy, Handling
  <2>2. CASE FetchAudio(c)
    BY <1>0, <2>2 DEF FetchAudio, Take, CopyInv, OneCopy
  <2>3. CASE MarkProcessing(c) \/ EnterGate(c) \/ Backoff(c) \/ GateCancelled(c) \/ FinishCall(c)
    <3>1. HasNoClip(c) /\ msg'[c] = msg[c]
      BY <1>0, <1>3, <2>3 DEF MarkProcessing, EnterGate, Backoff, GateCancelled, FinishCall,
                            RetryOrGiveUp
    <3> QED  BY <1>0, <3>1 DEF CopyInv, OneCopy
  <2>4. CASE ClaimLost(c)
    BY <1>0, <1>3, <2>4 DEF ClaimLost, consumerVars, CopyInv, OneCopy
  <2>5. CASE Poll(c) \/ ReadMessage(c) \/ ReadNothing(c) \/ ClaimOrphans(c) \/ Stop(c)
    BY <1>0, <1>3, <2>5 DEF Poll, ReadMessage, ReadNothing, ClaimOrphans, Stop
  <2>6. CASE \/ SkipJob(c) \/ FetchFails(c) \/ StoreResult(c) \/ StoreFailure(c)
             \/ AckMessage(c) \/ Return(c)
    BY <1>0, <1>3, <2>6 DEF SkipJob, FetchFails, StoreResult, StoreFailure, AckMessage, Return
  <2> QED  BY <2>1, <2>2, <2>3, <2>4, <2>5, <2>6 DEF ConsumerStep, HandleStep
<1> QED  BY <1>1, <1>2, <1>3 DEF OneCopy

\* Requests stash the clip of a job that is nowhere else yet, and enqueue as a
\* URL job only what has no clip.
LEMMA CopyRequest ==
  ASSUME CopyInv, NEW h \in Handlers,
         HandlerStep(h) \/ \E j \in JobIds, s \in Source : Accept(h, j, s)
  PROVE  OneCopy'
<1>0. /\ UNCHANGED consumerVars /\ ServiceInv
      /\ hash \in [JobIds -> Hash] /\ clips \subseteq JobIds
      /\ hpc[h] # "idle" => hjob[h] \in JobIds
  BY DEF HandlerStep, CheckDepth, Execute, ExecuteFails, AnswerAccepted, Reject, Finish, Accept, CopyInv, AudioInv,
         ServiceInv, Types, TypeOK, RedisTypeOK, HandlersTypeOK
<1>1. \A c \in Consumers : HasNoClip(c)' = HasNoClip(c) /\ msg'[c] = msg[c]
  BY <1>0 DEF HasNoClip, consumerVars
<1>2. CASE clips' \subseteq clips /\ hash' = hash
  BY <1>1, <1>2 DEF CopyInv, OneCopy
<1>3. ASSUME NEW j \in JobIds, NEW s \in Source, Accept(h, j, s)
      PROVE  OneCopy'
  <2>1. hash' = hash /\ clips' \subseteq clips \cup {j} /\ entryId[j] = 0
    BY <1>0, <1>3 DEF Accept, Put, redisVars, ServiceInv, FreshJobs
  <2>2. hash[j].source # "url"
    BY <2>1 DEF CopyInv, OutcomeInv, FreshAbsent, Absent
  <2>3. \A c \in Consumers : HasNoClip(c) => msg[c] # j
    BY <1>0, <2>1 DEF HasNoClip, ServiceInv, HandsDelivered, InHand, Handling
  <2> QED  BY <1>1, <2>1, <2>2, <2>3 DEF CopyInv, OneCopy
<1>4. CASE CheckDepth(h) \/ Reject(h) \/ AnswerAccepted(h)
  <2>1. clips' \subseteq clips /\ hash' = hash
    BY <1>4 DEF CheckDepth, Reject, AnswerAccepted, Drop, redisVars
  <2> QED  BY <1>2, <2>1
<1>5. CASE Execute(h) \/ ExecuteFails(h)
  <2>1. CASE UNCHANGED redisVars
    BY <1>2, <1>5, <2>1 DEF Execute, ExecuteFails, redisVars
  <2>2. CASE Enqueue(hjob[h], hsrc[h])
    <3>1. clips' = clips /\ hjob[h] \in JobIds
      BY <1>0, <1>5 DEF Execute, ExecuteFails
    <3>2. hash'[hjob[h]].source = hsrc[h] /\ \A k \in JobIds \ {hjob[h]} : hash'[k] = hash[k]
      BY <1>0, <2>2, <3>1 DEF Enqueue, Absent
    <3>3. hjob[h] \in clips => hsrc[h] # "url"
      BY DEF CopyInv, AudioInv, ClipsAreUploads
    <3> QED  BY <1>0, <1>1, <3>1, <3>2, <3>3 DEF CopyInv, OneCopy
  <2> QED  BY <1>5, <2>1, <2>2 DEF Execute, ExecuteFails
<1> QED  BY <1>3, <1>4, <1>5 DEF HandlerStep

\* The environment adds no clip and no URL.
LEMMA CopyEnvironment ==
  ASSUME CopyInv, EnvironmentStep \/ UNCHANGED vars
  PROVE  OneCopy'
<1>0. hash \in [JobIds -> Hash] /\ clips \subseteq JobIds
  BY DEF CopyInv, AudioInv, ServiceInv, Types, TypeOK, RedisTypeOK, HandlersTypeOK
<1>1. CASE Exit \/ Crash
  BY <1>1 DEF Exit, Crash, ProcessEnds, OneCopy, HasNoClip
<1>2. CASE Start
  BY <1>2 DEF Start, EnsureGroup, CopyInv, OneCopy, HasNoClip
<1>3. CASE ~(Exit \/ Crash \/ Start)
  <2>1. UNCHANGED <<clips, consumerVars>>
    BY <1>3 DEF EnvironmentStep, Signal, CloseListener, TurnWindow, RedisRestarts, MessageIdle,
       JobExpires, vars
  <2>2. \A j \in JobIds : hash'[j] \in {hash[j], Absent}
    <3>1. CASE RedisRestarts
      BY <3>1 DEF RedisRestarts, Wipe
    <3>2. CASE \E j \in JobIds : JobExpires(j)
      BY <1>0, <3>2 DEF JobExpires, Expire, Update
    <3>3. CASE ~(RedisRestarts \/ \E j \in JobIds : JobExpires(j))
      BY <1>3, <3>3 DEF EnvironmentStep, Signal, CloseListener, TurnWindow, MessageIdle,
         GrowIdle, redisVars, vars
    <3> QED  BY <3>1, <3>2, <3>3
  <2>3. \A c \in Consumers : HasNoClip(c)' = HasNoClip(c) /\ msg'[c] = msg[c]
    BY <2>1 DEF HasNoClip, consumerVars
  <2> QED  BY <1>0, <2>1, <2>2, <2>3 DEF CopyInv, OneCopy, Absent
<1> QED  BY <1>1, <1>2, <1>3

\* All that AudioBound rests on.
MemoryInv == CopyInv /\ BacklogInv /\ GateInv /\ QueueInv

\* The invariant holds when handling is prompt and Redis keeps its data.
LEMMA MemoryInvariant ==
  ASSUME "slowHandling" \notin Events, "redisRestart" \notin Events
  PROVE  Spec => []MemoryInv
<1>1. ASSUME Init PROVE MemoryInv
  <2>1. OutcomeInv /\ BacklogInv /\ GateInv /\ AudioInv
    BY <1>1, OutcomeInit, BacklogInit, GateInitial, AudioInitial
  <2>2. QueueInv
    BY <1>1, QueueInitial
  <2>3. OneCopy
    BY <1>1 DEF Init, AudioInit, OneCopy
  <2> QED  BY <2>1, <2>2, <2>3 DEF MemoryInv, CopyInv
<1>2. ASSUME MemoryInv, [Next]_vars PROVE MemoryInv'
  <2>1. OutcomeInv' /\ BacklogInv' /\ GateInv' /\ QueueInv' /\ AudioInv'
    BY <1>2, OutcomeNext, BacklogNext, GateNext, QueueNext, AudioNext DEF MemoryInv, CopyInv
  <2>2. OneCopy'
    BY <1>2, NextSplits, CopyConsumer, CopyRequest, CopyEnvironment DEF MemoryInv
  <2> QED  BY <2>1, <2>2 DEF MemoryInv, CopyInv
<1> QED  BY <1>1, <1>2, PTL DEF Spec

\* The jobs of the goroutines with a buffer are as many as the buffers.
LEMMA BuffersCounted ==
  ASSUME MemoryInv
  PROVE  /\ IsFiniteSet({msg[c] : c \in held})
         /\ Cardinality({msg[c] : c \in held}) = Cardinality(held)
<1> DEFINE Buffered == {msg[c] : c \in held}
           f == [c \in held |-> msg[c]]
<1>1. IsFiniteSet(held) /\ held \subseteq Consumers
  <2>1. IsFiniteSet(Consumers)
    BY ServiceAssumption, FS_Singleton, FS_Union DEF Consumers
  <2>2. held \subseteq Consumers
    BY DEF MemoryInv, GateInv, BufferOnlyWhileTranscribing
  <2> QED  BY <2>1, <2>2, FS_Subset
<1>2. \A c, d \in held : msg[c] = msg[d] => c = d
  <2>1. \A c \in held : msg[c] \in InHand(c)
    BY DEF MemoryInv, GateInv, BufferOnlyWhileTranscribing, InHand, Handling
  <2> QED  BY <1>1, <2>1 DEF MemoryInv, BacklogInv, HandInv, SingleHandler
<1>3. f \in Bijection(held, Buffered)
  <2>1. f \in [held -> Buffered] /\ \A c \in held : f[c] = msg[c]
    OBVIOUS
  <2>2. f \in Injection(held, Buffered)
    BY <1>2, <2>1 DEF Injection, IsInjective
  <2>3. f \in Surjection(held, Buffered)
    BY <2>1 DEF Surjection
  <2> QED  BY <2>2, <2>3 DEF Bijection
<1> QED  BY <1>1, <1>3, FS_Bijection DEF ExistsBijection

\* Clips and buffers belong to different jobs, each of an entry of the queue,
\* an open request or a deferred Drop.
LEMMA AudioCounted == MemoryInv => AudioBound
<1> SUFFICES ASSUME MemoryInv PROVE AudioBound
  OBVIOUS
<1> DEFINE Buffered  == {msg[c] : c \in held}
           Requested == Creating
           Dropped   == {msg[c] : c \in Dropping}
           Rest      == Requested \cup Dropped
<1>1. TypeOK /\ held = {c \in Consumers : pc[c] \in {"gate", "call", "backoff"}}
  BY DEF MemoryInv, CopyInv, AudioInv, ServiceInv, Types, GateInv, BufferOnlyWhileTranscribing
<1>2. /\ IsFiniteSet(stream) /\ IsFiniteSet(OpenRequests) /\ IsFiniteSet(Dropping)
      /\ IsFiniteSet(clips)
  <2>1. IsFiniteSet(Consumers)
    BY ServiceAssumption, FS_Singleton, FS_Union DEF Consumers
  <2> QED
    BY <1>1, <2>1, ServiceAssumption, RedisAssumption, FS_Subset
    DEF OpenRequests, Dropping, TypeOK, RedisTypeOK, HandlersTypeOK
<1>3. IsFiniteSet(Buffered) /\ Cardinality(Buffered) = Cardinality(held)
  BY BuffersCounted
<1>4. clips \cap Buffered = {}
  BY <1>1 DEF MemoryInv, CopyInv, OneCopy, HasNoClip
<1>5. Buffered \subseteq stream
  BY <1>1 DEF MemoryInv, BacklogInv, BacklogCountsInFlight, Handling
<1>6. clips \subseteq stream \cup Rest
  BY DEF MemoryInv, CopyInv, AudioInv, ClipsAccounted
<1>7. /\ IsFiniteSet(Requested) /\ Cardinality(Requested) <= Cardinality(OpenRequests)
      /\ IsFiniteSet(Dropped) /\ Cardinality(Dropped) <= Cardinality(Dropping)
  BY <1>2, ImageSize DEF Creating
<1> HIDE DEF Buffered, Requested, Dropped
<1>8. /\ IsFiniteSet(Rest)
      /\ Cardinality(Rest) <= Cardinality(Requested) + Cardinality(Dropped)
  BY <1>7, UnionSize
<1> HIDE DEF Rest
<1>9. /\ IsFiniteSet(stream \cup Rest)
      /\ Cardinality(stream \cup Rest) <= Cardinality(stream) + Cardinality(Rest)
  BY <1>2, <1>8, UnionSize
<1>10. Cardinality(clips \cup Buffered) = Cardinality(clips) + Cardinality(Buffered)
  <2>1. Cardinality(clips \cup Buffered)
          = Cardinality(clips) + Cardinality(Buffered) - Cardinality(clips \cap Buffered)
    BY <1>2, <1>3, FS_Union
  <2>2. Cardinality(clips \cap Buffered) = 0
    BY <1>4, FS_EmptySet
  <2>3. Cardinality(clips) \in Nat /\ Cardinality(Buffered) \in Nat
    BY <1>2, <1>3, FS_CardinalityType
  <2> QED  BY <2>1, <2>2, <2>3
<1>11. Cardinality(clips \cup Buffered) <= Cardinality(stream \cup Rest)
  BY <1>5, <1>6, <1>9, FS_Subset
<1>12. /\ Cardinality(clips) \in Nat /\ Cardinality(held) \in Nat
       /\ Cardinality(stream) \in Nat /\ Cardinality(Rest) \in Nat
       /\ Cardinality(Requested) \in Nat /\ Cardinality(Dropped) \in Nat
       /\ Cardinality(OpenRequests) \in Nat /\ Cardinality(Dropping) \in Nat
       /\ Cardinality(stream \cup Rest) \in Nat
  BY <1>1, <1>2, <1>3, <1>7, <1>8, <1>9, FS_CardinalityType
<1> QED
  BY <1>3, <1>7, <1>8, <1>9, <1>10, <1>11, <1>12 DEF AudioBound, QueueLen

\* Stashed clips and buffers in use never outnumber the entries of the queue but
\* for the requests that may still roll back and the Drops still to run.
THEOREM AudioIsBounded ==
  ASSUME "slowHandling" \notin Events, "redisRestart" \notin Events
  PROVE  Spec => []AudioBound
  BY MemoryInvariant, AudioCounted, PTL

\* What is left when the Drops are done depends on QUEUE_SIZE and the requests
\* that race for the queue, and not on the number of workers.
AudioLimit ==
    Cardinality(clips) + Cardinality(held)
        < QueueSize + 2 * Cardinality(Handlers) + Cardinality(Dropping)

\* A POST stashes its audio before it asks for room (server.go:211), and the depth
\* check races with EXEC (store.go:76): however many workers there are, what
\* QUEUE_SIZE admits, twice the requests at a time and the Drops still to run
\* bound the pieces of audio in memory.
THEOREM AudioIsLimited ==
  ASSUME "slowHandling" \notin Events, "redisRestart" \notin Events
  PROVE  Spec => []AudioLimit
<1>1. MemoryInv => AudioLimit
  <2> SUFFICES ASSUME MemoryInv PROVE AudioLimit
    OBVIOUS
  <2>1. AudioBound /\ QueueBound /\ TypeOK
    BY AudioCounted
    DEF MemoryInv, QueueInv, CopyInv, AudioInv, ServiceInv, Types
  <2>2. /\ IsFiniteSet(OpenRequests) /\ IsFiniteSet(Admitted) /\ IsFiniteSet(Dropping)
        /\ IsFiniteSet(clips) /\ IsFiniteSet(held) /\ IsFiniteSet(stream)
        /\ Cardinality(OpenRequests) <= Cardinality(Handlers)
    <3>1. IsFiniteSet(Consumers)
      BY ServiceAssumption, FS_Singleton, FS_Union DEF Consumers
    <3> QED
      BY <2>1, <3>1, ServiceAssumption, RedisAssumption, FS_Subset
      DEF OpenRequests, Admitted, Dropping, TypeOK, RedisTypeOK, ConsumersTypeOK, HandlersTypeOK
  <2>3. /\ Cardinality(clips) \in Nat /\ Cardinality(held) \in Nat
        /\ Cardinality(stream) \in Nat /\ Cardinality(Handlers) \in Nat
        /\ Cardinality(OpenRequests) \in Nat /\ Cardinality(Admitted) \in Nat
        /\ Cardinality(Dropping) \in Nat
    BY <2>2, ServiceAssumption, FS_CardinalityType
  <2> QED  BY <2>1, <2>2, <2>3, RedisAssumption DEF AudioBound, QueueBound, QueueLen, AudioLimit
<1> QED  BY <1>1, MemoryInvariant, PTL
=============================================================================
