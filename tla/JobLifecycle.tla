---------------------------- MODULE JobLifecycle ----------------------------
(***************************************************************************)
(* What a client is promised about its jobs, without queue, workers or     *)
(* processes: the answer to its request, and the status it polls.          *)
(*                                                                         *)
(*     created: queued -> processing -> completed or failed                *)
(*                                                                         *)
(* A 202 promises a job that was created; a request that is refused left   *)
(* none behind.  A request that dies with the process may have left one,   *)
(* which nobody was told of and which lives on like any other.  A status   *)
(* can be forgotten at any time; a job that is being processed then may    *)
(* show up once more.                                                      *)
(*                                                                         *)
(* If replies can be lost, a 500 may leave a job behind too, and a lost    *)
(* update may skip processing.                                             *)
(***************************************************************************)
CONSTANTS JobIds,
          Lossy      \* can the reply to an update, or the update, be lost

VARIABLES answer,   \* how the request of each job was answered
          created,  \* the jobs that have ever been there
          view      \* the status GET /jobs/{id} shows, "none" for a 404

lifecycleVars == <<answer, created, view>>

Refusals == {"429", "500", "lost"}
Outcomes == {"completed", "failed"}

LifecycleInit ==
    /\ answer = [j \in JobIds |-> "waiting"]
    /\ created = {}
    /\ view = [j \in JobIds |-> "none"]

Show(j, status) == view' = [view EXCEPT ![j] = status] /\ UNCHANGED answer

CreateJob(j) ==
    /\ answer[j] = "waiting" /\ j \notin created
    /\ created' = created \cup {j}
    /\ Show(j, "queued")

AcceptJob(j) ==
    /\ answer[j] = "waiting" /\ j \in created
    /\ answer' = [answer EXCEPT ![j] = "202"]
    /\ UNCHANGED <<created, view>>

\* The refusals that deny that there is a job.
Denials == {"429"} \cup (IF Lossy THEN {} ELSE {"500"})

\* One request is refused, or all that are waiting when the process ends.
RefuseJobs ==
    /\ \E r \in Refusals, S \in SUBSET JobIds :
          /\ \A j \in S : answer[j] = "waiting" /\ (r \in Denials => j \notin created)
          /\ answer' = [j \in JobIds |-> IF j \in S THEN r ELSE answer[j]]
    /\ UNCHANGED <<created, view>>

BeginJob(j) ==
    /\ j \in created /\ view[j] \in {"queued", "none"}
    /\ Show(j, "processing")
    /\ UNCHANGED created

SettleJob(j) ==
    /\ j \in created
    /\ view[j] \in {"processing", "none"} \/ (Lossy /\ view[j] = "queued")
    /\ \E outcome \in Outcomes : Show(j, outcome)
    /\ UNCHANGED created

ForgetJobs ==
    /\ \E S \in SUBSET JobIds :
          view' = [j \in JobIds |-> IF j \in S THEN "none" ELSE view[j]]
    /\ UNCHANGED <<answer, created>>

LifecycleNext ==
    \/ \E j \in JobIds : CreateJob(j) \/ AcceptJob(j) \/ BeginJob(j) \/ SettleJob(j)
    \/ RefuseJobs \/ ForgetJobs

LifecycleSpec == LifecycleInit /\ [][LifecycleNext]_lifecycleVars
=============================================================================
