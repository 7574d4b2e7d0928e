------------------------------ MODULE JobQueue ------------------------------
(***************************************************************************)
(* What the stream and its consumer group are there for: a queue that      *)
(* hands out each job once, in the order of submission, and forgets it     *)
(* only when somebody who was given the job says so.  There is no cursor,  *)
(* no pending list and no idle time; giving a job to another worker is not *)
(* visible here.                                                           *)
(***************************************************************************)
EXTENDS Naturals

CONSTANTS JobIds,
          MayLose    \* can all that is in the queue disappear

VARIABLES place,     \* where a job is: new, waiting, delivered or gone
          ticket,    \* its number in the order of submission, 0 before it
          issued,    \* how many tickets have been issued
          open       \* does the queue deliver

queueVars == <<place, ticket, issued, open>>

QueueInit ==
    /\ place = [j \in JobIds |-> "new"]
    /\ ticket = [j \in JobIds |-> 0]
    /\ issued = 0
    /\ open = TRUE

Move(j, from, to) == place[j] = from /\ place' = [place EXCEPT ![j] = to]

\* Also while the queue is closed.
Submit(j) ==
    /\ Move(j, "new", "waiting")
    /\ issued' = issued + 1
    /\ ticket' = [ticket EXCEPT ![j] = issued + 1]
    /\ UNCHANGED open

Deliver(j) ==
    /\ open
    /\ \A k \in JobIds : place[k] = "waiting" => ticket[j] <= ticket[k]
    /\ Move(j, "waiting", "delivered")
    /\ UNCHANGED <<ticket, issued, open>>

Finish(j) == Move(j, "delivered", "gone") /\ UNCHANGED <<ticket, issued, open>>

\* All is lost, and nothing is delivered before the queue is opened again.
LoseAll ==
    /\ MayLose
    /\ place' = [j \in JobIds |-> IF place[j] = "new" THEN "new" ELSE "gone"]
    /\ open' = FALSE
    /\ UNCHANGED <<ticket, issued>>

\* What was submitted in the meantime is waiting.
Reopen == open' = TRUE /\ UNCHANGED <<place, ticket, issued>>

QueueNext == LoseAll \/ Reopen \/ \E j \in JobIds : Submit(j) \/ Deliver(j) \/ Finish(j)

QueueSpec == QueueInit /\ [][QueueNext]_queueVars
=============================================================================
