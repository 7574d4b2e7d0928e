---------------------------- MODULE ClosedWindow ----------------------------
(***************************************************************************)
(* The processing window beside the life of a job: the service with a      *)
(* history of the jobs it accepted while the window was closed and whose   *)
(* keys nothing but the wait for the window has endangered.                *)
(***************************************************************************)
EXTENDS ServiceProperties

VARIABLE accumulated   \* history: see above

AcceptedNow == {j \in JobIds : resp[j] # "202" /\ resp'[j] = "202"}

\* A key that runs out while the window is open is not the window's doing.
ExpiredWhileOpen == {j \in JobIds : windowOpen /\ Exists(j) /\ hash'[j] = Absent}

Remember ==
    accumulated' = (accumulated \cup (IF windowOpen THEN {} ELSE AcceptedNow))
                       \ ExpiredWhileOpen

WindowedSpec ==
    Init /\ accumulated = {} /\ [][Next /\ Remember]_<<vars, accumulated>>

\* Outside the window "os jobs acumulam na fila do Redis", and the worker "drena
\* tudo quando a janela abre" (README.md:92): a job answered 202 while the window
\* is closed is processed, that is, its entry leaves the queue with an outcome.
\* (JOB_TTL can elapse before the window opens; a worker then acks the entry
\* unprocessed.)
QueuedJobsAreProcessed ==
    [][\A j \in accumulated \cap (stream \ stream') : IsTerminal(j)]_<<vars, accumulated>>
=============================================================================
