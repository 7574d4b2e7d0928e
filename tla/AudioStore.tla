----------------------------- MODULE AudioStore -----------------------------
(***************************************************************************)
(* internal/audio: the in-process map jobID -> clip of uploaded audio.     *)
(* Every operation holds the mutex for its whole effect on the map, so     *)
(* each is one step.  A clip is there or not; its bytes are abstracted.    *)
(***************************************************************************)
VARIABLE clips   \* the job IDs that have a clip

AudioInit == clips = {}

Put(j) == clips' = clips \cup {j}

\* Wrong variant of Take and of Drop: the clip stays in the map.
LeaveClip(j) == clips' = clips

\* Remove and return the clip; a caller that finds none gets ok = false.
HasClip(j) == j \in clips
Take(j) == clips' = clips \ {j}

\* Remove and zero; harmless when there is no clip.
Drop(j) == clips' = clips \ {j}
=============================================================================
