------------------------------- MODULE Config -------------------------------
(***************************************************************************)
(* internal/config: the settings read from the environment, and the part   *)
(* of internal/window that turns three of them into a processing window.   *)
(*                                                                         *)
(* A variable is Unset (or empty), Malformed (its parser refuses it), or   *)
(* has a value: an integer, a duration in seconds, a time of day as the    *)
(* minute since midnight, or TRUE for a secret and for a known time zone.  *)
(***************************************************************************)
EXTENDS Integers

CONSTANTS Environments,   \* the environments the process may be started in
          Unset, Malformed,
          MaxInt64,     \* 2^63 - 1: the largest MAX_AUDIO_BYTES
          DayMinutes,   \* 24 * 60
          DefaultAudioBytes   \* 104857600, the default of MAX_AUDIO_BYTES

ASSUME ConfigAssumption ==
    /\ Unset # Malformed
    /\ Unset \notin Int \cup BOOLEAN /\ Malformed \notin Int \cup BOOLEAN
    /\ MaxInt64 \in Nat /\ DayMinutes \in Nat /\ DayMinutes > 1
    /\ DefaultAudioBytes \in 1..MaxInt64

Numbers   == {"MAX_CONCURRENCY", "QUEUE_SIZE", "MAX_AUDIO_BYTES"}
Durations == {"JOB_TTL", "DOWNLOAD_TIMEOUT", "UPSTREAM_TIMEOUT"}
Secrets   == {"API_KEY", "WHISPER_API_KEY"}

WindowBounds == {"WHISPER_WINDOW_START", "WHISPER_WINDOW_END"}
Variables == Numbers \cup Durations \cup Secrets \cup WindowBounds
                     \cup {"WHISPER_WINDOW_TZ"}

Minutes == 0 .. DayMinutes - 1
Windows == [enabled : BOOLEAN, startMin : Minutes, endMin : Minutes]

\* What the variables may hold.  strconv refuses what does not fit in int64.
IsEnvironment(env) ==
    /\ DOMAIN env = Variables
    /\ \A v \in Numbers : env[v] \in {Unset, Malformed} \cup (-MaxInt64 - 1 .. MaxInt64)
    /\ \A v \in Durations : env[v] \in {Unset, Malformed} \cup Int
    /\ \A v \in WindowBounds : env[v] \in {Unset, Malformed} \cup Minutes
    /\ \A v \in Secrets : env[v] \in {Unset, TRUE}
    /\ env["WHISPER_WINDOW_TZ"] \in {Unset, Malformed, TRUE}

ASSUME EnvironmentAssumption == \A env \in Environments : IsEnvironment(env)

getEnv(v, fallback) == IF v = Unset THEN fallback ELSE v

-----------------------------------------------------------------------------
(* window.Parse: both bounds or none; two times of day that differ, in a   *)
(* time zone that exists.                                                  *)

Disabled == [enabled |-> FALSE, startMin |-> 0, endMin |-> 0]

\* Wrong variant: equal bounds are let through.
ParsesEqual(start, end, tz) ==
    \/ start = Unset /\ end = Unset
    \/ start \in Minutes /\ end \in Minutes /\ tz # Malformed

WindowParses(start, end, tz) ==
    \/ start = Unset /\ end = Unset
    \/ start \in Minutes /\ end \in Minutes /\ start # end /\ tz # Malformed

Window(start, end) ==
    IF start = Unset /\ end = Unset THEN Disabled
    ELSE [enabled |-> TRUE, startMin |-> start, endMin |-> end]

-----------------------------------------------------------------------------
(* Load: every variable that is set must parse, and validate must agree.   *)
(* Durations are not validated, and REDIS_URL and WHISPER_UPSTREAM_URL     *)
(* have defaults, so that the checks for their absence never fail.         *)

Settings(env) ==
    [MaxConcurrency  |-> getEnv(env["MAX_CONCURRENCY"], 2),
     QueueSize       |-> getEnv(env["QUEUE_SIZE"], 5000),
     MaxAudioBytes   |-> getEnv(env["MAX_AUDIO_BYTES"], DefaultAudioBytes),
     JobTTL          |-> getEnv(env["JOB_TTL"], 3600),
     DownloadTimeout |-> getEnv(env["DOWNLOAD_TIMEOUT"], 600),
     UpstreamTimeout |-> getEnv(env["UPSTREAM_TIMEOUT"], 600),
     WhisperWindow   |-> Window(env["WHISPER_WINDOW_START"], env["WHISPER_WINDOW_END"])]

validate(c) ==
    /\ c.MaxConcurrency >= 1
    /\ c.QueueSize >= 1
    /\ c.MaxAudioBytes >= 1

Loads(env) ==
    /\ \A v \in Numbers \cup Durations : env[v] # Malformed
    /\ WindowParses(env["WHISPER_WINDOW_START"], env["WHISPER_WINDOW_END"],
                    env["WHISPER_WINDOW_TZ"])
    /\ \A v \in Secrets : env[v] # Unset
    /\ validate(Settings(env))
=============================================================================
