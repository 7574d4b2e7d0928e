-------------------------- MODULE ProcessingWindow --------------------------
(***************************************************************************)
(* internal/window on a running clock, and the loop of a worker (consume)  *)
(* as far as time decides what it does: when it looks at the window, how   *)
(* long it sleeps, how long it is blocked in Redis.                        *)
(*                                                                         *)
(* Time passes in units, MinuteUnits of them to a minute; windowPoll is    *)
(* one minute.  Timers run on the monotonic clock, the window is read from *)
(* the local time of day, which can jump (DST, a corrected clock).         *)
(***************************************************************************)
EXTENDS Config

CONSTANTS MinuteUnits,   \* units of time in a minute, and windowPoll
          ReadBlock,     \* readBlock, in units
          RetryDelay     \* retryBaseDelay, in units

ASSUME TimeAssumption ==
    /\ MinuteUnits \in Nat \ {0}
    /\ ReadBlock \in Nat \ {0}
    /\ RetryDelay \in Nat \ {0}

VARIABLES
    cfg,        \* the settings the process was started with
    now,        \* the local time of day
    at,         \* where the worker is in its loop
    left,       \* units until its timer fires or its next step is due
    stale,      \* the clock jumped, or the window opened, after it looked
    unnoticed   \* units for which the window has been open while it idles

windowVars == <<cfg, now, at, left, stale, unnoticed>>

win == cfg.WhisperWindow

Times == [min : Minutes, unit : 0 .. MinuteUnits - 1]

\* The time of day one unit later.
Succ(t) ==
    IF t.unit + 1 < MinuteUnits THEN [min |-> t.min, unit |-> t.unit + 1]
    ELSE [min |-> IF t.min + 1 < DayMinutes THEN t.min + 1 ELSE 0, unit |-> 0]

-----------------------------------------------------------------------------
(* window.go                                                               *)

\* Wrong variant: the closing minute belongs to the window.
IsOpenInclusive(w, t) ==
    \/ ~w.enabled
    \/ w.startMin < w.endMin /\ t.min >= w.startMin /\ t.min <= w.endMin
    \/ w.startMin >= w.endMin /\ (t.min >= w.startMin \/ t.min <= w.endMin)

IsOpen(w, t) ==
    \/ ~w.enabled
    \/ w.startMin < w.endMin /\ t.min >= w.startMin /\ t.min < w.endMin
    \/ w.startMin >= w.endMin /\ (t.min >= w.startMin \/ t.min < w.endMin)

deltaMin(w, t) ==
    IF t.min < w.startMin THEN w.startMin - t.min
    ELSE (DayMinutes - t.min) + w.startMin

\* Wrong variant: the part of the minute that has passed is not trimmed.
NextOpenUntrimmed(w, t) ==
    IF IsOpen(w, t) THEN 0 ELSE deltaMin(w, t) * MinuteUnits

NextOpen(w, t) ==
    LET d == deltaMin(w, t) * MinuteUnits - t.unit
    IN  IF IsOpen(w, t) \/ d < 0 THEN 0 ELSE d

-----------------------------------------------------------------------------
(* consume                                                                 *)

\* Wrong variant: the worker trusts the clock and sleeps until the opening.
windowSleepUncapped(w, t) ==
    IF NextOpen(w, t) <= 0 THEN MinuteUnits ELSE NextOpen(w, t)

windowSleep(w, t) ==
    LET d == NextOpen(w, t)
    IN  IF d <= 0 \/ d > MinuteUnits THEN MinuteUnits ELSE d

Wait(place, d) == at' = place /\ left' = d

\* Wrong variant: the window is not looked at.
LookNever ==
    /\ at = "check"
    /\ Wait("read", ReadBlock)
    /\ stale' = FALSE
    /\ unnoticed' = 0
    /\ UNCHANGED <<cfg, now>>

\* IsOpen(time.Now()).  The two outcomes run on within a unit of time.
Look ==
    /\ at = "check"
    /\ IF IsOpen(win, now) THEN Wait("read", ReadBlock) ELSE Wait("compute", 1)
    /\ stale' = FALSE
    /\ unnoticed' = 0
    /\ UNCHANGED <<cfg, now>>

\* sleep(ctx, p.windowSleep()): the clock is read once more.
FallAsleep ==
    /\ at = "compute"
    /\ Wait("asleep", windowSleep(win, now))
    /\ stale' = IsOpen(win, now)
    /\ UNCHANGED <<cfg, now, unnoticed>>

\* A sleep ends, that of windowSleep or the one after a failed read.
Wake ==
    /\ at \in {"asleep", "backoff"} /\ left = 0
    /\ Wait("check", 0)
    /\ UNCHANGED <<cfg, now, stale, unnoticed>>

\* XREADGROUP returns a message and handle is called.
PickUp ==
    /\ at = "read"
    /\ Wait("handle", 0)
    /\ UNCHANGED <<cfg, now, stale, unnoticed>>

\* XREADGROUP returns nothing once readBlock is over.
ReadTimesOut ==
    /\ at = "read" /\ left = 0
    /\ Wait("check", 0)
    /\ UNCHANGED <<cfg, now, stale, unnoticed>>

ReadFails ==
    /\ at = "read"
    /\ Wait("backoff", RetryDelay)
    /\ UNCHANGED <<cfg, now, stale, unnoticed>>

Finish ==
    /\ at = "handle"
    /\ Wait("check", 0)
    /\ UNCHANGED <<cfg, now, stale, unnoticed>>

-----------------------------------------------------------------------------
(* Time.  A worker whose timer has fired, or that is between two waits,    *)
(* runs before time goes on; handling a message takes as long as it takes. *)

Idling == at \in {"check", "compute", "asleep"}

Tick ==
    /\ at = "handle" \/ left > 0
    /\ now' = Succ(now)
    /\ left' = IF at = "handle" THEN 0 ELSE left - 1
    /\ unnoticed' = IF Idling /\ IsOpen(win, now) /\ IsOpen(win, now')
                    THEN unnoticed + 1 ELSE 0
    /\ UNCHANGED <<cfg, at, stale>>

\* The local time of day changes at once.
ClockJumps ==
    /\ \E t \in Times : now' = t
    /\ stale' = TRUE
    /\ unnoticed' = IF IsOpen(win, now') THEN unnoticed ELSE 0
    /\ UNCHANGED <<cfg, at, left>>

\* The process runs only with settings that Load accepts.
WindowInit ==
    /\ \E env \in Environments : Loads(env) /\ cfg = Settings(env)
    /\ now \in Times
    /\ at = "check" /\ left = 0 /\ stale = FALSE /\ unnoticed = 0

WindowNext ==
    \/ Look \/ FallAsleep \/ Wake
    \/ PickUp \/ ReadTimesOut \/ ReadFails \/ Finish
    \/ Tick \/ ClockJumps

WindowSpec == WindowInit /\ [][WindowNext]_windowVars
=============================================================================
