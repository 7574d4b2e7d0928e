------------------------- MODULE SettingsProperties -------------------------
(***************************************************************************)
(* What the settings promise once the process runs with them: the window   *)
(* in WHISPER_WINDOW_* and the limit in MAX_AUDIO_BYTES.                   *)
(***************************************************************************)
EXTENDS ProcessingWindow, AudioIntake

\* The variables have their types, and no timer is set beyond its longest wait.
WindowTypeOK ==
    /\ win \in Windows
    /\ now \in Times
    /\ at \in {"check", "compute", "asleep", "read", "backoff", "handle"}
    /\ left \in Nat /\ unnoticed \in Nat
    /\ stale \in BOOLEAN
    /\ at \in {"check", "handle"} => left = 0
    /\ at = "asleep" => left <= MinuteUnits

\* Load accepts only settings the rest of the system can work with: there is
\* a worker, the queue takes a job, a clip may have a byte, and a window that
\* is enabled both opens and closes (equal bounds would never close it).
AcceptedSettings ==
    /\ cfg.MaxConcurrency \in Nat \ {0}
    /\ cfg.QueueSize \in Nat \ {0}
    /\ cfg.MaxAudioBytes \in 1..MaxInt64
    /\ win.enabled => \E s, t \in Times : IsOpen(win, s) /\ ~IsOpen(win, t)

-----------------------------------------------------------------------------
(* The window.                                                             *)

\* Minutes from the opening to minute m, going round midnight.
MinutesAfter(from, m) == IF m >= from THEN m - from ELSE DayMinutes - from + m

\* A window is open from its start, inclusive, for as many minutes as lie
\* between its start and its end, whether or not midnight is among them.
OpenBetweenBounds ==
    win.enabled =>
        (IsOpen(win, now) <=>
            MinutesAfter(win.startMin, now.min) < MinutesAfter(win.startMin, win.endMin))

\* NextOpen is the exact time to the opening edge: zero while the window is
\* open, and otherwise one unit more than it will be one unit from now.
NextOpenIsExact ==
    /\ NextOpen(win, now) = 0 <=> IsOpen(win, now)
    /\ ~IsOpen(win, now) => NextOpen(win, now) = NextOpen(win, Succ(now)) + 1

\* A sleeping worker is up as soon as the window opens.  When the local clock
\* jumped under it, or the window opened between its two looks at the clock,
\* the cap of windowPoll wakes it at most a minute late ("robust to clock/DST
\* changes", pool.go:29); one more unit is the time between the two looks.
OpeningNoticed == unnoticed <= IF stale THEN MinuteUnits + 1 ELSE 0

\* The time since the window closed.
ClosedFor(t) == MinutesAfter(win.endMin, t.min) * MinuteUnits + t.unit

\* The read that is blocked when the window closes may still pick up a message,
\* but no worker does so readBlock or more after the closing.
StartsNearWindow ==
    [][at = "read" /\ at' = "handle" /\ ~stale =>
          IsOpen(win, now) \/ ClosedFor(now) < ReadBlock]_windowVars

-----------------------------------------------------------------------------
(* The limit.                                                              *)

\* An upload is let in exactly when its audio is within the limit, as long as
\* the form around it stays within its overhead.  Not for the limits whose
\* sum with the overhead exceeds int64: with those every upload is refused.
UploadLimitIsExact ==
    cfg.MaxAudioBytes <= MaxInt64 - Overhead =>
        \A form \in Forms :
            form.hasAudio /\ form.body <= form.size + Overhead =>
                (UploadStatus(cfg.MaxAudioBytes, form) = 202
                    <=> form.size <= cfg.MaxAudioBytes)

\* A download delivers the whole body, and it does so exactly when the body is
\* complete and within the limit, whatever Content-Length says.  Not for the
\* largest int64, with which every body would be read as empty.
DownloadLimitIsExact ==
    cfg.MaxAudioBytes < MaxInt64 =>
        \A resp \in Responses :
            /\ Downloads(cfg.MaxAudioBytes, cfg.DownloadTimeout, resp)
                 <=> /\ resp.ok /\ ~resp.broken
                     /\ resp.size <= cfg.MaxAudioBytes
                     /\ cfg.DownloadTimeout > 0
            /\ Downloads(cfg.MaxAudioBytes, cfg.DownloadTimeout, resp)
                 => BytesRead(cfg.MaxAudioBytes, resp) = resp.size
=============================================================================
