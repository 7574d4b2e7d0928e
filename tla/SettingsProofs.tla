--------------------------- MODULE SettingsProofs ---------------------------
(***************************************************************************)
(* Theorems about the settings: for a day and a minute of any length, any  *)
(* window and limit that Load accepts, and any jumps of the local clock.   *)
(***************************************************************************)
EXTENDS SettingsProperties, TLAPS

-----------------------------------------------------------------------------
(* Load.                                                                   *)

\* What is known of settings that Load accepted.
CfgOK ==
    /\ win \in Windows
    /\ win.enabled => win.startMin # win.endMin
    /\ cfg.MaxConcurrency \in Nat \ {0}
    /\ cfg.QueueSize \in Nat \ {0}
    /\ cfg.MaxAudioBytes \in 1..MaxInt64
    /\ cfg.DownloadTimeout \in Int

\* A number read from the environment is an integer, and no larger than 2^63 - 1
\* when its default is not.
LEMMA LoadedNumber ==
  ASSUME NEW env \in Environments, Loads(env), NEW v \in Numbers, NEW n \in Int
  PROVE  getEnv(env[v], n) \in Int /\ (n <= MaxInt64 => getEnv(env[v], n) <= MaxInt64)
<1>1. env[v] \in {Unset} \cup (-MaxInt64 - 1 .. MaxInt64)
  BY EnvironmentAssumption, ConfigAssumption DEF IsEnvironment, Loads, Numbers
<1>2. -MaxInt64 - 1 \in Int /\ MaxInt64 \in Int
  BY ConfigAssumption
<1> QED  BY <1>1, <1>2 DEF getEnv

\* Settings of an environment that Load accepts satisfy CfgOK.
LEMMA LoadedSettings ==
  ASSUME NEW env \in Environments, Loads(env), cfg = Settings(env)
  PROVE  CfgOK
<1> DEFINE s == env["WHISPER_WINDOW_START"]
           e == env["WHISPER_WINDOW_END"]
<1>1. win = Window(s, e) /\ WindowParses(s, e, env["WHISPER_WINDOW_TZ"])
  BY DEF win, Settings, Loads
<1>2. win \in Windows /\ (win.enabled => win.startMin # win.endMin)
  <2>1. CASE s = Unset /\ e = Unset
    BY <1>1, <2>1, ConfigAssumption DEF Window, Disabled, Windows, Minutes
  <2>2. CASE s \in Minutes /\ e \in Minutes /\ s # e
    <3>1. s # Unset
      BY <2>2, ConfigAssumption DEF Minutes
    <3> QED  BY <1>1, <2>2, <3>1 DEF Window, Windows
  <2> QED  BY <1>1, <2>1, <2>2 DEF WindowParses
<1>3. /\ cfg.MaxConcurrency \in Int /\ cfg.QueueSize \in Int
      /\ cfg.MaxAudioBytes \in Int /\ cfg.MaxAudioBytes <= MaxInt64
  BY LoadedNumber, ConfigAssumption DEF Settings, Numbers
<1>4. cfg.MaxConcurrency >= 1 /\ cfg.QueueSize >= 1 /\ cfg.MaxAudioBytes >= 1
  BY DEF Loads, validate
<1>5. cfg.DownloadTimeout \in Int
  <2>1. env["DOWNLOAD_TIMEOUT"] \in {Unset} \cup Int
    BY EnvironmentAssumption DEF IsEnvironment, Loads, Durations
  <2> QED  BY <2>1 DEF Settings, getEnv
<1> QED  BY <1>2, <1>3, <1>4, <1>5, ConfigAssumption DEF CfgOK

-----------------------------------------------------------------------------
(* The clock and the window.                                               *)

\* The next tick of the clock is an instant of the modelled horizon.
LEMMA SuccInTimes ==
  ASSUME NEW t \in Times
  PROVE  Succ(t) \in Times
  BY ConfigAssumption, TimeAssumption DEF Times, Succ, Minutes

\* The products of naturals that NextOpen's conversion from minutes needs.
LEMMA TimesMultiply ==
  ASSUME NEW a \in Nat, NEW b \in Nat, NEW u \in Nat
  PROVE  /\ a * u \in Nat
         /\ (a + 1) * u = a * u + u
         /\ a >= 1 => a * u >= u
         /\ a >= b => a * u >= b * u
  BY Z3

\* Closed: the next opening is ahead, by minutes that are left to wait.
LEMMA DeltaMin ==
  ASSUME NEW w \in Windows, NEW t \in Times, ~IsOpen(w, t),
         NEW n \in Times, n.min = IF t.min + 1 < DayMinutes THEN t.min + 1 ELSE 0
  PROVE  /\ w.enabled
         /\ deltaMin(w, t) \in Nat /\ deltaMin(w, t) >= 1
         /\ IsOpen(w, n) => deltaMin(w, t) = 1
         /\ ~IsOpen(w, n) => deltaMin(w, n) \in Nat /\ deltaMin(w, t) = deltaMin(w, n) + 1
  BY ConfigAssumption DEF Windows, Times, Minutes, IsOpen, deltaMin

\* The same within the minute.
LEMMA DeltaMinIsPositive ==
  ASSUME NEW w \in Windows, NEW t \in Times, ~IsOpen(w, t)
  PROVE  w.enabled /\ deltaMin(w, t) \in Nat /\ deltaMin(w, t) >= 1
  BY ConfigAssumption DEF Windows, Times, Minutes, IsOpen, deltaMin

\* NextOpen counts the ticks until the window opens: it is zero exactly when the
\* window is open, and a tick of a closed window takes one off it.
LEMMA NextOpenExact ==
  ASSUME NEW w \in Windows, NEW t \in Times
  PROVE  /\ NextOpen(w, t) \in Nat
         /\ NextOpen(w, t) = 0 <=> IsOpen(w, t)
         /\ ~IsOpen(w, t) => NextOpen(w, t) = NextOpen(w, Succ(t)) + 1
<1> DEFINE u == MinuteUnits
           d == deltaMin(w, t)
           n == Succ(t)
<1>1. CASE IsOpen(w, t)
  BY <1>1 DEF NextOpen
<1>2. CASE ~IsOpen(w, t)
  <2>1. w.enabled /\ d \in Nat /\ d >= 1
    BY <1>2, DeltaMinIsPositive
  <2>2. t.unit \in 0 .. u - 1 /\ u \in Nat \ {0} /\ n \in Times
    BY TimeAssumption, SuccInTimes DEF Times
  <2>3. d * u \in Nat /\ d * u >= u
    BY <2>1, <2>2, TimesMultiply
  <2>4. NextOpen(w, t) = d * u - t.unit /\ d * u - t.unit \in Nat \ {0}
    BY <1>2, <2>2, <2>3 DEF NextOpen
  <2>5. NextOpen(w, t) = NextOpen(w, n) + 1
    <3>1. CASE t.unit + 1 < u
      <4>1. n.min = t.min /\ n.unit = t.unit + 1
        BY <3>1 DEF Succ, Times
      <4>2. ~IsOpen(w, n) /\ deltaMin(w, n) = d
        BY <1>2, <4>1 DEF IsOpen, deltaMin
      <4>3. NextOpen(w, n) = d * u - n.unit
        BY <2>2, <2>3, <3>1, <4>1, <4>2 DEF NextOpen
      <4> QED  BY <2>2, <2>3, <2>4, <4>1, <4>3
    <3>2. CASE ~(t.unit + 1 < u)
      <4>1. t.unit = u - 1
        BY <2>2, <3>2
      <4>2. n = [min |-> IF t.min + 1 < DayMinutes THEN t.min + 1 ELSE 0, unit |-> 0]
        BY <3>2 DEF Succ
      <4>3. CASE IsOpen(w, n)
        <5>1. d = 1
          BY <1>2, <2>2, <4>2, <4>3, DeltaMin
        <5> QED  BY <2>2, <2>4, <4>1, <4>3, <5>1 DEF NextOpen
      <4>4. CASE ~IsOpen(w, n)
        <5> DEFINE e == deltaMin(w, n)
        <5>1. d = e + 1 /\ e \in Nat
          BY <1>2, <2>2, <4>2, <4>4, DeltaMin
        <5>2. d * u = e * u + u /\ e * u \in Nat
          BY <2>2, <5>1, TimesMultiply
        <5>3. n.unit = 0
          BY <4>2
        <5>4. NextOpen(w, n) = e * u
          BY <4>4, <5>2, <5>3 DEF NextOpen
        <5> QED  BY <2>2, <2>4, <4>1, <5>2, <5>4
      <4> QED  BY <4>3, <4>4
    <3> QED  BY <3>1, <3>2
  <2> QED  BY <1>2, <2>4, <2>5
<1> QED  BY <1>1, <1>2

\* A proper window is open from its start for as long as it is to its end,
\* whether or not it crosses midnight.
LEMMA OpenBetween ==
  ASSUME NEW w \in Windows, NEW t \in Times, w.enabled, w.startMin # w.endMin
  PROVE  IsOpen(w, t) <=>
            MinutesAfter(w.startMin, t.min) < MinutesAfter(w.startMin, w.endMin)
  BY ConfigAssumption DEF Windows, Times, Minutes, IsOpen, MinutesAfter

\* Closed time is counted from the closing edge.
LEMMA ClosedForCounts ==
  ASSUME win \in Windows, NEW t \in Times, win.enabled => win.startMin # win.endMin,
         ~IsOpen(win, Succ(t))
  PROVE  /\ ClosedFor(t) \in Nat
         /\ IsOpen(win, t) => ClosedFor(Succ(t)) = 0
         /\ ~IsOpen(win, t) => ClosedFor(Succ(t)) = ClosedFor(t) + 1
<1> DEFINE u == MinuteUnits
           n == Succ(t)
           m == MinutesAfter(win.endMin, t.min)
           k == MinutesAfter(win.endMin, n.min)
<1>1. t.unit \in 0 .. u - 1 /\ u \in Nat \ {0} /\ n \in Times
  BY TimeAssumption, SuccInTimes DEF Times
<1>2. m \in Nat /\ k \in Nat
  BY <1>1, ConfigAssumption DEF MinutesAfter, Windows, Times, Minutes
<1>3. m * u \in Nat /\ (m + 1) * u = m * u + u
  BY <1>1, <1>2, TimesMultiply
<1>4. CASE t.unit + 1 < u
  <2>1. n.min = t.min /\ n.unit = t.unit + 1
    BY <1>4 DEF Succ
  <2>2. ~IsOpen(win, t)
    BY <2>1 DEF IsOpen
  <2> QED  BY <1>1, <1>3, <2>1, <2>2 DEF ClosedFor
<1>5. CASE ~(t.unit + 1 < u)
  <2>1. t.unit = u - 1 /\ n.unit = 0 /\ n.min = IF t.min + 1 < DayMinutes THEN t.min + 1 ELSE 0
    BY <1>1, <1>5 DEF Succ
  <2>2. IsOpen(win, t) => k = 0
    BY <1>1, <2>1, ConfigAssumption DEF MinutesAfter, Windows, Times, Minutes, IsOpen
  <2>3. ~IsOpen(win, t) => k = m + 1
    BY <1>1, <2>1, ConfigAssumption DEF MinutesAfter, Windows, Times, Minutes, IsOpen
  <2>4. ClosedFor(n) = k * u /\ ClosedFor(t) = m * u + t.unit
    BY <1>1, <1>2, <2>1, TimesMultiply DEF ClosedFor
  <2>5. k = 0 => k * u = 0
    BY <1>1
  <2> QED  BY <1>1, <1>3, <2>1, <2>2, <2>3, <2>4, <2>5
<1> QED  BY <1>4, <1>5

\* waitForWindow sleeps a minute at most, and never beyond the opening.
LEMMA SleepIsBounded ==
  ASSUME NEW w \in Windows, NEW t \in Times
  PROVE  /\ windowSleep(w, t) \in 1 .. MinuteUnits
         /\ ~IsOpen(w, t) => windowSleep(w, t) <= NextOpen(w, t)
  BY NextOpenExact, TimeAssumption DEF windowSleep

-----------------------------------------------------------------------------
(* The worker and its clock.                                               *)

\* A worker that saw the right time sleeps no further than the opening.
SleepsToOpening ==
    /\ at = "compute" /\ left = 1 /\ ~stale => ~IsOpen(win, now)
    /\ at = "asleep" /\ ~stale => left <= NextOpen(win, now)

\* What it has missed so far and may still miss adds up to a minute and one.
MissesAreBounded ==
    /\ ~stale => unnoticed = 0
    /\ ~Idling \/ ~IsOpen(win, now) => unnoticed = 0
    /\ at = "compute" => unnoticed + left <= 1
    /\ at = "asleep" => unnoticed + left <= MinuteUnits + 1
    /\ at = "check" => unnoticed <= MinuteUnits + 1

\* A read was issued while the window was open.
ReadStartedOpen ==
    at = "read" /\ ~stale =>
        IsOpen(win, now) \/ ClosedFor(now) + left < ReadBlock

WindowInv ==
    /\ CfgOK /\ WindowTypeOK
    /\ at = "read" => left <= ReadBlock
    /\ SleepsToOpening /\ MissesAreBounded /\ ReadStartedOpen

\* The strengthened invariant holds at the start of the worker's loop.
LEMMA WindowInvInit == WindowInit => WindowInv
<1> SUFFICES ASSUME WindowInit PROVE WindowInv
  OBVIOUS
<1>1. CfgOK
  BY LoadedSettings DEF WindowInit
<1>2. now \in Times /\ at = "check" /\ left = 0 /\ stale = FALSE /\ unnoticed = 0
  BY DEF WindowInit
<1>3. WindowTypeOK
  BY <1>1, <1>2 DEF CfgOK, WindowTypeOK
<1> QED
  BY <1>1, <1>2, <1>3, TimeAssumption
  DEF WindowInv, SleepsToOpening, MissesAreBounded, ReadStartedOpen, Idling

\* A second that passes preserves the strengthened invariant.
LEMMA WindowInvTick ==
  ASSUME WindowInv, Tick
  PROVE  WindowInv'
<1> USE DEF WindowInv
<1>1. CfgOK' /\ win' = win /\ win \in Windows
  BY DEF Tick, CfgOK, win
<1>2. now' = Succ(now) /\ now \in Times /\ now' \in Times
  BY SuccInTimes DEF Tick, WindowTypeOK
<1>3. WindowTypeOK'
  BY <1>1, <1>2, TimeAssumption DEF Tick, WindowTypeOK
<1>4. /\ NextOpen(win, now) \in Nat
      /\ NextOpen(win, now) = 0 <=> IsOpen(win, now)
      /\ ~IsOpen(win, now) => NextOpen(win, now) = NextOpen(win, now') + 1
      /\ NextOpen(win, now') \in Nat
  BY <1>1, <1>2, NextOpenExact
<1>5. SleepsToOpening'
  BY <1>1, <1>4 DEF Tick, SleepsToOpening, MissesAreBounded, WindowTypeOK
<1>6. MissesAreBounded'
  BY <1>1, <1>4, TimeAssumption DEF Tick, SleepsToOpening, MissesAreBounded, WindowTypeOK, Idling
<1>7. ReadStartedOpen'
  <2> SUFFICES ASSUME at = "read", ~stale, ~IsOpen(win, now')
               PROVE  ClosedFor(now)' + left' < ReadBlock
    BY <1>1 DEF Tick, ReadStartedOpen
  <2>1. ClosedFor(now)' = ClosedFor(now')
    BY <1>1 DEF ClosedFor
  <2>2. /\ ClosedFor(now) \in Nat
        /\ IsOpen(win, now) => ClosedFor(now') = 0
        /\ ~IsOpen(win, now) => ClosedFor(now') = ClosedFor(now) + 1
    BY <1>1, <1>2, ClosedForCounts DEF CfgOK
  <2>3. left \in Nat /\ left <= ReadBlock /\ left' = left - 1 /\ left > 0
    BY DEF Tick, WindowTypeOK
  <2> QED  BY <2>1, <2>2, <2>3, TimeAssumption DEF ReadStartedOpen
<1>8. (at = "read" => left <= ReadBlock)'
  BY TimeAssumption DEF Tick, WindowTypeOK
<1> QED  BY <1>1, <1>3, <1>5, <1>6, <1>7, <1>8

\* Every step preserves the strengthened invariant.
LEMMA WindowInvStep ==
  ASSUME WindowInv, [WindowNext]_windowVars
  PROVE  WindowInv'
<1> USE TimeAssumption DEF WindowInv, WindowTypeOK, SleepsToOpening, MissesAreBounded,
        ReadStartedOpen, Idling, Wait
<1>1. ASSUME cfg' = cfg PROVE CfgOK' /\ win' = win
  BY <1>1 DEF CfgOK, win
<1>2. CASE Look
  <2>1. CfgOK' /\ win' = win /\ now' = now /\ stale' = FALSE /\ unnoticed' = 0
    BY <1>1, <1>2 DEF Look
  <2>2. \/ at' = "read" /\ left' = ReadBlock /\ IsOpen(win, now)
        \/ at' = "compute" /\ left' = 1 /\ ~IsOpen(win, now)
    BY <1>2 DEF Look
  <2>3. WindowTypeOK' /\ (at = "read" => left <= ReadBlock)'
    <3>1. CASE at' = "read" /\ left' = ReadBlock
      <4>1. ReadBlock \in Nat
        OBVIOUS
      <4>2. left' \in Nat /\ left' <= ReadBlock
        BY <3>1, <4>1
      <4> QED  BY <2>1, <3>1, <4>2
    <3>2. CASE at' = "compute" /\ left' = 1
      BY <2>1, <3>2
    <3> QED  BY <2>2, <3>1, <3>2
  <2>4. SleepsToOpening'
    BY <2>1, <2>2
  <2>5. MissesAreBounded'
    BY <2>1, <2>2
  <2>6. ReadStartedOpen'
    BY <2>1, <2>2
  <2> QED  BY <2>1, <2>3, <2>4, <2>5, <2>6
<1>3. CASE FallAsleep
  <2>1. windowSleep(win, now) \in 1 .. MinuteUnits
        /\ (~IsOpen(win, now) => windowSleep(win, now) <= NextOpen(win, now))
    BY SleepIsBounded
  <2>2. stale' \in BOOLEAN
    BY <1>3 DEF FallAsleep, IsOpen
  <2>3. CfgOK' /\ win' = win /\ now' = now /\ unnoticed' = unnoticed
        /\ at' = "asleep" /\ left' = windowSleep(win, now) /\ stale' = IsOpen(win, now)
    BY <1>1, <1>3 DEF FallAsleep
  <2>4. WindowTypeOK'
    BY <2>1, <2>2, <2>3
  <2>5. SleepsToOpening'
    BY <2>1, <2>3
  <2>6. MissesAreBounded'
    BY <1>3, <2>1, <2>3 DEF FallAsleep
  <2> QED  BY <2>3, <2>4, <2>5, <2>6
<1>4. CASE Wake          BY <1>1, <1>4 DEF Wake
<1>5. CASE PickUp        BY <1>1, <1>5 DEF PickUp
<1>6. CASE ReadTimesOut  BY <1>1, <1>6 DEF ReadTimesOut
<1>7. CASE ReadFails     BY <1>1, <1>7 DEF ReadFails
<1>8. CASE Finish        BY <1>1, <1>8 DEF Finish
<1>9. CASE Tick          BY <1>9, WindowInvTick
<1>10. CASE ClockJumps   BY <1>1, <1>10 DEF ClockJumps
<1>11. CASE UNCHANGED windowVars
  BY <1>1, <1>11 DEF windowVars, ClosedFor
<1> QED
  BY <1>2, <1>3, <1>4, <1>5, <1>6, <1>7, <1>8, <1>9, <1>10, <1>11 DEF WindowNext

\* The strengthened invariant, for every run of the specification.
LEMMA WindowInvariant == WindowSpec => []WindowInv
  BY WindowInvInit, WindowInvStep, PTL DEF WindowSpec

-----------------------------------------------------------------------------
(* The theorems.                                                           *)

\* Types, and no sleep beyond windowPoll.
THEOREM WindowTypeCorrect == WindowSpec => []WindowTypeOK
<1>1. WindowInv => WindowTypeOK
  BY DEF WindowInv
<1> QED  BY <1>1, WindowInvariant, PTL

\* A process that runs has settings that the other modules' assumptions hold
\* for, and a window that is enabled opens and closes.
THEOREM AcceptedSettingsAreUsable == WindowSpec => []AcceptedSettings
<1>1. ASSUME WindowInv PROVE AcceptedSettings
  <2>1. CfgOK
    BY <1>1 DEF WindowInv
  <2>2. ASSUME win.enabled PROVE \E s, t \in Times : IsOpen(win, s) /\ ~IsOpen(win, t)
    <3> DEFINE s == [min |-> win.startMin, unit |-> 0]
               t == [min |-> win.endMin, unit |-> 0]
    <3>1. s \in Times /\ t \in Times
      BY <2>1, TimeAssumption DEF CfgOK, Windows, Times
    <3>2. IsOpen(win, s) /\ ~IsOpen(win, t)
      BY <2>1, <2>2 DEF CfgOK, Windows, Minutes, IsOpen
    <3> QED  BY <3>1, <3>2
  <2> QED  BY <2>1, <2>2 DEF CfgOK, AcceptedSettings
<1> QED  BY <1>1, WindowInvariant, PTL

\* IsOpen is the interval from start to end, also across midnight.
THEOREM WindowIsBetweenBounds == WindowSpec => []OpenBetweenBounds
<1>1. WindowInv => OpenBetweenBounds
  BY OpenBetween DEF WindowInv, WindowTypeOK, CfgOK, OpenBetweenBounds
<1> QED  BY <1>1, WindowInvariant, PTL

\* NextOpen is exact at any time of day, for any window.
THEOREM NextOpenIsRight == WindowSpec => []NextOpenIsExact
<1>1. WindowInv => NextOpenIsExact
  BY NextOpenExact DEF WindowInv, WindowTypeOK, NextOpenIsExact
<1> QED  BY <1>1, WindowInvariant, PTL

\* No jump of the clock keeps a worker asleep in an open window for more than
\* windowPoll, and without one it does not oversleep at all.
THEOREM OpeningIsNoticed == WindowSpec => []OpeningNoticed
<1>1. WindowInv => OpeningNoticed
  BY TimeAssumption
  DEF WindowInv, WindowTypeOK, MissesAreBounded, OpeningNoticed, Idling
<1> QED  BY <1>1, WindowInvariant, PTL

\* A message is picked up less than readBlock after the closing, if at all.
THEOREM NoLateStart == WindowSpec => StartsNearWindow
<1>1. ASSUME WindowInv, [WindowNext]_windowVars
      PROVE  [at = "read" /\ at' = "handle" /\ ~stale =>
                 IsOpen(win, now) \/ ClosedFor(now) < ReadBlock]_windowVars
  <2> SUFFICES ASSUME at = "read", ~stale, ~IsOpen(win, now)
               PROVE  ClosedFor(now) < ReadBlock
    OBVIOUS
  <2>1. ClosedFor(now) + left < ReadBlock /\ left \in Nat
    BY <1>1 DEF WindowInv, WindowTypeOK, ReadStartedOpen
  <2>2. ClosedFor(now) \in Int
    BY <1>1, ConfigAssumption, TimeAssumption
    DEF WindowInv, WindowTypeOK, ClosedFor, MinutesAfter, Windows, Times, Minutes
  <2> QED  BY <2>1, <2>2, TimeAssumption
<1> QED  BY <1>1, WindowInvariant, PTL DEF WindowSpec, StartsNearWindow

\* handleUpload's two checks together are the limit, below the wrap of int64.
THEOREM UploadsWithinLimit == WindowSpec => []UploadLimitIsExact
<1>1. ASSUME WindowInv PROVE UploadLimitIsExact
  <2> SUFFICES ASSUME cfg.MaxAudioBytes <= MaxInt64 - Overhead, NEW form \in Forms,
                      form.hasAudio, form.body <= form.size + Overhead
               PROVE  UploadStatus(cfg.MaxAudioBytes, form) = 202
                        <=> form.size <= cfg.MaxAudioBytes
    BY DEF UploadLimitIsExact
  <2>1. cfg.MaxAudioBytes \in 1..MaxInt64 /\ MaxInt64 \in Nat /\ Overhead \in 1..MaxInt64
    BY <1>1, ConfigAssumption, IntakeAssumption DEF WindowInv, CfgOK
  <2>2. form.size \in Nat /\ form.body \in Nat
    BY IntakeAssumption DEF Forms
  <2>3. BodyLimit(cfg.MaxAudioBytes) = cfg.MaxAudioBytes + Overhead
    BY <2>1 DEF BodyLimit, Int64
  <2>4. TooLarge(cfg.MaxAudioBytes, form) <=> ~(form.size <= cfg.MaxAudioBytes)
    BY <2>1, <2>2, <2>3 DEF TooLarge
  <2> QED  BY <2>4 DEF UploadStatus
<1> QED  BY <1>1, WindowInvariant, PTL

\* Reading one byte past the limit tells a body at the limit from a longer one.
LEMMA DownloadExact ==
  ASSUME NEW limit \in 1 .. MaxInt64 - 1, NEW timeout \in Int, NEW resp \in Responses
  PROVE  /\ Downloads(limit, timeout, resp)
              <=> resp.ok /\ ~resp.broken /\ resp.size <= limit /\ timeout > 0
         /\ Downloads(limit, timeout, resp) => BytesRead(limit, resp) = resp.size
<1>1. /\ resp.size \in Nat
      /\ resp.declared \in Nat \/ resp.declared = -1
      /\ resp.ok \in BOOLEAN /\ resp.broken \in BOOLEAN
      /\ resp.declared \in Nat => resp.size <= resp.declared
                                   /\ (resp.broken <=> resp.size < resp.declared)
  <2>1. /\ resp \in [ok : BOOLEAN, declared : Sizes \cup {-1}, size : Sizes, broken : BOOLEAN]
        /\ resp.declared # -1 => /\ resp.size <= resp.declared
                                 /\ resp.broken <=> resp.size < resp.declared
    BY DEF Responses, NoLength
  <2>2. /\ resp.size \in Sizes /\ resp.declared \in Sizes \cup {-1}
        /\ resp.ok \in BOOLEAN /\ resp.broken \in BOOLEAN
    BY <2>1
  <2>3. -1 \notin Nat
    OBVIOUS
  <2> QED  BY <2>1, <2>2, <2>3, IntakeAssumption
<1>2. ReadLimit(limit) = limit + 1
  BY ConfigAssumption DEF ReadLimit, Int64
<1>3. ReadFailed(limit, resp) <=> resp.broken /\ resp.size <= limit
  BY <1>1, <1>2 DEF ReadFailed
<1>4. BytesRead(limit, resp) = IF resp.size <= limit THEN resp.size ELSE limit + 1
  BY <1>1, <1>2 DEF BytesRead
<1> QED  BY <1>1, <1>3, <1>4 DEF Downloads

\* Whatever the server declares, sends or breaks off, audio that is
\* transcribed is the complete file and within the limit.
THEOREM DownloadsAreWhole == WindowSpec => []DownloadLimitIsExact
<1>1. ASSUME WindowInv PROVE DownloadLimitIsExact
  <2>1. cfg.MaxAudioBytes \in 1..MaxInt64 /\ cfg.DownloadTimeout \in Int /\ MaxInt64 \in Nat
    BY <1>1, ConfigAssumption DEF WindowInv, CfgOK
  <2>2. cfg.MaxAudioBytes < MaxInt64 => cfg.MaxAudioBytes \in 1 .. MaxInt64 - 1
    BY <2>1
  <2> QED  BY <2>1, <2>2, DownloadExact DEF DownloadLimitIsExact
<1> QED  BY <1>1, WindowInvariant, PTL

\* At the largest int64 the reader's limit wraps below zero: whatever is
\* downloaded without error is taken to be empty.
THEOREM LargestLimitReadsNothing ==
  ASSUME NEW timeout \in Int, NEW resp \in Responses, Downloads(MaxInt64, timeout, resp)
  PROVE  BytesRead(MaxInt64, resp) = 0
<1>1. ReadLimit(MaxInt64) = -MaxInt64 - 1
  BY ConfigAssumption DEF ReadLimit, Int64
<1> QED  BY <1>1, ConfigAssumption, IntakeAssumption DEF BytesRead, Responses
=============================================================================
