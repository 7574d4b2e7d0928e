----------------------------- MODULE MCSettings -----------------------------
(***************************************************************************)
(* A day of six minutes of three units, a largest integer of seven, and    *)
(* the environments that differ from the deployed one in the window, in    *)
(* one number, or in one other variable.                                   *)
(***************************************************************************)
EXTENDS SettingsProperties

Deployed == [v \in Variables |-> IF v \in Secrets THEN TRUE ELSE Unset]

Set(v, x) == [Deployed EXCEPT ![v] = x]

MCEnvironments ==
    {[Deployed EXCEPT !["WHISPER_WINDOW_START"] = s, !["WHISPER_WINDOW_END"] = e,
                      !["WHISPER_WINDOW_TZ"] = z] :
        s, e \in {Unset, Malformed} \cup Minutes, z \in {Unset, Malformed, TRUE}}
    \cup {Set(v, x) : v \in Numbers, x \in {Malformed} \cup (-MaxInt64 - 1 .. MaxInt64)}
    \cup {Set(v, x) : v \in Durations, x \in {Malformed} \cup -1 .. 1}
    \cup {Set(v, Unset) : v \in Secrets}

MCSizes == 0 .. MaxInt64
=============================================================================
