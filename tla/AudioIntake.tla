----------------------------- MODULE AudioIntake ----------------------------
(***************************************************************************)
(* How audio gets into memory: the upload of handleUpload and the download *)
(* of a job's URL (internal/worker/download.go), under MAX_AUDIO_BYTES.    *)
(* Both are loops without shared state, so each is a function of what the  *)
(* other side sends; sizes are int64 and wrap.                             *)
(***************************************************************************)
EXTENDS Config

CONSTANTS Overhead,   \* 1 << 20: what a form may add to the audio
          Sizes       \* the lengths of audio and of bodies

ASSUME IntakeAssumption == Overhead \in 1..MaxInt64 /\ Sizes \subseteq Nat

\* The int64 value of a sum of two int64 numbers that are not negative.
Int64(n) == IF n > MaxInt64 THEN n - 2 * (MaxInt64 + 1) ELSE n

-----------------------------------------------------------------------------
(* Upload.  A form is a well-formed request body of form.body bytes with,  *)
(* perhaps, an audio part of form.size bytes.                              *)

Forms == {form \in [body : Sizes, size : Sizes, hasAudio : BOOLEAN] :
             form.size <= form.body}

\* http.MaxBytesReader takes a negative limit for zero.
BodyLimit(limit) ==
    LET n == Int64(limit + Overhead) IN IF n < 0 THEN 0 ELSE n

\* Wrong variant: the form's overhead counts against the audio.
TooLargeWithForm(limit, form) == form.body > limit

TooLarge(limit, form) ==
    \/ form.body > BodyLimit(limit)
    \/ form.hasAudio /\ form.size > limit

\* The answer when the form is refused, 202 when it goes on to be enqueued
\* with form.size bytes of audio.
UploadStatus(limit, form) ==
    CASE TooLarge(limit, form)                       -> 413
      [] ~TooLarge(limit, form) /\ ~form.hasAudio    -> 400
      [] ~TooLarge(limit, form) /\ form.hasAudio     -> 202

-----------------------------------------------------------------------------
(* Download.  A response has a status, perhaps a Content-Length (NoLength  *)
(* when it is chunked), and a body of which resp.size bytes arrive; when   *)
(* it is broken, reading past them is an error (net/http turns a body      *)
(* shorter than its Content-Length into one).                              *)

NoLength == -1

\* net/http hands out no more than Content-Length announces.
Responses ==
    {resp \in [ok : BOOLEAN, declared : Sizes \cup {NoLength}, size : Sizes,
               broken : BOOLEAN] :
        resp.declared # NoLength =>
            /\ resp.size <= resp.declared
            /\ resp.broken <=> resp.size < resp.declared}

\* Wrong variant: the reader stops exactly at the limit.
ReadLimitTight(limit) == limit

\* The N of io.LimitReader, which is at its end when N <= 0.
ReadLimit(limit) == Int64(limit + 1)

\* len(data) when io.ReadAll returns.
BytesRead(limit, resp) ==
    CASE ReadLimit(limit) <= 0                              -> 0
      [] ReadLimit(limit) \in 1..resp.size                  -> ReadLimit(limit)
      [] ReadLimit(limit) > 0 /\ resp.size < ReadLimit(limit) -> resp.size

\* io.ReadAll meets the end of a broken body.
ReadFailed(limit, resp) == resp.broken /\ resp.size < ReadLimit(limit)

\* download returns data; a timeout that is not positive is over at once.
Downloads(limit, timeout, resp) ==
    /\ timeout > 0
    /\ resp.ok
    /\ resp.declared <= limit
    /\ ~ReadFailed(limit, resp)
    /\ BytesRead(limit, resp) <= limit
=============================================================================
