---------------------------- MODULE WhisperClient ---------------------------
(***************************************************************************)
(* internal/whisper: the client of the hosted Whisper service.  The gate,  *)
(* a channel of capacity one, is held by the goroutine whose request is at *)
(* the upstream; the reply is classified as success, transient (worth a    *)
(* retry) or permanent.                                                    *)
(***************************************************************************)
EXTENDS Naturals

CONSTANT NoOne    \* the gate is free

VARIABLE gate     \* the goroutine whose token is in the channel, or NoOne

GateInit == gate = NoOne

\* case c.gate <- struct{}{}
Acquire(c) == gate = NoOne /\ gate' = c

\* Wrong variant: a return path without the deferred receive.
KeepGate(c) == gate' = gate

\* defer func() { <-c.gate }()
Release(c) == gate' = NoOne

\* What the upstream may answer: no usable response (transport error, client
\* timeout, cancelled request, truncated body), or an HTTP status.
TransportError == 0
Replies == {TransportError, 200, 304, 422, 500, 503}

Outcome(reply) ==
    CASE reply = 200                              -> "ok"
      [] reply >= 500 \/ reply = TransportError   -> "transient"
      [] OTHER                                    -> "permanent"
=============================================================================
