---------------------------- MODULE RetryingClient ----------------------------
(***************************************************************************)
(* One call through RetryingClient.request of integrations/base.py: the    *)
(* HTTP client all integrations share.  A call has a limit of attempts,    *)
(* the configured number or 1 when it is not retry-safe.  The service is   *)
(* modelled by the effect a request has there; an answer can be lost after *)
(* the effect, an error can be answered after it, and a request nobody     *)
(* awaits any more can still take effect.                                  *)
(***************************************************************************)
EXTENDS Naturals, FiniteSetsExt

CONSTANTS Attempts,     \* self.attempts
          Backoff,      \* self.backoff, in the unit of the clock
          RetryAfters,  \* the Retry-After values a service may send; a negative one
                        \* sleeps as long as 0 does
          NoHeader      \* no Retry-After, or one that is not a number

ASSUME AttemptsAssumption == Attempts \in Nat \ {0}
ASSUME BackoffAssumption == Backoff \in Nat
ASSUME HeaderAssumption == RetryAfters \subseteq Nat /\ NoHeader \notin Nat

VARIABLES
  call,     \* the loop: where it stands, its attempt, its limit, its next delay
  outcome,  \* what the caller gets, "none" while the call runs
  slept,    \* history: time spent in sleeps
  effects,  \* the service: requests that took effect
  network   \* requests given up that may still arrive

service == <<effects, network>>
vars == <<call, outcome, slept, service>>

MaxRetryAfter == 5
Categories == {"timeout", "unavailable", "authentication", "http_error", "retry_exhausted"}

\* Slip: retry_safe is ignored.
LimitAlways(safe) == Attempts

\* A call that is not retry-safe is sent once.
Limit(safe) == IF safe THEN Attempts ELSE 1

Init ==
  /\ \E safe \in BOOLEAN :
       call = [pc |-> "ready", safe |-> safe, attempt |-> 1, limit |-> Limit(safe), delay |-> 0]
  /\ outcome = "none" /\ slept = 0 /\ effects = 0 /\ network = 0

Last == call.attempt = call.limit

Send ==
  /\ call.pc = "ready"
  /\ call' = [call EXCEPT !.pc = "waiting"]
  /\ UNCHANGED <<outcome, slept, service>>

Return(result) == outcome' = result /\ call' = [call EXCEPT !.pc = "done"]
SleepFor(d) == call' = [call EXCEPT !.pc = "sleeping", !.delay = d] /\ UNCHANGED outcome

\* Slip: the delay the service asks for is not capped.
Uncapped(h) == IF h = NoHeader THEN Backoff * call.attempt ELSE h

\* Slip: a header that is not a number is used as it is.
Unparsed(h) == IF h = NoHeader THEN h ELSE Min({h, MaxRetryAfter})

\* Retry-After with its cap, or the linear backoff.
Delay(h) == IF h = NoHeader THEN Backoff * call.attempt ELSE Min({h, MaxRetryAfter})

\* The service takes the request and the answer arrives.
Succeeds ==
  /\ call.pc = "waiting"
  /\ effects' = effects + 1
  /\ Return("ok")
  /\ UNCHANGED <<slept, network>>

\* The request as an answer with an error status leaves it: the status does not say
\* whether the service, or only a proxy before it, took the request.
Errs == call.pc = "waiting" /\ effects' \in {effects, effects + 1} /\ UNCHANGED <<slept, network>>

\* 429, 502, 503 or 504 with an attempt left: the loop asks again.
RetryableStatus ==
  /\ Errs /\ ~Last
  /\ \E h \in RetryAfters \cup {NoHeader} : SleepFor(Delay(h))

\* Any other error status, or one of these at the last attempt: 401 and 403 have a
\* category of their own.
ErrorStatus == Errs /\ \E category \in {"authentication", "http_error"} : Return(category)

\* Slip: a connection error is reported like an answered error.
NoAnswerAsError ==
  /\ call.pc = "waiting"
  /\ network' \in {network, network + 1}
  /\ \/ ~Last /\ SleepFor(Backoff * call.attempt)
     \/ Last /\ Return("http_error")
  /\ UNCHANGED <<slept, effects>>

\* No answer: the timeout expired, or the connection failed.  The request may be
\* lost or still on its way; one that was applied is one that arrives at once.
NoAnswer ==
  /\ call.pc = "waiting"
  /\ network' \in {network, network + 1}
  /\ \/ ~Last /\ SleepFor(Backoff * call.attempt)
     \/ Last /\ \E category \in {"timeout", "unavailable"} : Return(category)
  /\ UNCHANGED <<slept, effects>>

\* The sleep is over and the loop takes its next turn, or has none left.
Wake ==
  /\ call.pc = "sleeping"
  /\ slept' = slept + call.delay
  /\ \/ /\ call.attempt < call.limit
        /\ call' = [call EXCEPT !.pc = "ready", !.attempt = @ + 1, !.delay = 0]
        /\ UNCHANGED outcome
     \/ call.attempt >= call.limit /\ Return("retry_exhausted")
  /\ UNCHANGED service

Arrives ==
  /\ network > 0
  /\ network' = network - 1
  /\ effects' \in {effects, effects + 1}
  /\ UNCHANGED <<call, outcome, slept>>

Done == call.pc = "done" /\ UNCHANGED vars

Step == Send \/ Succeeds \/ RetryableStatus \/ ErrorStatus \/ NoAnswer \/ Wake

Next == Step \/ Arrives \/ Done

Spec == Init /\ [][Next]_vars

------------------------------------------------------------------------------
(* Properties.                                                               *)

CallRecord == [pc : {"ready", "waiting", "sleeping", "done"}, safe : BOOLEAN,
               attempt : Nat, limit : Nat, delay : Nat]

TypeOK ==
  /\ call \in CallRecord
  /\ outcome \in Categories \cup {"none", "ok"}
  /\ slept \in Nat /\ effects \in Nat /\ network \in Nat

\* A call that is not retry-safe (the Shuffle trigger) has at most one effect, now or
\* later; a retry-safe one at most one for each configured attempt.
EffectsBounded ==
  effects + network <= (IF call.safe THEN Attempts ELSE 1)

\* Only timeout and unavailable leave the last request on its way: whatever else a call
\* returns, what may still arrive was sent by earlier attempts, and there are none when
\* the call is not retry-safe.  The worker relies on it when it releases a handoff for
\* another category and sends the trace again (worker.py:112-118).
AnsweredIsOver ==
  outcome \notin {"none", "timeout", "unavailable"} => network < call.attempt

\* The error after the loop is never raised: the last attempt always decides.
NeverExhausted == outcome # "retry_exhausted"

\* A service cannot make a call sleep longer than the capped Retry-After or the
\* linear backoff of each retry.
WaitBounded == slept <= (Attempts - 1) * Max({MaxRetryAfter, Backoff * (Attempts - 1)})
==============================================================================
