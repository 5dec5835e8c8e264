-------------------------- MODULE RetryingClient_proof --------------------------
(***************************************************************************)
(* Proofs about RetryingClient, for every configured number of attempts.   *)
(***************************************************************************)
EXTENDS RetryingClient, TLAPS

\* Each attempt that is over accounts for at most one effect, now or later, and the
\* loop sleeps only when an attempt is left.
LoopInv ==
  /\ call.limit = Limit(call.safe)
  /\ call.attempt \in 1..call.limit
  /\ call.pc = "sleeping" => call.attempt < call.limit
  /\ call.pc \in {"ready", "waiting"} => effects + network <= call.attempt - 1
  /\ effects + network <= call.attempt
  /\ call.pc # "done" => outcome = "none"
  /\ outcome # "retry_exhausted"

IInv == TypeOK /\ LoopInv /\ AnsweredIsOver

LEMMA MinNat ==
  ASSUME NEW a \in Nat, NEW b \in Nat
  PROVE  Min({a, b}) \in {a, b}
  <1>1. \E x \in {a, b} : \A y \in {a, b} : x <= y
    <2>1. CASE a <= b
      BY <2>1
    <2>2. CASE b <= a
      BY <2>2
    <2> QED BY <2>1, <2>2
  <1> QED BY <1>1 DEF Min

LEMMA DelayNat ==
  ASSUME TypeOK, NEW h \in RetryAfters \cup {NoHeader}
  PROVE  Delay(h) \in Nat /\ Backoff * call.attempt \in Nat
  <1>1. Backoff * call.attempt \in Nat
    BY BackoffAssumption DEF TypeOK, CallRecord
  <1>2. h # NoHeader => Min({h, MaxRetryAfter}) \in Nat
    BY MinNat, HeaderAssumption DEF MaxRetryAfter
  <1> QED BY <1>1, <1>2 DEF Delay

LEMMA InitInv == Init => IInv
  <1> SUFFICES ASSUME Init PROVE IInv
    OBVIOUS
  <1>1. PICK safe \in BOOLEAN :
          call = [pc |-> "ready", safe |-> safe, attempt |-> 1, limit |-> Limit(safe),
                  delay |-> 0]
    BY DEF Init
  <1>2. Limit(safe) \in Nat \ {0}
    BY AttemptsAssumption DEF Limit
  <1>3. outcome = "none" /\ slept = 0 /\ effects = 0 /\ network = 0
    BY DEF Init
  <1>4. TypeOK
    BY <1>1, <1>2, <1>3 DEF TypeOK, CallRecord, Categories
  <1> QED BY <1>1, <1>2, <1>3, <1>4 DEF IInv, LoopInv, AnsweredIsOver, Categories

\* The two ways the loop leaves an attempt, as facts about the fields of the record.
LEMMA ReturnFields ==
  ASSUME TypeOK, NEW result, Return(result)
  PROVE  /\ call' \in CallRecord /\ call'.pc = "done" /\ outcome' = result
         /\ call'.safe = call.safe /\ call'.attempt = call.attempt
         /\ call'.limit = call.limit
  BY DEF TypeOK, CallRecord, Return

SleepFacts == /\ call' \in CallRecord /\ call'.pc = "sleeping" /\ outcome' = outcome
              /\ call'.safe = call.safe /\ call'.attempt = call.attempt
              /\ call'.limit = call.limit

LEMMA SleepFields ==
  ASSUME TypeOK, NEW d \in Nat, SleepFor(d)
  PROVE  SleepFacts
  BY DEF TypeOK, CallRecord, SleepFor, SleepFacts

LEMMA NextInv == IInv /\ [Next]_vars => IInv'
  <1> SUFFICES ASSUME IInv, [Next]_vars PROVE IInv'
    OBVIOUS
  <1> USE DEF IInv, LoopInv, AnsweredIsOver, Categories
  <1>0. /\ call \in CallRecord /\ call.attempt \in Nat /\ call.limit \in Nat
        /\ call.safe \in BOOLEAN /\ effects \in Nat /\ network \in Nat /\ slept \in Nat
        /\ call.safe = FALSE => call.limit = 1
    BY DEF TypeOK, CallRecord, Limit
  <1>1. CASE Send
    <2>1. /\ call' \in CallRecord /\ call.pc = "ready" /\ call'.pc = "waiting"
          /\ call'.safe = call.safe /\ call'.attempt = call.attempt /\ call'.limit = call.limit
      BY <1>0, <1>1 DEF Send, CallRecord
    <2>2. UNCHANGED <<outcome, slept, effects, network>>
      BY <1>1 DEF Send, service
    <2> QED BY <2>1, <2>2 DEF TypeOK, Limit
  <1>2. CASE Succeeds
    <2>1. call.pc = "waiting" /\ effects' = effects + 1 /\ Return("ok")
          /\ UNCHANGED <<slept, network>>
      BY <1>2 DEF Succeeds
    <2> QED BY <1>0, <2>1, ReturnFields DEF TypeOK, Limit
  <1>3. CASE ErrorStatus
    <2>1. /\ call.pc = "waiting" /\ effects' \in {effects, effects + 1}
          /\ UNCHANGED <<slept, network>>
      BY <1>3 DEF ErrorStatus, Errs
    <2>2. PICK category \in {"authentication", "http_error"} : Return(category)
      BY <1>3 DEF ErrorStatus
    <2> QED BY <1>0, <2>1, <2>2, ReturnFields DEF TypeOK, Limit
  <1>4. CASE RetryableStatus
    <2>1. /\ call.pc = "waiting" /\ effects' \in {effects, effects + 1} /\ ~Last
          /\ UNCHANGED <<slept, network>>
      BY <1>4 DEF RetryableStatus, Errs
    <2>2. PICK h \in RetryAfters \cup {NoHeader} : SleepFor(Delay(h))
      BY <1>4 DEF RetryableStatus
    <2>3. SleepFor(Delay(h)) => SleepFacts
      BY DelayNat, SleepFields
    <2> QED BY <1>0, <2>1, <2>2, <2>3 DEF TypeOK, Limit, Last, SleepFacts
  <1>5. CASE NoAnswer
    <2>1. call.pc = "waiting" /\ network' \in {network, network + 1}
          /\ UNCHANGED <<slept, effects>>
      BY <1>5 DEF NoAnswer
    <2>2. CASE ~Last /\ SleepFor(Backoff * call.attempt)
      <3>1. SleepFacts
        BY <2>2, DelayNat, SleepFields
      <3> QED BY <1>0, <2>1, <2>2, <3>1 DEF TypeOK, Limit, Last, SleepFacts
    <2>3. CASE Last /\ \E category \in {"timeout", "unavailable"} : Return(category)
      <3>1. PICK category \in {"timeout", "unavailable"} : Return(category)
        BY <2>3
      <3> QED BY <1>0, <2>1, <3>1, ReturnFields DEF TypeOK, Limit
    <2> QED BY <1>5, <2>2, <2>3 DEF NoAnswer
  <1>6. CASE Wake
    <2>1. call.pc = "sleeping" /\ slept' = slept + call.delay /\ call.delay \in Nat
          /\ UNCHANGED <<outcome, effects, network>>
      BY <1>0, <1>6 DEF Wake, service, CallRecord
    <2>2. call' = [call EXCEPT !.pc = "ready", !.attempt = call.attempt + 1, !.delay = 0]
      BY <1>0, <1>6, <2>1 DEF Wake
    <2>3. /\ call' \in CallRecord /\ call'.pc = "ready" /\ call'.safe = call.safe
          /\ call'.attempt = call.attempt + 1 /\ call'.limit = call.limit
      <3> DEFINE next == call.attempt + 1
      <3>1. next \in Nat /\ call' = [call EXCEPT !.pc = "ready", !.attempt = next, !.delay = 0]
        BY <1>0, <2>2
      <3> HIDE DEF next
      <3>2. /\ call' \in CallRecord /\ call'.pc = "ready" /\ call'.safe = call.safe
            /\ call'.attempt = next /\ call'.limit = call.limit
        BY <1>0, <3>1 DEF CallRecord
      <3> QED BY <3>2 DEF next
    <2>4. slept' \in Nat
      BY <1>0, <2>1
    <2> QED BY <1>0, <2>1, <2>3, <2>4 DEF TypeOK, Limit
  <1>7. CASE Arrives
    <2>1. network > 0 /\ network' = network - 1 /\ effects' \in {effects, effects + 1}
          /\ UNCHANGED <<call, outcome, slept>>
      BY <1>7 DEF Arrives
    <2> QED BY <1>0, <2>1 DEF TypeOK, Limit
  <1>8. CASE UNCHANGED vars
    BY <1>8 DEF vars, service, TypeOK, Limit
  <1> QED BY <1>1, <1>2, <1>3, <1>4, <1>5, <1>6, <1>7, <1>8 DEF Next, Step, Done

\* For any number of attempts a call has at most one effect for each of them, and a
\* call that is not retry-safe at most one, however late requests arrive.
THEOREM EffectsAreBounded == Spec => []EffectsBounded
  <1>1. IInv => EffectsBounded
    BY AttemptsAssumption DEF IInv, LoopInv, TypeOK, CallRecord, Limit, EffectsBounded
  <1> QED BY InitInv, NextInv, <1>1, PTL DEF Spec

\* An answered call is over: for any number of attempts, only timeout and unavailable
\* mean that its last request may still take effect.
THEOREM AnswersAreOver == Spec => []AnsweredIsOver
  <1>1. IInv => AnsweredIsOver
    BY DEF IInv
  <1> QED BY InitInv, NextInv, <1>1, PTL DEF Spec

\* The raise statement after the loop is dead code.
THEOREM LoopAlwaysDecides == Spec => []NeverExhausted
  <1>1. IInv => NeverExhausted
    BY DEF IInv, LoopInv, NeverExhausted
  <1> QED BY InitInv, NextInv, <1>1, PTL DEF Spec

\* Type correctness of the call and of what is on its way to the service.
THEOREM CallTyped == Spec => []TypeOK
  <1>1. IInv => TypeOK
    BY DEF IInv
  <1> QED BY InitInv, NextInv, <1>1, PTL DEF Spec

------------------------------------------------------------------------------
(* The time spent in sleeps: each attempt but the last pays one, of at most  *)
(* the longest that the cap or the backoff allows.                           *)

LongestSleep == Max({MaxRetryAfter, Backoff * (Attempts - 1)})

SleepInv == /\ slept <= (call.attempt - 1) * LongestSleep
            /\ call.pc = "sleeping" => call.delay <= LongestSleep

LEMMA Monotone ==
  ASSUME NEW a \in Nat, NEW b \in Nat, NEW k \in Nat, a <= b
  PROVE  k * a <= k * b /\ a * k <= b * k
  OBVIOUS

LEMMA LongestIsLongest ==
  /\ LongestSleep \in Nat
  /\ MaxRetryAfter <= LongestSleep
  /\ Backoff * (Attempts - 1) <= LongestSleep
  <1> DEFINE a == MaxRetryAfter
  <1> DEFINE b == Backoff * (Attempts - 1)
  <1>1. a \in Nat /\ b \in Nat
    BY AttemptsAssumption, BackoffAssumption DEF MaxRetryAfter
  <1> HIDE DEF a, b
  <1>2. \E x \in {a, b} : \A y \in {a, b} : y <= x
    <2>1. CASE a <= b
      BY <1>1, <2>1
    <2>2. CASE b <= a
      BY <1>1, <2>2
    <2> QED BY <1>1, <2>1, <2>2
  <1>3. Max({a, b}) \in {a, b} /\ \A y \in {a, b} : y <= Max({a, b})
    BY <1>2 DEF Max
  <1> QED BY <1>1, <1>3 DEF LongestSleep, a, b

\* What the loop chooses to sleep before another attempt, whatever the service asks for.
LEMMA DelayBounded ==
  ASSUME IInv, call.pc = "waiting", ~Last, NEW h \in RetryAfters \cup {NoHeader}
  PROVE  Delay(h) <= LongestSleep /\ Backoff * call.attempt <= LongestSleep
  <1>1. call.attempt \in Nat /\ call.attempt <= Attempts - 1
    BY AttemptsAssumption DEF IInv, LoopInv, TypeOK, CallRecord, Limit, Last
  <1>2. Backoff * call.attempt <= Backoff * (Attempts - 1)
    BY <1>1, AttemptsAssumption, BackoffAssumption, Monotone
  <1>3. Backoff * call.attempt <= LongestSleep
    <2>1. Backoff * call.attempt \in Nat /\ Backoff * (Attempts - 1) \in Nat
      BY <1>1, AttemptsAssumption, BackoffAssumption
    <2> QED BY <1>2, <2>1, LongestIsLongest
  <1>4. ASSUME h # NoHeader PROVE Min({h, MaxRetryAfter}) <= MaxRetryAfter
    <2>1. h \in Nat /\ MaxRetryAfter \in Nat
      BY <1>4, HeaderAssumption DEF MaxRetryAfter
    <2>2. \E x \in {h, MaxRetryAfter} : \A y \in {h, MaxRetryAfter} : x <= y
      BY <2>1
    <2> QED BY <2>2 DEF Min
  <1>5. h # NoHeader => Min({h, MaxRetryAfter}) \in Nat
    BY MinNat, HeaderAssumption DEF MaxRetryAfter
  <1>6. MaxRetryAfter \in Nat
    BY DEF MaxRetryAfter
  <1> QED BY <1>3, <1>4, <1>5, <1>6, LongestIsLongest DEF Delay

LEMMA InitSleep == Init => SleepInv
  <1> SUFFICES ASSUME Init PROVE SleepInv
    OBVIOUS
  <1>1. slept = 0 /\ call.attempt = 1 /\ call.pc = "ready"
    BY DEF Init
  <1> QED BY <1>1, LongestIsLongest DEF SleepInv

LEMMA SleepForDelay ==
  ASSUME TypeOK, NEW d \in Nat, SleepFor(d)
  PROVE  call'.delay = d /\ call'.attempt = call.attempt
  BY DEF TypeOK, CallRecord, SleepFor

LEMMA NextSleep == IInv /\ SleepInv /\ [Next]_vars => SleepInv'
  <1> SUFFICES ASSUME IInv, SleepInv, [Next]_vars PROVE SleepInv'
    OBVIOUS
  <1>0. /\ TypeOK /\ call \in CallRecord /\ call.attempt \in Nat \ {0}
        /\ slept \in Nat /\ call.delay \in Nat /\ LongestSleep \in Nat
    BY LongestIsLongest DEF IInv, LoopInv, TypeOK, CallRecord
  <1>1. ASSUME UNCHANGED slept, call'.attempt = call.attempt,
               \/ call'.pc # "sleeping"
               \/ call'.delay <= LongestSleep
        PROVE  SleepInv'
    BY <1>1 DEF SleepInv, LongestSleep
  <1>2. ASSUME UNCHANGED slept, NEW result, Return(result) PROVE SleepInv'
    BY <1>0, <1>1, <1>2, ReturnFields
  <1>3. ASSUME UNCHANGED slept, NEW d \in Nat, SleepFor(d), d <= LongestSleep PROVE SleepInv'
    BY <1>0, <1>1, <1>3, SleepForDelay
  <1>4. CASE Send
    BY <1>0, <1>1, <1>4 DEF Send, CallRecord
  <1>5. CASE Succeeds \/ ErrorStatus
    BY <1>2, <1>5 DEF Succeeds, ErrorStatus, Errs
  <1>6. CASE RetryableStatus
    <2>1. call.pc = "waiting" /\ UNCHANGED slept /\ ~Last
      BY <1>6 DEF RetryableStatus, Errs
    <2>2. PICK h \in RetryAfters \cup {NoHeader} : SleepFor(Delay(h))
      BY <1>6 DEF RetryableStatus
    <2>3. Delay(h) \in Nat
      BY <1>0, DelayNat
    <2>4. Delay(h) <= LongestSleep
      BY <2>1, DelayBounded
    <2> QED BY <1>3, <2>1, <2>2, <2>3, <2>4
  <1>7. CASE NoAnswer
    <2>1. call.pc = "waiting" /\ UNCHANGED slept
      BY <1>7 DEF NoAnswer
    <2>2. CASE ~Last /\ SleepFor(Backoff * call.attempt)
      <3>1. Backoff * call.attempt \in Nat
        BY <1>0, DelayNat
      <3>2. Backoff * call.attempt <= LongestSleep
        BY <2>1, <2>2, DelayBounded
      <3> QED BY <1>3, <2>1, <2>2, <3>1, <3>2
    <2> QED BY <1>2, <1>7, <2>1, <2>2 DEF NoAnswer
  <1>8. CASE Wake
    <2> DEFINE next == call.attempt + 1
    <2>1. call.pc = "sleeping" /\ slept' = slept + call.delay
      BY <1>8 DEF Wake
    <2>2. call' = [call EXCEPT !.pc = "ready", !.attempt = next, !.delay = 0]
      BY <1>0, <1>8, <2>1 DEF Wake, IInv, LoopInv, CallRecord, Limit
    <2>3. next - 1 = call.attempt
      BY <1>0
    <2> HIDE DEF next
    <2>4. call'.pc = "ready" /\ call'.attempt = next
      BY <1>0, <2>2 DEF CallRecord
    <2>5. slept <= (call.attempt - 1) * LongestSleep /\ call.delay <= LongestSleep
      BY <2>1 DEF SleepInv
    <2>6. (call.attempt - 1) * LongestSleep + LongestSleep = call.attempt * LongestSleep
      BY <1>0
    <2>7. (call.attempt - 1) * LongestSleep \in Nat
      BY <1>0
    <2>8. slept + call.delay <= call.attempt * LongestSleep
      BY <1>0, <2>5, <2>6, <2>7
    <2> QED BY <2>1, <2>3, <2>4, <2>8 DEF SleepInv, LongestSleep
  <1>9. CASE Arrives \/ UNCHANGED vars
    BY <1>9 DEF Arrives, vars, SleepInv, LongestSleep
  <1> QED BY <1>4, <1>5, <1>6, <1>7, <1>8, <1>9 DEF Next, Step, Done

\* Whatever Retry-After values a service sends, a call sleeps at most the longest of the
\* cap and the last backoff, once for each attempt but the last.
THEOREM WaitIsBounded == Spec => []WaitBounded
  <1>1. IInv /\ SleepInv => WaitBounded
    <2> SUFFICES ASSUME IInv, SleepInv PROVE slept <= (Attempts - 1) * LongestSleep
      BY DEF WaitBounded, LongestSleep
    <2>1. /\ call.attempt - 1 \in Nat /\ Attempts - 1 \in Nat /\ slept \in Nat
          /\ call.attempt - 1 <= Attempts - 1
      BY AttemptsAssumption DEF IInv, LoopInv, TypeOK, CallRecord, Limit
    <2>2. (call.attempt - 1) * LongestSleep <= (Attempts - 1) * LongestSleep
      BY <2>1, LongestIsLongest, Monotone
    <2>3. (call.attempt - 1) * LongestSleep \in Nat /\ (Attempts - 1) * LongestSleep \in Nat
      BY <2>1, LongestIsLongest
    <2> QED BY <2>1, <2>2, <2>3 DEF SleepInv
  <1> QED BY InitInv, NextInv, InitSleep, NextSleep, <1>1, PTL DEF Spec
==============================================================================
