---------------------------- MODULE ProviderGateway ----------------------------
(***************************************************************************)
(* ProviderAPIGateway.create_booking: RetryPolicy.execute around           *)
(* CircuitBreaker.call around the request.  The retry policy sees every    *)
(* exception alike: it retries the breaker's own refusal as it retries a   *)
(* failed request.  StripePaymentGateway.process_payment has no retry      *)
(* policy and is the instance with MaxRetries = 0.                         *)
(*                                                                         *)
(* A tick is the base delay of half a second; no task that is ready to run *)
(* waits for as long as that.                                              *)
(***************************************************************************)
EXTENDS CircuitBreaker

CONSTANTS
  MaxRetries,  \* max_retries
  BaseDelay,   \* base_delay_seconds, in ticks
  Factor,      \* backoff_factor
  MaxDelay     \* max_delay_seconds, in ticks

ASSUME GatewayAssumption ==
  /\ MaxRetries \in Nat
  /\ BaseDelay \in Nat \ {0}
  /\ Factor \in Nat \ {0}
  /\ MaxDelay \in Nat \ {0}
  /\ Factor ^ MaxRetries \in Nat  \* the provers know nothing of powers
  /\ \A a \in 0..MaxRetries : Factor ^ a \in 1..Factor ^ MaxRetries

VARIABLES
  stage,      \* caller -> where its booking is
  attempt,    \* caller -> attempt of its booking
  nap,        \* caller -> ticks it still sleeps
  result,     \* caller -> result of its last booking
  tripped,    \* has a failure of the present booking opened the breaker? (history)
  counted,    \* has it failed since the last success? (history)
  culprits    \* bookings that have failed since the last success, up to 2 (history)

bookings == <<stage, attempt, nap, result, tripped, counted, culprits>>
gatewayVars == <<vars, bookings>>

GatewayTypeOK ==
  /\ TypeOK
  /\ stage \in [Callers -> {"ready", "call", "request", "nap"}]
  /\ attempt \in [Callers -> 0..MaxRetries]
  /\ nap \in [Callers -> 0..MaxDelay]
  /\ result \in [Callers -> {"none", "SUCCESS", "CIRCUIT_OPEN", "FAILED"}]
  /\ tripped \in [Callers -> BOOLEAN]
  /\ counted \in [Callers -> BOOLEAN]
  /\ culprits \in 0..2

GatewayInit ==
  /\ Init
  /\ stage = [c \in Callers |-> "ready"]
  /\ attempt = [c \in Callers |-> 0]
  /\ nap = [c \in Callers |-> 0]
  /\ result = [c \in Callers |-> "none"]
  /\ tripped = [c \in Callers |-> FALSE]
  /\ counted = [c \in Callers |-> FALSE]
  /\ culprits = 0

-----------------------------------------------------------------------------
(* RetryPolicy *)

\* Mutant: the delay is not capped.
MutDelay(a) == BaseDelay * Factor ^ a

Delay(a) == UpTo(BaseDelay * Factor ^ a, MaxDelay)

\* Mutants: the policy allows for one retry more; attempts are not counted.
MutRetryOnceMore(c, error) ==
  \/ /\ attempt[c] > MaxRetries
     /\ stage' = [stage EXCEPT ![c] = "ready"]
     /\ result' = [result EXCEPT ![c] = error]
     /\ UNCHANGED <<attempt, nap>>
  \/ /\ attempt[c] <= MaxRetries
     /\ stage' = [stage EXCEPT ![c] = "nap"]
     /\ nap' = [nap EXCEPT ![c] = Delay(attempt[c])]
     /\ attempt' = [attempt EXCEPT ![c] = @ + 1]
     /\ UNCHANGED result
MutRetryForever(c, error) ==
  /\ stage' = [stage EXCEPT ![c] = "nap"]
  /\ nap' = [nap EXCEPT ![c] = Delay(attempt[c])]
  /\ UNCHANGED <<attempt, result>>

\* func() has raised.  create_booking turns the last error into its result.
Retry(c, error) ==
  \/ /\ attempt[c] >= MaxRetries
     /\ stage' = [stage EXCEPT ![c] = "ready"]
     /\ result' = [result EXCEPT ![c] = error]
     /\ UNCHANGED <<attempt, nap>>
  \/ /\ attempt[c] < MaxRetries
     /\ stage' = [stage EXCEPT ![c] = "nap"]
     /\ nap' = [nap EXCEPT ![c] = Delay(attempt[c])]
     /\ attempt' = [attempt EXCEPT ![c] = @ + 1]
     /\ UNCHANGED result

-----------------------------------------------------------------------------
(* create_booking *)

Book(c) ==
  /\ stage[c] = "ready"
  /\ stage' = [stage EXCEPT ![c] = "call"]
  /\ attempt' = [attempt EXCEPT ![c] = 0]
  /\ tripped' = [tripped EXCEPT ![c] = FALSE]
  /\ counted' = [counted EXCEPT ![c] = FALSE]
  /\ UNCHANGED <<vars, nap, result, culprits>>

\* The breaker lets the call through,
Attempt(c) ==
  /\ stage[c] = "call"
  /\ Enter(c)
  /\ stage' = [stage EXCEPT ![c] = "request"]
  /\ UNCHANGED <<attempt, nap, result, tripped, counted, culprits>>

\* Mutant: the breaker's own error counts as a failure and starts the wait again.
MutReject(c) ==
  /\ stage[c] = "call"
  /\ state = "OPEN" /\ ~ShouldAttemptReset
  /\ openedAge' = 0
  /\ tripAge' = 0
  /\ Retry(c, "CIRCUIT_OPEN")
  /\ UNCHANGED <<state, failureCount, pc, service, relieved, burst, tripped, counted, culprits>>

\* or raises CircuitBreakerOpenError.
Reject(c) ==
  /\ stage[c] = "call"
  /\ state = "OPEN" /\ ~ShouldAttemptReset
  /\ Retry(c, "CIRCUIT_OPEN")
  /\ UNCHANGED <<vars, tripped, counted, culprits>>

Succeed(c) ==
  /\ stage[c] = "request"
  /\ OnSuccess(c)
  /\ stage' = [stage EXCEPT ![c] = "ready"]
  /\ result' = [result EXCEPT ![c] = "SUCCESS"]
  /\ counted' = [d \in Callers |-> FALSE]
  /\ culprits' = 0
  /\ UNCHANGED <<attempt, nap, tripped>>

FailRequest(c) ==
  /\ stage[c] = "request"
  /\ OnFailure(c)
  /\ Retry(c, "FAILED")
  /\ tripped' = [tripped EXCEPT ![c] = @ \/ Trips]
  /\ counted' = [counted EXCEPT ![c] = TRUE]
  /\ culprits' = IF counted[c] THEN culprits ELSE UpTo(culprits + 1, 2)

-----------------------------------------------------------------------------
Awake(c) == stage[c] = "nap" /\ nap[c] <= 1

GatewayTick ==
  /\ Tick
  /\ \A c \in Callers : stage[c] # "call"
  /\ nap' = [c \in Callers |-> IF nap[c] > 0 THEN nap[c] - 1 ELSE 0]
  /\ stage' = [c \in Callers |-> IF Awake(c) THEN "call" ELSE stage[c]]
  /\ UNCHANGED <<attempt, result, tripped, counted, culprits>>

Outage == (GoDown \/ ComeUp) /\ UNCHANGED bookings

CreateBooking(c) == Book(c) \/ Attempt(c) \/ Reject(c) \/ Succeed(c) \/ FailRequest(c)

GatewayNext == (\E c \in Callers : CreateBooking(c)) \/ GatewayTick \/ Outage

GatewaySpec == GatewayInit /\ [][GatewayNext]_gatewayVars

\* There is always another booking, requests end (they have a timeout) and time
\* passes, also among callers that are never all at rest.
GatewayFairSpec ==
  /\ GatewaySpec
  /\ \A c \in Callers : WF_gatewayVars(CreateBooking(c))
  /\ SF_gatewayVars(GatewayTick)

-----------------------------------------------------------------------------
(* Properties *)

\* No delay is longer.
LongestDelay == UpTo(BaseDelay * Factor ^ MaxRetries, MaxDelay)

\* A booking sleeps between two attempts only.
SleepInv ==
  \A c \in Callers :
    /\ stage[c] = "nap" => nap[c] \in 1..LongestDelay /\ attempt[c] > 0
    /\ stage[c] # "nap" => nap[c] = 0

\* What a single booking has contributed to the breaker's count of failures.
CulpritInv ==
  /\ culprits = 0 => failureCount = 0 /\ \A c \in Callers : ~counted[c]
  /\ culprits = 1 =>
       /\ failureCount <= MaxRetries + 1
       /\ \A c, d \in Callers : counted[c] /\ counted[d] => c = d
       /\ \A c \in Callers :
            counted[c] /\ stage[c] # "ready" => failureCount <= attempt[c]

\* The time since a booking has opened the breaker is what it has slept.
OpenerInv ==
  /\ state = "CLOSED" => relieved
  /\ \A c \in Callers :
       tripped[c] /\ ~relieved /\ stage[c] \in {"nap", "call"} =>
         tripAge + nap[c] <= attempt[c] * LongestDelay

GatewayInv ==
  /\ GatewayTypeOK
  /\ ContainedInv
  /\ WaitInv
  /\ SleepInv
  /\ CulpritInv
  /\ OpenerInv

\* A booking whose own failure opens the breaker sends nothing more, unless
\* another one's success has relieved it: its retries are over before the
\* recovery timeout is, if that is longer than they may sleep.
OpenerIsSpared ==
  [][\A c \in Callers :
       MaxRetries * LongestDelay < Recovery /\ stage[c] = "call" /\ stage'[c] = "request" =>
         ~tripped[c] \/ relieved]_gatewayVars

\* The attempts of a single booking never open the breaker for the others: that
\* takes failures of two, if the threshold is above the attempts one may make.
OneBookingNeverTrips ==
  [][MaxRetries + 1 < Threshold /\ state = "CLOSED" /\ state' = "OPEN" =>
       culprits' > 1]_gatewayVars

\* The most that a booking still goes through: of each attempt the call, the
\* request and the sleep before the next one.
StepsLeft(c) ==
  LET retries == MaxRetries - attempt[c]
  IN  CASE stage[c] = "nap"     -> 3 * retries + 3
        [] stage[c] = "call"    -> 3 * retries + 2
        [] stage[c] = "request" -> 3 * retries + 1
        [] stage[c] = "ready"   -> 0

\* Every step of a booking, and every tick while it sleeps, brings it closer to its
\* end, and no other booking, tick or outage takes it further away.
BookingsRunDown ==
  [][\A c \in Callers : stage[c] # "ready" =>
       /\ StepsLeft(c)' <= StepsLeft(c)
       /\ CreateBooking(c) => StepsLeft(c)' < StepsLeft(c)
       /\ GatewayTick /\ stage[c] = "nap" =>
            StepsLeft(c)' < StepsLeft(c) \/ (stage'[c] = "nap" /\ nap'[c] < nap[c])]_gatewayVars

\* Every booking ends, service or no service.
EveryBookingEnds == \A c \in Callers : stage[c] # "ready" ~> stage[c] = "ready"

\* When the service is up for good and has made its last refusal, every booking
\* succeeds from some time on: no retry keeps the breaker from closing.
BookingsSucceed == <>[]up => <>[](\A c \in Callers : result[c] = "SUCCESS")
=============================================================================
