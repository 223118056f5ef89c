--------------------------- MODULE CircuitBreaker ---------------------------
(***************************************************************************)
(* infrastructure/resilience/circuit_breaker.py: callers that share one    *)
(* breaker in front of one external service.                               *)
(*                                                                         *)
(* The asyncio lock is never held across an await, so entering a call and  *)
(* recording its result are atomic; the request runs between the two with  *)
(* no lock, and other callers enter and leave meanwhile.  A worker, which  *)
(* has a breaker per gateway and handles one event at a time, is the       *)
(* instance with a single caller.                                          *)
(*                                                                         *)
(* Time is counted in ticks since an event, up to Recovery: the code asks  *)
(* no more of the clock than whether Recovery ticks have passed.           *)
(***************************************************************************)
EXTENDS Naturals, FiniteSets

CONSTANTS
  Callers,     \* tasks that use the breaker
  Threshold,   \* failure_threshold
  Recovery,    \* recovery_timeout_seconds, in ticks
  Never,       \* openedAge of a breaker whose _opened_at is None
  MaxOutages,  \* bound on the outages of the service
  MaxRefusals  \* bound on the requests it refuses while it is up

ASSUME BreakerAssumption ==
  /\ IsFiniteSet(Callers)
  /\ Threshold \in Nat \ {0}
  /\ Recovery \in Nat \ {0}
  /\ Never \notin Nat
  /\ MaxOutages \in Nat
  /\ MaxRefusals \in Nat

VARIABLES
  state,         \* _state
  failureCount,  \* _failure_count, up to Threshold
  openedAge,     \* ticks since _opened_at, up to Recovery, or Never
  pc,            \* caller -> idle, or what becomes of its request
  up,            \* is the service up?
  outages,       \* outages so far
  refusals,      \* requests refused so far
  tripAge,       \* ticks since the breaker last opened, up to Recovery (history)
  relieved,      \* has a request succeeded since then? (history)
  burst          \* requests sent to a dead service since the last success or
                 \* recovery timeout (history)

service == <<up, outages, refusals>>
breaker == <<state, failureCount, openedAge>>
trip == <<tripAge, relieved>>
vars == <<state, failureCount, openedAge, pc, up, outages, refusals, tripAge, relieved, burst>>

TypeOK ==
  /\ state \in {"CLOSED", "OPEN", "HALF_OPEN"}
  /\ failureCount \in 0..Threshold
  /\ openedAge \in 0..Recovery \cup {Never}
  /\ pc \in [Callers -> {"idle", "succeeding", "failing"}]
  /\ up \in BOOLEAN
  /\ outages \in 0..MaxOutages
  /\ refusals \in 0..MaxRefusals
  /\ tripAge \in 0..Recovery
  /\ relieved \in BOOLEAN
  /\ burst \in Nat

Init ==
  /\ state = "CLOSED"
  /\ failureCount = 0
  /\ openedAge = Never
  /\ pc = [c \in Callers |-> "idle"]
  /\ up = TRUE
  /\ outages = 0
  /\ refusals = 0
  /\ tripAge = Recovery
  /\ relieved = TRUE
  /\ burst = 0

-----------------------------------------------------------------------------
UpTo(n, limit) == IF n < limit THEN n ELSE limit

\* Mutant: the breaker may be probed one tick too early.
MutAttemptEarly == openedAge # Never /\ openedAge + 1 >= Recovery

ShouldAttemptReset == openedAge # Never /\ openedAge >= Recovery

\* func() is called: the service decides what will become of the request.  The
\* breaker counts a request refused for what it asks (a 4xx) as any failure.
Send(c) ==
  \/ /\ up
     /\ pc' = [pc EXCEPT ![c] = "succeeding"]
     /\ UNCHANGED service
  \/ /\ up
     /\ refusals < MaxRefusals
     /\ refusals' = refusals + 1
     /\ pc' = [pc EXCEPT ![c] = "failing"]
     /\ UNCHANGED <<up, outages>>
  \/ /\ ~up
     /\ pc' = [pc EXCEPT ![c] = "failing"]
     /\ UNCHANGED service

\* A rejected call is a stuttering step and not modelled.
Enter(c) ==
  /\ pc[c] = "idle"
  /\ Send(c)
  /\ \/ /\ state # "OPEN"
        /\ burst' = IF up THEN burst ELSE burst + 1
        /\ UNCHANGED breaker
     \/ /\ state = "OPEN" /\ ShouldAttemptReset
        /\ state' = "HALF_OPEN"
        /\ burst' = IF up THEN 0 ELSE 1
        /\ UNCHANGED <<failureCount, openedAge>>
  /\ UNCHANGED trip

OnSuccess(c) ==
  /\ pc[c] = "succeeding"
  /\ pc' = [pc EXCEPT ![c] = "idle"]
  /\ failureCount' = 0
  /\ state' = "CLOSED"
  /\ openedAge' = Never
  /\ burst' = 0
  /\ relieved' = TRUE
  /\ UNCHANGED <<service, tripAge>>

\* Mutant: the breaker opens one failure too late.
MutTrips == state = "HALF_OPEN" \/ failureCount >= Threshold

Trips == state = "HALF_OPEN" \/ failureCount + 1 >= Threshold

OnFailure(c) ==
  /\ pc[c] = "failing"
  /\ pc' = [pc EXCEPT ![c] = "idle"]
  /\ failureCount' = UpTo(failureCount + 1, Threshold)
  /\ \/ /\ Trips
        /\ state' = "OPEN"
        /\ openedAge' = 0
        /\ tripAge' = 0
        /\ relieved' = FALSE
     \/ /\ ~Trips
        /\ UNCHANGED <<state, openedAge, trip>>
  /\ UNCHANGED <<service, burst>>

-----------------------------------------------------------------------------
Tick ==
  /\ openedAge' = IF openedAge = Never THEN Never ELSE UpTo(openedAge + 1, Recovery)
  /\ tripAge' = UpTo(tripAge + 1, Recovery)
  /\ UNCHANGED <<state, failureCount, pc, service, relieved, burst>>

GoDown ==
  /\ up
  /\ outages < MaxOutages
  /\ up' = FALSE
  /\ outages' = outages + 1
  /\ UNCHANGED <<breaker, pc, refusals, trip, burst>>

ComeUp ==
  /\ ~up
  /\ up' = TRUE
  /\ UNCHANGED <<breaker, pc, outages, refusals, trip, burst>>

Call(c) == Enter(c) \/ OnSuccess(c) \/ OnFailure(c)

Next == \/ \E c \in Callers : Call(c)
        \/ Tick \/ GoDown \/ ComeUp

Spec == Init /\ [][Next]_vars

-----------------------------------------------------------------------------
(* Properties *)

\* After Threshold failures in a row the breaker is not CLOSED, and it is
\* CLOSED otherwise, however the calls overlap.  It has a time it opened at
\* whenever it is not CLOSED, so a probe is only a matter of time.
StateMatchesFailures ==
  /\ state = "CLOSED" <=> failureCount < Threshold
  /\ state = "CLOSED" <=> openedAge = Never

BreakerInv == TypeOK /\ StateMatchesFailures

\* At most Threshold requests of a run of failures are sent to a dead service,
\* and as many as there are other callers on their way at the time; a recovery
\* timeout starts the count again.
OutageIsContained == burst <= Threshold + Cardinality(Callers) - 1

\* For Recovery ticks after the breaker opened nothing is sent, unless a request
\* that was on its way when it opened comes back with success; a failure that
\* comes back late starts the wait again.
RejectsUntilRecovery ==
  [][\A c \in Callers : pc[c] = "idle" /\ pc'[c] # "idle" => tripAge = Recovery \/ relieved]_vars

-----------------------------------------------------------------------------
(* What makes the properties inductive *)

Failing == {c \in Callers : pc[c] = "failing"}

\* Of the requests in burst, those that have ended are counted as failures.
BurstIsCounted ==
  /\ state = "CLOSED" => burst <= failureCount + Cardinality(Failing)
  /\ state = "HALF_OPEN" => burst <= Cardinality(Failing)

ContainedInv == BreakerInv /\ BurstIsCounted /\ OutageIsContained

\* An OPEN breaker has seen no success since it opened, and its clock runs from
\* there; any other has waited for its recovery or seen a success.
WaitInv ==
  /\ BreakerInv
  /\ state = "OPEN" => openedAge = tripAge
  /\ state # "OPEN" => tripAge = Recovery \/ relieved
=============================================================================
