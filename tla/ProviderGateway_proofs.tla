------------------------ MODULE ProviderGateway_proofs ------------------------
(* Theorems about ProviderGateway, for any number of callers, any delays and *)
(* any number of retries.                                                    *)
EXTENDS ProviderGateway, CircuitBreaker_proofs

\* The breaker cannot tell whether its callers retry: bookings make steps of
\* CircuitBreaker only.
THEOREM GatewayUsesBreaker == GatewaySpec => Spec
<1>1. GatewayInit => Init
  BY DEF GatewayInit
<1>2. [GatewayNext]_gatewayVars => [Next]_vars
  <2> SUFFICES ASSUME GatewayNext \/ UNCHANGED gatewayVars PROVE Next \/ UNCHANGED vars
    OBVIOUS
  <2>1. ASSUME NEW c \in Callers, CreateBooking(c) PROVE Next \/ UNCHANGED vars
    <3>1. CASE Book(c) \/ Reject(c)
      BY <3>1 DEF Book, Reject
    <3>2. CASE Attempt(c) \/ Succeed(c) \/ FailRequest(c)
      <4>1. Call(c)
        BY <3>2 DEF Attempt, Succeed, FailRequest, Call
      <4> QED
        BY <4>1 DEF Next
    <3> QED
      BY <2>1, <3>1, <3>2 DEF CreateBooking
  <2>2. CASE GatewayTick
    BY <2>2 DEF GatewayTick, Next
  <2>3. CASE Outage
    BY <2>3 DEF Outage, Next
  <2>4. CASE UNCHANGED gatewayVars
    BY <2>4 DEF gatewayVars
  <2> QED
    BY <2>1, <2>2, <2>3, <2>4 DEF GatewayNext
<1> QED
  BY <1>1, <1>2, PTL DEF GatewaySpec, Spec

\* However many bookings are under way, a dead service gets no more requests
\* than the breaker allows.
THEOREM GatewayContainsOutages == GatewaySpec => []OutageIsContained
  BY GatewayUsesBreaker, OutagesAreContained, PTL

\* No retry reaches the service before the recovery timeout.
THEOREM GatewaySparesService == GatewaySpec => RejectsUntilRecovery
  BY GatewayUsesBreaker, ServiceIsSpared, PTL

-----------------------------------------------------------------------------
\* A delay is a positive number and no longer than the longest one.
LEMMA DelayBounds ==
  /\ LongestDelay \in 1..MaxDelay
  /\ \A a \in 0..MaxRetries : Delay(a) \in 1..LongestDelay
<1> USE GatewayAssumption
<1> DEFINE P == Factor ^ MaxRetries
<1>1. P \in Nat /\ \A a \in 0..MaxRetries : Factor ^ a \in 1..P
  OBVIOUS
<1>2. MaxRetries \in 0..MaxRetries
  OBVIOUS
<1>3. P \in 1..P
  BY <1>1, <1>2
<1> HIDE DEF P
<1>4. BaseDelay * P \in Nat \ {0}
  BY <1>1, <1>3
<1>5. LongestDelay \in 1..MaxDelay
  BY <1>4 DEF LongestDelay, UpTo, P
<1>6. ASSUME NEW a \in 0..MaxRetries PROVE Delay(a) \in 1..LongestDelay
  <2> DEFINE F == Factor ^ a
  <2>1. F \in 1..P
    BY <1>1
  <2> HIDE DEF F
  <2>2. BaseDelay * F \in Nat \ {0} /\ BaseDelay * F <= BaseDelay * P
    BY <1>1, <2>1
  <2> QED
    BY <1>4, <2>2 DEF Delay, LongestDelay, UpTo, P, F
<1> QED
  BY <1>5, <1>6

\* So many delays are no longer than as many of the longest one.
LEMMA DelaysAddUp ==
  ASSUME NEW a \in 0..MaxRetries
  PROVE  /\ a * LongestDelay \in Nat
         /\ (a + 1) * LongestDelay = a * LongestDelay + LongestDelay
         /\ a * LongestDelay <= MaxRetries * LongestDelay
         /\ MaxRetries * LongestDelay \in Nat
         /\ a > 0 => LongestDelay <= a * LongestDelay
<1>1. LongestDelay \in Nat /\ a \in Nat /\ MaxRetries \in Nat /\ a <= MaxRetries
  BY DelayBounds, GatewayAssumption
<1> HIDE DEF LongestDelay
<1> QED
  BY <1>1

-----------------------------------------------------------------------------
\* Bookings keep the types of their variables.
LEMMA TypesKept ==
  ASSUME GatewayTypeOK, TypeOK', [GatewayNext]_gatewayVars
  PROVE  GatewayTypeOK'
<1> USE GatewayAssumption DEF GatewayTypeOK
<1>1. ASSUME NEW c \in Callers, NEW error \in {"CIRCUIT_OPEN", "FAILED"}, Retry(c, error)
      PROVE  /\ stage' \in [Callers -> {"ready", "call", "request", "nap"}]
             /\ attempt' \in [Callers -> 0..MaxRetries]
             /\ nap' \in [Callers -> 0..MaxDelay]
             /\ result' \in [Callers -> {"none", "SUCCESS", "CIRCUIT_OPEN", "FAILED"}]
  <2>1. Delay(attempt[c]) \in 0..MaxDelay
    BY DelayBounds
  <2> QED
    BY <1>1, <2>1 DEF Retry
<1>2. ASSUME NEW c \in Callers, CreateBooking(c) PROVE GatewayTypeOK'
  <2>1. CASE Book(c)
    BY <2>1 DEF Book
  <2>2. CASE Attempt(c)
    BY <2>2 DEF Attempt
  <2>3. CASE Reject(c)
    BY <1>1, <2>3 DEF Reject
  <2>4. CASE Succeed(c)
    BY <2>4 DEF Succeed
  <2>5. CASE FailRequest(c)
    <3>1. tripped' \in [Callers -> BOOLEAN]
      <4>1. (tripped[c] \/ Trips) \in BOOLEAN
        BY DEF Trips
      <4> QED
        BY <2>5, <4>1, Zenon DEF FailRequest
    <3>2. counted' \in [Callers -> BOOLEAN] /\ culprits' \in 0..2
      BY <2>5 DEF FailRequest, UpTo
    <3> QED
      BY <1>1, <2>5, <3>1, <3>2 DEF FailRequest
  <2> QED
    BY <1>2, <2>1, <2>2, <2>3, <2>4, <2>5 DEF CreateBooking
<1>3. CASE GatewayTick
  <2>1. nap' \in [Callers -> 0..MaxDelay]
    BY <1>3 DEF GatewayTick
  <2>2. stage' \in [Callers -> {"ready", "call", "request", "nap"}]
    BY <1>3 DEF GatewayTick
  <2> QED
    BY <1>3, <2>1, <2>2 DEF GatewayTick
<1>4. CASE Outage \/ UNCHANGED gatewayVars
  BY <1>4 DEF Outage, gatewayVars, bookings
<1> QED
  BY <1>2, <1>3, <1>4 DEF GatewayNext

\* A booking sleeps only between two attempts.
LEMMA SleepKept ==
  ASSUME GatewayTypeOK, SleepInv, [GatewayNext]_gatewayVars
  PROVE  SleepInv'
<1> USE GatewayAssumption DEF GatewayTypeOK, SleepInv
<1>1. ASSUME NEW c \in Callers, NEW error, stage[c] # "nap", Retry(c, error) PROVE SleepInv'
  <2>1. Delay(attempt[c]) \in 1..LongestDelay
    BY DelayBounds
  <2> QED
    BY <1>1, <2>1 DEF Retry
<1>2. ASSUME NEW c \in Callers, CreateBooking(c) PROVE SleepInv'
  <2>1. CASE Reject(c) \/ FailRequest(c)
    BY <1>1, <2>1 DEF Reject, FailRequest
  <2>2. CASE Book(c) \/ Attempt(c) \/ Succeed(c)
    BY <2>2 DEF Book, Attempt, Succeed
  <2> QED
    BY <1>2, <2>1, <2>2 DEF CreateBooking
<1>3. CASE GatewayTick
  <2>1. LongestDelay \in Nat
    BY DelayBounds
  <2> QED
    BY <1>3, <2>1 DEF GatewayTick, Awake
<1>4. CASE Outage \/ UNCHANGED gatewayVars
  BY <1>4 DEF Outage, gatewayVars, bookings
<1> QED
  BY <1>2, <1>3, <1>4 DEF GatewayNext

\* The failures of a lone culprit are the attempts it has made.
LEMMA CulpritKept ==
  ASSUME GatewayTypeOK, CulpritInv, [GatewayNext]_gatewayVars
  PROVE  CulpritInv'
<1> USE GatewayAssumption DEF GatewayTypeOK, TypeOK, CulpritInv
<1>1. ASSUME NEW c \in Callers, CreateBooking(c) PROVE CulpritInv'
  <2>1. CASE Book(c)
    BY <2>1 DEF Book, vars
  <2>2. CASE Attempt(c)
    <3>1. failureCount' = failureCount
      BY <2>2 DEF Attempt, Enter, breaker
    <3> QED
      BY <2>2, <3>1 DEF Attempt
  <2>3. CASE Reject(c)
    BY <2>3 DEF Reject, Retry, vars
  <2>4. CASE Succeed(c)
    BY <2>4 DEF Succeed, OnSuccess
  <2>5. CASE FailRequest(c)
    <3>1. /\ failureCount' \in Nat
          /\ failureCount' <= failureCount + 1
          /\ counted' = [counted EXCEPT ![c] = TRUE]
          /\ culprits' = IF counted[c] THEN culprits ELSE UpTo(culprits + 1, 2)
      BY <2>5, BreakerAssumption DEF FailRequest, OnFailure, UpTo
    <3>2. CASE ~counted[c] /\ culprits > 0
      BY <3>1, <3>2 DEF UpTo
    <3>3. CASE ~counted[c] /\ culprits = 0
      <4>1. failureCount' <= 1 /\ culprits' = 1
        BY <3>1, <3>3 DEF UpTo
      <4>2. failureCount' <= MaxRetries + 1
        BY <3>1, <4>1
      <4>3. \A d \in Callers : counted'[d] => d = c
        BY <3>1, <3>3
      <4>4. stage'[c] # "ready" => attempt'[c] \in Nat /\ attempt'[c] >= 1
        BY <2>5 DEF FailRequest, Retry
      <4>5. \A d \in Callers : counted'[d] /\ stage'[d] # "ready" => failureCount' <= attempt'[d]
        BY <3>1, <4>1, <4>3, <4>4
      <4> QED
        BY <4>1, <4>2, <4>3, <4>5
    <3>4. CASE counted[c]
      <4>1. culprits' = culprits /\ counted' = counted /\ culprits # 0
        BY <3>1, <3>4
      <4>2. CASE culprits = 1
        <5>1. failureCount <= attempt[c] /\ \A d \in Callers : counted[d] => d = c
          BY <2>5, <3>4, <4>2 DEF FailRequest
        <5>2. failureCount' <= attempt[c] + 1 /\ attempt[c] <= MaxRetries
          BY <3>1, <5>1
        <5>3. stage'[c] # "ready" => attempt'[c] = attempt[c] + 1
          BY <2>5 DEF FailRequest, Retry
        <5>4. failureCount' <= MaxRetries + 1
          BY <3>1, <5>2
        <5>5. \A d \in Callers : counted'[d] /\ stage'[d] # "ready" => failureCount' <= attempt'[d]
          BY <3>1, <4>1, <5>1, <5>2, <5>3
        <5> QED
          BY <4>1, <4>2, <5>1, <5>4, <5>5
      <4> QED
        BY <4>1, <4>2
    <3> QED
      BY <3>2, <3>3, <3>4
  <2> QED
    BY <1>1, <2>1, <2>2, <2>3, <2>4, <2>5 DEF CreateBooking
<1>2. CASE GatewayTick
  <2>1. UNCHANGED <<failureCount, counted, culprits, attempt>>
    BY <1>2 DEF GatewayTick, Tick
  <2>2. \A c \in Callers : stage'[c] # "ready" => stage[c] # "ready"
    BY <1>2 DEF GatewayTick, Awake
  <2> QED
    BY <2>1, <2>2
<1>3. CASE Outage \/ UNCHANGED gatewayVars
  BY <1>3 DEF Outage, GoDown, ComeUp, breaker, gatewayVars, bookings, vars
<1> QED
  BY <1>1, <1>2, <1>3 DEF GatewayNext

\* The breaker has been open for as long as the booking that opened it has slept.
LEMMA OpenerKept ==
  ASSUME GatewayTypeOK, GatewayTypeOK', WaitInv, SleepInv, SleepInv', OpenerInv,
         [GatewayNext]_gatewayVars
  PROVE  OpenerInv'
<1> DEFINE L == LongestDelay
<1> USE GatewayAssumption, BreakerAssumption DEF GatewayTypeOK, TypeOK, OpenerInv
<1>1. /\ L \in Nat
      /\ \A a \in 0..MaxRetries : a * L \in Nat /\ (a + 1) * L = a * L + L
      /\ \A a \in 0..MaxRetries : a > 0 => L <= a * L
  BY DelayBounds, DelaysAddUp
<1> HIDE DEF L
<1>2. \A c \in Callers : nap[c] <= attempt[c] * L /\ nap'[c] <= attempt'[c] * L
  <2> SUFFICES ASSUME NEW c \in Callers
               PROVE  nap[c] <= attempt[c] * L /\ nap'[c] <= attempt'[c] * L
    OBVIOUS
  <2>1. /\ attempt[c] \in 0..MaxRetries /\ attempt'[c] \in 0..MaxRetries
        /\ nap[c] \in Nat /\ nap'[c] \in Nat
    OBVIOUS
  <2>2. attempt[c] * L \in Nat /\ attempt'[c] * L \in Nat
    BY <1>1, <2>1
  <2>3. /\ stage[c] = "nap" => nap[c] <= L /\ attempt[c] > 0
        /\ stage[c] # "nap" => nap[c] = 0
        /\ stage'[c] = "nap" => nap'[c] <= L /\ attempt'[c] > 0
        /\ stage'[c] # "nap" => nap'[c] = 0
    BY <1>1, <2>1 DEF SleepInv, L
  <2>4. nap[c] <= attempt[c] * L
    BY <1>1, <2>1, <2>2, <2>3
  <2>5. nap'[c] <= attempt'[c] * L
    BY <1>1, <2>1, <2>2, <2>3
  <2> QED
    BY <2>4, <2>5
<1>3. ASSUME NEW c \in Callers, CreateBooking(c) PROVE OpenerInv'
  <2>1. CASE Book(c)
    BY <2>1 DEF Book, vars
  <2>2. CASE Attempt(c)
    <3>1. UNCHANGED <<relieved, tripAge>> /\ (state' = "CLOSED" => state = "CLOSED")
      BY <2>2 DEF Attempt, Enter, breaker, trip
    <3> QED
      BY <2>2, <3>1 DEF Attempt
  <2>3. CASE Reject(c)
    <3>1. /\ UNCHANGED <<relieved, tripAge, state, tripped>>
          /\ stage[c] = "call" /\ nap[c] = 0
      BY <2>3 DEF Reject, vars, SleepInv
    <3>2. \A d \in Callers \ {c} : UNCHANGED <<stage[d], nap[d], attempt[d]>>
      BY <2>3 DEF Reject, Retry
    <3>3. CASE stage'[c] = "ready"
      BY <3>1, <3>2, <3>3
    <3>4. CASE stage'[c] = "nap"
      <4>1. attempt'[c] = attempt[c] + 1 /\ nap'[c] <= L
        BY <2>3, <3>4 DEF Reject, Retry, SleepInv, L
      <4>2. tripped[c] /\ ~relieved => tripAge + nap'[c] <= attempt'[c] * L
        BY <1>1, <3>1, <4>1 DEF L
      <4> QED
        BY <3>1, <3>2, <4>2 DEF L
    <3> QED
      BY <2>3, <3>3, <3>4 DEF Reject, Retry
  <2>4. CASE Succeed(c)
    BY <2>4 DEF Succeed, OnSuccess
  <2>5. CASE FailRequest(c)
    <3>1. CASE Trips
      <4>1. tripAge' = 0 /\ state' = "OPEN"
        BY <2>5, <3>1 DEF FailRequest, OnFailure
      <4> QED
        BY <1>2, <4>1 DEF L
    <3>2. CASE ~Trips
      <4>1. UNCHANGED <<state, relieved>> /\ relieved
        BY <2>5, <3>2
        DEF FailRequest, OnFailure, Trips, trip, WaitInv, BreakerInv, StateMatchesFailures
      <4> QED
        BY <4>1
    <3> QED
      BY <3>1, <3>2
  <2> QED
    BY <1>3, <2>1, <2>2, <2>3, <2>4, <2>5 DEF CreateBooking
<1>4. CASE GatewayTick
  <2>1. /\ UNCHANGED <<relieved, state, tripped, attempt>>
        /\ tripAge' <= tripAge + 1 /\ tripAge' \in Nat
    BY <1>4 DEF GatewayTick, Tick, UpTo
  <2>2. \A c \in Callers :
          stage'[c] \in {"nap", "call"} => stage[c] = "nap" /\ nap'[c] = nap[c] - 1
    BY <1>4 DEF GatewayTick, Awake, SleepInv
  <2> QED
    BY <1>1, <2>1, <2>2 DEF L
<1>5. CASE Outage \/ UNCHANGED gatewayVars
  BY <1>5 DEF Outage, GoDown, ComeUp, breaker, trip, gatewayVars, bookings, vars
<1> QED
  BY <1>3, <1>4, <1>5 DEF GatewayNext

-----------------------------------------------------------------------------
\* The invariant of the gateway: the breaker's own, which it keeps whatever its
\* callers do, and what the bookings keep together.
THEOREM GatewayCorrect == GatewaySpec => []GatewayInv
<1> DEFINE BookingInv == GatewayTypeOK /\ SleepInv /\ CulpritInv /\ OpenerInv
<1>1. GatewayInit => BookingInv
  <2> SUFFICES ASSUME GatewayInit PROVE BookingInv
    OBVIOUS
  <2> USE GatewayAssumption, BreakerAssumption DEF GatewayInit, Init
  <2>1. GatewayTypeOK
    BY DEF GatewayTypeOK, TypeOK
  <2>2. SleepInv /\ CulpritInv
    BY DEF SleepInv, CulpritInv
  <2>3. OpenerInv
    BY DEF OpenerInv
  <2> QED
    BY <2>1, <2>2, <2>3
<1>2. BookingInv /\ WaitInv /\ WaitInv' /\ [GatewayNext]_gatewayVars => BookingInv'
  <2> SUFFICES ASSUME BookingInv, WaitInv, WaitInv', [GatewayNext]_gatewayVars
               PROVE  BookingInv'
    OBVIOUS
  <2>1. GatewayTypeOK'
    BY TypesKept DEF WaitInv, BreakerInv
  <2>2. SleepInv'
    BY SleepKept
  <2>3. CulpritInv'
    BY CulpritKept
  <2>4. OpenerInv'
    BY <2>1, <2>2, OpenerKept
  <2> QED
    BY <2>1, <2>2, <2>3, <2>4
<1>3. BookingInv /\ ContainedInv /\ WaitInv => GatewayInv
  BY DEF GatewayInv
<1>4. GatewaySpec => []ContainedInv /\ []WaitInv
  BY GatewayUsesBreaker, BurstsAreCounted, BreakerWaits, PTL
<1> QED
  BY <1>1, <1>2, <1>3, <1>4, PTL DEF GatewaySpec

\* A booking whose own failure has opened the breaker has run out of retries
\* before the breaker lets it through again.
THEOREM OpenersAreSpared == GatewaySpec => OpenerIsSpared
<1>1. GatewayInv /\ [GatewayNext]_gatewayVars =>
        [\A c \in Callers :
           MaxRetries * LongestDelay < Recovery /\ stage[c] = "call" /\ stage'[c] = "request" =>
             ~tripped[c] \/ relieved]_gatewayVars
  <2> SUFFICES ASSUME GatewayInv, [GatewayNext]_gatewayVars, ~UNCHANGED gatewayVars,
                      NEW c \in Callers,
                      MaxRetries * LongestDelay < Recovery,
                      stage[c] = "call", stage'[c] = "request", tripped[c], ~relieved
               PROVE  FALSE
    OBVIOUS
  <2> USE GatewayAssumption, BreakerAssumption DEF GatewayInv, GatewayTypeOK, TypeOK
  <2>1. state # "OPEN" \/ ShouldAttemptReset
    <3>1. PICK d \in Callers : CreateBooking(d)
      BY DEF GatewayNext, GatewayTick, Awake, Outage, bookings
    <3>2. Attempt(d)
      BY <3>1 DEF CreateBooking, Book, Reject, Retry, Succeed, FailRequest
    <3> QED
      BY <3>2 DEF Attempt, Enter
  <2>2. tripAge = Recovery
    BY <2>1 DEF WaitInv, BreakerInv, ShouldAttemptReset
  <2>3. tripAge <= attempt[c] * LongestDelay
    <3>1. nap[c] = 0 /\ tripAge + nap[c] <= attempt[c] * LongestDelay
      BY DEF SleepInv, OpenerInv
    <3> QED
      BY <3>1
  <2>4. /\ attempt[c] * LongestDelay \in Nat
        /\ attempt[c] * LongestDelay <= MaxRetries * LongestDelay
        /\ MaxRetries * LongestDelay \in Nat
    BY DelaysAddUp
  <2> QED
    BY <2>2, <2>3, <2>4
<1> QED
  BY <1>1, GatewayCorrect, PTL DEF GatewaySpec, OpenerIsSpared

\* It takes the failures of two bookings to open a closed breaker, if its
\* threshold is above the attempts that one may make.
THEOREM OneBookingIsNotEnough == GatewaySpec => OneBookingNeverTrips
<1>1. GatewayInv /\ [GatewayNext]_gatewayVars =>
        [MaxRetries + 1 < Threshold /\ state = "CLOSED" /\ state' = "OPEN" =>
           culprits' > 1]_gatewayVars
  <2> SUFFICES ASSUME GatewayInv, [GatewayNext]_gatewayVars, ~UNCHANGED gatewayVars,
                      MaxRetries + 1 < Threshold, state = "CLOSED", state' = "OPEN"
               PROVE  culprits' > 1
    OBVIOUS
  <2> USE GatewayAssumption, BreakerAssumption DEF GatewayInv, GatewayTypeOK, TypeOK
  <2>1. PICK c \in Callers : FailRequest(c)
    <3>1. PICK c \in Callers : CreateBooking(c)
      BY DEF GatewayNext, GatewayTick, Tick, Outage, GoDown, ComeUp, breaker
    <3>2. FailRequest(c)
      BY <3>1 DEF CreateBooking, Book, Attempt, Enter, Reject, Succeed, OnSuccess, breaker, vars
    <3> QED
      BY <3>2
  <2>2. failureCount + 1 >= Threshold /\ stage[c] # "ready"
    BY <2>1 DEF FailRequest, OnFailure, Trips
  <2>3. culprits' = IF counted[c] THEN culprits ELSE UpTo(culprits + 1, 2)
    BY <2>1 DEF FailRequest
  <2>4. CASE counted[c]
    <3>1. culprits # 0
      BY <2>4 DEF CulpritInv
    <3>2. culprits # 1
      BY <2>2, <2>4 DEF CulpritInv
    <3> QED
      BY <2>3, <2>4, <3>1, <3>2
  <2>5. CASE ~counted[c]
    <3>1. culprits # 0
      BY <2>2 DEF CulpritInv
    <3> QED
      BY <2>3, <2>5, <3>1 DEF UpTo
  <2> QED
    BY <2>4, <2>5
<1> QED
  BY <1>1, GatewayCorrect, PTL DEF GatewaySpec, OneBookingNeverTrips
-----------------------------------------------------------------------------
(* Termination *)

\* What another booking does leaves a booking alone.
LEMMA OthersWait ==
  ASSUME GatewayTypeOK, NEW c \in Callers, NEW d \in Callers \ {c}, CreateBooking(d)
  PROVE  UNCHANGED <<stage[c], attempt[c], nap[c]>>
BY DEF GatewayTypeOK, CreateBooking, Book, Attempt, Reject, Succeed, FailRequest, Retry

\* A step of a booking that has begun uses up a part of what it may go through.
LEMMA BookingRunsDown ==
  ASSUME GatewayTypeOK, NEW c \in Callers, stage[c] # "ready", CreateBooking(c)
  PROVE  StepsLeft(c)' < StepsLeft(c)
<1> USE GatewayAssumption DEF GatewayTypeOK
<1>1. attempt[c] \in 0..MaxRetries
  OBVIOUS
<1>2. ASSUME NEW error, Retry(c, error), stage[c] \in {"call", "request"}
      PROVE  StepsLeft(c)' < StepsLeft(c)
  <2>1. \/ stage'[c] = "ready" /\ attempt'[c] = attempt[c]
        \/ stage'[c] = "nap" /\ attempt'[c] = attempt[c] + 1
    BY <1>2 DEF Retry
  <2> QED
    BY <1>1, <1>2, <2>1 DEF StepsLeft
<1>3. CASE Attempt(c)
  <2>1. stage[c] = "call" /\ stage'[c] = "request" /\ attempt'[c] = attempt[c]
    BY <1>3 DEF Attempt
  <2> QED
    BY <1>1, <2>1 DEF StepsLeft
<1>4. CASE Succeed(c)
  <2>1. stage[c] = "request" /\ stage'[c] = "ready"
    BY <1>4 DEF Succeed
  <2> QED
    BY <1>1, <2>1 DEF StepsLeft
<1> QED
  BY <1>2, <1>3, <1>4 DEF CreateBooking, Book, Reject, FailRequest

\* Time wakes bookings up and does nothing else to them.
LEMMA TickRunsDown ==
  ASSUME GatewayTypeOK, SleepInv, NEW c \in Callers, stage[c] # "ready", GatewayTick
  PROVE  /\ StepsLeft(c)' <= StepsLeft(c)
         /\ stage[c] = "nap" =>
              StepsLeft(c)' < StepsLeft(c) \/ (stage'[c] = "nap" /\ nap'[c] < nap[c])
<1> USE GatewayAssumption DEF GatewayTypeOK
<1>1. attempt[c] \in 0..MaxRetries /\ attempt'[c] = attempt[c]
  BY DEF GatewayTick
<1>2. stage'[c] = IF Awake(c) THEN "call" ELSE stage[c]
  BY DEF GatewayTick
<1>3. CASE Awake(c)
  BY <1>1, <1>2, <1>3 DEF Awake, StepsLeft
<1>4. CASE ~Awake(c)
  <2>1. stage[c] = "nap" => nap'[c] < nap[c]
    BY <1>4 DEF GatewayTick, Awake, SleepInv
  <2> QED
    BY <1>1, <1>2, <1>4, <2>1 DEF StepsLeft
<1> QED
  BY <1>3, <1>4

\* A booking of any caller goes through at most 3 * MaxRetries + 2 steps of its own
\* and its sleeps, whatever the breaker, the service and the other callers do.
THEOREM BookingsEnd == GatewaySpec => BookingsRunDown
<1>1. GatewayInv /\ GatewayInv' /\ [GatewayNext]_gatewayVars =>
        [\A c \in Callers : stage[c] # "ready" =>
           /\ StepsLeft(c)' <= StepsLeft(c)
           /\ CreateBooking(c) => StepsLeft(c)' < StepsLeft(c)
           /\ GatewayTick /\ stage[c] = "nap" =>
                StepsLeft(c)' < StepsLeft(c) \/ (stage'[c] = "nap" /\ nap'[c] < nap[c])]_gatewayVars
  <2> SUFFICES ASSUME GatewayInv, GatewayInv', GatewayNext, NEW c \in Callers,
                      stage[c] # "ready"
               PROVE  /\ StepsLeft(c)' <= StepsLeft(c)
                      /\ CreateBooking(c) => StepsLeft(c)' < StepsLeft(c)
                      /\ GatewayTick /\ stage[c] = "nap" =>
                           \/ StepsLeft(c)' < StepsLeft(c)
                           \/ stage'[c] = "nap" /\ nap'[c] < nap[c]
    OBVIOUS
  <2> USE DEF GatewayInv
  <2>0. StepsLeft(c) \in Nat /\ StepsLeft(c)' \in Nat
    BY GatewayAssumption DEF GatewayTypeOK, StepsLeft
  <2>1. CASE CreateBooking(c)
    <3>1. StepsLeft(c)' < StepsLeft(c)
      BY <2>1, BookingRunsDown
    <3>2. StepsLeft(c)' <= StepsLeft(c)
      BY <2>0, <3>1
    <3> QED
      BY <3>1, <3>2
  <2>2. CASE GatewayTick /\ ~CreateBooking(c)
    BY <2>2, TickRunsDown
  <2>3. CASE ~CreateBooking(c) /\ ~GatewayTick
    <3>1. UNCHANGED <<stage[c], attempt[c], nap[c]>>
      BY <2>3, OthersWait DEF GatewayNext, Outage, bookings
    <3>2. StepsLeft(c)' = StepsLeft(c)
      BY <3>1 DEF StepsLeft
    <3>3. StepsLeft(c)' <= StepsLeft(c)
      BY <2>0, <3>2
    <3> QED
      BY <2>3, <3>3
  <2> QED
    BY <2>1, <2>2, <2>3
<1> QED
  BY <1>1, GatewayCorrect, PTL DEF GatewaySpec, BookingsRunDown
=============================================================================
