------------------------ MODULE CircuitBreaker_proofs ------------------------
(* Theorems about CircuitBreaker, for any number of callers, any threshold *)
(* and any recovery timeout.                                               *)
EXTENDS CircuitBreaker, FiniteSetTheorems, TLAPS

\* However calls overlap, the state of the breaker and its count of failures
\* agree, and it knows when it opened whenever it is not CLOSED.
THEOREM BreakerCorrect == Spec => []BreakerInv
<1> USE BreakerAssumption DEF BreakerInv, TypeOK, StateMatchesFailures
<1>1. Init => BreakerInv
  BY DEF Init
<1>2. BreakerInv /\ [Next]_vars => BreakerInv'
  <2> SUFFICES ASSUME BreakerInv, [Next]_vars PROVE BreakerInv'
    OBVIOUS
  <2>1. ASSUME NEW c \in Callers, Enter(c) PROVE BreakerInv'
    BY <2>1 DEF Enter, Send, ShouldAttemptReset, breaker, service, trip
  <2>2. ASSUME NEW c \in Callers, OnSuccess(c) PROVE BreakerInv'
    BY <2>2 DEF OnSuccess, service
  <2>3. ASSUME NEW c \in Callers, OnFailure(c) PROVE BreakerInv'
    <3>1. relieved' \in BOOLEAN
      BY <2>3 DEF OnFailure, trip
    <3>2. up' \in BOOLEAN
      BY <2>3 DEF OnFailure, service
    <3> QED
      BY <2>3, <3>1, <3>2 DEF OnFailure, Trips, UpTo, service, trip
  <2>4. CASE Tick
    BY <2>4 DEF Tick, UpTo, service
  <2>5. CASE GoDown
    <3>1. outages' \in 0..MaxOutages
      BY <2>5 DEF GoDown
    <3>2. up' \in BOOLEAN
      BY <2>5 DEF GoDown
    <3> QED
      BY <2>5, <3>1, <3>2 DEF GoDown, breaker, trip
  <2>6. CASE ComeUp
    BY <2>6 DEF ComeUp, breaker, trip
  <2>7. CASE UNCHANGED vars
    BY <2>7 DEF vars
  <2> QED
    BY <2>1, <2>2, <2>3, <2>4, <2>5, <2>6, <2>7 DEF Next, Call
<1> QED
  BY <1>1, <1>2, PTL DEF Spec

\* How the set of failing requests changes with the end of one of them, and
\* with the start of one; there are never more of them than callers.
LEMMA FailingCount ==
  ASSUME BreakerInv, BreakerInv'
  PROVE  /\ Cardinality(Failing) \in Nat
         /\ Cardinality(Failing) <= Cardinality(Callers)
         /\ Cardinality(Callers) \in Nat
         /\ \A c \in Callers :
              pc[c] = "failing" /\ pc' = [pc EXCEPT ![c] = "idle"] =>
                Cardinality(Failing') = Cardinality(Failing) - 1
         /\ \A c \in Callers :
              pc[c] = "idle" /\ pc' = [pc EXCEPT ![c] = "failing"] =>
                Cardinality(Failing') = Cardinality(Failing) + 1
         /\ \A c \in Callers :
              pc[c] = "idle" /\ pc' = [pc EXCEPT ![c] = "succeeding"] =>
                Failing' = Failing
         /\ \A c \in Callers : pc[c] = "failing" => Cardinality(Callers) > 0
<1> USE BreakerAssumption DEF BreakerInv, TypeOK
<1>1. /\ IsFiniteSet(Failing)
      /\ Cardinality(Failing) <= Cardinality(Callers)
  BY FS_Subset DEF Failing
<1>2. Cardinality(Failing) \in Nat /\ Cardinality(Callers) \in Nat
  BY <1>1, FS_CardinalityType
<1>3. ASSUME NEW c \in Callers, pc[c] = "failing", pc' = [pc EXCEPT ![c] = "idle"]
      PROVE  Cardinality(Failing') = Cardinality(Failing) - 1
  <2>1. Failing' = Failing \ {c} /\ c \in Failing
    BY <1>3 DEF Failing
  <2> QED
    BY <1>1, <2>1, FS_RemoveElement
<1>4. ASSUME NEW c \in Callers, pc[c] = "idle", pc' = [pc EXCEPT ![c] = "failing"]
      PROVE  Cardinality(Failing') = Cardinality(Failing) + 1
  <2>1. Failing' = Failing \cup {c} /\ c \notin Failing
    BY <1>4 DEF Failing
  <2> QED
    BY <1>1, <2>1, FS_AddElement
<1>5. ASSUME NEW c \in Callers, pc[c] = "idle", pc' = [pc EXCEPT ![c] = "succeeding"]
      PROVE  Failing' = Failing
  BY <1>5 DEF Failing
<1>6. ASSUME NEW c \in Callers PROVE Cardinality(Callers) > 0
  BY <1>2, FS_EmptySet
<1> QED
  BY <1>1, <1>2, <1>3, <1>4, <1>5, <1>6

\* However calls overlap, the requests sent to a dead service have been counted
\* as failures or are still on their way.
THEOREM BurstsAreCounted == Spec => []ContainedInv
<1> DEFINE K == Cardinality(Callers)
<1>1. Init => ContainedInv
  <2> SUFFICES ASSUME Init PROVE ContainedInv
    OBVIOUS
  <2>1. BreakerInv
    BY BreakerAssumption DEF Init, BreakerInv, TypeOK, StateMatchesFailures
  <2>2. Failing = {} /\ Cardinality({}) = 0
    BY FS_EmptySet DEF Failing, Init
  <2>3. K \in Nat
    BY BreakerAssumption, FS_CardinalityType
  <2> QED
    BY <2>1, <2>2, <2>3, BreakerAssumption
    DEF Init, ContainedInv, BurstIsCounted, OutageIsContained
<1>2. ContainedInv /\ BreakerInv' /\ [Next]_vars => ContainedInv'
  <2> SUFFICES ASSUME ContainedInv, BreakerInv', [Next]_vars PROVE ContainedInv'
    OBVIOUS
  <2> USE BreakerAssumption
      DEF ContainedInv, BreakerInv, TypeOK, StateMatchesFailures, BurstIsCounted,
          OutageIsContained
  <2>1. /\ Cardinality(Failing) \in Nat
        /\ Cardinality(Failing) <= K
        /\ K \in Nat
    BY FailingCount
  <2>2. Cardinality(Failing') \in Nat /\ Cardinality(Failing') <= K
    BY FS_Subset, FS_CardinalityType DEF Failing
  <2> HIDE DEF K
  <2>3. ASSUME NEW c \in Callers, Enter(c) PROVE ContainedInv'
    <3>1. CASE up /\ pc' = [pc EXCEPT ![c] = "succeeding"]
      <4>1. Failing' = Failing
        BY <2>3, <3>1, FailingCount DEF Enter
      <4> QED
        BY <2>1, <2>3, <3>1, <4>1 DEF Enter, ShouldAttemptReset, breaker, trip, K
    <3>2. CASE pc' = [pc EXCEPT ![c] = "failing"]
      <4>1. Cardinality(Failing') = Cardinality(Failing) + 1
        BY <2>3, <3>2, FailingCount DEF Enter
      <4> QED
        BY <2>1, <2>2, <2>3, <3>2, <4>1 DEF Enter, ShouldAttemptReset, breaker, trip, K
    <3> QED
      BY <2>3, <3>1, <3>2 DEF Enter, Send
  <2>4. ASSUME NEW c \in Callers, OnSuccess(c) PROVE ContainedInv'
    <3>1. K > 0
      BY <2>4, FS_EmptySet, <2>1 DEF K
    <3> QED
      BY <2>1, <2>2, <2>4, <3>1 DEF OnSuccess, service, K
  <2>5. ASSUME NEW c \in Callers, OnFailure(c) PROVE ContainedInv'
    <3>1. Cardinality(Failing') = Cardinality(Failing) - 1 /\ K > 0
      BY <2>5, FailingCount DEF OnFailure, K
    <3> QED
      BY <2>1, <2>2, <2>5, <3>1 DEF OnFailure, Trips, UpTo, service, trip, K
  <2>6. CASE Tick \/ GoDown \/ ComeUp \/ UNCHANGED vars
    <3>1. Failing' = Failing
      BY <2>6 DEF Failing, Tick, GoDown, ComeUp, vars
    <3> QED
      BY <2>1, <2>6, <3>1 DEF Tick, GoDown, ComeUp, vars, UpTo, breaker, service, trip, K
  <2> QED
    BY <2>3, <2>4, <2>5, <2>6 DEF Next, Call
<1> QED
  BY <1>1, <1>2, BreakerCorrect, PTL DEF Spec

\* A dead service gets no more than Threshold requests of a run of failures,
\* and one more of each other caller.
THEOREM OutagesAreContained == Spec => []OutageIsContained
<1>1. ContainedInv => OutageIsContained
  BY DEF ContainedInv
<1> QED
  BY <1>1, BurstsAreCounted, PTL

\* The clock of an OPEN breaker is never ahead of the last opening, and only a
\* success or the recovery timeout takes it out of OPEN.
THEOREM BreakerWaits == Spec => []WaitInv
<1> USE BreakerAssumption DEF WaitInv, BreakerInv, TypeOK, StateMatchesFailures
<1>1. Init => WaitInv
  BY DEF Init
<1>2. WaitInv /\ BreakerInv' /\ [Next]_vars => WaitInv'
  <2> SUFFICES ASSUME WaitInv, BreakerInv', [Next]_vars PROVE WaitInv'
    OBVIOUS
  <2>1. ASSUME NEW c \in Callers, Enter(c) PROVE WaitInv'
    BY <2>1 DEF Enter, ShouldAttemptReset, breaker, service, trip
  <2>2. ASSUME NEW c \in Callers, OnSuccess(c) PROVE WaitInv'
    BY <2>2 DEF OnSuccess, service
  <2>3. ASSUME NEW c \in Callers, OnFailure(c) PROVE WaitInv'
    BY <2>3 DEF OnFailure, Trips, service, trip
  <2>4. CASE Tick \/ GoDown \/ ComeUp \/ UNCHANGED vars
    BY <2>4 DEF Tick, GoDown, ComeUp, vars, UpTo, breaker, service, trip
  <2> QED
    BY <2>1, <2>2, <2>3, <2>4 DEF Next, Call
<1> QED
  BY <1>1, <1>2, BreakerCorrect, PTL DEF Spec

\* A service is spared for Recovery ticks after the breaker opened, or until it
\* has answered a request that was sent before.
THEOREM ServiceIsSpared == Spec => RejectsUntilRecovery
<1>1. WaitInv /\ [Next]_vars =>
        [\A c \in Callers : pc[c] = "idle" /\ pc'[c] # "idle" =>
                              tripAge = Recovery \/ relieved]_vars
  <2> SUFFICES ASSUME WaitInv, [Next]_vars, NEW c \in Callers,
                      pc[c] = "idle", pc'[c] # "idle", ~UNCHANGED vars
               PROVE  tripAge = Recovery \/ relieved
    OBVIOUS
  <2>1. Enter(c)
    BY DEF Next, Call, Enter, Send, OnSuccess, OnFailure, Tick, GoDown, ComeUp,
           WaitInv, BreakerInv, TypeOK
  <2> QED
    BY <2>1, BreakerAssumption
    DEF Enter, ShouldAttemptReset, WaitInv, BreakerInv, TypeOK
<1> QED
  BY <1>1, BreakerWaits, PTL DEF Spec, RejectsUntilRecovery
=============================================================================
