------------------------- MODULE RateLimiter_proofs -------------------------
(* Theorems about RateLimiter, for any clients, endpoints, limits and window. *)
EXTENDS RateLimiter, SequenceTheorems, TLAPS

\* Two clients, or two endpoints, never share a window.
LEMMA KeyOfSource ==
  ASSUME NEW r \in Sources
  PROVE  /\ BuildKey(r[1], r[2]) = r
         /\ r \in Keys
         /\ r[1] \in Clients /\ r[2] \in Endpoints
BY DEF Sources, Keys, BuildKey

\* Every endpoint may be asked at least once.
LEMMA LimitIsPositive ==
  ASSUME NEW endpoint PROVE ResolveLimit(endpoint) \in Nat \ {0}
BY LimiterAssumption DEF ResolveLimit

\* What is left when d elements are dropped from the left.
LEMMA DropFirstProperties ==
  ASSUME NEW w \in Seq(Nat), NEW d \in 0..Len(w)
  PROVE  /\ DropFirst(w, d) \in Seq(Nat)
         /\ Len(DropFirst(w, d)) = Len(w) - d
         /\ \A i \in 1..(Len(w) - d) : DropFirst(w, d)[i] = w[d + i]
<1>1. Len(w) \in Nat
  BY LenProperties
<1>2. \A i \in (d + 1)..Len(w) : w[i] \in Nat
  BY <1>1, ElementOfSeq
<1>3. /\ SubSeq(w, d + 1, Len(w)) \in Seq(Nat)
      /\ Len(SubSeq(w, d + 1, Len(w))) = IF d + 1 <= Len(w) THEN Len(w) - (d + 1) + 1 ELSE 0
      /\ \A i \in 1..(Len(w) - (d + 1) + 1) : SubSeq(w, d + 1, Len(w))[i] = w[d + 1 + i - 1]
  BY <1>1, <1>2, SubSeqProperties
<1> QED
  BY <1>1, <1>3 DEF DropFirst

\* One request that the limiter refuses or lets through.
LEMMA LimitKeepsInv ==
  ASSUME RateInv, NEW q \in Sources, Limit(q[1], q[2]), now' = now
  PROVE  RateInv'
<1> DEFINE w == windows[q]
           limit == ResolveLimit(q[2])
<1>1. windows \in [Sources -> Seq(Nat)] /\ served \in [Sources -> Seq(Nat)] /\ now \in Nat
  BY KeyOfSource DEF RateInv, TypeOK, Keys, BuildKey, Sources
<1>2. Keys = Sources
  BY DEF Keys, BuildKey, Sources
<1>3. PICK d \in 0..Len(w) :
        /\ Drops(w, d)
        /\ \/ /\ OverLimit(w, d, q[2])
              /\ windows' = [windows EXCEPT ![q] = DropFirst(w, d)]
              /\ UNCHANGED served
           \/ /\ ~OverLimit(w, d, q[2])
              /\ windows' = [windows EXCEPT ![q] = Append(DropFirst(w, d), now)]
              /\ served' = [served EXCEPT ![q] = Append(@, now)]
  BY KeyOfSource DEF Limit, Sources
<1> DEFINE kept == DropFirst(w, d)
           log == served[q]
<1>4. /\ w \in Seq(Nat) /\ log \in Seq(Nat)
      /\ Len(w) \in Nat /\ Len(log) \in Nat /\ limit \in Nat \ {0}
      /\ DOMAIN w = 1..Len(w) /\ DOMAIN log = 1..Len(log)
      /\ \A i \in 1..Len(log) : log[i] \in Nat
      /\ \A i \in 1..Len(w) : w[i] \in Nat
  BY <1>1, LenProperties, ElementOfSeq, LimitIsPositive
<1>5. /\ kept \in Seq(Nat)
      /\ Len(kept) = Len(w) - d
      /\ \A i \in 1..(Len(w) - d) : kept[i] = w[d + i]
  BY <1>4, DropFirstProperties
<1>6. \A i \in 1..d : w[i] + Window <= now
  BY <1>3 DEF Drops, Expired
<1>7. /\ Len(w) <= Len(log)
      /\ \A i \in 1..Len(w) : w[i] = log[Len(log) - Len(w) + i]
      /\ \A i \in 1..Len(log) : i <= Len(log) - Len(w) => log[i] + Window <= now
  BY <1>4, KeyOfSource DEF RateInv, WindowIsRecent
<1>8. /\ \A i \in 1..Len(log) : log[i] <= now
      /\ \A i, j \in 1..Len(log) : i <= j => log[i] <= log[j]
      /\ \A i, j \in 1..Len(log) : j = i + limit => log[i] + Window <= log[j]
  BY <1>4 DEF RateInv, ServedInOrder, LimitHolds
<1>names. /\ windows[q] = w /\ served[q] = log /\ ResolveLimit(q[2]) = limit
          /\ DropFirst(w, d) = kept
  OBVIOUS
<1> HIDE DEF w, limit, log, kept
<1>9. \A i \in 1..Len(log) : i <= Len(log) - Len(kept) => log[i] + Window <= now
  <2> SUFFICES ASSUME NEW i \in 1..Len(log), i <= Len(log) - Len(kept)
               PROVE  log[i] + Window <= now
    OBVIOUS
  <2>1. CASE i <= Len(log) - Len(w)
    BY <2>1, <1>7
  <2>2. CASE i > Len(log) - Len(w)
    <3> DEFINE j == i - (Len(log) - Len(w))
    <3>1. j \in 1..d /\ j \in 1..Len(w) /\ Len(log) - Len(w) + j = i
      BY <2>2, <1>4, <1>5, <1>7
    <3>2. w[j] = log[Len(log) - Len(w) + j]
      BY <3>1, <1>7
    <3> QED
      BY <3>1, <3>2, <1>6
  <2> QED
    BY <2>1, <2>2, <1>4
<1>10. \A i \in 1..Len(kept) : kept[i] = log[Len(log) - Len(kept) + i]
  <2> SUFFICES ASSUME NEW i \in 1..Len(kept) PROVE kept[i] = log[Len(log) - Len(kept) + i]
    OBVIOUS
  <2>1. /\ d + i \in 1..Len(w)
        /\ Len(log) - Len(w) + (d + i) = Len(log) - Len(kept) + i
        /\ i \in 1..(Len(w) - d)
    BY <1>4, <1>5
  <2>2. w[d + i] = log[Len(log) - Len(w) + (d + i)]
    BY <2>1, <1>7
  <2> QED
    BY <2>1, <2>2, <1>5
<1>11. \A r \in Sources :
         /\ Len(windows[r]) <= Len(served[r])
         /\ \A i \in DOMAIN windows[r] :
              windows[r][i] = served[r][Len(served[r]) - Len(windows[r]) + i]
         /\ \A i \in DOMAIN served[r] :
              i <= Len(served[r]) - Len(windows[r]) => served[r][i] + Window <= now
  BY KeyOfSource DEF RateInv, WindowIsRecent
<1>12. Len(kept) \in Nat /\ Len(kept) <= Len(log) /\ Window \in Nat
  BY <1>4, <1>5, <1>7, LimiterAssumption
<1>13. \A r \in Sources \ {q} : served'[r] = served[r] /\ windows'[r] = windows[r]
  BY <1>1, <1>3
<1>14. CASE OverLimit(w, d, q[2])
  <2>1. windows' = [windows EXCEPT ![q] = kept] /\ served' = served
    BY <1>14, <1>3, <1>names
  <2>2. TypeOK'
    BY <1>1, <1>2, <1>5, <2>1 DEF TypeOK, Keys
  <2>3. ServedInOrder' /\ LimitHolds'
    BY <2>1 DEF RateInv, ServedInOrder, LimitHolds
  <2>4. WindowIsRecent'
    <3> SUFFICES ASSUME NEW r \in Sources
                 PROVE  /\ Len(windows'[r]) <= Len(served'[r])
                        /\ \A i \in DOMAIN windows'[r] :
                             windows'[r][i] = served'[r][Len(served'[r]) - Len(windows'[r]) + i]
                        /\ \A i \in DOMAIN served'[r] :
                             i <= Len(served'[r]) - Len(windows'[r]) =>
                               served'[r][i] + Window <= now'
      BY KeyOfSource DEF WindowIsRecent
    <3>1. CASE r = q
      <4>1. windows'[r] = kept /\ served'[r] = log /\ DOMAIN kept = 1..Len(kept)
        BY <1>1, <1>5, <1>names, <2>1, <3>1, LenProperties
      <4> QED
        BY <4>1, <1>4, <1>5, <1>7, <1>9, <1>10
    <3>2. CASE r # q
      BY <3>2, <1>13, <1>11
    <3> QED
      BY <3>1, <3>2
  <2> QED
    BY <2>2, <2>3, <2>4 DEF RateInv
<1>15. CASE ~OverLimit(w, d, q[2])
  <2> DEFINE log2 == Append(log, now)
             kept2 == Append(kept, now)
  <2>1. windows' = [windows EXCEPT ![q] = kept2] /\ served' = [served EXCEPT ![q] = log2]
    BY <1>15, <1>3, <1>names
  <2>2. /\ log2 \in Seq(Nat) /\ Len(log2) = Len(log) + 1
        /\ \A i \in 1..Len(log) : log2[i] = log[i]
        /\ log2[Len(log) + 1] = now
    BY <1>1, <1>4, AppendProperties
  <2>3. /\ kept2 \in Seq(Nat) /\ Len(kept2) = Len(kept) + 1
        /\ \A i \in 1..Len(kept) : kept2[i] = kept[i]
        /\ kept2[Len(kept) + 1] = now
    <3>1. kept \in Seq(Nat) /\ now \in Nat
      BY <1>1, <1>5
    <3> QED
      BY <3>1, AppendProperties
  <2>4. /\ DOMAIN log2 = 1..(Len(log) + 1)
        /\ DOMAIN kept2 = 1..(Len(kept) + 1)
    BY <2>2, <2>3, LenProperties
  <2>5. served'[q] = log2 /\ windows'[q] = kept2
    BY <1>1, <2>1
  <2>6. Len(kept) < limit
    BY <1>15, <1>4, <1>5, <1>names DEF OverLimit
  <2> HIDE DEF log2, kept2
  <2>7. TypeOK'
    BY <1>1, <1>2, <2>1, <2>2, <2>3 DEF TypeOK, Keys
  <2>8. ServedInOrder'
    <3> SUFFICES ASSUME NEW r \in Sources
                 PROVE  /\ \A i \in DOMAIN served'[r] : served'[r][i] <= now'
                        /\ \A i, j \in DOMAIN served'[r] :
                             i <= j => served'[r][i] <= served'[r][j]
      BY DEF ServedInOrder
    <3>1. CASE r = q
      <4>1. \A i \in 1..(Len(log) + 1) : log2[i] <= now
        <5> SUFFICES ASSUME NEW i \in 1..(Len(log) + 1) PROVE log2[i] <= now
          OBVIOUS
        <5>1. CASE i = Len(log) + 1
          BY <5>1, <1>1, <2>2
        <5>2. CASE i \in 1..Len(log)
          BY <5>2, <1>8, <2>2
        <5> QED
          BY <5>1, <5>2, <1>4
      <4>2. ASSUME NEW i \in 1..(Len(log) + 1), NEW j \in 1..(Len(log) + 1), i <= j
            PROVE  log2[i] <= log2[j]
        <5>1. CASE j = Len(log) + 1
          BY <4>1, <5>1, <2>2
        <5>2. CASE j # Len(log) + 1
          <6>1. i \in 1..Len(log) /\ j \in 1..Len(log)
            BY <4>2, <5>2, <1>4
          <6> QED
            BY <6>1, <4>2, <1>8, <2>2
        <5> QED
          BY <5>1, <5>2
      <4> QED
        BY <3>1, <4>1, <4>2, <2>4, <2>5
    <3>2. CASE r # q
      BY <3>2, <1>13 DEF RateInv, ServedInOrder
    <3> QED
      BY <3>1, <3>2
  <2>9. WindowIsRecent'
    <3> SUFFICES ASSUME NEW r \in Sources
                 PROVE  /\ Len(windows'[r]) <= Len(served'[r])
                        /\ \A i \in DOMAIN windows'[r] :
                             windows'[r][i] = served'[r][Len(served'[r]) - Len(windows'[r]) + i]
                        /\ \A i \in DOMAIN served'[r] :
                             i <= Len(served'[r]) - Len(windows'[r]) =>
                               served'[r][i] + Window <= now'
      BY KeyOfSource DEF WindowIsRecent
    <3>1. CASE r = q
      <4>1. Len(kept2) <= Len(log2)
        BY <1>4, <1>5, <1>7, <2>2, <2>3
      <4>2. \A i \in 1..(Len(kept) + 1) : kept2[i] = log2[Len(log2) - Len(kept2) + i]
        <5> SUFFICES ASSUME NEW i \in 1..(Len(kept) + 1)
                     PROVE  kept2[i] = log2[Len(log2) - Len(kept2) + i]
          OBVIOUS
        <5>1. CASE i = Len(kept) + 1
          BY <5>1, <1>4, <1>5, <2>2, <2>3
        <5>2. CASE i \in 1..Len(kept)
          <6>1. /\ Len(log) - Len(kept) + i \in 1..Len(log)
                /\ Len(log2) - Len(kept2) + i = Len(log) - Len(kept) + i
            BY <5>2, <1>4, <1>12, <2>2, <2>3
          <6> QED
            BY <5>2, <6>1, <1>10, <2>2, <2>3
        <5> QED
          BY <5>1, <5>2, <1>12
      <4>3. \A i \in 1..(Len(log) + 1) :
              i <= Len(log2) - Len(kept2) => log2[i] + Window <= now
        <5> SUFFICES ASSUME NEW i \in 1..(Len(log) + 1), i <= Len(log2) - Len(kept2)
                     PROVE  log2[i] + Window <= now
          OBVIOUS
        <5>1. i \in 1..Len(log) /\ i <= Len(log) - Len(kept)
          <6>1. Len(log2) - Len(kept2) = Len(log) - Len(kept)
            BY <1>4, <1>12, <2>2, <2>3
          <6> QED
            BY <6>1, <1>4, <1>12
        <5> QED
          BY <5>1, <1>9, <2>2
      <4> QED
        BY <3>1, <4>1, <4>2, <4>3, <2>4, <2>5
    <3>2. CASE r # q
      BY <3>2, <1>13, <1>11
    <3> QED
      BY <3>1, <3>2
  <2>10. LimitHolds'
    <3> SUFFICES ASSUME NEW r \in Sources, NEW i \in DOMAIN served'[r],
                        NEW j \in DOMAIN served'[r], j = i + ResolveLimit(r[2])
                 PROVE  served'[r][i] + Window <= served'[r][j]
      BY DEF LimitHolds
    <3>1. CASE r = q /\ j = Len(log) + 1
      <4>1. i \in 1..Len(log) /\ i <= Len(log) - Len(kept)
        BY <3>1, <1>4, <1>5, <1>names, <2>4, <2>5, <2>6
      <4> QED
        BY <3>1, <4>1, <1>9, <2>2, <2>5, <1>names
    <3>2. CASE r = q /\ j # Len(log) + 1
      <4>1. i \in 1..Len(log) /\ j \in 1..Len(log)
        BY <3>2, <1>4, <1>names, <2>4, <2>5
      <4> QED
        BY <3>2, <4>1, <1>8, <1>names, <2>2, <2>5
    <3>3. CASE r # q
      BY <3>3, <1>13 DEF RateInv, LimitHolds
    <3> QED
      BY <3>1, <3>2, <3>3
  <2> QED
    BY <2>7, <2>8, <2>9, <2>10 DEF RateInv
<1> QED
  BY <1>14, <1>15

\* A window holds the latest requests of its client that have not expired, and
\* the served requests are never more than the limit allows.
THEOREM LimiterCorrect == Spec => []RateInv
<1>1. Init => RateInv
  <2> SUFFICES ASSUME Init PROVE RateInv
    OBVIOUS
  <2>1. TypeOK
    BY EmptySeq DEF Init, TypeOK
  <2>2. \A r \in Sources : served[r] = <<>> /\ windows[BuildKey(r[1], r[2])] = <<>>
    BY KeyOfSource DEF Init
  <2>3. ServedInOrder /\ LimitHolds
    BY <2>2 DEF ServedInOrder, LimitHolds
  <2>4. WindowIsRecent
    <3> SUFFICES ASSUME NEW r \in Sources
                 PROVE  LET window == windows[BuildKey(r[1], r[2])]
                            older == Len(served[r]) - Len(window)
                        IN  /\ Len(window) <= Len(served[r])
                            /\ \A i \in DOMAIN window : window[i] = served[r][older + i]
                            /\ \A i \in DOMAIN served[r] :
                                 i <= older => served[r][i] + Window <= now
      BY Zenon DEF WindowIsRecent
    <3>1. served[r] = <<>> /\ windows[BuildKey(r[1], r[2])] = <<>>
      BY <2>2
    <3> QED
      BY <3>1
  <2> QED
    BY <2>1, <2>3, <2>4 DEF RateInv
<1>2. RateInv /\ [Next]_vars => RateInv'
  <2> SUFFICES ASSUME RateInv, [Next]_vars PROVE RateInv'
    OBVIOUS
  <2>1. ASSUME NEW r \in Sources, NEW https \in BOOLEAN, Dispatch(r[1], r[2], https)
        PROVE  RateInv'
    BY <2>1, LimitKeepsInv DEF Dispatch
  <2>2. CASE Tick
    <3>1. /\ now' = now + 1 /\ now \in Nat /\ UNCHANGED <<windows, served>>
          /\ served \in [Sources -> Seq(Nat)]
      BY <2>2 DEF Tick, RateInv, TypeOK
    <3>2. \A r \in Sources : \A i \in DOMAIN served[r] : served[r][i] \in Nat
      BY <3>1, LenProperties, ElementOfSeq
    <3>3. TypeOK' /\ LimitHolds'
      BY <3>1 DEF RateInv, TypeOK, LimitHolds
    <3>4. ServedInOrder'
      <4> SUFFICES ASSUME NEW r \in Sources, NEW i \in DOMAIN served[r]
                   PROVE  served[r][i] <= now + 1
        BY <3>1 DEF RateInv, ServedInOrder
      <4> QED
        BY <3>1, <3>2 DEF RateInv, ServedInOrder
    <3>5. WindowIsRecent'
      <4> SUFFICES ASSUME NEW r \in Sources, NEW i \in DOMAIN served[r],
                          served[r][i] + Window <= now
                   PROVE  served[r][i] + Window <= now + 1
        BY <3>1 DEF RateInv, WindowIsRecent
      <4> QED
        BY <3>1, <3>2, LimiterAssumption
    <3> QED
      BY <3>3, <3>4, <3>5 DEF RateInv
  <2>3. CASE UNCHANGED vars
    BY <2>3 DEF vars, RateInv, TypeOK, ServedInOrder, WindowIsRecent, LimitHolds
  <2> QED
    BY <2>1, <2>2, <2>3 DEF Next
<1> QED
  BY <1>1, <1>2, PTL DEF Spec

\* No interval of a Window's length sees more requests of one client reach one
\* endpoint than its limit.
THEOREM LimitIsNeverExceeded == Spec => []LimitHolds
<1>1. RateInv => LimitHolds
  BY DEF RateInv
<1> QED
  BY <1>1, LimiterCorrect, PTL

\* A window is what its client was served within the last Window, no more, no
\* less.
THEOREM WindowsAreRecent == Spec => []WindowIsRecent
<1>1. RateInv => WindowIsRecent
  BY DEF RateInv
<1> QED
  BY <1>1, LimiterCorrect, PTL

\* Whoever is refused has used up its own limit within the last Window: what is
\* left of its window is as long as the limit, and its first is not expired.
THEOREM RefusalsAreEarned == Spec => []RefusalIsEarned
<1>1. RateInv => RefusalIsEarned
  <2> SUFFICES ASSUME RateInv, NEW r \in Sources, Refuses(r[1], r[2])
               PROVE  \E n \in DOMAIN served[r] :
                        /\ n + ResolveLimit(r[2]) = Len(served[r]) + 1
                        /\ now < served[r][n] + Window
    BY DEF RefusalIsEarned
  <2> DEFINE w == windows[r]
             log == served[r]
             limit == ResolveLimit(r[2])
  <2>1. PICK d \in 0..Len(w) : Drops(w, d) /\ OverLimit(w, d, r[2])
    BY KeyOfSource DEF Refuses
  <2>2. /\ w \in Seq(Nat) /\ log \in Seq(Nat) /\ now \in Nat
    BY KeyOfSource DEF RateInv, TypeOK
  <2>3. /\ Len(w) \in Nat /\ Len(log) \in Nat /\ limit \in Nat \ {0}
        /\ DOMAIN w = 1..Len(w) /\ DOMAIN log = 1..Len(log)
        /\ \A i \in 1..Len(log) : log[i] \in Nat
    BY <2>2, LenProperties, ElementOfSeq, LimitIsPositive
  <2>4. /\ Len(w) <= Len(log)
        /\ \A i \in 1..Len(w) : w[i] = log[Len(log) - Len(w) + i]
    BY <2>3, KeyOfSource DEF RateInv, WindowIsRecent
  <2>5. \A i, j \in 1..Len(log) : i <= j => log[i] <= log[j]
    BY <2>3 DEF RateInv, ServedInOrder
  <2>6. Len(w) - d >= limit
    BY <2>1 DEF OverLimit
  <2>7. d < Len(w) /\ ~(w[d + 1] + Window <= now)
    BY <2>1, <2>3, <2>6 DEF Drops, Expired
  <2> HIDE DEF w, log, limit
  <2> DEFINE m == Len(log) - Len(w) + (d + 1)
             n == Len(log) + 1 - limit
  <2>8. m \in 1..Len(log) /\ n \in 1..Len(log) /\ m <= n /\ w[d + 1] = log[m]
    <3>1. d + 1 \in 1..Len(w)
      BY <2>3, <2>7
    <3>2. w[d + 1] = log[m]
      BY <3>1, <2>4
    <3>3. m \in 1..Len(log) /\ n \in 1..Len(log) /\ m <= n
      BY <3>1, <2>3, <2>4, <2>6
    <3> QED
      BY <3>2, <3>3
  <2>9. now < log[n] + Window
    <3>1. log[m] <= log[n] /\ log[m] \in Nat /\ log[n] \in Nat
      BY <2>3, <2>5, <2>8
    <3>2. ~(log[m] + Window <= now)
      BY <2>7, <2>8
    <3> HIDE DEF m, n
    <3> QED
      BY <3>1, <3>2, <2>2, LimiterAssumption
  <2>10. n + limit = Len(log) + 1
    BY <2>3
  <2> QED
    BY <2>3, <2>8, <2>9, <2>10 DEF log, limit
<1> QED
  BY <1>1, LimiterCorrect, PTL
=============================================================================
