----------------------------- MODULE RateLimiter -----------------------------
(***************************************************************************)
(* The middleware a request passes before it reaches the routes of the     *)
(* API: api/middleware/https_enforcer.py, and inside it rate_limiter.py,   *)
(* in the order in which api/app.py stacks them.                           *)
(*                                                                         *)
(* The limiter awaits nothing between reading the clock and appending to   *)
(* its window, so one request is one step.  Its windows live in the memory *)
(* of one API process: this module is one such process from start to end.  *)
(***************************************************************************)
EXTENDS Naturals, Sequences

CONSTANTS
  Clients,             \* addresses requests come from
  Endpoints,           \* pairs of a method and a path
  Writes,              \* those that are POST /api/v1/reservations, with or without a final /
  DefaultLimit,        \* default_limit_per_minute
  ReservationsLimit,   \* reservations_limit_per_minute
  Window,              \* the 60 seconds, in ticks
  ForceHttps,          \* force_https
  MaxTime              \* bound on the clock

ASSUME LimiterAssumption ==
  /\ Writes \subseteq Endpoints
  /\ DefaultLimit \in Nat \ {0}
  /\ ReservationsLimit \in Nat \ {0}
  /\ Window \in Nat \ {0}
  /\ ForceHttps \in BOOLEAN
  /\ MaxTime \in Nat

VARIABLES
  now,       \* monotonic()
  windows,   \* _request_windows: key -> times of counted requests
  served     \* client, endpoint -> times its requests reached the application (history)

vars == <<now, windows, served>>

Sources == Clients \X Endpoints

\* Mutant: the key leaves out the address.
MutBuildKey(client, endpoint) == endpoint

BuildKey(client, endpoint) == <<client, endpoint>>

Keys == {BuildKey(r[1], r[2]) : r \in Sources}

ResolveLimit(endpoint) == IF endpoint \in Writes THEN ReservationsLimit ELSE DefaultLimit

TypeOK ==
  /\ now \in Nat
  /\ windows \in [Keys -> Seq(Nat)]
  /\ served \in [Sources -> Seq(Nat)]

Init ==
  /\ now = 0
  /\ windows = [k \in Keys |-> <<>>]
  /\ served = [r \in Sources |-> <<>>]

-----------------------------------------------------------------------------
\* Mutant: a request is forgotten one tick late.
MutExpired(t) == t + Window < now

Expired(t) == t + Window <= now

\* The loop that pops from the left pops d times.
Drops(window, d) ==
  /\ d \in 0..Len(window)
  /\ \A i \in 1..d : Expired(window[i])
  /\ d < Len(window) => ~Expired(window[d + 1])

DropFirst(window, d) == SubSeq(window, d + 1, Len(window))

\* Mutant: one request too many.
MutOverLimit(window, d, endpoint) == Len(window) - d > ResolveLimit(endpoint)

OverLimit(window, d, endpoint) == Len(window) - d >= ResolveLimit(endpoint)

\* The limiter: 429, or the request is counted and goes on to the application.
Limit(client, endpoint) ==
  LET key == BuildKey(client, endpoint)
      window == windows[key]
  IN  \E d \in 0..Len(window) :
        /\ Drops(window, d)
        /\ \/ /\ OverLimit(window, d, endpoint)
              /\ windows' = [windows EXCEPT ![key] = DropFirst(window, d)]
              /\ UNCHANGED served
           \/ /\ ~OverLimit(window, d, endpoint)
              /\ windows' = [windows EXCEPT ![key] = Append(DropFirst(window, d), now)]
              /\ served' = [served EXCEPT ![<<client, endpoint>>] = Append(@, now)]

\* The scheme is the one a proxy reports, or that of the connection.
PassesHttps(https) == ForceHttps => https

\* Mutant: the limiter outside the HTTPS enforcer, which redirects what it counted.
MutDispatch(client, endpoint, https) ==
  /\ LET key == BuildKey(client, endpoint)
     IN  /\ Len(windows[key]) < ResolveLimit(endpoint)
         /\ windows' = [windows EXCEPT ![key] = Append(@, now)]
         /\ served' = IF PassesHttps(https)
                      THEN [served EXCEPT ![<<client, endpoint>>] = Append(@, now)]
                      ELSE served
  /\ UNCHANGED now

\* A request that is not secure where it must be is redirected, uncounted: a
\* stuttering step, and not modelled.
Dispatch(client, endpoint, https) ==
  /\ PassesHttps(https)
  /\ Limit(client, endpoint)
  /\ UNCHANGED now

Tick ==
  /\ now < MaxTime
  /\ now' = now + 1
  /\ UNCHANGED <<windows, served>>

Next ==
  \/ Tick
  \/ \E r \in Sources, https \in BOOLEAN : Dispatch(r[1], r[2], https)

Spec == Init /\ [][Next]_vars

-----------------------------------------------------------------------------
(* Properties *)

\* No interval of a Window's length, wherever it starts, sees more requests of
\* one client reach one endpoint than its limit: a request and the one Limit
\* places before it are a Window apart.
LimitHolds ==
  \A r \in Sources : \A i, j \in DOMAIN served[r] :
    j = i + ResolveLimit(r[2]) => served[r][i] + Window <= served[r][j]

Refuses(client, endpoint) ==
  LET window == windows[BuildKey(client, endpoint)]
  IN  \E d \in 0..Len(window) : Drops(window, d) /\ OverLimit(window, d, endpoint)

\* Whoever is refused has used up its own limit: as many of its requests
\* reached that endpoint less than a Window ago.  Requests of other clients,
\* to other endpoints, or refused before do not count against it.
RefusalIsEarned ==
  \A r \in Sources :
    Refuses(r[1], r[2]) =>
      \E n \in DOMAIN served[r] :
        /\ n + ResolveLimit(r[2]) = Len(served[r]) + 1
        /\ now < served[r][n] + Window

\* What a window holds is the latest requests of its client that reached the
\* endpoint, all of those that have not expired and nothing else: a redirected
\* request is not charged.
WindowIsRecent ==
  \A r \in Sources :
    LET window == windows[BuildKey(r[1], r[2])]
        older == Len(served[r]) - Len(window)
    IN  /\ Len(window) <= Len(served[r])
        /\ \A i \in DOMAIN window : window[i] = served[r][older + i]
        /\ \A i \in DOMAIN served[r] : i <= older => served[r][i] + Window <= now

-----------------------------------------------------------------------------
(* What makes the properties inductive *)

\* Requests are recorded in the order of time.
ServedInOrder ==
  \A r \in Sources :
    /\ \A i \in DOMAIN served[r] : served[r][i] <= now
    /\ \A i, j \in DOMAIN served[r] : i <= j => served[r][i] <= served[r][j]

RateInv == TypeOK /\ ServedInOrder /\ WindowIsRecent /\ LimitHolds
=============================================================================
