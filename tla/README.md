# Verification of the reservations API

TLA+ models of the reservations service in `src/`: a FastAPI application that
stores rental-car reservations in MySQL and tells a payment and a provider
service about them through a transactional outbox. The modules are translated
from the Python code; documents and tests were used to find out what the code
is meant to do. `PROJECT.json` lists, for every definition, the lines it models.

Paths below are relative to `src/src/reservas_api/` unless they start with `src/`.

## 1. Inventory

| Component | State it keeps | Operations | Interacts with |
|---|---|---|---|
| Reservation creation (`application/use_cases/create_reservation_use_case.py`, `generate_reservation_code_use_case.py`, `infrastructure/repositories/mysql_reservation_repository.py`) | tables `reservations`, `reservation_addons` | draw a code, validate, resolve add-ons, save | catalog, outbox publisher, error mapping; other requests through the unique index |
| Outbox publisher (`infrastructure/outbox/outbox_event_publisher.py`) | table `provider_outbox_events` | insert reservation, add-ons and two events in one transaction | repository |
| Outbox processor (`infrastructure/outbox/outbox_event_processor.py`) | statuses of the events, stop event | poll, process one event, stop | gateways, database, other workers |
| Worker process (`src/scripts/run_outbox_worker.py`) | polling task, signal event | start, signal, `--once` | processor |
| Gateways (`infrastructure/gateways/*.py`) | none of their own | `process_payment`, `create_booking` | breaker, retry policy, external services |
| Retry policy (`infrastructure/resilience/retry_policy.py`) | attempt counter of one call | `execute` | breaker |
| Circuit breaker (`infrastructure/resilience/circuit_breaker.py`) | state, failure count, opening time | `call` | clock, service; tasks that share it |
| Status update (`application/use_cases/update_reservation_status_use_case.py`, `infrastructure/repositories/mysql_reservation_status_store.py`) | `reservations.status`, `reservation_provider_requests` | `execute` in up to five transactions | history; other updates; cancellation service |
| Status history (`infrastructure/history/history_tracker.py`) | `reservation_status_history` | `track_status_change`, `get_history` | status store |
| Add-on catalog (`infrastructure/repositories/mysql_addon_catalog_repository.py`) | `rental_addons` (read only here) | look-up by code, listing | creation |
| Rate limiter (`api/middleware/rate_limiter.py`) | one window of times per client and path | `dispatch` | clock, all endpoints |
| HTTPS enforcer (`api/middleware/https_enforcer.py`) | none | `dispatch` | stands before the rate limiter (`api/app.py:49-58`) |
| Reservation entity (`domain/entities/reservation.py`) | status and in-memory history | `mark_*` | no use case calls the transitions |
| Migrations (`src/alembic/`) and ORM models (`infrastructure/db/models/reservation_models.py`) | the schema, `alembic_version`, the seeds of the add-ons | `upgrade`, `downgrade`, statement by statement | MySQL's DDL; the API, which is served meanwhile |
| Error mapping, sanitizer, PCI rules, audit masking, DTOs, settings, container | none | pure functions and wiring | creation |

What is hard here:

* **Concurrency.** API requests interleave at every `await` and share only the
  database. Any number of workers may poll the same table, without locks or
  `SKIP LOCKED`. Status updates read, decide and write in separate transactions.
* **Failure.** MySQL commits each DDL statement by itself, so a migration that
  dies or is refused leaves a schema between two revisions. A crash or a database error may come between an external call and
  the transaction that records it, and a commit may take effect and its
  acknowledgement be lost. Replies of services are lost.
* **Ordering.** Payment before booking rests on ids; a response may be handled
  late, after the other service's.
* **Time.** The breaker compares clock readings across awaits, the rate limiter
  slides a window along the clock; retries and the polling loop go on until told
  to stop.

What makes each part correct is stated in section 3 and, at the line where it
could go wrong, in the `hazards` of `PROJECT.json`.

## 2. Modules

```
ReliableDelivery        what the outbox promises
   ^ refinement (KeepsContract)
Outbox                  publisher, workers, gateways, database       MCOutbox, _proofs
ReservationBook         what POST /reservations promises
   ^ refinement (KeepsBook)
CreateReservation       POST /reservations                           MCCreateReservation, _proofs
   ^ EXTENDS, refinement (SystemReserves); Outbox by INSTANCE (SystemDelivers)
ReservationSystem       the API and the workers on one database      MCReservationSystem, _proofs
ReservationStatus       UpdateReservationStatusUseCase               MCReservationStatus, _proofs
CircuitBreaker          one breaker, its callers, clock and service  CircuitBreaker_proofs
   ^ EXTENDS, refinement (GatewayUsesBreaker)
ProviderGateway         retry policy, breaker, clock and bookings    ProviderGateway_proofs
Migrations              Alembic, MySQL's DDL, the API meanwhile      Migrations_proofs
RateLimiter             the middleware in front of the routes        MCRateLimiter, _proofs
```

**Outbox.** State: the committed codes, the table as a function from ids to rows
or `NoRow`, and for each worker where its loop is (`pc`), the rest of its batch
(`todo`), the status it read (`seen`) and the retries it has made (`attempt`).
`called` and `delivered` are history variables: what the outside world has seen.
`Publish` is the transaction of a request. `Poll`, `EndBatch`, `Fetch`,
`Dispatch` and `Save` are the steps of `run_forever`, `process_pending_once` and
`_process_event_by_id`, cut where another process can come between: the select
of the batch and the processing of one event are different sessions, and the
gateway call is an await inside the latter. `WriteOutcome` models the ORM: a
column is updated only if its value differs from the one *read*. `DbError` may
strike before or after a commit took effect and kills the loop but not the
process (`zombie`). Payloads are abstracted to the event they belong to.

**ReliableDelivery.** No workers, ids, batches or transactions: reservations are
published, their events are delivered any number of times, and settled only after
a delivery. `Reopening` allows a settled event to come back; the refinement sets
it exactly when there is more than one worker.

**ReservationStatus.** One reservation and any number of executions of the use
case. `GetStatus`, `SaveResponse`, `Resolve`, `Load` and `Write` are the
transactions of `execute`; `set_status` is two steps because its read takes no
lock. `Resolve` takes the at most one `has_successful_request` query and the
decision together. `Cancel` is the external cancellation service the
documentation describes (`src/docs/proceso_de_reserva.md:375-381`). The code
excludes no overlap, and most of what a reader expects of a status is broken by
one. `overlapped` is a history variable that notes the first: a handler has
begun, or a cancellation been made, while a handler was running. Properties
that speak of `~overlapped` tell what is right without races, in the same
behaviours in which the others hold with them.

**CreateReservation.** Concurrent requests, each a sequence of `Generate` (one
step per draw), `Validate`, `ResolveAddons`, `Insert` and `Commit`. The order is
the code's: the code is drawn before the payload is validated. `Insert` waits
for an open transaction on the same code, as InnoDB's unique index does, and fails
if that one commits. `Persist` writes the three tables at once; `CutShort` is the
end of a transaction whose client sees an error or nothing. A request may be the
repetition of another one (`RetryOf`). Whether the payload passes the sanitizer
and the PCI rules is the set `clean`; whether the ORM can load the row of an add-on,
the set `Readable`.

**ReservationBook.** No draws, reads, locks or transactions: a book with one entry per
code. One atomic step answers a request, once and for all; it may enter the
reservation, checked, with all its add-ons and both events, under a code that is free,
or leave the book alone. Whoever is answered 201 with a code has that entry; a client
that is cut off may be told of an error although its reservation was entered. A
repetition begins only after such an answer. `EntryOf` and `ResponseTo` are the
refinement mapping: what the three tables hold under a code, and what the client was told.

**ReservationSystem.** The API and the outbox workers, of which each has been modelled
without the other: `CreateReservation` has its events as a set, which nobody reads, and
in `Outbox` reservations are published out of nothing. Here they share the database, as
in the program. The one common step is the transaction that saves a reservation
(`Publishing`): a step of `CreateReservation` that takes a code is at the same time
`Outbox!Publish` of that code; any other step of either component leaves the state of
the other alone. The reservations of the outbox are the codes with an owner.

**CircuitBreaker.** Callers share one breaker: entering a call and recording its
result hold the lock, the request in between does not. Time is the age of the
last opening, up to the recovery timeout. A rejected call changes nothing and is
a stuttering step. A worker builds one breaker per gateway (`shared/config/container.py:107-126`)
and awaits one call at a time: it is the instance with one caller. `tripAge`,
`relieved` and `burst` are history variables. A refusal (a 4xx) is a failure to the
breaker like any other; `MaxRefusals` bounds those of a service that is up.

**ProviderGateway.** `create_booking` of callers that share one gateway: `Book` begins
it, `Attempt` and `Reject` are `CircuitBreaker.call` as the retry policy calls it,
`Succeed` and `FailRequest` the end of a request. The steps of the breaker are the
actions of `CircuitBreaker`, conjoined with what the retry policy does: `Retry` gives
up or sleeps for `Delay`, after a request that failed as after a call the breaker has
rejected. `GatewayTick` is the breaker's clock and the timers of the sleeping tasks
together; a task that is ready to run runs before the next tick. `tripped`, `counted`
and `culprits` are history variables: which bookings have opened the breaker or
failed since the last success. `process_payment` has no retry policy and is the instance with
`MaxRetries = 0`.

**Migrations.** The schema is the set of facts that the statements of the two
revisions establish: tables, indexes, unique constraints, foreign keys. A revision
is a sequence of statements, in the order of the Python code, and `Execute` runs the
next one; MySQL refuses it (`Accepts`) if what it makes is there, what it needs is
not, or a foreign key would lose its last index, and then the command ends (`Fail`).
`Stamp` writes `alembic_version` behind the last statement. `Crash` takes away what
MySQL has not committed, which is at most the seed rows. Meanwhile `SaveReservation`
is the transaction of a request, on whatever tables there are: in
`src/docker-compose.yml:31-33` the API waits for MySQL, not for the migrations. A downgrade goes
one or more revisions down and may be followed by an upgrade. What MySQL does is
external to the repository and modelled as its manual has it for 8.0; column types are left out.

**RateLimiter.** One API process: the HTTPS enforcer, then the limiter, which reads
the clock, drops what has expired and counts or refuses the request without an
`await` between, so one request is one step. A key (`_build_key`) is the pair of
address and endpoint; an endpoint stands for a method and a path, and the two
spellings of the reservation path are two endpoints with one limit. A redirected
request changes nothing. `served` is a history variable: the times at which the
requests of a client reached an endpoint. The windows are memory of a process: two
processes (`Dockerfile:38`) have two limiters, and a restart is `Init`; the limit
holds for each of them.

## 3. Runs

| Run | Checks | Shows |
|---|---|---|
| `outbox_safety` | `DeliveryInv`, `PaymentCalledFirst`, `KeepsContract`, `ReopeningsRunOut` | two workers overtaking each other, a crash, any reply lost |
| `outbox_liveness` | `EventuallySettled`, `StopTerminates`, `StopRunsDown` | two workers, bookings that are retried, and one fault of each kind |
| `status` | `StatusInv`, `StatusIsEarned`, `ConfirmationIsNoticed`, `HistoryIsComplete`, `ConfirmedUnlessFailed`, `CancelledIsFinal` | three updates, any responses, a cancellation, overlapping or not |
| `create` | `CreateInv`, `OnlyCollisionsFail`, `KeepsBook`, `EveryRequestAnswered`, `RequestsRunDown` | three requests, one of them a repetition, two codes, add-ons switched on and off, one of them unreadable, a database error and a crash |
| `gateway` | `GatewayInv`, `OutageIsContained`, `RejectsUntilRecovery`, `OpenerIsSpared`, `OneBookingNeverTrips`, `EveryBookingEnds`, `BookingsSucceed` | two callers with retries, two outages, a refused request |
| `migrations` | `HeadInv`, `CodesAreUnique`, `SavedWithEvents`, `HeadIsTheModels`, `TornForGood`, `UpgradeReachesHead` | both revisions up and down, two crashes, two downgrades, reservations being saved |
| `rate_limiter` | `RateInv`, `LimitHolds`, `WindowIsRecent`, `RefusalIsEarned` | two clients, two endpoints with different limits, two window lengths |
| `system` | `SystemInv`, `OnlyClientsAreServed`, `ServedOnce`, `SettledForGood` | the API and one worker: a request and its repetition, a crash of each process, a database error, replies of bookings lost |
| `outbox_starvation` | `EventuallySettled` violated | see findings |
| `outbox_zombie` | `EventuallySettled` violated | see findings |
| `status_lost_update` | `ConfirmedWhenBothSucceeded` violated | see findings |
| `create_addon_wiring` | `ActiveAddonsAccepted` violated | see findings |

**Bounds.** Two reservations give four events, so that a batch of 2 or 3 cuts
between the two events of a reservation and a failed event is selected together
with new ones; two workers are the smallest number that races, and a third would
do nothing that the second cannot. `MaxCount` only has to tell one delivery from
two (`system`, 2) or from none (elsewhere, 1). Faults are bounded one by one (`MaxCrashes`,
`MaxStops`, `MaxDbErrors`): one crash is enough to separate a call from its
record, and the proofs below hold for any number. In `outbox_liveness` a booking is
retried once (`MaxRetries`), so that a signal may come between two attempts. `system` has one worker because `ServedOnce` and
`SettledForGood` speak of a lone one; it makes replies of bookings, which are retried,
lossy and those of payments reliable, so that `ServedOnce` has events to speak of (it
says nothing once the worker has crashed or met a database error). Signals, which
concern no client, are in `outbox_liveness`. Three updates can be a payment, a booking
and a repetition. Two codes for three requests make collisions, the unique index
and the exhaustion of the draws (`MaxDraws`) happen. In `gateway` a booking makes up to
three attempts and the threshold is 4, so that one booking cannot open the breaker and two can;
the delays are 1 and 2 ticks, uncapped the second would be 4, and the
recovery of 5 ticks is just longer than the two longest delays. These are the
proportions of the code: 4 attempts, a threshold of 5, delays of 0.5, 1 and 2 s
against 30 s (`shared/config/settings.py:64-78`,
`infrastructure/resilience/retry_policy.py:11-14`). A second outage falls into the
recovery from the first, and a refusal is what keeps a breaker failing while the
service is up. A batch of the outbox has 100 events; smaller numbers
change how long a behaviour is, not which ones there are. In `migrations` one crash tears
a schema and the second strikes the attempt to mend it; two downgrades can meet one
another and the upgrade between them; two codes tell one that is taken from one that is free. The rate limiter's window
is two ticks and its clock runs for four: a window of two requests can lose one and
keep the other, and an interval can lie across the borders of two bursts; 60 s with
limits of 120 and 30 are the same with more of each.

`CHECK_DEADLOCK FALSE` everywhere: when all reservations are settled, all
requests answered or all updates done, the system may stop.

Some properties of a component are parts of an invariant that is checked:
`ProcessedWasDelivered` and `ReservationHasItsEvents` of `DeliveryInv`, `CreatedIsDurable` and `NothingPartial` of
`CreateInv`, `NoOwnerWasRefused`, `OwnersWereChecked` and `LoneWorkerInv` of `SystemInv`.

**Fairness.** `Outbox`: weak fairness of each worker's steps (the event loop goes
on, and a supervisor restarts a process that has ended; the stop signal is in
nobody's fairness), and strong fairness of `AcceptEvent`: a service that is asked
again and again for an event it does not reject for good accepts it at some
point. Nothing is assumed of faults. `CreateReservation`: weak fairness of the
steps of each request; none of `ToggleAddon`, faults or the client. A database
that never answers is thus excluded. `ProviderGateway`: weak fairness of each
caller's steps, since there is always another booking and a request ends by
its timeout, and strong fairness of `GatewayTick`: a clock does not stop because
callers are busy in turn, so weak fairness, which lets it stand still when they
are never all at rest, would be too little. Nothing is assumed of outages; the
service is up for good only in the premise of `BookingsSucceed`. `Migrations`: weak fairness of
`Alembic`, a command that has begun goes on; none of beginning one, of crashes or
of clients.

**Findings** (`findings` in `PROJECT.json` quotes the documents).

* `outbox_starvation`: failed events are selected again for ever and in id order;
  `batch_size` hopeless ones starve everything after them.
* `outbox_zombie`: a database error ends the polling task, and the process waits
  for a signal before it looks at the task.
* `status_lost_update`: overlapping payment and booking successes can end as PAID.
* `create_addon_wiring`: the container gives the use case no catalog, so a request
  with any add-on is refused.

Further disagreements met while modelling, which have no run of their own:

* When updates or cancellations overlap, what the properties of `status` say under
  `~overlapped` fails: a cancellation
  between `get_status` and `set_status` is overwritten (`src/docs/proceso_de_reserva.md:375`
  calls CANCELLED final), and the chain of the history breaks (line 384). Even
  without overlap, a failed response that comes after two successes takes the
  confirmation back, and the recorded changes are not those of lines 356-374
  (`PAYMENT_IN_PROGRESS` is never written).
* `alembic downgrade base` never gets there: it drops the outbox with its events and
  then stops at the index of a foreign key
  (`src/alembic/versions/20260209_0001_initial_schema.py:213`, MySQL error 1553); an
  attempt after that stops at its first statement. From then on the schema is torn, and the
  API answers 500 to every request to reserve. No document promises that a downgrade works.
  What the runs check is how its remains look and what is saved on them (`HeadInv`, `SavedWithEvents`).
* No migration mends a schema that a crash has torn (`TornForGood`); it takes
  an operator.
* The catalog is seeded with the values of the categories (`'coverage'`,
  `src/alembic/versions/20260213_0002_rental_addons.py:61`) and the ORM reads their names
  (`infrastructure/db/models/reservation_models.py:175-180`): `GET /addons`
  answers 500 on a migrated database, and a reservation with an add-on would, if the
  catalog were wired (`ResolveAddons`).
* A refusal of the provider (a 4xx) counts in the breaker as an outage does, so
  hopeless bookings of the outbox open it for the others
  (`infrastructure/resilience/circuit_breaker.py:78-82`); it takes two bookings (`OneBookingNeverTrips`).
* A code lost to another request between the draw and the insert is answered 500
  (`OnlyCollisionsFail` says exactly that); `src/.kiro/specs/reservas-api/design.md:374`
  has a new code drawn.
* The booking is requested whether or not the payment succeeded; `src/docs/Orquestador.md:89`
  requests it on confirmation of the payment. `PaymentCalledFirst` is what holds.
* A 500 does not mean that nothing was saved: `src/docs/proceso_de_reserva.md:490` has
  `Falla al persistir` answered by 500 with an atomic rollback. That nothing partial is
  left is right (`KeepsBook`), but the reservation may be there as a whole: when the
  acknowledgement of its commit is lost, or when the audit logger, called inside the
  same `try` behind the commit, raises
  (`application/use_cases/create_reservation_use_case.py:186-202`). That is `DbError` with
  `CutShort` in the state `commit`, and `ReservationBook` allows it. A client that
  repeats a request after such a 500, or no answer, gets a second reservation and is
  charged for both; `src/docs/Orquestador.md:81` asks for idempotency. The service itself
  never tries to save again (`RequestsRunDown`).
* The worker records no provider response and never updates a reservation's
  status: no router or worker calls `UpdateReservationStatusUseCase`. An event ends as
  PROCESSED, not PUBLISHED (`src/docs/proceso_de_reserva.md:351`).

## 4. Proofs

All theorems hold for every value of the constants that satisfies the modules'
named assumptions (`OutboxAssumption`, `StatusAssumption`, `CreateAssumption`,
`BreakerAssumption`, `GatewayAssumption`, `LimiterAssumption`,
`MigrationsAssumption`, and `SystemAssumption`, which is that of `Outbox` for the values
`ReservationSystem` gives it): types, non-empty batches, a null that is
no row, a positive threshold, positive limits, delays and window. The provers know
nothing of `^`; `GatewayAssumption` states the two facts about the powers of the
backoff factor that are used (they are natural numbers, and none is greater than
the last), and TLC evaluates it for the run's values.

* **`Outbox_proofs`.** `TypeCorrect`: `TypeInv` needs `BatchCommitted`, since a
  worker reads the row of an id it selected earlier. `DeliveryCorrect`:
  `ProcessedWasDelivered` is not inductive; the step that settles relies on what the
  worker heard in an earlier one (`AnswerIsOfEventAtHand`).
  `PaymentCalledFirst` needs `PaymentAheadInBatch`: a booking in a batch has its
  payment before it in the same batch or the payment was called already. That
  is kept by `Poll` because the payment's row is either selected with it, having
  the smaller id, or PROCESSED, and then called (`SettledWasCalled`).
  `ProcessedIsDelivered` and `PaymentsComeFirst` draw the
  properties from it. `ReopeningsAreLimited`, for competing workers: the workers that
  read an event before its first outcome and are still at work on it (`Racers`) are
  joined by nobody, as the row is never PENDING again; a worker that had read FAILED
  writes nothing over a row that another has settled, and none has read PROCESSED (`ReadUnsettled`), so
  each reopening takes a racer, which is then done with the event. `LoneWorkerReadsCurrent` and
  `LoneWorkerSettlesForGood` assume `OneWorker`, and so does `LoneWorkerAsksOnce`:
  `AtMostOnce` needs to know that what was accepted is settled, or its answer is about to be
  recorded (`AcceptedIsAccountedFor`), so that nobody asks again. `OutboxKeepsContract` maps each step
  to a step of `ReliableDelivery` or a stutter: `Publish` to `Publish`, an accepted
  request to `Deliver`, an outcome (also that of a commit whose acknowledgement is
  lost) to `Settle`, or to `Reopen` with several workers.
* **`ReservationStatus_proofs`.** `StatusCorrect`: `EarnedInv` adds that a handler's
  response is saved before it resolves (`ResponseSavedFirst`), that a status about to
  be written is earned (`TargetIsEarned`), and that responses are never deleted does
  the rest, whatever the interleaving. `StatusIsAlwaysEarned` follows.
  `ConfirmationsAreNoticed`: `NoticedInv` says of a reservation whose two successes are
  saved that the confirmation is written, or someone is about to resolve or to write it, and that
  no status a handler holds goes back (`NoStepBack`); the handler that saved last resolves last.
  `ExclusiveCorrect`: as long as nothing has overlapped a handler runs alone and what
  it has read is still so (`AloneAndCurrent`), from which `HistoryStaysComplete`,
  `SuccessesConfirm` and `CancellationIsFinal` follow.
* **`CreateReservation_proofs`.** Every step saves, saves nothing, or touches no
  request (`StepShape`); `CommitIsAlone`, the lock of the unique index, makes saving
  harmless to the others (`SaveKeepsInv`). `CreateCorrect` is the invariant,
  `CreatedStays` and `NothingIsPartial` are parts of it,
  `OnlyCollisionsAreErrors` follows with it. `NobodyRefusedIsSaved`: the owner of a
  reservation was answered 201 or cut off, never refused; the system needs it below. `CreationKeepsBook` maps the step that commits to `Enter`
  (`SavingEnters`), every other answer to `Refuse` (`NotSavingRefuses`) and all else to a
  stutter. The book is entered long after the checks and after the client sent the
  request, so two facts have to survive what others do in between:
  nobody works on a repetition whose client still waits (`SentFirst`, kept because an
  answer is never taken back, `SentIsKept`), and what may still be saved has
  been checked (`CheckedFirst`). `WiredCatalogAccepts` assumes `CatalogWired`: with the
  catalog in place no request for active add-ons is answered 400, so that the wiring is
  all that `create_addon_wiring` turns on.
* **`ReservationSystem_proofs`.** `SystemReserves` and `SystemDelivers`: the system is
  a `CreateReservation` and an `Outbox`, so what is proved of each by itself holds here
  (`SystemKeepsPromises`, `SystemServesOnce`, `SystemSettlesForGood`). What neither of
  them can say is `TablesAgree`, that the events the API has saved are the rows the
  workers find; it is kept because a commit takes one code and publishes that
  one (`AgreementIsKept`). `OnlyClientsAreEverServed` goes from a call back
  to its client: the call is for a committed row (the outbox), whose owner was
  checked and not refused (creation).
* **`CircuitBreaker_proofs`.** `OutagesAreContained`: a request of the burst is still
  on its way or is counted as a failure (`BurstIsCounted`), and the requests on
  their way are at most the callers (`FailingCount`). `BreakerWaits`: a
  breaker leaves OPEN only after its timeout or by a success, from which
  `ServiceIsSpared` follows; a straggling failure starts the wait again.
* **`ProviderGateway_proofs`.** `GatewayUsesBreaker`: a step of the composition is a
  step of `CircuitBreaker` or leaves it alone, so its theorems hold here
  (`GatewayContainsOutages`, `GatewaySparesService`). `OpenersAreSpared`: `OpenerInv` bounds
  the time since a booking opened the breaker, and what it still sleeps, by
  as many longest delays as it has made attempts; if all its delays are shorter
  than the recovery, `WaitInv` leaves only the relief by another's success.
  `OneBookingIsNotEnough`: `CulpritInv` bounds the failure count by the attempts of the
  one booking that has failed since the last success. The type of the delays
  needs `DelayBounds` and `DelaysAddUp`.
* **`Migrations_proofs`.** The scripts are constants; `Positions`, `Scripts` and `AtHand` say
  of every statement at every position what it may be, and `Altered` what it does.
  `CodesStayUnique` is inductive with `UniqueKept`, since the constraint is part of
  `CREATE TABLE`. `SavesHaveEvents` needs that without an outbox there are no events
  (`NoOutboxNoEvents`), and of the re-creation of the outbox that it can only
  happen before the first revision is stamped, when no reservation has been saved. That
  in turn is `JobFits`, part of `HeadInv`: a downgrade to base stops at its sixth statement
  (`DowngradeStops`), whose index is the only one of a foreign key (`ReferenceKept`).
  `HeadCorrect` says of every schema what it is: exactly what the place of the running
  command, or else the version, tells (`Expected`), or torn (`Stuck`). Whatever is not
  whole is torn in one of four ways, one for each script: the effect of its first
  statement is in the schema, its version is not stamped. The command that would have
  to mend it begins with that same statement, which MySQL refuses (`FirstRefused`), and no
  other command undoes the effect (`StuckStays`); a command that ends in the middle has
  left that mark (`EndsTorn`). So `TornStaysTorn` needs no induction over commands, only that
  torn and `Stuck` are the same when no command runs (`StuckIsTorn`). `HeadMatchesModels`
  has `JobRuns` (a way of being torn at head takes a downgrade), `SeedFits` (the
  seeds are committed by the statement behind them) and the comparison of what the two
  revisions establish (`InitialFacts`, `RentalFacts`) with the ORM models, table
  by table (`HeadModels`).
* **`RateLimiter_proofs`.** `LimiterCorrect`: `LimitHolds` is not inductive. The request
  that is counted sees fewer than the limit in its window, and needs to know that
  the one a limit's length before it has been dropped, hence expired: a window is the
  end of `served`, and all before it has expired (`WindowsAreRecent`, `LimitKeepsInv`).
  `RefusalsAreEarned` also needs `ServedInOrder`: what remains of a window begins with
  a request that has not expired, so none after it has.

Every safety invariant, every action property and every refinement of the runs that pass
is proved, and `TornForGood` with its nested temporal operators. Only model-checked is
liveness under fairness, which is out of the provers' reach: `EventuallySettled`,
`StopTerminates`, `EveryRequestAnswered`, `EveryBookingEnds`, `BookingsSucceed` and
`UpgradeReachesHead`. Of three of them the part that is safety is proved, and for two
of them checked by the runs as well (`StopRunsDown`, `RequestsRunDown`): a variant
(`StepsLeft`) that each step of the actor lowers and no step of anyone else, fault or
tick raises (`StoppedWorkersEnd`, `RequestsEnd`, `BookingsEnd`). They bound what an actor
can still do for every batch size, number of draws, retries and delays, where the runs
have small ones; that it is never kept from doing it, which takes fairness, is what the runs
add. The variant of a stopped worker is the rest of its batch, which `BatchesAreSmall`
bounds, and then the place in the event at hand. What a power of the backoff factor is stays an assumption
(`GatewayAssumption`), since it is defined by recursion.

## 5. Not modelled

* Pure I/O and formatting: DTOs, JSON, logging, masking, response headers, health, listing.
  The input sanitizer and the PCI rules are stateless functions of strings; what the
  system does depends on whether they raise (`clean`).
* The transitions of the entity (`domain/entities/reservation.py`), `publish`,
  `publish_many`, `repository.update_status` and the update branch of `repository.save`: nothing in the
  application calls them.
* The connection pool (`infrastructure/db/session.py`): when it is exhausted a
  request sees a database error, which is modelled.
* MySQL beyond transactions, unique indexes, foreign keys and the commit of DDL; column types, and with
  them the widths and precisions of the columns; Alembic's offline mode, which prints SQL.
* The development and load scripts, which work on reports and development databases,
  and `--once` of the worker: one pass of `Poll` to `EndBatch` with no stop.

## 6. Plan

Done: the outbox with its contract, creation with its book and the system of both, status
update, breaker, gateway with retries, rate limiter, migrations, and the proofs of
their safety.

Next, in this order:

1. The status update in `ReservationSystem`, as soon as a router or worker calls it; today
   it would be one more component that shares no step with the others.
2. The call of a gateway as an abstract specification (a bounded number of
   attempts, one outcome) that both `ProviderGateway` and the worker of `Outbox` implement.
3. `--once` of the worker, in `Outbox`.
4. Pure algorithms over bounded inputs: payload parsing with its fallbacks, sanitizer,
   PCI rules, masking; the entity's transitions against `ResolveStatus`.
