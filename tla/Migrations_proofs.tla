--------------------------- MODULE Migrations_proofs ---------------------------
(* Theorems about Migrations, for any reservation codes and any number of  *)
(* crashes and downgrades.                                                 *)
EXTENDS Migrations, TLAPS

Reservations == "reservations"
Requests == "reservation_provider_requests"
Outbox == "provider_outbox_events"

\* What every statement of every script respects.
Orderly(s) ==
  /\ s.op \in {"create_table", "create_index", "insert", "drop_index", "drop_table"}
  /\ <<"table", Reservations, "">> \in s.facts =>
       <<"unique", Reservations, "reservation_code">> \in s.facts
  /\ <<"table", Requests, "">> \in s.facts =>
       <<"foreign_key", Requests, "reservation_code">> \in s.facts
  /\ <<"unique", Requests, "reservation_code">> \notin s.facts
  /\ <<"index", Requests, "reservation_code">> \in s.facts =>
       s.op = "create_index" /\ s.table = Requests
  /\ s.op = "drop_table" => s.table # Reservations
  /\ s.op \in {"drop_index", "drop_table"} => s.facts = {}

\* The statement leaves the outbox where it is.
OutboxKept(s) ==
  /\ <<"table", Outbox, "">> \notin s.facts
  /\ s.op = "drop_table" => s.table # Outbox

\* How long the scripts are.
LEMMA ScriptLengths ==
  /\ Len(InitialSchema) = 18 /\ Len(DropInitialSchema) = 18
  /\ Len(RentalAddons) = 5 /\ Len(DropRentalAddons) = 4
BY DEF InitialSchema, DropInitialSchema, RentalAddons, DropRentalAddons

\* The statements the scripts are made of, one by one.
LEMMA Builders ==
  /\ Orderly(CreateSuppliers) /\ Orderly(CreateOffices) /\ Orderly(CreateReservations)
  /\ Orderly(CreateContacts) /\ Orderly(CreateStatusHistory)
  /\ Orderly(CreateProviderRequests) /\ Orderly(CreateOutboxEvents)
  /\ Orderly(CreateRentalAddons) /\ Orderly(CreateReservationAddons)
  /\ OutboxKept(CreateRentalAddons) /\ OutboxKept(CreateReservationAddons)
  /\ \A t, c : /\ Orderly(CreateIndex(t, c, Plain)) /\ Orderly(CreateIndex(t, c, Unique))
               /\ OutboxKept(CreateIndex(t, c, Plain))
               /\ Orderly(DropIndex(t, c)) /\ OutboxKept(DropIndex(t, c))
  /\ \A t : /\ Orderly(Insert(t)) /\ OutboxKept(Insert(t))
            /\ t # Reservations => Orderly(DropTable(t))
            /\ t # Outbox => OutboxKept(DropTable(t))
<1> USE DEF Orderly, OutboxKept, CreateTable, CreateIndex, Plain, Unique, Insert, DropIndex,
            DropTable, Reservations, Requests, Outbox
<1>1. /\ Orderly(CreateSuppliers) /\ Orderly(CreateOffices) /\ Orderly(CreateReservations)
      /\ Orderly(CreateContacts) /\ Orderly(CreateStatusHistory)
  BY DEF CreateSuppliers, CreateOffices, CreateReservations, CreateContacts, CreateStatusHistory
<1>2. /\ Orderly(CreateProviderRequests) /\ Orderly(CreateOutboxEvents)
      /\ Orderly(CreateRentalAddons) /\ Orderly(CreateReservationAddons)
  BY DEF CreateProviderRequests, CreateOutboxEvents, CreateRentalAddons, CreateReservationAddons
<1>3. OutboxKept(CreateRentalAddons) /\ OutboxKept(CreateReservationAddons)
  BY DEF CreateRentalAddons, CreateReservationAddons
<1>4. \A t, c : /\ Orderly(CreateIndex(t, c, Plain)) /\ Orderly(CreateIndex(t, c, Unique))
                /\ OutboxKept(CreateIndex(t, c, Plain))
                /\ Orderly(DropIndex(t, c)) /\ OutboxKept(DropIndex(t, c))
  <2> TAKE t, c
  <2>1. \A k, a, b, d : <<a, b, d>> \in k \X {t} \X {c} <=> a \in k /\ b = t /\ d = c
    OBVIOUS
  <2>2. Orderly(CreateIndex(t, c, Plain)) /\ OutboxKept(CreateIndex(t, c, Plain))
    BY <2>1
  <2>3. Orderly(CreateIndex(t, c, Unique))
    BY <2>1
  <2>4. Orderly(DropIndex(t, c)) /\ OutboxKept(DropIndex(t, c))
    OBVIOUS
  <2> QED
    BY <2>2, <2>3, <2>4
<1>5. \A t : /\ Orderly(Insert(t)) /\ OutboxKept(Insert(t))
             /\ t # Reservations => Orderly(DropTable(t))
             /\ t # Outbox => OutboxKept(DropTable(t))
  OBVIOUS
<1> QED
  BY <1>1, <1>2, <1>3, <1>4, <1>5

\* Positions of a script, one by one.
LEMMA Positions ==
  ASSUME NEW n \in 1..18
  PROVE  \/ n = 1 \/ n = 2 \/ n = 3 \/ n = 4 \/ n = 5 \/ n = 6 \/ n = 7 \/ n = 8 \/ n = 9
         \/ n = 10 \/ n = 11 \/ n = 12 \/ n = 13 \/ n = 14 \/ n = 15 \/ n = 16 \/ n = 17 \/ n = 18
OBVIOUS

\* The scripts, statement by statement; of the downgrade that MySQL stops, the
\* statements up to there.
LEMMA Scripts ==
  /\ \A i \in 1..18 : Orderly(InitialSchema[i])
  /\ \A i \in 1..18 : InitialSchema[i].op # "drop_table"
  /\ \A i \in 1..5 : Orderly(RentalAddons[i]) /\ OutboxKept(RentalAddons[i])
  /\ \A i \in 1..4 : Orderly(DropRentalAddons[i]) /\ OutboxKept(DropRentalAddons[i])
  /\ \A i \in 1..6 : Orderly(DropInitialSchema[i])
  /\ \A i \in 1..6 : <<"table", Outbox, "">> \notin DropInitialSchema[i].facts
  /\ DropInitialSchema[6] = DropIndex(Requests, "reservation_code")
<1> DEFINE Creates(s) == s.op # "drop_table"
<1> DEFINE Adds(s) == <<"table", Outbox, "">> \in s.facts
<1>1. /\ Creates(CreateSuppliers) /\ Creates(CreateOffices) /\ Creates(CreateReservations)
      /\ Creates(CreateContacts) /\ Creates(CreateStatusHistory)
      /\ Creates(CreateProviderRequests) /\ Creates(CreateOutboxEvents)
      /\ \A t, c, k : Creates(CreateIndex(t, c, k))
      /\ \A t, c : ~Adds(DropIndex(t, c))
      /\ \A t : ~Adds(DropTable(t))
  BY DEF CreateTable, CreateIndex, CreateSuppliers, CreateOffices, CreateReservations,
         CreateContacts, CreateStatusHistory, CreateProviderRequests, CreateOutboxEvents,
         DropIndex, DropTable
<1> HIDE DEF Creates, Adds
<1>2. \A i \in 1..18 : Orderly(InitialSchema[i])
  BY Builders, Positions DEF InitialSchema
<1>3. \A i \in 1..18 : Creates(InitialSchema[i])
  BY <1>1, Positions DEF InitialSchema
<1>4. \A i \in 1..5 : Orderly(RentalAddons[i]) /\ OutboxKept(RentalAddons[i])
  BY Builders DEF RentalAddons
<1>5. \A i \in 1..4 : Orderly(DropRentalAddons[i]) /\ OutboxKept(DropRentalAddons[i])
  BY Builders DEF DropRentalAddons, Reservations, Outbox
<1>6. \A i \in 1..6 : Orderly(DropInitialSchema[i])
  BY Builders DEF DropInitialSchema, Reservations
<1>7. \A i \in 1..6 : ~Adds(DropInitialSchema[i])
  BY <1>1 DEF DropInitialSchema
<1>8. DropInitialSchema[6] = DropIndex(Requests, "reservation_code")
  BY DEF DropInitialSchema, Requests
<1> QED
  BY <1>2, <1>3, <1>4, <1>5, <1>6, <1>7, <1>8 DEF Creates, Adds

\* What is known of the statement a running command is at.
LEMMA AtHand ==
  ASSUME MigrationInv, job # Idle, job.pos <= Len(Script)
  PROVE  /\ Orderly(Script[job.pos])
         /\ <<"table", Outbox, "">> \in Script[job.pos].facts => version = 0
         /\ Script[job.pos].op = "drop_table" /\ Script[job.pos].table = Outbox => version > 0
         /\ job.pos \in 1..18
<1> DEFINE s == Script[job.pos]
           Fits(t) == /\ Orderly(t)
                      /\ <<"table", Outbox, "">> \in t.facts => version = 0
                      /\ t.op = "drop_table" /\ t.table = Outbox => version > 0
<1> SUFFICES Fits(s) /\ job.pos \in 1..18
  OBVIOUS
<1> HIDE DEF s, Fits
<1>1. /\ job.pos \in 1..19 /\ job.revision \in 1..2 /\ version \in 0..2
      /\ job.direction \in {"upgrade", "downgrade"}
  BY DEF MigrationInv, TypeOK, Idle, Job, Latest
<1>2. CASE job.direction = "upgrade" /\ job.revision = 1
  <2>1. Script = InitialSchema /\ version = 0
    BY <1>1, <1>2 DEF Script, UpgradeTo, MigrationInv, JobFits
  <2>2. s = InitialSchema[job.pos] /\ job.pos \in 1..18
    BY <1>1, <2>1, ScriptLengths DEF s
  <2>3. Fits(InitialSchema[job.pos])
    BY <2>1, <2>2, Scripts DEF Fits
  <2> QED
    BY <2>2, <2>3
<1>3. CASE job.direction = "upgrade" /\ job.revision = 2
  <2>1. Script = RentalAddons
    BY <1>3 DEF Script, UpgradeTo
  <2>2. s = RentalAddons[job.pos] /\ job.pos \in 1..5
    BY <1>1, <2>1, ScriptLengths DEF s
  <2>3. Fits(RentalAddons[job.pos])
    BY <2>2, Scripts DEF OutboxKept, Fits
  <2> QED
    BY <2>2, <2>3
<1>4. CASE job.direction = "downgrade" /\ job.revision = 1
  <2>1. Script = DropInitialSchema /\ version = 1 /\ job.pos \in 1..6
    BY <1>1, <1>4 DEF Script, DowngradeFrom, MigrationInv, JobFits
  <2>2. version > 0 /\ job.pos \in 1..18
    BY <2>1
  <2>3. Orderly(DropInitialSchema[job.pos])
    BY <2>1, Scripts
  <2>4. <<"table", Outbox, "">> \notin DropInitialSchema[job.pos].facts
    BY <2>1, Scripts
  <2>5. Fits(DropInitialSchema[job.pos])
    BY <2>2, <2>3, <2>4, Zenon DEF Fits
  <2> QED
    BY <2>1, <2>2, <2>5 DEF s
<1>5. CASE job.direction = "downgrade" /\ job.revision = 2
  <2>1. Script = DropRentalAddons
    BY <1>5 DEF Script, DowngradeFrom
  <2>2. s = DropRentalAddons[job.pos] /\ job.pos \in 1..4
    BY <1>1, <2>1, ScriptLengths DEF s
  <2>3. Fits(DropRentalAddons[job.pos])
    BY <2>2, Scripts DEF OutboxKept, Fits
  <2> QED
    BY <2>2, <2>3
<1> QED
  BY <1>1, <1>2, <1>3, <1>4, <1>5

\* A statement and the facts it adds or takes away.
LEMMA Altered ==
  ASSUME NEW s, Orderly(s), Accepts(s), Alter(s)
  PROVE  /\ schema' \subseteq schema \cup s.facts
         /\ \/ s.op \notin {"drop_index", "drop_table"} /\ schema' = schema \cup s.facts
            \/ /\ s.op = "drop_index"
               /\ \A f \in schema : f \in schema' \/ f[1] \in {"index", "unique_index"}
            \/ /\ s.op = "drop_table"
               /\ \A f \in schema : f \in schema' <=> f[2] # s.table
         /\ s.op \in {"drop_index", "drop_table"} => schema' \subseteq schema
         /\ s.op = "create_index" => HasTable(s.table) /\ schema' = schema \cup s.facts
<1>1. \A f : Removes(s, f) =>
                (s.op = "drop_index" /\ f[1] \in {"index", "unique_index"})
                \/ (s.op = "drop_table" /\ f[2] = s.table)
  BY DEF Removes
<1>2. CASE s.op \notin {"drop_index", "drop_table"}
  <2>1. schema' = schema \cup s.facts
    BY <1>1, <1>2 DEF Alter
  <2>2. s.op = "create_index" => HasTable(s.table)
    BY DEF Accepts, MayCreateIndex
  <2> QED
    BY <1>2, <2>1, <2>2
<1>3. CASE s.op \in {"drop_index", "drop_table"}
  <2>1. schema' = {f \in schema : ~Removes(s, f)}
    BY <1>3 DEF Alter, Orderly
  <2>2. s.op = "drop_table" => \A f \in schema : f \in schema' <=> f[2] # s.table
    BY <2>1 DEF Removes
  <2> QED
    BY <1>1, <1>3, <2>1, <2>2
<1> QED
  BY <1>2, <1>3

\* MySQL refuses the sixth statement of the downgrade of the first revision.
LEMMA DowngradeStops ==
  ASSUME MigrationInv
  PROVE  ~Accepts(DropInitialSchema[6])
<1> DEFINE d == DropIndex(Requests, "reservation_code")
<1>1. d.op = "drop_index" /\ d.table = Requests /\ d.column = "reservation_code"
  BY DEF DropIndex
<1>2. ~MayDropIndex(d)
  BY <1>1 DEF MayDropIndex, Needed, MigrationInv, ReferenceKept, Requests
<1> QED
  BY <1>1, <1>2, Scripts DEF Accepts

\* A statement keeps what the invariant says of schema, rows and events.
LEMMA ExecuteKeeps ==
  ASSUME MigrationInv, Execute
  PROVE  MigrationInv'
<1> DEFINE s == Script[job.pos]
<1>1. /\ Orderly(s)
      /\ <<"table", Outbox, "">> \in s.facts => version = 0
      /\ s.op = "drop_table" /\ s.table = Outbox => version > 0
      /\ job.pos \in 1..18
  BY AtHand DEF Execute
<1>2. Accepts(s) /\ Alter(s) /\ Purge(s) /\ WriteSeed(s)
  BY DEF Execute
<1>3. job' = [job EXCEPT !.pos = @ + 1] /\ UNCHANGED <<version, crashes, downgrades>>
  BY DEF Execute
<1>4. /\ job.direction \in {"upgrade", "downgrade"}
      /\ job.revision \in 1..2
      /\ job.pos \in 1..18 /\ version \in 0..2
      /\ job' = [direction |-> job.direction, revision |-> job.revision, pos |-> job.pos + 1]
  BY <1>1, <1>3 DEF Execute, MigrationInv, TypeOK, Job, Latest
<1>5. JobFits'
  <2>1. CASE job.direction = "downgrade" /\ job.revision = 1 /\ job.pos = 6
    <3>1. Script = DropInitialSchema
      BY <2>1 DEF Script, DowngradeFrom
    <3> QED
      BY <1>2, <2>1, <3>1, DowngradeStops
  <2>2. JobFits
    BY DEF MigrationInv
  <2>3. CASE ~(job.direction = "downgrade" /\ job.revision = 1 /\ job.pos = 6)
    <3>1. /\ job'.direction = job.direction /\ job'.revision = job.revision
          /\ job'.pos = job.pos + 1 /\ version' = version
      BY <1>3, <1>4
    <3>2. job.pos <= 6 /\ job.pos # 6 => job.pos + 1 <= 6
      BY <1>4
    <3> QED
      BY <2>2, <2>3, <3>1, <3>2 DEF JobFits
  <2> QED
    BY <2>1, <2>3
<1> HIDE DEF s
<1>6. /\ schema' \subseteq schema \cup s.facts
      /\ \/ s.op \notin {"drop_index", "drop_table"} /\ schema' = schema \cup s.facts
         \/ /\ s.op = "drop_index"
            /\ \A f \in schema : f \in schema' \/ f[1] \in {"index", "unique_index"}
         \/ /\ s.op = "drop_table"
            /\ \A f \in schema : f \in schema' <=> f[2] # s.table
      /\ s.op \in {"drop_index", "drop_table"} => schema' \subseteq schema
      /\ s.op = "create_index" => HasTable(s.table) /\ schema' = schema \cup s.facts
  BY <1>1, <1>2, Altered
<1>7. rows' = rows
  BY <1>1, <1>2 DEF Purge, Orderly, Reservations
<1>8. UniqueKept'
  BY <1>1, <1>6 DEF UniqueKept, MigrationInv, HasTable, Has, Orderly, Reservations
<1>9. ReferenceKept'
  BY <1>1, <1>6 DEF ReferenceKept, MigrationInv, HasTable, Has, Orderly, Requests
<1>10. NoOutboxNoEvents' /\ SavedWithEvents'
  <2> DEFINE T == <<"table", Outbox, "">>
  <2>1. /\ T \notin schema => outboxed = {} /\ (version = 0 => \A c \in Codes : rows[c] = 0)
        /\ T \in schema => outboxed = {c \in Codes : rows[c] > 0}
    BY DEF MigrationInv, NoOutboxNoEvents, SavedWithEvents, HasTable, Has, Outbox
  <2>2. CASE s.op = "drop_table" /\ s.table = Outbox
    <3>1. T[2] = s.table /\ schema' \subseteq schema
      BY <1>6, <2>2
    <3>2. T \notin schema'
      BY <1>6, <2>2, <3>1
    <3>3. outboxed' = {}
      BY <1>2, <2>2 DEF Purge, Outbox
    <3>4. version' # 0
      <4>1. version > 0
        BY <1>1, <2>2
      <4> QED
        BY <1>3, <4>1
    <3>5. NoOutboxNoEvents'
      BY <3>3, <3>4 DEF NoOutboxNoEvents
    <3>6. SavedWithEvents'
      BY <3>2 DEF SavedWithEvents, HasTable, Has, Outbox
    <3> QED
      BY <3>5, <3>6
  <2>3. CASE ~(s.op = "drop_table" /\ s.table = Outbox)
    <3>1. outboxed' = outboxed
      BY <1>2, <2>3 DEF Purge, Outbox
    <3>2. T \in schema => T \in schema'
      BY <1>6, <2>3
    <3>3. T \in schema' => T \in schema \/ version = 0
      BY <1>1, <1>6
    <3>4. T \in schema' => outboxed = {c \in Codes : rows[c] > 0}
      <4>1. (\A c \in Codes : rows[c] = 0) => {} = {c \in Codes : rows[c] > 0}
        OBVIOUS
      <4> QED
        BY <2>1, <3>3, <4>1
    <3>5. T \notin schema' => outboxed = {} /\ (version = 0 => \A c \in Codes : rows[c] = 0)
      BY <2>1, <3>2
    <3> QED
      BY <1>3, <1>7, <3>1, <3>4, <3>5
      DEF NoOutboxNoEvents, SavedWithEvents, HasTable, Has, Outbox
  <2> QED
    BY <2>2, <2>3
<1>11. TypeOK'
  <2>1. job' \in Job
    BY <1>4 DEF Job, Latest
  <2>2. seed' \in {"none", "open", "committed"}
    BY <1>2 DEF WriteSeed, MigrationInv, TypeOK
  <2>3. outboxed' \subseteq Codes
    BY <1>2 DEF Purge, MigrationInv, TypeOK
  <2> QED
    BY <1>3, <1>7, <2>1, <2>2, <2>3 DEF MigrationInv, TypeOK
<1> QED
  BY <1>5, <1>7, <1>8, <1>9, <1>10, <1>11 DEF MigrationInv, CodesAreUnique

\* What the type invariant says of a command.
LEMMA Commands ==
  ASSUME MigrationInv
  PROVE  /\ version \in 0..2
         /\ job.direction \in {"none", "upgrade", "downgrade"}
         /\ job # Idle => /\ job.direction # "none"
                          /\ job.revision \in 1..2
                          /\ job.pos \in 1..19
         /\ job.direction = "upgrade" => job.revision = version + 1
         /\ job.direction = "downgrade" => job.revision = version
         /\ job.direction = "downgrade" /\ job.revision = 1 => job.pos <= 6
         /\ crashes \in 0..MaxCrashes /\ downgrades \in 0..MaxDowngrades
         /\ seed \in {"none", "open", "committed"}
         /\ rows \in [Codes -> 0..2] /\ outboxed \subseteq Codes
<1>1. version \in 0..2 /\ job \in Job \cup {Idle}
  BY DEF MigrationInv, TypeOK, Latest
<1>2. job.direction \in {"none", "upgrade", "downgrade"}
  BY <1>1 DEF Job, Idle
<1>3. job # Idle => /\ job.direction # "none"
                    /\ job.revision \in 1..2
                    /\ job.pos \in 1..19
  BY <1>1 DEF Job, Latest
<1> QED
  BY <1>1, <1>2, <1>3 DEF MigrationInv, TypeOK, JobFits

\* Commands that begin have the type of commands.
LEMMA StartTyped ==
  ASSUME NEW d \in {"upgrade", "downgrade"}, NEW r \in 1..2
  PROVE  Start(d, r) \in Job
BY DEF Start, Job, Latest

\* A command that begins, or has ended, is one the invariant allows.
LEMMA Commanded ==
  ASSUME /\ version' \in 0..2
         /\ \/ job' = Idle
            \/ version' + 1 \in 1..2 /\ job' = Start("upgrade", version' + 1)
            \/ version' \in 1..2 /\ job' = Start("downgrade", version')
  PROVE  job' \in Job \cup {Idle} /\ JobFits'
<1>1. CASE job' = Idle
  BY <1>1 DEF JobFits, Idle
<1>2. CASE version' + 1 \in 1..2 /\ job' = Start("upgrade", version' + 1)
  <2>1. /\ job' = [direction |-> "upgrade", revision |-> version' + 1, pos |-> 1]
        /\ job'.direction = "upgrade" /\ job'.revision = version' + 1 /\ job'.pos = 1
    BY <1>2 DEF Start
  <2>2. job' \in Job
    BY <1>2, StartTyped
  <2>3. JobFits'
    BY <2>1 DEF JobFits
  <2> QED
    BY <2>2, <2>3
<1>3. CASE version' \in 1..2 /\ job' = Start("downgrade", version')
  <2>1. /\ job' = [direction |-> "downgrade", revision |-> version', pos |-> 1]
        /\ job'.direction = "downgrade" /\ job'.revision = version' /\ job'.pos = 1
    BY <1>3 DEF Start
  <2>2. job' \in Job
    BY <1>3, StartTyped
  <2>3. JobFits'
    BY <1>3, <2>1 DEF JobFits
  <2> QED
    BY <2>2, <2>3
<1> QED
  BY <1>1, <1>2, <1>3

\* A step of alembic that touches neither tables nor rows.
LEMMA DataKept ==
  ASSUME MigrationInv, UNCHANGED <<schema, rows, outboxed>>, TypeOK', JobFits',
         version' = 0 => version = 0
  PROVE  MigrationInv'
BY DEF MigrationInv, UniqueKept, CodesAreUnique, ReferenceKept, NoOutboxNoEvents,
       SavedWithEvents, HasTable, Has

\* The version a command writes, and what it goes on with; the downgrade of the
\* first revision never gets there.
LEMMA StampedVersion ==
  ASSUME MigrationInv, Stamp
  PROVE  /\ version' \in 1..2
         /\ \/ job' = Idle
            \/ version' + 1 \in 1..2 /\ job' = Start("upgrade", version' + 1)
            \/ version' \in 1..2 /\ job' = Start("downgrade", version')
<1>1. CASE job.direction = "upgrade"
  <2>1. job.revision \in 1..2
    BY Commands DEF Stamp
  <2>2. /\ version' = job.revision
        /\ job' = IF job.revision < 2 THEN Start("upgrade", job.revision + 1) ELSE Idle
    BY <1>1 DEF Stamp, Latest
  <2> QED
    BY <2>1, <2>2
<1>2. CASE job.direction = "downgrade"
  <2>1. job.revision \in 1..2 /\ job.pos > Len(Script)
    BY Commands DEF Stamp
  <2>2. job.revision # 1
    <3> SUFFICES ASSUME job.revision = 1 PROVE FALSE
      OBVIOUS
    <3>1. Script = DropInitialSchema
      BY <1>2 DEF Script, DowngradeFrom
    <3>2. job.pos \in 1..19 /\ job.pos <= 6
      BY Commands, <1>2 DEF Stamp
    <3> QED
      BY <2>1, <3>1, <3>2, ScriptLengths
  <2>3. /\ version' = job.revision - 1
        /\ job' = Idle \/ job' = Start("downgrade", job.revision - 1)
    BY <1>2 DEF Stamp
  <2> QED
    BY <2>1, <2>2, <2>3
<1> QED
  BY <1>1, <1>2 DEF Stamp

\* The inductive invariant: whatever crashes and however the API and alembic
\* interleave, the schema, the rows and the version fit together.
THEOREM MigrationsCorrect == Spec => []MigrationInv
<1>1. Init => MigrationInv
  BY MigrationsAssumption
  DEF Init, Idle, MigrationInv, TypeOK, UniqueKept, CodesAreUnique, ReferenceKept, JobFits,
      NoOutboxNoEvents, SavedWithEvents, HasTable, Has, Latest
<1>2. MigrationInv /\ [Next]_vars => MigrationInv'
  <2> SUFFICES ASSUME MigrationInv, [Next]_vars PROVE MigrationInv'
    OBVIOUS
  <2>1. ASSUME NEW c \in Codes, SaveReservation(c) PROVE MigrationInv'
    <3>1. rows \in [Codes -> 0..2] /\ outboxed \subseteq Codes
      BY Commands
    <3>2. rows' = [rows EXCEPT ![c] = 1] /\ rows[c] = 0
      <4>1. rows[c] = 0
        BY <2>1 DEF SaveReservation, MigrationInv, UniqueKept, UniqueOn
      <4> QED
        BY <2>1, <3>1, <4>1 DEF SaveReservation
    <3>3. HasTable(Outbox) /\ outboxed' = outboxed \cup {c}
      BY <2>1 DEF SaveReservation, Outbox
    <3>4. TypeOK'
      BY <2>1, <3>1, <3>2, <3>3 DEF SaveReservation, MigrationInv, TypeOK
    <3>5. CodesAreUnique'
      BY <3>1, <3>2 DEF MigrationInv, CodesAreUnique
    <3>6. SavedWithEvents'
      <4>1. \A d \in Codes : rows'[d] > 0 <=> rows[d] > 0 \/ d = c
        BY <3>1, <3>2
      <4>2. outboxed = {d \in Codes : rows[d] > 0}
        BY <3>3 DEF MigrationInv, SavedWithEvents, Outbox
      <4> QED
        BY <3>3, <4>1, <4>2 DEF SavedWithEvents
    <3>7. NoOutboxNoEvents'
      BY <2>1, <3>3 DEF SaveReservation, NoOutboxNoEvents, HasTable, Has, Outbox
    <3>8. UniqueKept' /\ ReferenceKept' /\ JobFits'
      BY <2>1 DEF SaveReservation, MigrationInv, UniqueKept, ReferenceKept, JobFits, HasTable, Has
    <3> QED
      BY <3>4, <3>5, <3>6, <3>7, <3>8 DEF MigrationInv
  <2>2. CASE Upgrade
    <3>1. /\ version' = version /\ version' \in 0..2 /\ version' + 1 \in 1..2
          /\ job' = Start("upgrade", version' + 1)
      BY Commands, <2>2 DEF Upgrade, Latest
    <3>2. JobFits' /\ job' \in Job \cup {Idle}
      BY <3>1, Commanded
    <3>3. TypeOK'
      BY <2>2, <3>2 DEF Upgrade, data, MigrationInv, TypeOK
    <3> QED
      BY <2>2, <3>1, <3>2, <3>3, DataKept DEF Upgrade, data
  <2>3. CASE Downgrade
    <3>1. /\ version' = version /\ version' \in 1..2
          /\ job' = Start("downgrade", version')
      BY Commands, <2>3 DEF Downgrade
    <3>2. JobFits' /\ job' \in Job \cup {Idle}
      BY <3>1, Commanded
    <3>3. downgrades' \in 0..MaxDowngrades
      BY Commands, <2>3, MigrationsAssumption DEF Downgrade
    <3>4. TypeOK'
      BY <2>3, <3>2, <3>3 DEF Downgrade, data, MigrationInv, TypeOK
    <3> QED
      BY <2>3, <3>1, <3>2, <3>4, DataKept DEF Downgrade, data
  <2>4. CASE Execute
    BY <2>4, ExecuteKeeps
  <2>5. CASE Fail \/ Crash
    <3>1. job' = Idle /\ Rollback /\ UNCHANGED <<schema, version, rows, outboxed, downgrades>>
      BY <2>5 DEF Fail, Crash, data
    <3>2. JobFits' /\ job' \in Job \cup {Idle}
      <4>1. version' \in 0..2
        BY Commands, <3>1
      <4> QED
        BY <3>1, <4>1, Commanded
    <3>3. seed' \in {"none", "open", "committed"}
      BY Commands, <3>1 DEF Rollback
    <3>4. crashes' \in 0..MaxCrashes
      BY Commands, <2>5, MigrationsAssumption DEF Fail, Crash
    <3>5. TypeOK'
      BY <3>1, <3>2, <3>3, <3>4 DEF MigrationInv, TypeOK
    <3> QED
      BY <3>1, <3>2, <3>5, DataKept
  <2>6. CASE Stamp
    <3>1. UNCHANGED <<schema, rows, outboxed, crashes, downgrades>>
      BY <2>6 DEF Stamp, data
    <3>2. /\ version' \in 1..2
          /\ \/ job' = Idle
             \/ version' + 1 \in 1..2 /\ job' = Start("upgrade", version' + 1)
             \/ version' \in 1..2 /\ job' = Start("downgrade", version')
      BY <2>6, StampedVersion
    <3>3. JobFits' /\ job' \in Job \cup {Idle}
      <4>1. version' \in 0..2
        BY <3>2
      <4> QED
        BY <3>2, <4>1, Commanded
    <3>4. seed' \in {"none", "open", "committed"}
      BY Commands, <2>6 DEF Stamp
    <3>5. TypeOK'
      BY <3>1, <3>2, <3>3, <3>4 DEF MigrationInv, TypeOK, Latest
    <3> QED
      BY <3>1, <3>2, <3>3, <3>5, DataKept
  <2>7. CASE UNCHANGED vars
    BY <2>7, DataKept DEF vars, data, MigrationInv, TypeOK, JobFits
  <2> QED
    BY <2>1, <2>2, <2>3, <2>4, <2>5, <2>6, <2>7 DEF Next, Alembic
<1> QED
  BY <1>1, <1>2, PTL DEF Spec

\* No schema the API ever meets lets two reservations have one code.
THEOREM CodesStayUnique == Spec => []CodesAreUnique
<1>1. MigrationInv => CodesAreUnique
  BY DEF MigrationInv
<1> QED
  BY <1>1, MigrationsCorrect, PTL

\* As long as there is an outbox, it has the events of every reservation.
THEOREM SavesHaveEvents == Spec => []SavedWithEvents
<1>1. MigrationInv => SavedWithEvents
  BY DEF MigrationInv
<1> QED
  BY <1>1, MigrationsCorrect, PTL

-----------------------------------------------------------------------------
(* What a database is at head, and what one is that is torn *)

Addons == {"rental_addons", "reservation_addons"}

\* What a statement of an upgrade adds is about its own table.
Adds(s) ==
  /\ s.op \notin {"drop_index", "drop_table"}
  /\ \A f \in s.facts : f[2] = s.table

Drops(s) == s.op \in {"drop_index", "drop_table"} /\ s.facts = {}

\* The statements of the scripts, one by one.
LEMMA Statement ==
  /\ \A s \in {CreateSuppliers, CreateOffices, CreateReservations, CreateContacts,
               CreateStatusHistory, CreateProviderRequests, CreateOutboxEvents} :
       Adds(s) /\ s.table \notin Addons
  /\ \A s \in {CreateRentalAddons, CreateReservationAddons} : Adds(s) /\ s.table \in Addons
  /\ \A t, c : /\ Adds(CreateIndex(t, c, Plain)) /\ CreateIndex(t, c, Plain).table = t
               /\ Adds(CreateIndex(t, c, Unique)) /\ CreateIndex(t, c, Unique).table = t
               /\ Drops(DropIndex(t, c)) /\ DropIndex(t, c).table = t
  /\ \A t : /\ Adds(Insert(t)) /\ Insert(t).table = t
            /\ Drops(DropTable(t)) /\ DropTable(t).table = t
<1> USE DEF Adds, Drops
<1>1. \A t, u, r : Adds(CreateTable(t, u, r)) /\ CreateTable(t, u, r).table = t
  <2> TAKE t, u, r
  <2>1. \A k, v, f : f \in k \X {t} \X v => f[2] = t
    OBVIOUS
  <2>2. CreateTable(t, u, r).facts = {<<"table", t, "">>} \cup ({"unique"} \X {t} \X u)
                                     \cup ({"foreign_key"} \X {t} \X r)
    BY DEF CreateTable
  <2>3. \A f \in {<<"table", t, "">>} : f[2] = t
    <3>1. <<"table", t, "">>[2] = t
      OBVIOUS
    <3> QED
      BY <3>1, Zenon
  <2>4. /\ \A f \in {"unique"} \X {t} \X u : f[2] = t
        /\ \A f \in {"foreign_key"} \X {t} \X r : f[2] = t
    BY <2>1
  <2>5. \A f \in CreateTable(t, u, r).facts : f[2] = t
    BY <2>2, <2>3, <2>4, Zenon
  <2> QED
    BY <2>5 DEF CreateTable
<1>2. \A t, c, k : Adds(CreateIndex(t, c, k)) /\ CreateIndex(t, c, k).table = t
  <2> TAKE t, c, k
  <2>1. \A f \in CreateIndex(t, c, k).facts : f[2] = t
    BY DEF CreateIndex
  <2> QED
    BY <2>1 DEF CreateIndex
<1>3. \A t, c : Drops(DropIndex(t, c)) /\ DropIndex(t, c).table = t
  BY DEF DropIndex
<1>4. \A t : /\ Adds(Insert(t)) /\ Insert(t).table = t
             /\ Drops(DropTable(t)) /\ DropTable(t).table = t
  BY DEF Insert, DropTable
<1> HIDE DEF Adds, Drops
<1>5. \A s \in {CreateSuppliers, CreateOffices, CreateReservations, CreateContacts,
               CreateStatusHistory, CreateProviderRequests, CreateOutboxEvents} :
        Adds(s) /\ s.table \notin Addons
  BY <1>1 DEF Addons, CreateSuppliers, CreateOffices, CreateReservations, CreateContacts,
              CreateStatusHistory, CreateProviderRequests, CreateOutboxEvents
<1>6. \A s \in {CreateRentalAddons, CreateReservationAddons} : Adds(s) /\ s.table \in Addons
  BY <1>1 DEF Addons, CreateRentalAddons, CreateReservationAddons
<1> QED
  BY <1>2, <1>3, <1>4, <1>5, <1>6

\* The scripts: what each adds or drops, and about which tables.
LEMMA ScriptTables ==
  /\ \A i \in 1..18 : Adds(InitialSchema[i]) /\ InitialSchema[i].table \notin Addons
  /\ \A i \in 1..5 : Adds(RentalAddons[i]) /\ RentalAddons[i].table \in Addons
  /\ \A i \in 1..18 : Drops(DropInitialSchema[i]) /\ DropInitialSchema[i].table \notin Addons
  /\ \A i \in 1..4 : Drops(DropRentalAddons[i]) /\ DropRentalAddons[i].table \in Addons
<1>1. \A i \in 1..18 : Adds(InitialSchema[i]) /\ InitialSchema[i].table \notin Addons
  BY Statement, Positions DEF InitialSchema, Addons
<1>2. \A i \in 1..5 : Adds(RentalAddons[i]) /\ RentalAddons[i].table \in Addons
  BY Statement DEF RentalAddons, Addons
<1>3. \A i \in 1..18 : Drops(DropInitialSchema[i]) /\ DropInitialSchema[i].table \notin Addons
  BY Statement, Positions DEF DropInitialSchema, Addons
<1>4. \A i \in 1..4 : Drops(DropRentalAddons[i]) /\ DropRentalAddons[i].table \in Addons
  BY Statement DEF DropRentalAddons, Addons
<1> QED
  BY <1>1, <1>2, <1>3, <1>4

\* What a script has added behind a statement.
LEMMA FactsStep ==
  ASSUME NEW script, NEW n \in Nat \ {0}
  PROVE  FactsOf(script, n) = FactsOf(script, n - 1) \cup script[n].facts
<1>1. 1..n = (1..(n - 1)) \cup {n}
  OBVIOUS
<1> QED
  BY <1>1 DEF FactsOf

\* Before its first statement a script has established nothing.
LEMMA NoFacts == \A script : FactsOf(script, 0) = {}
BY DEF FactsOf

\* The schema of a version is what the scripts up to it add.
LEMMA SchemaVersions ==
  /\ SchemaAt(0) = {}
  /\ SchemaAt(1) = FactsOf(InitialSchema, 18)
  /\ SchemaAt(2) = FactsOf(InitialSchema, 18) \cup FactsOf(RentalAddons, 5)
<1> USE DEF SchemaAt, FactsOf
<1>1. SchemaAt(0) = {}
  OBVIOUS
<1>2. Statements(InitialSchema) = {InitialSchema[i] : i \in 1..18}
  BY ScriptLengths DEF Statements, InitialSchema
<1>3. Statements(RentalAddons) = {RentalAddons[i] : i \in 1..5}
  BY ScriptLengths DEF Statements, RentalAddons
<1>4. UpgradeTo[1] = InitialSchema /\ UpgradeTo[2] = RentalAddons
  BY DEF UpgradeTo
<1> HIDE DEF FactsOf
<1>5. UNION {s.facts : s \in Statements(InitialSchema)} = FactsOf(InitialSchema, 18)
  BY <1>2 DEF FactsOf
<1>6. UNION {s.facts : s \in Statements(RentalAddons)} = FactsOf(RentalAddons, 5)
  BY <1>3 DEF FactsOf
<1>7. 1..1 = {1} /\ 1..2 = {1, 2}
  OBVIOUS
<1>8. SchemaAt(1) = UNION {s.facts : s \in Statements(InitialSchema)}
  BY <1>4, <1>7
<1>9. SchemaAt(2) = (UNION {s.facts : s \in Statements(InitialSchema)})
                    \cup (UNION {s.facts : s \in Statements(RentalAddons)})
  BY <1>4, <1>7
<1> HIDE DEF SchemaAt
<1>10. SchemaAt(1) = FactsOf(InitialSchema, 18)
  BY <1>5, <1>8
<1>11. SchemaAt(2) = FactsOf(InitialSchema, 18) \cup FactsOf(RentalAddons, 5)
  BY <1>5, <1>6, <1>9
<1> QED
  BY <1>1, <1>10, <1>11

\* What a DROP takes with it is about its own table.
LEMMA RemovesOwn ==
  ASSUME NEW s, NEW f, Removes(s, f)
  PROVE  f[2] = s.table /\ s.op \in {"drop_index", "drop_table"}
<1>1. \A k, c : f \in k \X {s.table} \X {c} => f[2] = s.table
  OBVIOUS
<1> QED
  BY <1>1 DEF Removes

\* What a script has added by its last statement is about its tables.
LEMMA TablesOfVersions ==
  /\ \A f \in FactsOf(InitialSchema, 18) : f[2] \notin Addons
  /\ \A f \in FactsOf(RentalAddons, 5) : f[2] \in Addons
<1>1. \A f \in FactsOf(InitialSchema, 18) : f[2] \notin Addons
  <2> TAKE f \in FactsOf(InitialSchema, 18)
  <2>1. PICK i \in 1..18 : f \in InitialSchema[i].facts
    BY DEF FactsOf
  <2> QED
    BY <2>1, ScriptTables DEF Adds
<1>2. \A f \in FactsOf(RentalAddons, 5) : f[2] \in Addons
  <2> TAKE f \in FactsOf(RentalAddons, 5)
  <2>1. PICK i \in 1..5 : f \in RentalAddons[i].facts
    BY DEF FactsOf
  <2> QED
    BY <2>1, ScriptTables DEF Adds
<1> QED
  BY <1>1, <1>2

\* The downgrade of the second revision leaves what the first one made.
LEMMA AddonsDropped ==
  {f \in SchemaAt(2) : \A i \in 1..4 : ~Removes(DropRentalAddons[i], f)} = SchemaAt(1)
<1>1. ASSUME NEW f \in SchemaAt(1)
      PROVE  f \in SchemaAt(2) /\ \A i \in 1..4 : ~Removes(DropRentalAddons[i], f)
  <2>1. f[2] \notin Addons
    BY SchemaVersions, TablesOfVersions
  <2>2. \A i \in 1..4 : ~Removes(DropRentalAddons[i], f)
    BY <2>1, RemovesOwn, ScriptTables
  <2> QED
    BY <2>2, SchemaVersions
<1>2. ASSUME NEW f \in FactsOf(RentalAddons, 5)
      PROVE  \E i \in 1..4 : Removes(DropRentalAddons[i], f)
  <2>1. f[2] = "rental_addons" \/ f[2] = "reservation_addons"
    BY TablesOfVersions DEF Addons
  <2>2. /\ DropRentalAddons[3] = DropTable("reservation_addons")
        /\ DropRentalAddons[4] = DropTable("rental_addons")
    BY DEF DropRentalAddons
  <2>3. \A t : f[2] = t => Removes(DropTable(t), f)
    BY DEF Removes, DropTable
  <2>4. Removes(DropRentalAddons[3], f) \/ Removes(DropRentalAddons[4], f)
    BY <2>1, <2>2, <2>3
  <2> QED
    BY <2>4
<1> QED
  BY <1>1, <1>2, SchemaVersions

\* The statements whose effects mark a script as begun.
LEMMA FirstStatements ==
  /\ <<"table", "suppliers", "">> \in InitialSchema[1].facts
  /\ <<"table", "rental_addons", "">> \in RentalAddons[1].facts
  /\ InitialSchema[1].op = "create_table" /\ InitialSchema[1].table = "suppliers"
  /\ RentalAddons[1].op = "create_table" /\ RentalAddons[1].table = "rental_addons"
  /\ DropInitialSchema[1] = DropIndex("provider_outbox_events", "created_at")
  /\ DropRentalAddons[1] = DropIndex("reservation_addons", "addon_code")
BY DEF InitialSchema, RentalAddons, DropInitialSchema, DropRentalAddons, CreateSuppliers,
       CreateRentalAddons, CreateTable

\* Versions and marks.
LEMMA Marks ==
  /\ <<"index", "provider_outbox_events", "created_at">> \in SchemaAt(1)
  /\ <<"index", "provider_outbox_events", "created_at">> \in SchemaAt(2)
  /\ <<"index", "reservation_addons", "addon_code">> \in SchemaAt(2)
  /\ <<"table", "suppliers", "">> \notin SchemaAt(0)
  /\ <<"table", "rental_addons", "">> \notin SchemaAt(1)
<1>1. <<"index", "provider_outbox_events", "created_at">> \in InitialSchema[18].facts
  BY DEF InitialSchema, CreateIndex, Plain
<1>2. <<"index", "reservation_addons", "addon_code">> \in RentalAddons[5].facts
  BY DEF RentalAddons, CreateIndex, Plain
<1>3. <<"index", "provider_outbox_events", "created_at">> \in FactsOf(InitialSchema, 18)
  BY <1>1 DEF FactsOf
<1>4. <<"index", "reservation_addons", "addon_code">> \in FactsOf(RentalAddons, 5)
  BY <1>2 DEF FactsOf
<1>5. <<"table", "rental_addons", "">>[2] \in Addons
  BY DEF Addons
<1> QED
  BY <1>3, <1>4, <1>5, SchemaVersions, TablesOfVersions

-----------------------------------------------------------------------------
(* The commands, and torn schemas *)

\* The four scripts a command can be running, and at which version.
LEMMA Running ==
  ASSUME MigrationInv, job # Idle
  PROVE  /\ job.pos \in 1..19
         /\ job = [direction |-> job.direction, revision |-> job.revision, pos |-> job.pos]
         /\ \/ /\ job.direction = "upgrade" /\ job.revision = 1 /\ version = 0
               /\ Script = InitialSchema /\ Len(Script) = 18
            \/ /\ job.direction = "upgrade" /\ job.revision = 2 /\ version = 1
               /\ Script = RentalAddons /\ Len(Script) = 5
            \/ /\ job.direction = "downgrade" /\ job.revision = 1 /\ version = 1
               /\ Script = DropInitialSchema /\ Len(Script) = 18 /\ job.pos <= 6
            \/ /\ job.direction = "downgrade" /\ job.revision = 2 /\ version = 2
               /\ Script = DropRentalAddons /\ Len(Script) = 4
<1>1. job \in Job
  BY DEF MigrationInv, TypeOK
<1>2. job = [direction |-> job.direction, revision |-> job.revision, pos |-> job.pos]
  BY <1>1 DEF Job
<1> QED
  BY <1>2, Commands, ScriptLengths DEF Script, UpgradeTo, DowngradeFrom

\* MySQL refuses the first statement of a script whose mark is there already.
LEMMA FirstRefused ==
  /\ HasTable("suppliers") => ~Accepts(InitialSchema[1])
  /\ HasTable("rental_addons") => ~Accepts(RentalAddons[1])
  /\ ~Has("index", "provider_outbox_events", "created_at") => ~Accepts(DropInitialSchema[1])
  /\ ~Has("index", "reservation_addons", "addon_code") => ~Accepts(DropRentalAddons[1])
<1>1. \A s : s.op = "create_table" /\ HasTable(s.table) => ~Accepts(s)
  BY DEF Accepts, MayCreateTable
<1>2. \A t, c : ~Has("index", t, c) => ~Accepts(DropIndex(t, c))
  BY DEF Accepts, MayDropIndex, DropIndex
<1> QED
  BY <1>1, <1>2, FirstStatements

\* A statement on other tables leaves a table's facts as they are.
LEMMA OthersKept ==
  ASSUME NEW s, Alter(s), Adds(s) \/ Drops(s), NEW f, f[2] # s.table
  PROVE  f \in schema' <=> f \in schema
<1>1. f \notin s.facts
  BY DEF Adds, Drops
<1> QED
  BY <1>1, RemovesOwn DEF Alter

\* A statement of an upgrade takes nothing away, one of a downgrade adds nothing.
LEMMA AddsOrDrops ==
  ASSUME NEW s, Alter(s)
  PROVE  /\ Adds(s) => schema' = schema \cup s.facts
         /\ Drops(s) => schema' = {f \in schema : ~Removes(s, f)}
<1>1. Adds(s) => \A f : ~Removes(s, f)
  BY DEF Adds, Removes
<1> QED
  BY <1>1 DEF Alter, Drops

\* No statement gets a torn schema back on its way.
LEMMA ExecuteStuck ==
  ASSUME MigrationInv, Execute, Stuck
  PROVE  Stuck'
<1> DEFINE s == Script[job.pos]
<1>1. /\ job # Idle /\ job.pos <= Len(Script) /\ Accepts(s) /\ Alter(s)
      /\ version' = version /\ job' = [job EXCEPT !.pos = @ + 1]
  BY DEF Execute
<1>2. /\ job.pos \in 1..19
      /\ job' = [direction |-> job.direction, revision |-> job.revision, pos |-> job.pos + 1]
  <2>1. job.pos \in 1..19
        /\ job = [direction |-> job.direction, revision |-> job.revision, pos |-> job.pos]
    BY <1>1, Running
  <2> QED
    BY <1>1, <2>1
<1>3. CASE TornUp(1, "suppliers")
  <2>1. version = 0 /\ HasTable("suppliers") /\ ~Past("upgrade", 1)
    BY <1>3 DEF TornUp
  <2>2. Script = InitialSchema /\ job.pos = 1
    BY <1>1, <2>1, Running DEF Past
  <2> QED
    BY <1>1, <2>1, <2>2, FirstRefused
<1>4. CASE TornUp(2, "rental_addons")
  <2>1. version = 1 /\ HasTable("rental_addons") /\ ~Past("upgrade", 2)
    BY <1>4 DEF TornUp
  <2>2. CASE job.direction = "upgrade"
    <3>1. Script = RentalAddons /\ job.pos = 1
      BY <1>1, <2>1, <2>2, Running DEF Past
    <3> QED
      BY <1>1, <2>1, <3>1, FirstRefused
  <2>3. CASE job.direction = "downgrade"
    <3>1. Script = DropInitialSchema /\ job.pos \in 1..18
      BY <1>1, <2>1, <2>3, Running
    <3>2. Drops(s) /\ s.table \notin Addons
      BY <3>1, ScriptTables
    <3>3. <<"table", "rental_addons", "">>[2] # s.table
      BY <3>2 DEF Addons
    <3>4. HasTable("rental_addons")'
      BY <1>1, <2>1, <3>2, <3>3, OthersKept DEF HasTable, Has
    <3>5. ~Past("upgrade", 2)'
      BY <1>2, <2>3 DEF Past
    <3> QED
      BY <1>1, <2>1, <3>4, <3>5 DEF Stuck, TornUp
  <2> QED
    BY <1>1, <2>2, <2>3, Running
<1>5. CASE TornDown(1, "provider_outbox_events", "created_at")
  <2> DEFINE f == <<"index", "provider_outbox_events", "created_at">>
  <2>1. version >= 1 /\ f \notin schema /\ ~Past("downgrade", 1)
    BY <1>5 DEF TornDown, Has
  <2>2. ~(job.direction = "downgrade" /\ job.revision = 1)
    <3> SUFFICES ASSUME job.direction = "downgrade", job.revision = 1 PROVE FALSE
      OBVIOUS
    <3>1. Script = DropInitialSchema /\ job.pos = 1
      BY <1>1, <2>1, Running DEF Past
    <3> QED
      BY <1>1, <2>1, <3>1, FirstRefused DEF Has
  <2>3. f \notin schema'
    <3>1. \/ Script = RentalAddons /\ job.pos \in 1..5
          \/ Script = DropRentalAddons /\ job.pos \in 1..4
      BY <1>1, <2>1, <2>2, Running
    <3>2. (Adds(s) \/ Drops(s)) /\ s.table \in Addons
      BY <3>1, ScriptTables
    <3>3. f[2] # s.table
      BY <3>2 DEF Addons
    <3> QED
      BY <1>1, <2>1, <3>2, <3>3, OthersKept
  <2>4. ~Past("downgrade", 1)'
    BY <1>2, <2>2 DEF Past
  <2> QED
    BY <1>1, <2>1, <2>3, <2>4 DEF Stuck, TornDowngrade, TornDown, Has
<1>6. CASE TornDown(2, "reservation_addons", "addon_code")
  <2>1. /\ version >= 2 /\ ~Has("index", "reservation_addons", "addon_code")
        /\ ~Past("downgrade", 2)
    BY <1>6 DEF TornDown
  <2>2. Script = DropRentalAddons /\ job.pos = 1
    BY <1>1, <2>1, Running DEF Past
  <2> QED
    BY <1>1, <2>1, <2>2, FirstRefused
<1> QED
  BY <1>3, <1>4, <1>5, <1>6 DEF Stuck, TornDowngrade

\* A command that has ended, or begins, is past nothing.
LEMMA NothingPast ==
  ASSUME job' = Idle \/ \E d \in {"upgrade", "downgrade"}, r \in 1..2 : job' = Start(d, r)
  PROVE  \A d, r : ~(job'.direction = d /\ job'.revision = r /\ job'.pos > 1)
BY DEF Idle, Start

\* Of the torn schemas only the one without its created_at index lets a command
\* get as far as its version.
LEMMA StampStuck ==
  ASSUME MigrationInv, Stamp, Stuck
  PROVE  TornDown(1, "provider_outbox_events", "created_at")
<1>0. job # Idle /\ job.pos > Len(Script)
  BY DEF Stamp
<1>1. /\ job.pos > 1
      /\ \/ job.direction = "upgrade" /\ job.revision = 1 /\ version = 0
         \/ job.direction = "upgrade" /\ job.revision = 2 /\ version = 1
         \/ job.direction = "downgrade" /\ job.revision = 2 /\ version = 2
  <2> DEFINE n == Len(Script)
  <2>1. job.pos > n
    BY <1>0
  <2>2. /\ job.pos \in 1..19
        /\ \/ job.direction = "upgrade" /\ job.revision = 1 /\ version = 0 /\ n = 18
           \/ job.direction = "upgrade" /\ job.revision = 2 /\ version = 1 /\ n = 5
           \/ job.pos <= 6 /\ n = 18
           \/ job.direction = "downgrade" /\ job.revision = 2 /\ version = 2 /\ n = 4
    BY <1>0, Running
  <2> HIDE DEF n
  <2> QED
    BY <2>1, <2>2
<1>2. ~TornUp(1, "suppliers") /\ ~TornUp(2, "rental_addons")
  BY <1>1 DEF TornUp, Past
<1>3. ~TornDown(2, "reservation_addons", "addon_code")
  BY <1>1 DEF TornDown, Past
<1> QED
  BY <1>2, <1>3 DEF Stuck, TornDowngrade

\* Nothing gets a torn schema back on its way.
LEMMA StuckStays ==
  ASSUME MigrationInv, [Next]_vars, Stuck
  PROVE  Stuck'
<1>1. CASE Execute
  BY <1>1, ExecuteStuck
<1>2. CASE Upgrade \/ Downgrade \/ Fail \/ Crash
  <2>1. schema' = schema /\ version' = version
    BY <1>2 DEF Upgrade, Downgrade, Fail, Crash
  <2>2. job' = Idle \/ \E d \in {"upgrade", "downgrade"}, r \in 1..2 : job' = Start(d, r)
    <3>1. version \in 0..2
      BY Commands
    <3>2. Upgrade => version + 1 \in 1..2 /\ job' = Start("upgrade", version + 1)
      BY <3>1 DEF Upgrade, Latest
    <3>3. Downgrade => version \in 1..2 /\ job' = Start("downgrade", version)
      BY <3>1 DEF Downgrade
    <3>4. Fail \/ Crash => job' = Idle
      BY DEF Fail, Crash
    <3> QED
      BY <1>2, <3>2, <3>3, <3>4
  <2> QED
    BY <2>1, <2>2, NothingPast DEF Stuck, TornDowngrade, TornUp, TornDown, HasTable, Has, Past
<1>3. CASE Stamp
  <2>1. schema' = schema /\ job # Idle /\ job.pos > Len(Script)
    BY <1>3 DEF Stamp
  <2>2. /\ version' \in 1..2
        /\ \/ job' = Idle
           \/ version' + 1 \in 1..2 /\ job' = Start("upgrade", version' + 1)
           \/ version' \in 1..2 /\ job' = Start("downgrade", version')
    BY <1>3, StampedVersion
  <2>3. TornDown(1, "provider_outbox_events", "created_at")
    BY <1>3, StampStuck
  <2>4. ~Past("downgrade", 1)'
    BY <2>2, NothingPast DEF Past
  <2> QED
    BY <2>1, <2>2, <2>3, <2>4 DEF Stuck, TornDowngrade, TornDown, Has
<1>4. CASE (\E c \in Codes : SaveReservation(c)) \/ UNCHANGED vars
  <2>1. UNCHANGED <<schema, version, job>>
    BY <1>4 DEF SaveReservation, vars
  <2> QED
    BY <2>1 DEF Stuck, TornDowngrade, TornUp, TornDown, HasTable, Has, Past
<1> QED
  BY <1>1, <1>2, <1>3, <1>4 DEF Next, Alembic

\* A torn schema is not that of its version.
LEMMA StuckIsTorn ==
  ASSUME MigrationInv, Stuck, job = Idle
  PROVE  Torn
<1>1. version \in 0..2
  BY Commands
<1>2. CASE TornUp(1, "suppliers")
  <2>1. version = 0 /\ <<"table", "suppliers", "">> \in schema
    <3>1. version = 0
      BY <1>1, <1>2 DEF TornUp
    <3>2. HasTable("suppliers")
      BY <1>2 DEF TornUp
    <3> QED
      BY <3>1, <3>2 DEF HasTable, Has
  <2> QED
    BY <2>1, Marks DEF Torn
<1>3. CASE TornUp(2, "rental_addons")
  <2>1. version = 1 /\ <<"table", "rental_addons", "">> \in schema
    <3>1. version = 1
      BY <1>1, <1>3 DEF TornUp
    <3>2. HasTable("rental_addons")
      BY <1>3 DEF TornUp
    <3> QED
      BY <3>1, <3>2 DEF HasTable, Has
  <2> QED
    BY <2>1, Marks DEF Torn
<1>4. CASE TornDown(1, "provider_outbox_events", "created_at")
  <2>1. /\ version = 1 \/ version = 2
        /\ <<"index", "provider_outbox_events", "created_at">> \notin schema
    BY <1>1, <1>4 DEF TornDown, Has
  <2> QED
    BY <2>1, Marks DEF Torn
<1>5. CASE TornDown(2, "reservation_addons", "addon_code")
  <2>1. version = 2 /\ <<"index", "reservation_addons", "addon_code">> \notin schema
    BY <1>1, <1>5 DEF TornDown, Has
  <2> QED
    BY <2>1, Marks DEF Torn
<1> QED
  BY <1>2, <1>3, <1>4, <1>5 DEF Stuck, TornDowngrade

-----------------------------------------------------------------------------
(* Schemas that are not torn *)

\* A command that has ended, or begins, expects the schema of the version.
LEMMA ExpectedAtRest ==
  ASSUME /\ version' \in 0..2
         /\ \/ job' = Idle
            \/ version' + 1 \in 1..2 /\ job' = Start("upgrade", version' + 1)
            \/ version' \in 1..2 /\ job' = Start("downgrade", version')
  PROVE  Expected' = SchemaAt(version')
<1>1. CASE job' = Idle
  BY <1>1 DEF Expected, Idle
<1>2. CASE version' + 1 \in 1..2 /\ job' = Start("upgrade", version' + 1)
  <2>1. job'.direction = "upgrade" /\ job'.revision = version' + 1 /\ job'.pos = 1
    BY <1>2 DEF Start
  <2>2. job'.revision - 1 = version' /\ job'.pos - 1 = 0
    <3>1. (\A v \in 0..2 : (v + 1) - 1 = v) /\ 1 - 1 = 0
      OBVIOUS
    <3> QED
      BY <2>1, <3>1, Zenon
  <2>3. Expected' = SchemaAt(version') \cup FactsOf(UpgradeTo[job'.revision], 0)
    BY <2>1, <2>2 DEF Expected
  <2> QED
    BY <2>3, NoFacts
<1>3. CASE version' \in 1..2 /\ job' = Start("downgrade", version')
  <2>1. job'.direction = "downgrade" /\ job'.revision = version' /\ job'.pos = 1
    BY <1>3 DEF Start
  <2>2. 1..job'.pos - 1 = {}
    BY <2>1
  <2>3. Expected' = {f \in SchemaAt(version') : TRUE}
    BY <2>1, <2>2 DEF Expected
  <2> QED
    BY <2>3
<1> QED
  BY <1>1, <1>2, <1>3

\* A statement takes the schema where the next position expects it.
LEMMA ExecuteExpected ==
  ASSUME MigrationInv, Execute, schema = Expected
  PROVE  schema' = Expected'
<1> DEFINE s == Script[job.pos]
<1>1. job # Idle /\ job.pos <= Len(Script) /\ Alter(s) /\ job' = [job EXCEPT !.pos = @ + 1]
  BY DEF Execute
<1>2. /\ job.pos \in 1..19
      /\ job = [direction |-> job.direction, revision |-> job.revision, pos |-> job.pos]
  BY <1>1, Running
<1>3. /\ job'.direction = job.direction /\ job'.revision = job.revision
      /\ job'.pos - 1 = job.pos
  BY <1>1, <1>2
<1>4. CASE job.direction = "upgrade"
  <2>1. Adds(s)
    <3>1. \/ Script = InitialSchema /\ job.pos \in 1..18
          \/ Script = RentalAddons /\ job.pos \in 1..5
      BY <1>1, <1>4, Running
    <3> QED
      BY <3>1, ScriptTables
  <2>2. schema' = schema \cup s.facts
    BY <1>1, <2>1, AddsOrDrops
  <2>3. Script = UpgradeTo[job.revision]
    BY <1>4 DEF Script
  <2>4. Expected = SchemaAt(job.revision - 1) \cup FactsOf(Script, job.pos - 1)
    BY <1>4, <2>3 DEF Expected
  <2>5. Expected' = SchemaAt(job.revision - 1) \cup FactsOf(Script, job.pos)
    BY <1>3, <1>4, <2>3 DEF Expected
  <2>6. FactsOf(Script, job.pos) = FactsOf(Script, job.pos - 1) \cup s.facts
    BY <1>2, FactsStep
  <2> HIDE DEF s
  <2> QED
    BY <2>2, <2>4, <2>5, <2>6
<1>5. CASE job.direction = "downgrade"
  <2>1. Drops(s)
    <3>1. \/ Script = DropInitialSchema /\ job.pos \in 1..18
          \/ Script = DropRentalAddons /\ job.pos \in 1..4
      BY <1>1, <1>5, Running
    <3> QED
      BY <3>1, ScriptTables
  <2>2. schema' = {f \in schema : ~Removes(s, f)}
    BY <1>1, <2>1, AddsOrDrops
  <2>3. Script = DowngradeFrom[job.revision]
    BY <1>5 DEF Script
  <2>4. Expected = {f \in SchemaAt(job.revision) :
                      \A i \in 1..(job.pos - 1) : ~Removes(Script[i], f)}
    BY <1>5, <2>3 DEF Expected
  <2>5. Expected' = {f \in SchemaAt(job.revision) : \A i \in 1..job.pos : ~Removes(Script[i], f)}
    BY <1>3, <1>5, <2>3 DEF Expected
  <2>6. 1..job.pos = (1..(job.pos - 1)) \cup {job.pos}
    BY <1>2
  <2>7. \A f : (\A i \in 1..job.pos : ~Removes(Script[i], f))
               <=> (\A i \in 1..(job.pos - 1) : ~Removes(Script[i], f)) /\ ~Removes(s, f)
    BY <2>6
  <2> HIDE DEF s
  <2> QED
    BY <2>2, <2>4, <2>5, <2>7
<1> QED
  BY <1>1, <1>4, <1>5, Running

\* Behind its last statement a script has made the schema of the version it writes.
LEMMA StampExpected ==
  ASSUME MigrationInv, Stamp, schema = Expected, job.pos <= Len(Script) + 1
  PROVE  schema' = SchemaAt(version')
<1>1. /\ job # Idle /\ job.pos > Len(Script) /\ schema' = schema
      /\ job.direction = "upgrade" => version' = job.revision
      /\ job.direction = "downgrade" => version' = job.revision - 1
  BY DEF Stamp
<1> DEFINE n == Len(Script)
<1>2. /\ job.pos \in 1..19 /\ job.pos > n /\ job.pos <= n + 1
      /\ \/ job.direction = "upgrade" /\ job.revision = 1 /\ n = 18
         \/ job.direction = "upgrade" /\ job.revision = 2 /\ n = 5
         \/ job.direction = "downgrade" /\ job.pos <= 6 /\ n = 18
         \/ job.direction = "downgrade" /\ job.revision = 2 /\ n = 4
  BY <1>1, Running
<1> HIDE DEF n
<1>3. CASE job.direction = "upgrade" /\ job.revision = 1
  <2>1. job.pos - 1 = 18 /\ job.revision - 1 = 0
    BY <1>2, <1>3
  <2>2. Expected = SchemaAt(0) \cup FactsOf(InitialSchema, 18)
    BY <1>3, <2>1 DEF Expected, UpgradeTo
  <2> QED
    BY <1>1, <1>3, <2>2, SchemaVersions
<1>4. CASE job.direction = "upgrade" /\ job.revision = 2
  <2>1. job.pos - 1 = 5 /\ job.revision - 1 = 1
    BY <1>2, <1>4
  <2>2. Expected = SchemaAt(1) \cup FactsOf(RentalAddons, 5)
    BY <1>4, <2>1 DEF Expected, UpgradeTo
  <2> QED
    BY <1>1, <1>4, <2>2, SchemaVersions
<1>5. CASE job.direction = "downgrade" /\ job.revision = 2
  <2>1. job.pos - 1 = 4 /\ version' = 1
    BY <1>1, <1>2, <1>5
  <2>2. Expected = {f \in SchemaAt(2) : \A i \in 1..4 : ~Removes(DropRentalAddons[i], f)}
    BY <1>5, <2>1 DEF Expected, DowngradeFrom
  <2> QED
    BY <1>1, <2>1, <2>2, AddonsDropped
<1> QED
  BY <1>2, <1>3, <1>4, <1>5

\* A command that ends before its version is written tears the schema, unless
\* it ends before its first statement has changed anything.
LEMMA EndsTorn ==
  ASSUME MigrationInv, schema = Expected, job # Idle, job.pos <= Len(Script) + 1,
         UNCHANGED <<schema, version>>, job' = Idle
  PROVE  Stuck' \/ schema' = SchemaAt(version')
<1>1. /\ job.pos \in 1..19
      /\ \/ job.direction = "upgrade" /\ job.revision = 1 /\ version = 0
         \/ job.direction = "upgrade" /\ job.revision = 2 /\ version = 1
         \/ job.direction = "downgrade" /\ job.revision = 1 /\ version = 1
         \/ job.direction = "downgrade" /\ job.revision = 2 /\ version = 2
  BY Running
<1>2. \A d, r : d # "none" => ~Past(d, r)'
  BY DEF Past, Idle
<1>3. CASE job.pos = 1
  <2>1. job.pos - 1 = 0 /\ 1..(job.pos - 1) = {} /\ 1 - 1 = 0 /\ 2 - 1 = 1
    BY <1>3
  <2>2. CASE job.direction = "upgrade"
    <3>1. Expected = SchemaAt(job.revision - 1) \cup FactsOf(UpgradeTo[job.revision], 0)
      BY <2>1, <2>2 DEF Expected
    <3>2. job.revision - 1 = version
      BY <1>1, <2>2
    <3> QED
      BY <3>1, <3>2, NoFacts
  <2>3. CASE job.direction = "downgrade"
    <3>1. Expected = {f \in SchemaAt(job.revision) : TRUE}
      BY <2>1, <2>3 DEF Expected
    <3>2. job.revision = version
      BY <1>1, <2>3
    <3> QED
      BY <3>1, <3>2
  <2> QED
    BY <1>1, <2>2, <2>3
<1>4. CASE job.pos > 1
  <2>1. 1 \in 1..(job.pos - 1)
    BY <1>1, <1>4
  <2>2. CASE job.direction = "upgrade" /\ job.revision = 1 /\ version = 0
    <3>1. InitialSchema[1].facts \subseteq schema
      BY <2>1, <2>2 DEF Expected, FactsOf, UpgradeTo
    <3>2. HasTable("suppliers")'
      BY <3>1, FirstStatements DEF HasTable, Has
    <3>3. version' = 1 - 1
      BY <2>2
    <3> QED
      BY <1>2, <3>2, <3>3 DEF Stuck, TornUp
  <2>3. CASE job.direction = "upgrade" /\ job.revision = 2 /\ version = 1
    <3>1. RentalAddons[1].facts \subseteq schema
      BY <2>1, <2>3 DEF Expected, FactsOf, UpgradeTo
    <3>2. HasTable("rental_addons")'
      BY <3>1, FirstStatements DEF HasTable, Has
    <3>3. version' = 2 - 1
      BY <2>3
    <3> QED
      BY <1>2, <3>2, <3>3 DEF Stuck, TornUp
  <2>4. CASE job.direction = "downgrade" /\ job.revision = 1 /\ version = 1
    <3>1. \A f \in schema : ~Removes(DropIndex("provider_outbox_events", "created_at"), f)
      <4>1. Expected = {f \in SchemaAt(1) :
                          \A i \in 1..(job.pos - 1) : ~Removes(DropInitialSchema[i], f)}
        BY <2>4 DEF Expected, DowngradeFrom
      <4> QED
        BY <2>1, <4>1, FirstStatements
    <3>2. ~Has("index", "provider_outbox_events", "created_at")'
      BY <3>1 DEF Removes, DropIndex, Has
    <3>3. version' >= 1
      BY <2>4
    <3> QED
      BY <1>2, <3>2, <3>3 DEF Stuck, TornDowngrade, TornDown
  <2>5. CASE job.direction = "downgrade" /\ job.revision = 2 /\ version = 2
    <3>1. \A f \in schema : ~Removes(DropIndex("reservation_addons", "addon_code"), f)
      <4>1. Expected = {f \in SchemaAt(2) :
                          \A i \in 1..(job.pos - 1) : ~Removes(DropRentalAddons[i], f)}
        BY <2>5 DEF Expected, DowngradeFrom
      <4> QED
        BY <2>1, <4>1, FirstStatements
    <3>2. ~Has("index", "reservation_addons", "addon_code")'
      BY <3>1 DEF Removes, DropIndex, Has
    <3>3. version' >= 2
      BY <2>5
    <3> QED
      BY <1>2, <3>2, <3>3 DEF Stuck, TornDowngrade, TornDown
  <2> QED
    BY <1>1, <2>2, <2>3, <2>4, <2>5
<1> QED
  BY <1>1, <1>3, <1>4

\* A step leaves the schema torn, or where the command's position expects it.
LEMMA SchemaKept ==
  ASSUME HeadInv, [Next]_vars
  PROVE  Stuck' \/ schema' = Expected'
<1>1. MigrationInv /\ (Stuck \/ schema = Expected)
  BY DEF HeadInv
<1>2. CASE Stuck
  BY <1>1, <1>2, StuckStays
<1>3. ASSUME schema = Expected
      PROVE  Stuck' \/ schema' = Expected'
  <2>1. version \in 0..2 /\ (job = Idle => schema = SchemaAt(version))
    BY <1>1, <1>3, Commands DEF Expected, Idle
  <2>2. CASE Upgrade
    <3>1. /\ version' \in 0..2 /\ version' + 1 \in 1..2 /\ job' = Start("upgrade", version' + 1)
          /\ schema' = SchemaAt(version')
      BY <2>1, <2>2 DEF Upgrade, Latest
    <3> QED
      BY <3>1, ExpectedAtRest
  <2>3. CASE Downgrade
    <3>1. /\ version' \in 1..2 /\ job' = Start("downgrade", version')
          /\ schema' = SchemaAt(version')
      BY <2>1, <2>3 DEF Downgrade
    <3>2. version' \in 0..2
      BY <3>1
    <3> QED
      BY <3>1, <3>2, ExpectedAtRest
  <2>4. CASE Execute
    BY <1>1, <1>3, <2>4, ExecuteExpected
  <2>5. CASE Fail \/ Crash
    <3>1. job # Idle /\ job' = Idle /\ UNCHANGED <<schema, version>>
      BY <2>5 DEF Fail, Crash
    <3>2. job.pos <= Len(Script) + 1
      BY <3>1 DEF HeadInv, JobRuns
    <3>3. Stuck' \/ schema' = SchemaAt(version')
      BY <1>1, <1>3, <3>1, <3>2, EndsTorn
    <3>4. version' \in 0..2
      BY <2>1, <3>1
    <3>5. Expected' = SchemaAt(version')
      BY <3>1, <3>4, ExpectedAtRest
    <3> QED
      BY <3>3, <3>5
  <2>6. CASE Stamp
    <3>1. job.pos <= Len(Script) + 1
      BY <2>6 DEF Stamp, HeadInv, JobRuns
    <3>2. schema' = SchemaAt(version')
      BY <1>1, <1>3, <2>6, <3>1, StampExpected
    <3>3. /\ version' \in 1..2
          /\ \/ job' = Idle
             \/ version' + 1 \in 1..2 /\ job' = Start("upgrade", version' + 1)
             \/ version' \in 1..2 /\ job' = Start("downgrade", version')
      BY <1>1, <2>6, StampedVersion
    <3>4. version' \in 0..2
      BY <3>3
    <3>5. Expected' = SchemaAt(version')
      BY <3>3, <3>4, ExpectedAtRest
    <3> QED
      BY <3>2, <3>5
  <2>7. CASE (\E c \in Codes : SaveReservation(c)) \/ UNCHANGED vars
    <3>1. UNCHANGED <<schema, version, job>>
      BY <2>7 DEF SaveReservation, vars
    <3>2. Expected' = Expected
      BY <3>1 DEF Expected
    <3> QED
      BY <1>3, <3>1, <3>2
  <2> QED
    BY <2>2, <2>3, <2>4, <2>5, <2>6, <2>7 DEF Next, Alembic
<1> QED
  BY <1>1, <1>2, <1>3

\* As long as nobody has downgraded, the marks of head stay once they are there.
LEMMA HeadWhole ==
  ASSUME HeadInv, [Next]_vars, downgrades' = 0
  PROVE  ~TornDowngrade'
<1>1. /\ MigrationInv /\ (Stuck \/ schema = Expected)
      /\ job # Idle => job.pos <= Len(Script) + 1
      /\ downgrades = 0 => job.direction # "downgrade" /\ ~TornDowngrade
  BY DEF HeadInv, JobRuns
<1>2. downgrades = 0 /\ ~Downgrade
  <2>1. downgrades \in Nat
    BY <1>1, Commands, MigrationsAssumption
  <2>2. ~Downgrade
    BY <2>1 DEF Downgrade
  <2>3. downgrades' = downgrades
    BY <2>2 DEF Next, Alembic, Upgrade, Execute, Fail, Stamp, Crash, SaveReservation, vars
  <2> QED
    BY <2>2, <2>3
<1>3. CASE Stamp
  <2>1. ~Stuck
    BY <1>1, <1>2, <1>3, StampStuck DEF TornDowngrade
  <2>2. schema' = SchemaAt(version')
    BY <1>1, <1>3, <2>1, StampExpected DEF Stamp
  <2>3. version' = 1 \/ version' = 2
    BY <1>1, <1>3, StampedVersion
  <2>4. Has("index", "provider_outbox_events", "created_at")'
    BY <2>2, <2>3, Marks DEF Has
  <2>5. version' >= 2 => Has("index", "reservation_addons", "addon_code")'
    <3>1. CASE version' = 1
      <4>1. ~(version' >= 2)
        BY <3>1
      <4> QED
        BY <4>1
    <3>2. CASE version' = 2
      BY <2>2, <3>2, Marks DEF Has
    <3> QED
      BY <2>3, <3>1, <3>2
  <2> QED
    BY <2>4, <2>5 DEF TornDowngrade, TornDown
<1>4. CASE ~Stamp
  <2>1. version' = version
    BY <1>4 DEF Next, Alembic, Upgrade, Downgrade, Execute, Fail, Crash, SaveReservation, vars
  <2>2. schema \subseteq schema'
    <3>1. CASE Execute
      <4> DEFINE s == Script[job.pos]
      <4>1. job # Idle /\ job.pos <= Len(Script) /\ Alter(s) /\ job.direction # "downgrade"
        BY <1>1, <1>2, <3>1 DEF Execute
      <4>2. \/ Script = InitialSchema /\ job.pos \in 1..18
            \/ Script = RentalAddons /\ job.pos \in 1..5
        BY <1>1, <4>1, Running
      <4>3. Adds(s)
        BY <4>2, ScriptTables
      <4> HIDE DEF s
      <4> QED
        BY <4>1, <4>3, AddsOrDrops
    <3>2. CASE ~Execute
      BY <1>4, <3>2 DEF Next, Alembic, Upgrade, Downgrade, Fail, Crash, SaveReservation, vars
    <3> QED
      BY <3>1, <3>2
  <2>3. \A r : ~Past("downgrade", r)
    BY <1>1, <1>2 DEF Past
  <2>4. \A r, t, c : TornDown(r, t, c)' => TornDown(r, t, c)
    BY <2>1, <2>2, <2>3 DEF TornDown, Has
  <2> QED
    BY <1>1, <1>2, <2>4 DEF TornDowngrade
<1> QED
  BY <1>3, <1>4

\* A command stays within its script, and without a downgrade command there is none.
LEMMA JobKept ==
  ASSUME HeadInv, [Next]_vars
  PROVE  JobRuns'
<1>1. /\ MigrationInv
      /\ job # Idle => job.pos <= Len(Script) + 1
      /\ downgrades = 0 => job.direction # "downgrade" /\ ~TornDowngrade
  BY DEF HeadInv, JobRuns
<1>2. CASE Execute
  <2>1. /\ job # Idle /\ job.pos <= Len(Script) /\ job' = [job EXCEPT !.pos = @ + 1]
        /\ downgrades' = downgrades
    BY <1>2 DEF Execute
  <2>2. /\ job.pos \in 1..19
        /\ job = [direction |-> job.direction, revision |-> job.revision, pos |-> job.pos]
    BY <1>1, <2>1, Running
  <2>3. /\ job'.direction = job.direction /\ job'.revision = job.revision
        /\ job'.pos = job.pos + 1
    BY <2>1, <2>2
  <2>4. Script' = Script
    BY <2>3 DEF Script
  <2>5. Len(Script) \in Nat
    BY <1>1, <2>1, Running
  <2>6. job'.pos <= Len(Script)' + 1
    <3> DEFINE n == Len(Script)
    <3>1. job.pos <= n /\ n \in Nat /\ job.pos \in 1..19 /\ job'.pos = job.pos + 1
      BY <2>1, <2>2, <2>3, <2>5
    <3> HIDE DEF n
    <3>2. job'.pos <= n + 1
      BY <3>1
    <3> QED
      BY <2>4, <3>2 DEF n
  <2>7. downgrades' = 0 => job'.direction # "downgrade"
    BY <1>1, <2>1, <2>3
  <2> QED
    BY <2>6, <2>7, HeadWhole DEF JobRuns
<1>3. CASE Upgrade \/ Downgrade \/ Fail \/ Crash \/ Stamp
  <2>1. \/ job' = Idle
        \/ \E d \in {"upgrade", "downgrade"}, r \in 1..2 : job' = Start(d, r)
    <3>1. version \in 0..2
      BY <1>1, Commands
    <3>2. Upgrade => version + 1 \in 1..2 /\ job' = Start("upgrade", version + 1)
      BY <3>1 DEF Upgrade, Latest
    <3>3. Downgrade => version \in 1..2 /\ job' = Start("downgrade", version)
      BY <3>1 DEF Downgrade
    <3>4. Fail \/ Crash => job' = Idle
      BY DEF Fail, Crash
    <3>5. CASE Stamp
      BY <1>1, <3>5, StampedVersion
    <3> QED
      BY <1>3, <3>2, <3>3, <3>4, <3>5
  <2>2. job' # Idle => job'.pos <= Len(Script)' + 1
    <3> SUFFICES ASSUME NEW d \in {"upgrade", "downgrade"}, NEW r \in 1..2, job' = Start(d, r)
                 PROVE  job'.pos <= Len(Script)' + 1
      BY <2>1
    <3>1. job'.direction = d /\ job'.revision = r /\ job'.pos = 1
      BY DEF Start
    <3>2. Script' \in {InitialSchema, RentalAddons, DropInitialSchema, DropRentalAddons}
      BY <3>1 DEF Script, UpgradeTo, DowngradeFrom
    <3>3. Len(Script)' \in Nat
      BY <3>2, ScriptLengths
    <3> QED
      BY <3>1, <3>3
  <2>3. downgrades' = 0 => job'.direction # "downgrade"
    <3>1. CASE Downgrade
      BY <1>1, <3>1, Commands, MigrationsAssumption DEF Downgrade
    <3>2. CASE Upgrade \/ Fail \/ Crash
      BY <3>2 DEF Upgrade, Fail, Crash, Start, Idle
    <3>3. CASE Stamp
      BY <1>1, <3>3 DEF Stamp, Start, Idle
    <3> QED
      BY <1>3, <3>1, <3>2, <3>3
  <2> QED
    BY <2>2, <2>3, HeadWhole DEF JobRuns
<1>4. CASE (\E c \in Codes : SaveReservation(c)) \/ UNCHANGED vars
  <2>1. UNCHANGED <<job, downgrades>>
    BY <1>4 DEF SaveReservation, vars
  <2>2. Script' = Script
    BY <2>1 DEF Script
  <2> QED
    BY <1>1, <2>1, <2>2, HeadWhole DEF JobRuns
<1> QED
  BY <1>2, <1>3, <1>4 DEF Next, Alembic

\* The statements around the one that writes the seeds.
LEMMA SeedStatements ==
  /\ RentalAddons[2].op = "insert"
  /\ \A i \in {1, 3, 4, 5} : RentalAddons[i].op \in {"create_table", "create_index"}
<1>1. /\ CreateRentalAddons.op = "create_table" /\ CreateReservationAddons.op = "create_table"
      /\ \A t, c, k : CreateIndex(t, c, k).op = "create_index"
      /\ \A t : Insert(t).op = "insert"
  BY DEF CreateRentalAddons, CreateReservationAddons, CreateTable, CreateIndex, Insert
<1> QED
  BY <1>1 DEF RentalAddons

\* The seeds are committed behind their statement, and then stay.
LEMMA SeedKept ==
  ASSUME HeadInv, [Next]_vars
  PROVE  SeedFits'
<1>1. /\ MigrationInv
      /\ job # Idle => job.pos <= Len(Script) + 1
      /\ downgrades = 0 => job.direction # "downgrade"
      /\ job.direction = "upgrade" /\ job.revision = 2 =>
           (job.pos = 3 => seed = "open") /\ (job.pos > 3 => seed = "committed")
      /\ version = 2 /\ downgrades = 0 => seed = "committed"
  BY DEF HeadInv, JobRuns, SeedFits
<1>2. CASE Execute
  <2> DEFINE s == Script[job.pos]
  <2>1. /\ job # Idle /\ job.pos <= Len(Script) /\ job' = [job EXCEPT !.pos = @ + 1]
        /\ downgrades' = downgrades /\ version' = version /\ WriteSeed(s)
    BY <1>2 DEF Execute
  <2>2. /\ job.pos \in 1..19
        /\ job = [direction |-> job.direction, revision |-> job.revision, pos |-> job.pos]
    BY <1>1, <2>1, Running
  <2>3. /\ job'.direction = job.direction /\ job'.revision = job.revision
        /\ job'.pos = job.pos + 1
    BY <2>1, <2>2
  <2>4. ~(version' = 2 /\ downgrades' = 0)
    BY <1>1, <2>1, Running
  <2>5. CASE job.direction = "upgrade" /\ job.revision = 2
    <3>1. Script = RentalAddons /\ job.pos \in 1..5
      <4>1. Script = RentalAddons /\ Len(Script) = 5
        BY <1>1, <2>1, <2>5, Running
      <4> QED
        BY <2>1, <2>2, <4>1
    <3>2. /\ job.pos = 2 => s.op = "insert"
          /\ job.pos > 2 => s.op \in {"create_table", "create_index"}
      BY <3>1, SeedStatements
    <3> HIDE DEF s
    <3>3. job.pos = 2 => seed' = "open"
      BY <2>1, <3>2 DEF WriteSeed
    <3>4. job.pos > 2 => seed' = "committed"
      <4>1. job.pos > 2 => seed \in {"open", "committed"}
        BY <1>1, <2>5, <3>1
      <4> QED
        BY <2>1, <3>2, <4>1 DEF WriteSeed
    <3>5. (job'.pos = 3 => seed' = "open") /\ (job'.pos > 3 => seed' = "committed")
      BY <2>2, <2>3, <3>3, <3>4
    <3> QED
      BY <2>4, <3>5 DEF SeedFits
  <2> QED
    BY <2>3, <2>4, <2>5 DEF SeedFits
<1>3. CASE Upgrade \/ Downgrade \/ Fail \/ Crash
  <2>1. job' = Idle \/ \E d \in {"upgrade", "downgrade"} : \E r : job' = Start(d, r)
    BY <1>3 DEF Upgrade, Downgrade, Fail, Crash
  <2>2. job'.direction = "upgrade" => job'.pos = 1
    BY <2>1 DEF Start, Idle
  <2>3. version' = version /\ (downgrades' = 0 => downgrades = 0)
    <3>1. Downgrade => downgrades' # 0
      BY <1>1, Commands, MigrationsAssumption DEF Downgrade
    <3> QED
      BY <1>3, <3>1 DEF Upgrade, Downgrade, Fail, Crash
  <2>4. seed = "committed" => seed' = "committed"
    BY <1>3 DEF Upgrade, Downgrade, Fail, Crash, Rollback
  <2> QED
    BY <1>1, <2>2, <2>3, <2>4 DEF SeedFits
<1>4. CASE Stamp
  <2>1. \/ job' = Idle
        \/ job' = Start("upgrade", version' + 1)
        \/ job' = Start("downgrade", version')
    BY <1>1, <1>4, StampedVersion
  <2>2. job'.direction = "upgrade" => job'.pos = 1
    BY <2>1 DEF Start, Idle
  <2>3. /\ job # Idle /\ job.pos > Len(Script)
        /\ job.direction = "upgrade" => version' = job.revision
        /\ job.direction = "downgrade" => version' = job.revision - 1
        /\ seed' = IF seed = "open" THEN "committed" ELSE seed
    BY <1>4 DEF Stamp
  <2>4. version' = 2 => seed' = "committed"
    <3> SUFFICES ASSUME version' = 2 PROVE seed' = "committed"
      OBVIOUS
    <3>1. job.direction = "upgrade" /\ job.revision = 2 /\ Len(Script) = 5 /\ job.pos \in 1..19
      BY <1>1, <2>3, Running
    <3>2. job.pos > 3
      BY <2>3, <3>1
    <3> QED
      BY <1>1, <2>3, <3>1, <3>2
  <2> QED
    BY <2>2, <2>4 DEF SeedFits
<1>5. CASE (\E c \in Codes : SaveReservation(c)) \/ UNCHANGED vars
  <2>1. UNCHANGED <<job, version, downgrades, seed>>
    BY <1>5 DEF SaveReservation, vars
  <2> QED
    BY <1>1, <2>1 DEF SeedFits
<1> QED
  BY <1>2, <1>3, <1>4, <1>5 DEF Next, Alembic

\* The schema is at all times the one that the version and the position of the
\* running command tell, or it is torn for good; only a downgrade tears head.
THEOREM HeadCorrect == Spec => []HeadInv
<1>1. Init => HeadInv
  <2> SUFFICES ASSUME Init PROVE HeadInv
    OBVIOUS
  <2>1. MigrationInv
    BY MigrationsAssumption
    DEF Init, Idle, MigrationInv, TypeOK, UniqueKept, CodesAreUnique, ReferenceKept, JobFits,
        NoOutboxNoEvents, SavedWithEvents, HasTable, Has, Latest
  <2>2. schema = Expected
    BY SchemaVersions DEF Init, Expected, Idle
  <2>3. JobRuns
    BY DEF Init, JobRuns, Idle, TornDowngrade, TornDown
  <2>4. SeedFits
    BY DEF Init, SeedFits, Idle
  <2> QED
    BY <2>1, <2>2, <2>3, <2>4 DEF HeadInv
<1>2. HeadInv /\ [Next]_vars /\ MigrationInv' => HeadInv'
  BY SchemaKept, JobKept, SeedKept DEF HeadInv
<1> QED
  BY <1>1, <1>2, MigrationsCorrect, PTL DEF Spec

\* A torn schema is never mended by alembic.
THEOREM TornStaysTorn == Spec => TornForGood
<1>1. HeadInv => MigrationInv /\ (Torn => Stuck)
  BY DEF HeadInv, Torn, Expected, Idle
<1>2. MigrationInv /\ Stuck /\ [Next]_vars => Stuck'
  BY StuckStays
<1>3. MigrationInv /\ Stuck => (job = Idle => Torn)
  BY StuckIsTorn
<1>4. Spec => []HeadInv
  BY HeadCorrect
<1> QED
  BY <1>1, <1>2, <1>3, <1>4, PTL DEF Spec, TornForGood

-----------------------------------------------------------------------------
(* The schema at head, and the models *)

Tables == {"suppliers", "offices", "reservations", "reservation_contacts",
           "reservation_status_history", "reservation_provider_requests",
           "provider_outbox_events", "rental_addons", "reservation_addons"}
Uniques == {<<"suppliers", "code">>, <<"offices", "office_code">>,
            <<"reservations", "reservation_code">>,
            <<"reservation_contacts", "reservation_code">>, <<"rental_addons", "code">>}
References == {<<"offices", "supplier_code">>, <<"reservation_contacts", "reservation_code">>,
               <<"reservation_status_history", "reservation_code">>,
               <<"reservation_provider_requests", "reservation_code">>}
UniqueIndexes == {<<"suppliers", "code">>, <<"offices", "office_code">>,
                  <<"reservations", "reservation_code">>,
                  <<"reservation_contacts", "reservation_code">>}
Indexes == {<<"suppliers", "code">>, <<"offices", "supplier_code">>,
            <<"offices", "office_code">>, <<"reservations", "reservation_code">>,
            <<"reservation_contacts", "reservation_code">>,
            <<"reservation_status_history", "reservation_code">>,
            <<"reservation_provider_requests", "reservation_code">>,
            <<"reservation_provider_requests", "provider_code">>,
            <<"provider_outbox_events", "aggregate_id">>,
            <<"provider_outbox_events", "status">>, <<"provider_outbox_events", "created_at">>,
            <<"reservation_addons", "reservation_code">>,
            <<"reservation_addons", "addon_code">>}

On(kind, columns) == {<<kind, p[1], p[2]>> : p \in columns}
OfTables == {<<"table", t, "">> : t \in Tables}

\* These sets, member by member.
LEMMA TablesListed ==
  OfTables =
    {<<"table", "suppliers", "">>, <<"table", "offices", "">>, <<"table", "reservations", "">>,
     <<"table", "reservation_contacts", "">>, <<"table", "reservation_status_history", "">>,
     <<"table", "reservation_provider_requests", "">>,
     <<"table", "provider_outbox_events", "">>, <<"table", "rental_addons", "">>,
     <<"table", "reservation_addons", "">>}
BY DEF OfTables, Tables

\* The columns a constraint keeps unique.
LEMMA UniquesListed ==
  On("unique", Uniques) =
    {<<"unique", "suppliers", "code">>, <<"unique", "offices", "office_code">>,
     <<"unique", "reservations", "reservation_code">>,
     <<"unique", "reservation_contacts", "reservation_code">>,
     <<"unique", "rental_addons", "code">>}
BY DEF On, Uniques

\* The columns that refer to another table.
LEMMA ReferencesListed ==
  On("foreign_key", References) =
    {<<"foreign_key", "offices", "supplier_code">>,
     <<"foreign_key", "reservation_contacts", "reservation_code">>,
     <<"foreign_key", "reservation_status_history", "reservation_code">>,
     <<"foreign_key", "reservation_provider_requests", "reservation_code">>}
BY DEF On, References

\* The columns with a unique index of their own.
LEMMA UniqueIndexesListed ==
  On("unique_index", UniqueIndexes) =
    {<<"unique_index", "suppliers", "code">>, <<"unique_index", "offices", "office_code">>,
     <<"unique_index", "reservations", "reservation_code">>,
     <<"unique_index", "reservation_contacts", "reservation_code">>}
BY DEF On, UniqueIndexes

\* The columns with an index, unique or not.
LEMMA IndexesListed ==
  On("index", Indexes) =
    {<<"index", "suppliers", "code">>, <<"index", "offices", "supplier_code">>,
     <<"index", "offices", "office_code">>, <<"index", "reservations", "reservation_code">>,
     <<"index", "reservation_contacts", "reservation_code">>,
     <<"index", "reservation_status_history", "reservation_code">>,
     <<"index", "reservation_provider_requests", "reservation_code">>,
     <<"index", "reservation_provider_requests", "provider_code">>,
     <<"index", "provider_outbox_events", "aggregate_id">>,
     <<"index", "provider_outbox_events", "status">>,
     <<"index", "provider_outbox_events", "created_at">>,
     <<"index", "reservation_addons", "reservation_code">>,
     <<"index", "reservation_addons", "addon_code">>}
BY DEF On, Indexes

\* What statements add, by their parameters.
LEMMA StatementFacts ==
  /\ \A t : CreateTable(t, {}, {}).facts = {<<"table", t, "">>}
  /\ \A t, u : CreateTable(t, {u}, {}).facts = {<<"table", t, "">>, <<"unique", t, u>>}
  /\ \A t, r : CreateTable(t, {}, {r}).facts = {<<"table", t, "">>, <<"foreign_key", t, r>>}
  /\ \A t, u, r : CreateTable(t, {u}, {r}).facts =
                    {<<"table", t, "">>, <<"unique", t, u>>, <<"foreign_key", t, r>>}
  /\ \A t, c : /\ CreateIndex(t, c, Plain).facts = {<<"index", t, c>>}
               /\ CreateIndex(t, c, Unique).facts = {<<"index", t, c>>, <<"unique_index", t, c>>}
  /\ \A t : Insert(t).facts = {}
<1>1. \A a, b, c : {a} \X {b} \X {c} = {<<a, b, c>>} /\ {a} \X {b} \X {} = {}
  OBVIOUS
<1>2. \A t : CreateTable(t, {}, {}).facts = {<<"table", t, "">>}
  BY <1>1 DEF CreateTable
<1>3. \A t, u : CreateTable(t, {u}, {}).facts = {<<"table", t, "">>, <<"unique", t, u>>}
  BY <1>1 DEF CreateTable
<1>4. \A t, r : CreateTable(t, {}, {r}).facts = {<<"table", t, "">>, <<"foreign_key", t, r>>}
  BY <1>1 DEF CreateTable
<1>5. \A t, u, r : CreateTable(t, {u}, {r}).facts =
                     {<<"table", t, "">>, <<"unique", t, u>>, <<"foreign_key", t, r>>}
  BY <1>1 DEF CreateTable
<1>6. \A t, c : /\ CreateIndex(t, c, Plain).facts = {<<"index", t, c>>}
                /\ CreateIndex(t, c, Unique).facts = {<<"index", t, c>>, <<"unique_index", t, c>>}
  <2>1. \A a, b, t, c : {a, b} \X {t} \X {c} = {<<a, t, c>>, <<b, t, c>>}
    OBVIOUS
  <2> QED
    BY <1>1, <2>1 DEF CreateIndex, Plain, Unique
<1>7. \A t : Insert(t).facts = {}
  BY DEF Insert
<1> QED
  BY <1>2, <1>3, <1>4, <1>5, <1>6, <1>7

\* What the statements of the first revision, all eighteen, leave in the schema.
LEMMA InitialFacts ==
  FactsOf(InitialSchema, 18) =
    {<<"table", "suppliers", "">>, <<"unique", "suppliers", "code">>,
     <<"index", "suppliers", "code">>, <<"unique_index", "suppliers", "code">>,
     <<"table", "offices", "">>, <<"unique", "offices", "office_code">>,
     <<"foreign_key", "offices", "supplier_code">>, <<"index", "offices", "supplier_code">>,
     <<"index", "offices", "office_code">>, <<"unique_index", "offices", "office_code">>,
     <<"table", "reservations", "">>, <<"unique", "reservations", "reservation_code">>,
     <<"index", "reservations", "reservation_code">>,
     <<"unique_index", "reservations", "reservation_code">>,
     <<"table", "reservation_contacts", "">>,
     <<"unique", "reservation_contacts", "reservation_code">>,
     <<"foreign_key", "reservation_contacts", "reservation_code">>,
     <<"index", "reservation_contacts", "reservation_code">>,
     <<"unique_index", "reservation_contacts", "reservation_code">>,
     <<"table", "reservation_status_history", "">>,
     <<"foreign_key", "reservation_status_history", "reservation_code">>,
     <<"index", "reservation_status_history", "reservation_code">>,
     <<"table", "reservation_provider_requests", "">>,
     <<"foreign_key", "reservation_provider_requests", "reservation_code">>,
     <<"index", "reservation_provider_requests", "reservation_code">>,
     <<"index", "reservation_provider_requests", "provider_code">>,
     <<"table", "provider_outbox_events", "">>,
     <<"index", "provider_outbox_events", "aggregate_id">>,
     <<"index", "provider_outbox_events", "status">>,
     <<"index", "provider_outbox_events", "created_at">>}
<1>1. FactsOf(InitialSchema, 18) =
        InitialSchema[1].facts \cup InitialSchema[2].facts \cup InitialSchema[3].facts
        \cup InitialSchema[4].facts \cup InitialSchema[5].facts \cup InitialSchema[6].facts
        \cup InitialSchema[7].facts \cup InitialSchema[8].facts \cup InitialSchema[9].facts
        \cup InitialSchema[10].facts \cup InitialSchema[11].facts \cup InitialSchema[12].facts
        \cup InitialSchema[13].facts \cup InitialSchema[14].facts \cup InitialSchema[15].facts
        \cup InitialSchema[16].facts \cup InitialSchema[17].facts \cup InitialSchema[18].facts
  <2>1. \A f : f \in FactsOf(InitialSchema, 18) <=> \E i \in 1..18 : f \in InitialSchema[i].facts
    BY DEF FactsOf
  <2>2. 1..18 = {1, 2, 3, 4, 5, 6, 7, 8, 9, 10, 11, 12, 13, 14, 15, 16, 17, 18}
    OBVIOUS
  <2> QED
    BY <2>1, <2>2
<1>2. InitialSchema[1].facts = {<<"table", "suppliers", "">>, <<"unique", "suppliers", "code">>}
  BY StatementFacts DEF InitialSchema, CreateSuppliers
<1>3. InitialSchema[2].facts =
        {<<"index", "suppliers", "code">>, <<"unique_index", "suppliers", "code">>}
  BY StatementFacts DEF InitialSchema
<1>4. InitialSchema[3].facts =
        {<<"table", "offices", "">>, <<"unique", "offices", "office_code">>,
         <<"foreign_key", "offices", "supplier_code">>}
  <2>1. InitialSchema[3] = CreateOffices
    BY DEF InitialSchema
  <2>2. CreateOffices.facts = {<<"table", "offices", "">>, <<"unique", "offices", "office_code">>,
                               <<"foreign_key", "offices", "supplier_code">>}
    <3>1. \A t, u, r : CreateTable(t, {u}, {r}).facts =
                         {<<"table", t, "">>, <<"unique", t, u>>, <<"foreign_key", t, r>>}
      BY StatementFacts
    <3> QED
      BY <3>1, Zenon DEF CreateOffices
  <2> QED
    BY <2>1, <2>2
<1>5. InitialSchema[4].facts = {<<"index", "offices", "supplier_code">>}
  BY StatementFacts DEF InitialSchema
<1>6. InitialSchema[5].facts =
        {<<"index", "offices", "office_code">>, <<"unique_index", "offices", "office_code">>}
  BY StatementFacts DEF InitialSchema
<1>7. InitialSchema[6].facts =
        {<<"table", "reservations", "">>, <<"unique", "reservations", "reservation_code">>}
  BY StatementFacts DEF InitialSchema, CreateReservations
<1>8. InitialSchema[7].facts =
        {<<"index", "reservations", "reservation_code">>,
         <<"unique_index", "reservations", "reservation_code">>}
  BY StatementFacts DEF InitialSchema
<1>9. InitialSchema[8].facts =
        {<<"table", "reservation_contacts", "">>,
         <<"unique", "reservation_contacts", "reservation_code">>,
         <<"foreign_key", "reservation_contacts", "reservation_code">>}
  <2>1. InitialSchema[8] = CreateContacts
    BY DEF InitialSchema
  <2>2. CreateContacts.facts = {<<"table", "reservation_contacts", "">>, <<"unique", "reservation_contacts", "reservation_code">>,
                                <<"foreign_key", "reservation_contacts", "reservation_code">>}
    <3>1. \A t, u, r : CreateTable(t, {u}, {r}).facts =
                         {<<"table", t, "">>, <<"unique", t, u>>, <<"foreign_key", t, r>>}
      BY StatementFacts
    <3> QED
      BY <3>1, Zenon DEF CreateContacts
  <2> QED
    BY <2>1, <2>2
<1>10. InitialSchema[9].facts =
        {<<"index", "reservation_contacts", "reservation_code">>,
         <<"unique_index", "reservation_contacts", "reservation_code">>}
  BY StatementFacts DEF InitialSchema
<1>11. InitialSchema[10].facts =
        {<<"table", "reservation_status_history", "">>,
         <<"foreign_key", "reservation_status_history", "reservation_code">>}
  BY StatementFacts DEF InitialSchema, CreateStatusHistory
<1>12. InitialSchema[11].facts = {<<"index", "reservation_status_history", "reservation_code">>}
  BY StatementFacts DEF InitialSchema
<1>13. InitialSchema[12].facts =
        {<<"table", "reservation_provider_requests", "">>,
         <<"foreign_key", "reservation_provider_requests", "reservation_code">>}
  BY StatementFacts DEF InitialSchema, CreateProviderRequests
<1>14. InitialSchema[13].facts =
        {<<"index", "reservation_provider_requests", "reservation_code">>}
  BY StatementFacts DEF InitialSchema
<1>15. InitialSchema[14].facts = {<<"index", "reservation_provider_requests", "provider_code">>}
  BY StatementFacts DEF InitialSchema
<1>16. InitialSchema[15].facts = {<<"table", "provider_outbox_events", "">>}
  BY StatementFacts DEF InitialSchema, CreateOutboxEvents
<1>17. InitialSchema[16].facts = {<<"index", "provider_outbox_events", "aggregate_id">>}
  BY StatementFacts DEF InitialSchema
<1>18. InitialSchema[17].facts = {<<"index", "provider_outbox_events", "status">>}
  BY StatementFacts DEF InitialSchema
<1>19. InitialSchema[18].facts = {<<"index", "provider_outbox_events", "created_at">>}
  BY StatementFacts DEF InitialSchema
<1> HIDE DEF FactsOf
<1> QED
  BY <1>1, <1>2, <1>3, <1>4, <1>5, <1>6, <1>7, <1>8, <1>9, <1>10, <1>11, <1>12, <1>13, <1>14,
     <1>15, <1>16, <1>17, <1>18, <1>19

\* What the five statements of the second revision add to it.
LEMMA RentalFacts ==
  FactsOf(RentalAddons, 5) =
    {<<"table", "rental_addons", "">>, <<"unique", "rental_addons", "code">>,
     <<"table", "reservation_addons", "">>,
     <<"index", "reservation_addons", "reservation_code">>,
     <<"index", "reservation_addons", "addon_code">>}
<1>1. FactsOf(RentalAddons, 5) =
        RentalAddons[1].facts \cup RentalAddons[2].facts \cup RentalAddons[3].facts
        \cup RentalAddons[4].facts \cup RentalAddons[5].facts
  <2>1. \A f : f \in FactsOf(RentalAddons, 5) <=> \E i \in 1..5 : f \in RentalAddons[i].facts
    BY DEF FactsOf
  <2>2. 1..5 = {1, 2, 3, 4, 5}
    OBVIOUS
  <2> QED
    BY <2>1, <2>2
<1>2. RentalAddons[1].facts =
        {<<"table", "rental_addons", "">>, <<"unique", "rental_addons", "code">>}
  BY StatementFacts DEF RentalAddons, CreateRentalAddons
<1>3. RentalAddons[2].facts = {}
  BY StatementFacts DEF RentalAddons
<1>4. RentalAddons[3].facts = {<<"table", "reservation_addons", "">>}
  BY StatementFacts DEF RentalAddons, CreateReservationAddons
<1>5. RentalAddons[4].facts = {<<"index", "reservation_addons", "reservation_code">>}
  BY StatementFacts DEF RentalAddons
<1>6. RentalAddons[5].facts = {<<"index", "reservation_addons", "addon_code">>}
  BY StatementFacts DEF RentalAddons
<1> HIDE DEF FactsOf
<1> QED
  BY <1>1, <1>2, <1>3, <1>4, <1>5, <1>6

\* The schema at head.
LEMMA HeadSchema ==
  SchemaAt(2) = OfTables \cup On("unique", Uniques) \cup On("foreign_key", References)
                \cup On("unique_index", UniqueIndexes) \cup On("index", Indexes)
BY SchemaVersions, InitialFacts, RentalFacts, TablesListed, UniquesListed, ReferencesListed,
   UniqueIndexesListed, IndexesListed

\* The models, in the same terms; a unique column is a key too.
Keys == {<<"suppliers", "code">>, <<"offices", "supplier_code">>, <<"offices", "office_code">>,
         <<"reservations", "reservation_code">>,
         <<"reservation_contacts", "reservation_code">>,
         <<"reservation_status_history", "reservation_code">>,
         <<"reservation_provider_requests", "reservation_code">>,
         <<"reservation_provider_requests", "provider_code">>,
         <<"provider_outbox_events", "aggregate_id">>, <<"provider_outbox_events", "status">>,
         <<"provider_outbox_events", "created_at">>, <<"rental_addons", "code">>,
         <<"reservation_addons", "reservation_code">>, <<"reservation_addons", "addon_code">>}

\* A column is a key of the ORM's schema by a constraint or by an index.
LEMMA KeysAre == Keys = Uniques \cup Indexes
BY DEF Keys, Uniques, Indexes

\* The columns the ORM can look rows up by.
LEMMA KeysListed ==
  On("key", Keys) =
    {<<"key", "suppliers", "code">>, <<"key", "offices", "supplier_code">>,
     <<"key", "offices", "office_code">>, <<"key", "reservations", "reservation_code">>,
     <<"key", "reservation_contacts", "reservation_code">>,
     <<"key", "reservation_status_history", "reservation_code">>,
     <<"key", "reservation_provider_requests", "reservation_code">>,
     <<"key", "reservation_provider_requests", "provider_code">>,
     <<"key", "provider_outbox_events", "aggregate_id">>,
     <<"key", "provider_outbox_events", "status">>,
     <<"key", "provider_outbox_events", "created_at">>, <<"key", "rental_addons", "code">>,
     <<"key", "reservation_addons", "reservation_code">>,
     <<"key", "reservation_addons", "addon_code">>}
BY DEF On, Keys

\* The nine ORM models taken together, by kinds of facts instead of by tables.
LEMMA HeadModels ==
  Models = OfTables \cup On("unique", Uniques) \cup On("foreign_key", References)
           \cup On("key", Keys)
<1>1. SupplierModel =
        {<<"table", "suppliers", "">>, <<"unique", "suppliers", "code">>,
         <<"key", "suppliers", "code">>}
  <2>1. {"code"} \cup {"code"} = {"code"}
    OBVIOUS
  <2>2. /\ {"unique"} \X {"suppliers"} \X {"code"} = {<<"unique", "suppliers", "code">>}
        /\ {"key"} \X {"suppliers"} \X {"code"} = {<<"key", "suppliers", "code">>}
        /\ {"foreign_key"} \X {"suppliers"} \X {} = {}
    OBVIOUS
  <2> QED
    BY <2>1, <2>2 DEF Model, SupplierModel
<1>2. OfficeModel =
        {<<"table", "offices", "">>, <<"unique", "offices", "office_code">>,
         <<"key", "offices", "office_code">>, <<"key", "offices", "supplier_code">>,
         <<"foreign_key", "offices", "supplier_code">>}
  <2>1. {"office_code"} \cup {"supplier_code", "office_code"} = {"office_code", "supplier_code"}
    OBVIOUS
  <2>2. /\ {"unique"} \X {"offices"} \X {"office_code"} =
               {<<"unique", "offices", "office_code">>}
        /\ {"key"} \X {"offices"} \X {"office_code", "supplier_code"} =
               {<<"key", "offices", "office_code">>, <<"key", "offices", "supplier_code">>}
        /\ {"foreign_key"} \X {"offices"} \X {"supplier_code"} =
               {<<"foreign_key", "offices", "supplier_code">>}
    OBVIOUS
  <2> QED
    BY <2>1, <2>2 DEF Model, OfficeModel
<1>3. ReservationModel =
        {<<"table", "reservations", "">>, <<"unique", "reservations", "reservation_code">>,
         <<"key", "reservations", "reservation_code">>}
  <2>1. {"reservation_code"} \cup {"reservation_code"} = {"reservation_code"}
    OBVIOUS
  <2>2. /\ {"unique"} \X {"reservations"} \X {"reservation_code"} =
               {<<"unique", "reservations", "reservation_code">>}
        /\ {"key"} \X {"reservations"} \X {"reservation_code"} =
               {<<"key", "reservations", "reservation_code">>}
        /\ {"foreign_key"} \X {"reservations"} \X {} = {}
    OBVIOUS
  <2> QED
    BY <2>1, <2>2 DEF Model, ReservationModel
<1>4. ReservationContactModel =
        {<<"table", "reservation_contacts", "">>,
         <<"unique", "reservation_contacts", "reservation_code">>,
         <<"key", "reservation_contacts", "reservation_code">>,
         <<"foreign_key", "reservation_contacts", "reservation_code">>}
  <2>1. {"reservation_code"} \cup {"reservation_code"} = {"reservation_code"}
    OBVIOUS
  <2>2. /\ {"unique"} \X {"reservation_contacts"} \X {"reservation_code"} =
               {<<"unique", "reservation_contacts", "reservation_code">>}
        /\ {"key"} \X {"reservation_contacts"} \X {"reservation_code"} =
               {<<"key", "reservation_contacts", "reservation_code">>}
        /\ {"foreign_key"} \X {"reservation_contacts"} \X {"reservation_code"} =
               {<<"foreign_key", "reservation_contacts", "reservation_code">>}
    OBVIOUS
  <2> QED
    BY <2>1, <2>2 DEF Model, ReservationContactModel
<1>5. ReservationStatusHistoryModel =
        {<<"table", "reservation_status_history", "">>,
         <<"key", "reservation_status_history", "reservation_code">>,
         <<"foreign_key", "reservation_status_history", "reservation_code">>}
  <2>1. {} \cup {"reservation_code"} = {"reservation_code"}
    OBVIOUS
  <2>2. /\ {"unique"} \X {"reservation_status_history"} \X {} = {}
        /\ {"key"} \X {"reservation_status_history"} \X {"reservation_code"} =
               {<<"key", "reservation_status_history", "reservation_code">>}
        /\ {"foreign_key"} \X {"reservation_status_history"} \X {"reservation_code"} =
               {<<"foreign_key", "reservation_status_history", "reservation_code">>}
    OBVIOUS
  <2> QED
    BY <2>1, <2>2 DEF Model, ReservationStatusHistoryModel
<1>6. ReservationProviderRequestModel =
        {<<"table", "reservation_provider_requests", "">>,
         <<"key", "reservation_provider_requests", "reservation_code">>,
         <<"key", "reservation_provider_requests", "provider_code">>,
         <<"foreign_key", "reservation_provider_requests", "reservation_code">>}
  <2>1. {} \cup {"reservation_code", "provider_code"} = {"reservation_code", "provider_code"}
    OBVIOUS
  <2>2. /\ {"unique"} \X {"reservation_provider_requests"} \X {} = {}
        /\ {"key"} \X {"reservation_provider_requests"} \X {"reservation_code", "provider_code"} =
               {<<"key", "reservation_provider_requests", "reservation_code">>,
                <<"key", "reservation_provider_requests", "provider_code">>}
        /\ {"foreign_key"} \X {"reservation_provider_requests"} \X {"reservation_code"} =
               {<<"foreign_key", "reservation_provider_requests", "reservation_code">>}
    OBVIOUS
  <2> QED
    BY <2>1, <2>2 DEF Model, ReservationProviderRequestModel
<1>7. RentalAddonModel =
        {<<"table", "rental_addons", "">>, <<"unique", "rental_addons", "code">>,
         <<"key", "rental_addons", "code">>}
  <2>1. {"code"} \cup {} = {"code"}
    OBVIOUS
  <2>2. /\ {"unique"} \X {"rental_addons"} \X {"code"} =
               {<<"unique", "rental_addons", "code">>}
        /\ {"key"} \X {"rental_addons"} \X {"code"} = {<<"key", "rental_addons", "code">>}
        /\ {"foreign_key"} \X {"rental_addons"} \X {} = {}
    OBVIOUS
  <2> QED
    BY <2>1, <2>2 DEF Model, RentalAddonModel
<1>8. ReservationAddonModel =
        {<<"table", "reservation_addons", "">>,
         <<"key", "reservation_addons", "reservation_code">>,
         <<"key", "reservation_addons", "addon_code">>}
  <2>1. {} \cup {"reservation_code", "addon_code"} = {"reservation_code", "addon_code"}
    OBVIOUS
  <2>2. /\ {"unique"} \X {"reservation_addons"} \X {} = {}
        /\ {"key"} \X {"reservation_addons"} \X {"reservation_code", "addon_code"} =
               {<<"key", "reservation_addons", "reservation_code">>,
                <<"key", "reservation_addons", "addon_code">>}
        /\ {"foreign_key"} \X {"reservation_addons"} \X {} = {}
    OBVIOUS
  <2> QED
    BY <2>1, <2>2 DEF Model, ReservationAddonModel
<1>9. ProviderOutboxEventModel =
        {<<"table", "provider_outbox_events", "">>,
         <<"key", "provider_outbox_events", "aggregate_id">>,
         <<"key", "provider_outbox_events", "status">>,
         <<"key", "provider_outbox_events", "created_at">>}
  <2>1. {} \cup {"aggregate_id", "status", "created_at"} = {"aggregate_id", "status", "created_at"}
    OBVIOUS
  <2>2. /\ {"unique"} \X {"provider_outbox_events"} \X {} = {}
        /\ {"key"} \X {"provider_outbox_events"} \X {"aggregate_id", "status", "created_at"} =
               {<<"key", "provider_outbox_events", "aggregate_id">>,
                <<"key", "provider_outbox_events", "status">>,
                <<"key", "provider_outbox_events", "created_at">>}
        /\ {"foreign_key"} \X {"provider_outbox_events"} \X {} = {}
    OBVIOUS
  <2> QED
    BY <2>1, <2>2 DEF Model, ProviderOutboxEventModel
<1>10. Models = SupplierModel \cup OfficeModel \cup ReservationModel \cup ReservationContactModel
                \cup ReservationStatusHistoryModel \cup ReservationProviderRequestModel
                \cup RentalAddonModel \cup ReservationAddonModel \cup ProviderOutboxEventModel
  BY DEF Models
<1> QED
  BY <1>1, <1>2, <1>3, <1>4, <1>5, <1>6, <1>7, <1>8, <1>9, <1>10, TablesListed, UniquesListed,
     ReferencesListed, KeysListed

\* A fact of these sets, taken apart.
LEMMA OnTriple ==
  ASSUME NEW columns, \A p \in columns : p = <<p[1], p[2]>>, NEW k,
         NEW kind, NEW t, NEW c
  PROVE  <<kind, t, c>> \in On(k, columns) <=> kind = k /\ <<t, c>> \in columns
<1>1. \A p \in columns : <<kind, t, c>> = <<k, p[1], p[2]>> => kind = k /\ <<t, c>> = p
  OBVIOUS
<1>2. <<t, c>>[1] = t /\ <<t, c>>[2] = c
  OBVIOUS
<1> QED
  BY <1>1, <1>2 DEF On

\* Whether a fact is in one of the listed sets depends on its kind and its column.
LEMMA Columns ==
  ASSUME NEW k, NEW kind, NEW t, NEW c
  PROVE  /\ <<kind, t, c>> \in On(k, Uniques) <=> kind = k /\ <<t, c>> \in Uniques
         /\ <<kind, t, c>> \in On(k, References) <=> kind = k /\ <<t, c>> \in References
         /\ <<kind, t, c>> \in On(k, UniqueIndexes) <=> kind = k /\ <<t, c>> \in UniqueIndexes
         /\ <<kind, t, c>> \in On(k, Indexes) <=> kind = k /\ <<t, c>> \in Indexes
         /\ <<kind, t, c>> \in On(k, Keys) <=> kind = k /\ <<t, c>> \in Keys
         /\ <<kind, t, c>> \in OfTables <=> kind = "table" /\ t \in Tables /\ c = ""
<1>1. \A p \in Uniques : p = <<p[1], p[2]>>
  BY DEF Uniques
<1>2. \A p \in References : p = <<p[1], p[2]>>
  BY DEF References
<1>3. \A p \in UniqueIndexes : p = <<p[1], p[2]>>
  BY DEF UniqueIndexes
<1>4. \A p \in Indexes : p = <<p[1], p[2]>>
  BY DEF Indexes
<1>5. \A p \in Keys : p = <<p[1], p[2]>>
  BY DEF Keys
<1>6. <<kind, t, c>> \in OfTables <=> kind = "table" /\ t \in Tables /\ c = ""
  BY DEF OfTables
<1> QED
  BY <1>1, <1>2, <1>3, <1>4, <1>5, <1>6, OnTriple, Zenon

\* The schema at head is the models', as far as the ORM would see it.
LEMMA SeenAtHead ==
  ASSUME schema = SchemaAt(2)
  PROVE  Seen = Models
<1>1. ASSUME NEW t, NEW c
      PROVE  /\ Has("unique", t, c) <=> <<t, c>> \in Uniques
             /\ Has("unique_index", t, c) <=> <<t, c>> \in UniqueIndexes
             /\ Has("index", t, c) <=> <<t, c>> \in Indexes
  <2>1. \A f : f \in schema <=> \/ f \in OfTables
                                \/ f \in On("unique", Uniques)
                                \/ f \in On("foreign_key", References)
                                \/ f \in On("unique_index", UniqueIndexes)
                                \/ f \in On("index", Indexes)
    BY HeadSchema
  <2>2. <<"unique", t, c>> \in schema <=> <<t, c>> \in Uniques
    <3>1. /\ <<"unique", t, c>> \notin OfTables
          /\ <<"unique", t, c>> \in On("unique", Uniques) <=> <<t, c>> \in Uniques
          /\ <<"unique", t, c>> \notin On("foreign_key", References)
          /\ <<"unique", t, c>> \notin On("unique_index", UniqueIndexes)
          /\ <<"unique", t, c>> \notin On("index", Indexes)
      BY Columns
    <3> QED
      BY <2>1, <3>1
  <2>3. <<"unique_index", t, c>> \in schema <=> <<t, c>> \in UniqueIndexes
    <3>1. /\ <<"unique_index", t, c>> \notin OfTables
          /\ <<"unique_index", t, c>> \notin On("unique", Uniques)
          /\ <<"unique_index", t, c>> \notin On("foreign_key", References)
          /\ <<"unique_index", t, c>> \in On("unique_index", UniqueIndexes) <=> <<t, c>> \in UniqueIndexes
          /\ <<"unique_index", t, c>> \notin On("index", Indexes)
      BY Columns
    <3> QED
      BY <2>1, <3>1
  <2>4. <<"index", t, c>> \in schema <=> <<t, c>> \in Indexes
    <3>1. /\ <<"index", t, c>> \notin OfTables
          /\ <<"index", t, c>> \notin On("unique", Uniques)
          /\ <<"index", t, c>> \notin On("foreign_key", References)
          /\ <<"index", t, c>> \notin On("unique_index", UniqueIndexes)
          /\ <<"index", t, c>> \in On("index", Indexes) <=> <<t, c>> \in Indexes
      BY Columns
    <3> QED
      BY <2>1, <3>1
  <2> QED
    BY <2>2, <2>3, <2>4 DEF Has
<1>2. \A t, c : UniqueOn(t, c) <=> <<t, c>> \in Uniques
  <2>1. UniqueIndexes \subseteq Uniques
    BY DEF UniqueIndexes, Uniques
  <2> QED
    BY <1>1, <2>1 DEF UniqueOn
<1>3. \A t, c : KeyOn(t, c) <=> <<t, c>> \in Keys
  BY <1>1, KeysAre DEF KeyOn
<1>4. {f \in schema : f[1] \in {"table", "foreign_key"}} = OfTables \cup On("foreign_key", References)
  <2>1. \A f \in OfTables : f[1] = "table"
    <3>1. \A t : <<"table", t, "">>[1] = "table"
      OBVIOUS
    <3> QED
      BY <3>1 DEF OfTables
  <2>2. \A k, columns : \A f \in On(k, columns) : f[1] = k
    BY DEF On
  <2> QED
    BY <2>1, <2>2, HeadSchema
<1>5. {<<"unique", f[2], f[3]>> : f \in {g \in schema : UniqueOn(g[2], g[3])}} = On("unique", Uniques)
  <2>1. ASSUME NEW f \in schema, UniqueOn(f[2], f[3])
        PROVE  <<"unique", f[2], f[3]>> \in On("unique", Uniques)
    <3>1. <<f[2], f[3]>> \in Uniques
      BY <1>2, <2>1
    <3> QED
      BY <3>1 DEF On
  <2>2. ASSUME NEW h \in On("unique", Uniques)
        PROVE  h \in schema /\ UniqueOn(h[2], h[3]) /\ h = <<"unique", h[2], h[3]>>
    <3>1. PICK p \in Uniques : h = <<"unique", p[1], p[2]>>
      BY DEF On
    <3>2. p = <<p[1], p[2]>>
      BY DEF Uniques
    <3>3. h[2] = p[1] /\ h[3] = p[2]
      BY <3>1
    <3>4. UniqueOn(h[2], h[3])
      BY <1>2, <3>2, <3>3
    <3>5. h \in schema
      BY HeadSchema
    <3> QED
      BY <3>1, <3>3, <3>4, <3>5
  <2> QED
    BY <2>1, <2>2
<1>6. {<<"key", f[2], f[3]>> : f \in {g \in schema : KeyOn(g[2], g[3])}} = On("key", Keys)
  <2>1. ASSUME NEW f \in schema, KeyOn(f[2], f[3])
        PROVE  <<"key", f[2], f[3]>> \in On("key", Keys)
    <3>1. <<f[2], f[3]>> \in Keys
      BY <1>3, <2>1
    <3> QED
      BY <3>1 DEF On
  <2>2. ASSUME NEW h \in On("key", Keys)
        PROVE  \E f \in schema : KeyOn(f[2], f[3]) /\ h = <<"key", f[2], f[3]>>
    <3>1. PICK p \in Keys : h = <<"key", p[1], p[2]>>
      BY DEF On
    <3>2. p = <<p[1], p[2]>>
      BY DEF Keys
    <3>3. KeyOn(p[1], p[2])
      BY <1>3, <3>2
    <3>4. PICK k \in {"unique", "index"} : <<k, p[1], p[2]>> \in schema
      BY <3>3 DEF KeyOn, Has
    <3>5. <<k, p[1], p[2]>>[2] = p[1] /\ <<k, p[1], p[2]>>[3] = p[2]
      OBVIOUS
    <3> QED
      BY <3>1, <3>3, <3>4, <3>5
  <2> QED
    BY <2>1, <2>2
<1> QED
  BY <1>4, <1>5, <1>6, HeadModels DEF Seen

\* A database at head that nobody has begun to downgrade is what the ORM models
\* declare, with the seeds of the catalog, whatever it took to get there.
THEOREM HeadMatchesModels == Spec => []HeadIsTheModels
<1>1. HeadInv => HeadIsTheModels
  <2> SUFFICES ASSUME HeadInv, version = 2, downgrades = 0
               PROVE  Seen = Models /\ seed = "committed"
    BY DEF HeadIsTheModels, Latest
  <2>1. MigrationInv /\ job.direction # "downgrade" /\ ~TornDowngrade /\ seed = "committed"
    BY DEF HeadInv, JobRuns, SeedFits
  <2>2. job = Idle
    BY <2>1, Running
  <2>3. ~Stuck
    <3>1. ~TornUp(1, "suppliers") /\ ~TornUp(2, "rental_addons")
      BY DEF TornUp
    <3> QED
      BY <2>1, <3>1 DEF Stuck
  <2>4. schema = SchemaAt(2)
    BY <2>2, <2>3 DEF HeadInv, Expected, Idle
  <2> QED
    BY <2>1, <2>4, SeenAtHead
<1> QED
  BY <1>1, HeadCorrect, PTL
=============================================================================
