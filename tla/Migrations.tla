------------------------------ MODULE Migrations ------------------------------
(***************************************************************************)
(* The Alembic migrations of the database, run against MySQL 8.0 while     *)
(* the API is being served.                                                *)
(*                                                                         *)
(* MySQL commits every DDL statement at once, so a revision is no          *)
(* transaction: a crash leaves the statements executed so far, with the    *)
(* version of the revision before.  Nothing in docker-compose.yml or the   *)
(* deployment makes the API wait for the migrations; it meets every        *)
(* intermediate schema.                                                    *)
(*                                                                         *)
(* The schema is a set of facts <<kind, table, column>>; column types are  *)
(* left out.  Every index of the revisions is on one column and has the    *)
(* name ix_<table>_<column>.                                               *)
(***************************************************************************)
EXTENDS Naturals, Sequences, FiniteSets

CONSTANTS
  Codes,          \* reservation codes clients may be given
  MaxCrashes,     \* bound on crashes of a migration
  MaxDowngrades   \* bound on downgrade commands

ASSUME MigrationsAssumption == MaxCrashes \in Nat /\ MaxDowngrades \in Nat

-----------------------------------------------------------------------------
(* Statements *)

CreateTable(table, unique, references) ==
  [op |-> "create_table", table |-> table, column |-> "",
   facts |-> {<<"table", table, "">>}
             \cup ({"unique"} \X {table} \X unique)
             \cup ({"foreign_key"} \X {table} \X references)]

CreateIndex(table, column, kinds) ==
  [op |-> "create_index", table |-> table, column |-> column,
   facts |-> kinds \X {table} \X {column}]

Plain == {"index"}
Unique == {"index", "unique_index"}

Insert(table) == [op |-> "insert", table |-> table, column |-> "", facts |-> {}]
DropIndex(table, column) == [op |-> "drop_index", table |-> table, column |-> column, facts |-> {}]
DropTable(table) == [op |-> "drop_table", table |-> table, column |-> "", facts |-> {}]

\* The column a foreign key of this schema refers to, by the column it is on.
Parent == [supplier_code |-> <<"suppliers", "code">>,
           reservation_code |-> <<"reservations", "reservation_code">>]

CreateSuppliers == CreateTable("suppliers", {"code"}, {})
CreateOffices == CreateTable("offices", {"office_code"}, {"supplier_code"})
CreateReservations == CreateTable("reservations", {"reservation_code"}, {})
CreateContacts ==
  CreateTable("reservation_contacts", {"reservation_code"}, {"reservation_code"})
CreateStatusHistory == CreateTable("reservation_status_history", {}, {"reservation_code"})
CreateProviderRequests == CreateTable("reservation_provider_requests", {}, {"reservation_code"})
CreateOutboxEvents == CreateTable("provider_outbox_events", {}, {})
CreateRentalAddons == CreateTable("rental_addons", {"code"}, {})
CreateReservationAddons == CreateTable("reservation_addons", {}, {})

\* Mutants (the rest of the script is left out): the unique index is created last
\* and is all there is; a table is created before the one it refers to.
MutUniqueLast == <<
  CreateTable("reservations", {}, {}), CreateOutboxEvents,
  CreateIndex("reservations", "reservation_code", Unique) >>
MutOfficesFirst == << CreateOffices, CreateSuppliers >>

InitialSchema == <<
  CreateSuppliers,
  CreateIndex("suppliers", "code", Unique),
  CreateOffices,
  CreateIndex("offices", "supplier_code", Plain),
  CreateIndex("offices", "office_code", Unique),
  CreateReservations,
  CreateIndex("reservations", "reservation_code", Unique),
  CreateContacts,
  CreateIndex("reservation_contacts", "reservation_code", Unique),
  CreateStatusHistory,
  CreateIndex("reservation_status_history", "reservation_code", Plain),
  CreateProviderRequests,
  CreateIndex("reservation_provider_requests", "reservation_code", Plain),
  CreateIndex("reservation_provider_requests", "provider_code", Plain),
  CreateOutboxEvents,
  CreateIndex("provider_outbox_events", "aggregate_id", Plain),
  CreateIndex("provider_outbox_events", "status", Plain),
  CreateIndex("provider_outbox_events", "created_at", Plain) >>

DropInitialSchema == <<
  DropIndex("provider_outbox_events", "created_at"),
  DropIndex("provider_outbox_events", "status"),
  DropIndex("provider_outbox_events", "aggregate_id"),
  DropTable("provider_outbox_events"),
  DropIndex("reservation_provider_requests", "provider_code"),
  DropIndex("reservation_provider_requests", "reservation_code"),
  DropTable("reservation_provider_requests"),
  DropIndex("reservation_status_history", "reservation_code"),
  DropTable("reservation_status_history"),
  DropIndex("reservation_contacts", "reservation_code"),
  DropTable("reservation_contacts"),
  DropIndex("reservations", "reservation_code"),
  DropTable("reservations"),
  DropIndex("offices", "office_code"),
  DropIndex("offices", "supplier_code"),
  DropTable("offices"),
  DropIndex("suppliers", "code"),
  DropTable("suppliers") >>

\* Mutant: an index of the model is missing.
MutRentalAddons == <<
  CreateRentalAddons,
  Insert("rental_addons"),
  CreateReservationAddons,
  CreateIndex("reservation_addons", "reservation_code", Plain) >>

RentalAddons == <<
  CreateRentalAddons,
  Insert("rental_addons"),
  CreateReservationAddons,
  CreateIndex("reservation_addons", "reservation_code", Plain),
  CreateIndex("reservation_addons", "addon_code", Plain) >>

DropRentalAddons == <<
  DropIndex("reservation_addons", "addon_code"),
  DropIndex("reservation_addons", "reservation_code"),
  DropTable("reservation_addons"),
  DropTable("rental_addons") >>

Latest == 2
UpgradeTo == <<InitialSchema, RentalAddons>>
DowngradeFrom == <<DropInitialSchema, DropRentalAddons>>

Statements(script) == {script[i] : i \in DOMAIN script}

\* What the database holds when the first v revisions have been applied.
SchemaAt(v) == UNION {s.facts : s \in UNION {Statements(UpgradeTo[r]) : r \in 1..v}}

-----------------------------------------------------------------------------
(* The tables as the ORM models declare them *)

Model(table, unique, indexed, references) ==
  {<<"table", table, "">>} \cup ({"unique"} \X {table} \X unique)
  \cup ({"key"} \X {table} \X (unique \cup indexed))
  \cup ({"foreign_key"} \X {table} \X references)

SupplierModel == Model("suppliers", {"code"}, {"code"}, {})
OfficeModel ==
  Model("offices", {"office_code"}, {"supplier_code", "office_code"}, {"supplier_code"})
ReservationModel == Model("reservations", {"reservation_code"}, {"reservation_code"}, {})
ReservationContactModel ==
  Model("reservation_contacts", {"reservation_code"}, {"reservation_code"}, {"reservation_code"})
ReservationStatusHistoryModel ==
  Model("reservation_status_history", {}, {"reservation_code"}, {"reservation_code"})
ReservationProviderRequestModel ==
  Model("reservation_provider_requests", {}, {"reservation_code", "provider_code"},
        {"reservation_code"})
RentalAddonModel == Model("rental_addons", {"code"}, {}, {})
ReservationAddonModel == Model("reservation_addons", {}, {"reservation_code", "addon_code"}, {})
ProviderOutboxEventModel ==
  Model("provider_outbox_events", {}, {"aggregate_id", "status", "created_at"}, {})

Models == UNION {SupplierModel, OfficeModel, ReservationModel, ReservationContactModel,
                 ReservationStatusHistoryModel, ReservationProviderRequestModel,
                 RentalAddonModel, ReservationAddonModel, ProviderOutboxEventModel}

-----------------------------------------------------------------------------
VARIABLES
  schema,      \* what the tables are
  version,     \* alembic_version: how many revisions are applied
  job,         \* the running alembic command, or Idle
  seed,        \* seed rows of rental_addons: "none", "open" or "committed"
  rows,        \* reservations: code -> number of rows
  outboxed,    \* codes with rows in provider_outbox_events
  crashes,     \* crashes so far
  downgrades   \* downgrade commands so far

data == <<rows, outboxed>>
vars == <<schema, version, job, seed, rows, outboxed, crashes, downgrades>>

\* A command is at a statement of a revision, in one direction; no revision
\* has more than 18 statements.
Job == [direction : {"upgrade", "downgrade"}, revision : 1..Latest, pos : 1..19]
Idle == [direction |-> "none", revision |-> 0, pos |-> 0]
Start(direction, revision) == [direction |-> direction, revision |-> revision, pos |-> 1]

Init ==
  /\ schema = {}
  /\ version = 0
  /\ job = Idle
  /\ seed = "none"
  /\ rows = [c \in Codes |-> 0]
  /\ outboxed = {}
  /\ crashes = 0
  /\ downgrades = 0

-----------------------------------------------------------------------------
(* MySQL *)

Has(kind, table, column) == <<kind, table, column>> \in schema
HasTable(table) == Has("table", table, "")
UniqueOn(table, column) == Has("unique", table, column) \/ Has("unique_index", table, column)
KeyOn(table, column) == Has("unique", table, column) \/ Has("index", table, column)

ForeignKeys == {f \in schema : f[1] = "foreign_key"}

\* Either end of a foreign key has to have an index.  The one MySQL makes for
\* the referring end by itself is gone once create_index adds another.
Needed(table, column) ==
  Has("foreign_key", table, column) \/ \E f \in ForeignKeys : Parent[f[3]] = <<table, column>>

\* Mutant: tables are created IF NOT EXISTS.
MutMayCreateTable(s) ==
  \A f \in s.facts : f[1] = "foreign_key" => KeyOn(Parent[f[3]][1], Parent[f[3]][2])

MayCreateTable(s) ==
  /\ ~HasTable(s.table)
  /\ \A f \in s.facts : f[1] = "foreign_key" => KeyOn(Parent[f[3]][1], Parent[f[3]][2])

MayCreateIndex(s) ==
  /\ HasTable(s.table)
  /\ ~Has("index", s.table, s.column)
  /\ s.table = "reservations" => \A c \in Codes : rows[c] <= 1

MayDropIndex(s) ==
  /\ Has("index", s.table, s.column)
  /\ Needed(s.table, s.column) => Has("unique", s.table, s.column)

MayDropTable(s) ==
  /\ HasTable(s.table)
  /\ \A f \in ForeignKeys : Parent[f[3]][1] # s.table

\* Does the statement succeed?
Accepts(s) ==
  CASE s.op = "create_table" -> MayCreateTable(s)
    [] s.op = "create_index" -> MayCreateIndex(s)
    [] s.op = "insert"       -> HasTable(s.table)
    [] s.op = "drop_index"   -> MayDropIndex(s)
    [] s.op = "drop_table"   -> MayDropTable(s)

\* What a DROP takes with it.
Removes(s, f) ==
  \/ s.op = "drop_index" /\ f \in {"index", "unique_index"} \X {s.table} \X {s.column}
  \/ s.op = "drop_table" /\ f[2] = s.table

\* What a statement does to the schema, and to the rows.
Alter(s) == schema' = {f \in schema : ~Removes(s, f)} \cup s.facts

Purge(s) ==
  /\ rows' = IF s.op = "drop_table" /\ s.table = "reservations" THEN [c \in Codes |-> 0] ELSE rows
  /\ outboxed' = IF s.op = "drop_table" /\ s.table = "provider_outbox_events" THEN {} ELSE outboxed

\* The INSERT is the one statement that needs a commit: that of the next DDL
\* statement, or of the version.
WriteSeed(s) ==
  seed' = CASE s.op = "insert" -> "open"
            [] s.op = "drop_table" /\ s.table = "rental_addons" -> "none"
            [] OTHER -> IF seed = "open" THEN "committed" ELSE seed

Rollback == seed' = IF seed = "open" THEN "none" ELSE seed

-----------------------------------------------------------------------------
(* Alembic *)

Script ==
  IF job.direction = "upgrade" THEN UpgradeTo[job.revision] ELSE DowngradeFrom[job.revision]

\* alembic upgrade head
Upgrade ==
  /\ job = Idle
  /\ version < Latest
  /\ job' = Start("upgrade", version + 1)
  /\ UNCHANGED <<schema, version, seed, data, crashes, downgrades>>

\* alembic downgrade
Downgrade ==
  /\ job = Idle
  /\ version > 0
  /\ downgrades < MaxDowngrades
  /\ downgrades' = downgrades + 1
  /\ job' = Start("downgrade", version)
  /\ UNCHANGED <<schema, version, seed, data, crashes>>

Execute ==
  /\ job # Idle
  /\ job.pos <= Len(Script)
  /\ Accepts(Script[job.pos])
  /\ Alter(Script[job.pos])
  /\ Purge(Script[job.pos])
  /\ WriteSeed(Script[job.pos])
  /\ job' = [job EXCEPT !.pos = @ + 1]
  /\ UNCHANGED <<version, crashes, downgrades>>

\* A statement that MySQL refuses ends the command.
Fail ==
  /\ job # Idle
  /\ job.pos <= Len(Script)
  /\ ~Accepts(Script[job.pos])
  /\ job' = Idle
  /\ Rollback
  /\ UNCHANGED <<schema, version, data, crashes, downgrades>>

\* The version is written and committed behind the last statement; the command
\* goes on with the next revision.  A downgrade has the target it was given.
Stamp ==
  /\ job # Idle
  /\ job.pos > Len(Script)
  /\ seed' = IF seed = "open" THEN "committed" ELSE seed
  /\ \/ /\ job.direction = "upgrade"
        /\ version' = job.revision
        /\ job' = IF job.revision < Latest THEN Start("upgrade", job.revision + 1) ELSE Idle
     \/ /\ job.direction = "downgrade"
        /\ version' = job.revision - 1
        /\ \/ job' = Idle
           \/ job.revision > 1 /\ job' = Start("downgrade", job.revision - 1)
  /\ UNCHANGED <<schema, data, crashes, downgrades>>

\* The migration, or its connection to the database, dies.
Crash ==
  /\ job # Idle
  /\ crashes < MaxCrashes
  /\ crashes' = crashes + 1
  /\ job' = Idle
  /\ Rollback
  /\ UNCHANGED <<schema, version, data, downgrades>>

-----------------------------------------------------------------------------
(* The API *)

\* Mutant: the reservation is committed before its events.
MutSaveReservation(c) ==
  /\ HasTable("reservations")
  /\ rows[c] = 0 \/ ~UniqueOn("reservations", "reservation_code")
  /\ rows[c] < 2
  /\ rows' = [rows EXCEPT ![c] = @ + 1]
  /\ outboxed' = IF HasTable("provider_outbox_events") THEN outboxed \cup {c} ELSE outboxed
  /\ UNCHANGED <<schema, version, job, seed, crashes, downgrades>>

\* A request that has drawn c commits a reservation with its events, unless a
\* table is missing or c is taken; else it saves nothing and answers 500.  A
\* code found free may be taken by now, so c is any code.
SaveReservation(c) ==
  /\ HasTable("reservations")
  /\ HasTable("provider_outbox_events")
  /\ rows[c] = 0 \/ ~UniqueOn("reservations", "reservation_code")
  /\ rows[c] < 2
  /\ rows' = [rows EXCEPT ![c] = @ + 1]
  /\ outboxed' = outboxed \cup {c}
  /\ UNCHANGED <<schema, version, job, seed, crashes, downgrades>>

Alembic == Execute \/ Fail \/ Stamp

Next == \/ Upgrade \/ Downgrade \/ Alembic \/ Crash
        \/ \E c \in Codes : SaveReservation(c)

Spec == Init /\ [][Next]_vars

\* A command, once started, runs on; MySQL answers.
FairSpec == Spec /\ WF_vars(Alembic)

-----------------------------------------------------------------------------
(* Properties *)

TypeOK ==
  /\ version \in 0..Latest
  /\ job \in Job \cup {Idle}
  /\ seed \in {"none", "open", "committed"}
  /\ rows \in [Codes -> 0..2]
  /\ outboxed \subseteq Codes
  /\ crashes \in 0..MaxCrashes
  /\ downgrades \in 0..MaxDowngrades

\* From its first statement to its last, and whatever crashes, no schema the
\* API meets lets it save two reservations with one code: the constraint is
\* part of CREATE TABLE, and the outbox, without which nothing is saved, comes
\* after the index that would have enforced it.
CodesAreUnique == \A c \in Codes : rows[c] <= 1

\* As long as there is an outbox, every reservation has its events in it: none
\* is saved before the outbox is there, and no outbox is made anew, empty, for
\* reservations that outlived the one before.
SavedWithEvents ==
  HasTable("provider_outbox_events") => outboxed = {c \in Codes : rows[c] > 0}

\* What the ORM would see of the schema.
Seen ==
  {f \in schema : f[1] \in {"table", "foreign_key"}}
  \cup {<<"unique", f[2], f[3]>> : f \in {g \in schema : UniqueOn(g[2], g[3])}}
  \cup {<<"key", f[2], f[3]>> : f \in {g \in schema : KeyOn(g[2], g[3])}}

\* A database at head that nobody has begun to downgrade has the tables, keys,
\* uniqueness and references of the ORM models and the seeds of the catalog,
\* however many attempts it took to get there.
HeadIsTheModels ==
  version = Latest /\ downgrades = 0 => Seen = Models /\ seed = "committed"

Torn == job = Idle /\ schema # SchemaAt(version)

\* A schema that a crash or a refused statement has torn is never mended by
\* alembic: a command either fails at a statement whose effect is there, or
\* gone, already, or puts the next revision on top of the torn one.
TornForGood == [](Torn => [](job = Idle => Torn))

\* Statement by statement MySQL accepts the upgrade: one that no crash or
\* downgrade has disturbed gets to head.
UpgradeReachesHead ==
  job.direction = "upgrade" ~> version = Latest \/ crashes > 0 \/ downgrades > 0

-----------------------------------------------------------------------------
(* What makes them inductive *)

\* The table of reservations has its constraint from the start and for good.
UniqueKept == HasTable("reservations") => Has("unique", "reservations", "reservation_code")

\* The requests to providers have a foreign key on a column whose only index
\* is the one the downgrade drops first.
ReferenceKept ==
  /\ HasTable("reservation_provider_requests") =>
       Has("foreign_key", "reservation_provider_requests", "reservation_code")
  /\ Has("index", "reservation_provider_requests", "reservation_code") =>
       HasTable("reservation_provider_requests")
  /\ ~Has("unique", "reservation_provider_requests", "reservation_code")

\* A command works from the version; that of the first revision's downgrade
\* does not get past its sixth statement.
JobFits ==
  /\ job.direction = "upgrade" => job.revision = version + 1
  /\ job.direction = "downgrade" => job.revision = version
  /\ job.direction = "downgrade" /\ job.revision = 1 => job.pos <= 6

\* Without an outbox there are no events, and before there was one no reservations.
NoOutboxNoEvents ==
  ~HasTable("provider_outbox_events") =>
    outboxed = {} /\ (version = 0 => \A c \in Codes : rows[c] = 0)

MigrationInv ==
  /\ TypeOK /\ UniqueKept /\ CodesAreUnique /\ ReferenceKept /\ JobFits
  /\ NoOutboxNoEvents /\ SavedWithEvents

FactsOf(script, n) == UNION {script[i].facts : i \in 1..n}

\* What the database holds when nothing has torn it and a command may be on its way.
Expected ==
  CASE job.direction = "upgrade" ->
         SchemaAt(job.revision - 1) \cup FactsOf(UpgradeTo[job.revision], job.pos - 1)
    [] job.direction = "downgrade" ->
         {f \in SchemaAt(job.revision) :
            \A i \in 1..job.pos - 1 : ~Removes(DowngradeFrom[job.revision][i], f)}
    [] OTHER -> SchemaAt(version)

\* A command is past the first statement of revision r.
Past(direction, r) == job.direction = direction /\ job.revision = r /\ job.pos > 1

\* The effect of a script's first statement is there and its version is not, and
\* no command is about to put that right: the one that would begins with that
\* statement, and MySQL refuses it.
TornUp(r, table) == version = r - 1 /\ HasTable(table) /\ ~Past("upgrade", r)
TornDown(r, table, column) ==
  version >= r /\ ~Has("index", table, column) /\ ~Past("downgrade", r)

TornDowngrade ==
  \/ TornDown(1, "provider_outbox_events", "created_at")
  \/ TornDown(2, "reservation_addons", "addon_code")

Stuck == TornUp(1, "suppliers") \/ TornUp(2, "rental_addons") \/ TornDowngrade

\* Where a command can be, and that only a downgrade tears what is at head.
JobRuns ==
  /\ job # Idle => job.pos <= Len(Script) + 1
  /\ downgrades = 0 => job.direction # "downgrade" /\ ~TornDowngrade

\* The seeds are open behind the statement that writes them, and committed by
\* the next one.
SeedFits ==
  /\ job.direction = "upgrade" /\ job.revision = 2 =>
       /\ job.pos = 3 => seed = "open"
       /\ job.pos > 3 => seed = "committed"
  /\ version = 2 /\ downgrades = 0 => seed = "committed"

\* The schema is the one the command's position tells, or it is torn for good.
HeadInv == MigrationInv /\ (Stuck \/ schema = Expected) /\ JobRuns /\ SeedFits
=============================================================================
