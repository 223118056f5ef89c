-------------------------- MODULE CreateReservation --------------------------
(***************************************************************************)
(* POST /reservations: concurrent executions of CreateReservationUseCase   *)
(* on one MySQL database.                                                  *)
(*                                                                         *)
(* A request draws a code and looks whether a reservation has it (a read   *)
(* of its own), validates its payload, looks its add-ons up in the catalog *)
(* (another read) and saves reservation, add-ons and outbox events in one  *)
(* transaction.  Codes are compared by the database, which ignores case:   *)
(* a member of Codes stands for a code up to case.                         *)
(***************************************************************************)
EXTENDS Naturals, FiniteSets

CONSTANTS
  Requests,      \* requests to the endpoint
  RetryOf,       \* request -> the request it retries, or NoRequest
  NoRequest,
  Codes,         \* reservation codes, up to case
  NoCode,
  Addons,        \* add-on codes of the catalog
  Readable,      \* add-ons whose row the ORM can load
  CatalogWired,  \* is the use case built with the add-on catalog?
  MaxDraws,      \* max_retries of the code generator
  MaxDbErrors,   \* bound on database errors
  MaxCrashes     \* bound on requests cut short by a crash of the API process

ASSUME CreateAssumption ==
  /\ NoRequest \notin Requests
  /\ NoCode \notin Codes
  /\ RetryOf \in [Requests -> Requests \cup {NoRequest}]
  /\ Readable \subseteq Addons
  /\ CatalogWired \in BOOLEAN
  /\ MaxDraws \in Nat \ {0}
  /\ MaxDbErrors \in Nat
  /\ MaxCrashes \in Nat

EventTypes == {"PAYMENT_REQUESTED", "BOOKING_REQUESTED"}

VARIABLES
  owner,       \* reservations: code -> request that saved it, or NoRequest
  addonRows,   \* reservation_addons: pairs <<code, add-on>>
  events,      \* provider_outbox_events: pairs <<code, event type>>
  active,      \* add-ons of the catalog that are active
  pc,          \* request -> the step it takes next
  wanted,      \* request -> add-ons it asks for
  clean,       \* requests whose payload passes sanitization and PCI rules
  code,        \* request -> code it has drawn
  draws,       \* request -> draws that collided
  reply,       \* request -> status of its HTTP response
  dbErrors,    \* database errors so far
  crashes      \* crashes so far

tables == <<owner, addonRows, events>>
input == <<wanted, clean>>
faults == <<dbErrors, crashes>>
vars == <<owner, addonRows, events, active, pc, wanted, clean, code, draws, reply,
          dbErrors, crashes>>

\* insert: about to insert the reservation row;  commit: row, add-ons and
\* events are inserted in a transaction still open.
PCs == {"generate", "validate", "addons", "insert", "commit", "done"}
Replies == {"none", "201", "400", "500", "lost"}

TypeOK ==
  /\ owner \in [Codes -> Requests \cup {NoRequest}]
  /\ addonRows \subseteq Codes \X Addons
  /\ events \subseteq Codes \X EventTypes
  /\ active \subseteq Addons
  /\ pc \in [Requests -> PCs]
  /\ wanted \in [Requests -> SUBSET Addons]
  /\ clean \subseteq Requests
  /\ code \in [Requests -> Codes \cup {NoCode}]
  /\ draws \in [Requests -> 0..MaxDraws]
  /\ reply \in [Requests -> Replies]
  /\ dbErrors \in 0..MaxDbErrors
  /\ crashes \in 0..MaxCrashes

Init ==
  /\ owner = [c \in Codes |-> NoRequest]
  /\ addonRows = {}
  /\ events = {}
  /\ active \in SUBSET Addons
  /\ pc = [r \in Requests |-> "generate"]
  /\ wanted \in [Requests -> SUBSET Addons]
  /\ clean \in SUBSET Requests
  /\ \A r \in Requests : RetryOf[r] # NoRequest =>
       wanted[r] = wanted[RetryOf[r]] /\ (r \in clean <=> RetryOf[r] \in clean)
  /\ code = [r \in Requests |-> NoCode]
  /\ draws = [r \in Requests |-> 0]
  /\ reply = [r \in Requests |-> "none"]
  /\ dbErrors = 0
  /\ crashes = 0

-----------------------------------------------------------------------------
Taken(c) == owner[c] # NoRequest

Answer(r, answer) ==
  /\ pc' = [pc EXCEPT ![r] = "done"]
  /\ reply' = [reply EXCEPT ![r] = answer]

Goto(r, step) ==
  /\ pc' = [pc EXCEPT ![r] = step]
  /\ UNCHANGED reply

\* A client sends its request again when the answer to it is an error of the
\* server or never comes.
Sent(r) ==
  \A q \in Requests : RetryOf[r] = q => reply[q] \in {"500", "lost"}

\* Mutant: the draws are not counted.
MutGenerateForever(r) ==
  /\ pc[r] = "generate"
  /\ Sent(r)
  /\ \E c \in Codes :
       \/ ~Taken(c) /\ code' = [code EXCEPT ![r] = c] /\ Goto(r, "validate")
       \/ Taken(c) /\ UNCHANGED code /\ Goto(r, "generate")
  /\ UNCHANGED <<tables, active, input, draws, faults>>

\* One draw of the generator and its exists_code query.
Generate(r) ==
  /\ pc[r] = "generate"
  /\ Sent(r)
  /\ \E c \in Codes :
       \/ /\ ~Taken(c)
          /\ code' = [code EXCEPT ![r] = c]
          /\ Goto(r, "validate")
          /\ UNCHANGED draws
       \/ /\ Taken(c)
          /\ draws' = [draws EXCEPT ![r] = @ + 1]
          /\ IF draws[r] + 1 < MaxDraws THEN Goto(r, "generate") ELSE Answer(r, "400")
          /\ UNCHANGED code
  /\ UNCHANGED <<tables, active, input, faults>>

\* Mutant: what is wrong with the payload is found and ignored.
MutValidateNothing(r) ==
  /\ pc[r] = "validate"
  /\ Goto(r, "addons")
  /\ UNCHANGED <<tables, active, input, code, draws, faults>>

\* Sanitization and PCI rules raise ValueError: a business error.
Validate(r) ==
  /\ pc[r] = "validate"
  /\ IF r \in clean THEN Goto(r, "addons") ELSE Answer(r, "400")
  /\ UNCHANGED <<tables, active, input, code, draws, faults>>

\* What the use case is told of the catalog: nothing if it was built without.
Catalog == IF CatalogWired THEN active ELSE {}

\* _resolve_addons reads the catalog, in a session of its own.  One row with a
\* category that is not the name of an AddonCategory fails the whole query.
ResolveAddons(r) ==
  /\ pc[r] = "addons"
  /\ \/ /\ wanted[r] \cap Catalog \subseteq Readable
        /\ IF wanted[r] \subseteq Catalog THEN Goto(r, "insert") ELSE Answer(r, "400")
     \/ /\ ~(wanted[r] \cap Catalog \subseteq Readable)
        /\ Answer(r, "500")
  /\ UNCHANGED <<tables, active, input, code, draws, faults>>

\* Mutants: no unique index; an insert that does not wait for an open transaction.
MutInsertAnyway(r) ==
  /\ pc[r] = "insert"
  /\ Goto(r, "commit")
  /\ UNCHANGED <<tables, active, input, code, draws, faults>>
MutInsertNoWait(r) ==
  /\ pc[r] = "insert"
  /\ IF Taken(code[r]) \/ \E q \in Requests : pc[q] = "commit" /\ code[q] = code[r]
     THEN Answer(r, "500") ELSE Goto(r, "commit")
  /\ UNCHANGED <<tables, active, input, code, draws, faults>>

\* The flush of the reservation row.  The unique index makes it wait for an
\* open transaction with the same code and fails it if that one commits.
Insert(r) ==
  /\ pc[r] = "insert"
  /\ \A q \in Requests : pc[q] = "commit" => code[q] # code[r]
  /\ IF Taken(code[r]) THEN Answer(r, "500") ELSE Goto(r, "commit")
  /\ UNCHANGED <<tables, active, input, code, draws, faults>>

\* Mutant: the payment event alone is published.
MutPersistPaymentOnly(r) ==
  /\ owner' = [owner EXCEPT ![code[r]] = r]
  /\ addonRows' = addonRows \cup ({code[r]} \X wanted[r])
  /\ events' = events \cup {<<code[r], "PAYMENT_REQUESTED">>}

\* The transaction commits its three kinds of rows at once.
Persist(r) ==
  /\ owner' = [owner EXCEPT ![code[r]] = r]
  /\ addonRows' = addonRows \cup ({code[r]} \X wanted[r])
  /\ events' = events \cup ({code[r]} \X EventTypes)

Commit(r) ==
  /\ pc[r] = "commit"
  /\ Persist(r)
  /\ Answer(r, "201")
  /\ UNCHANGED <<active, input, code, draws, faults>>

\* What is left of the open transaction of a request that is cut short: it is
\* rolled back, unless its commit has just taken effect.
CutShort(r) == UNCHANGED tables \/ (pc[r] = "commit" /\ Persist(r))

\* Mutant: the save is tried again, under a new code, when its commit fails.
MutDbErrorRetried(r) ==
  /\ dbErrors < MaxDbErrors
  /\ pc[r] = "commit"
  /\ CutShort(r)
  /\ dbErrors' = dbErrors + 1
  /\ Goto(r, "generate")
  /\ UNCHANGED <<active, input, code, draws, crashes>>

\* A database error in any step answers 500.  So does, after a commit that took
\* effect, a lost acknowledgement or an exception of the audit logger, which is
\* called inside the same try.
DbError(r) ==
  /\ dbErrors < MaxDbErrors
  /\ \/ pc[r] = "generate" /\ Sent(r)
     \/ pc[r] = "addons" /\ CatalogWired /\ wanted[r] # {}
     \/ pc[r] \in {"insert", "commit"}
  /\ CutShort(r)
  /\ dbErrors' = dbErrors + 1
  /\ Answer(r, "500")
  /\ UNCHANGED <<active, input, code, draws, crashes>>

\* The API process dies during the request.
Crash(r) ==
  /\ crashes < MaxCrashes
  /\ pc[r] # "done"
  /\ pc[r] = "generate" => Sent(r)
  /\ CutShort(r)
  /\ crashes' = crashes + 1
  /\ Answer(r, "lost")
  /\ UNCHANGED <<active, input, code, draws, dbErrors>>

\* An administrator activates or deactivates an add-on.
ToggleAddon(a) ==
  /\ active' = IF a \in active THEN active \ {a} ELSE active \cup {a}
  /\ UNCHANGED <<tables, pc, input, code, draws, reply, faults>>

Serve(r) == Generate(r) \/ Validate(r) \/ ResolveAddons(r) \/ Insert(r) \/ Commit(r)

Next == \/ \E r \in Requests : Serve(r) \/ DbError(r) \/ Crash(r)
        \/ \E a \in Addons : ToggleAddon(a)

Spec == Init /\ [][Next]_vars

\* The event loop runs every request on, and the database answers.
FairSpec == Spec /\ \A r \in Requests : WF_vars(Serve(r))

-----------------------------------------------------------------------------
(* Properties *)

\* A client that is answered 201 owns the reservation with the code it was
\* given, with its add-ons and both outbox events, from then on.  Since only
\* one request can own a code, no two clients are given the same.
CreatedIsDurable ==
  \A r \in Requests : reply[r] = "201" =>
    /\ owner[code[r]] = r
    /\ {code[r]} \X wanted[r] \subseteq addonRows
    /\ {code[r]} \X EventTypes \subseteq events

\* Nothing is ever saved in part: add-on rows and outbox events are those of
\* committed reservations, which have all of theirs.
NothingPartial ==
  /\ events = {c \in Codes : Taken(c)} \X EventTypes
  /\ \A c \in Codes :
       {a \in Addons : <<c, a>> \in addonRows} = IF Taken(c) THEN wanted[owner[c]] ELSE {}

\* A code that lost the race to the unique index was free when it was drawn:
\* without database errors a request is answered 500 only if another request
\* has been given its code meanwhile, or a row of the catalog cannot be loaded.
OnlyCollisionsFail ==
  \A r \in Requests :
    reply[r] = "500" /\ dbErrors = 0 =>
      \/ code[r] \in Codes /\ Taken(code[r]) /\ owner[code[r]] # r
      \/ CatalogWired /\ ~(wanted[r] \subseteq Readable)

\* Every request that is sent is answered in the end: the generator gives up
\* after max_retries, and waiting for the unique index cannot last.
EveryRequestAnswered == \A r \in Requests : Sent(r) ~> reply[r] # "none"

\* A clean request for active add-ons is not refused.
ActiveAddonsAccepted ==
  [][\A r \in Requests :
       pc[r] = "addons" /\ wanted[r] \subseteq active => reply'[r] # "400"]_vars

-----------------------------------------------------------------------------
(* What makes the safety properties inductive *)

\* The generator stops at max_retries draws.
MayDraw == \A r \in Requests : pc[r] = "generate" => draws[r] < MaxDraws

\* A request that got past the generator holds a code.
CodeDrawn ==
  \A r \in Requests : pc[r] \in {"validate", "addons", "insert", "commit"} => code[r] \in Codes

\* An open transaction holds the lock of the unique index on its code, which
\* no committed reservation has.
CommitIsAlone ==
  \A r \in Requests : pc[r] = "commit" =>
    /\ ~Taken(code[r])
    /\ \A q \in Requests : pc[q] = "commit" /\ code[q] = code[r] => q = r

\* A saved reservation is that of a finished request, under the code it drew.
OwnersAreDone ==
  \A c \in Codes : Taken(c) => pc[owner[c]] = "done" /\ code[owner[c]] = c

AnsweredWhenDone == \A r \in Requests : pc[r] # "done" => reply[r] = "none"

\* Nobody works on a repetition whose client is still waiting for the first answer.
SentFirst == \A r \in Requests : pc[r] # "generate" => Sent(r)

\* The add-ons that can be reserved at all.
Sellable == IF CatalogWired THEN Readable ELSE {}

\* A request that may still be saved has been through the checks before it.
CheckedFirst ==
  \A r \in Requests :
    /\ pc[r] \in {"addons", "insert", "commit"} => r \in clean
    /\ pc[r] \in {"insert", "commit"} => wanted[r] \subseteq Sellable

CreateInv ==
  /\ TypeOK
  /\ MayDraw
  /\ CodeDrawn
  /\ CommitIsAlone
  /\ OwnersAreDone
  /\ AnsweredWhenDone
  /\ CreatedIsDurable
  /\ NothingPartial
  /\ SentFirst
  /\ CheckedFirst

\* A saved reservation is one its client was told of, or the client saw an error
\* of the server or nothing: nobody is refused and saved.
NoOwnerWasRefused ==
  \A c \in Codes : Taken(c) => reply[owner[c]] \in {"201", "500", "lost"}

\* A saved reservation is that of a request that passed the checks.
OwnersWereChecked ==
  \A c \in Codes : Taken(c) => owner[c] \in clean /\ wanted[owner[c]] \subseteq Sellable

-----------------------------------------------------------------------------
(* Why requests come to an end *)

\* The most steps a request still takes by itself.
StepsLeft(r) ==
  CASE pc[r] = "generate" -> 4 + MaxDraws - draws[r]
    [] pc[r] = "validate" -> 4
    [] pc[r] = "addons"   -> 3
    [] pc[r] = "insert"   -> 2
    [] pc[r] = "commit"   -> 1
    [] pc[r] = "done"     -> 0

\* Each step of a request brings it closer to its answer, and no step of another
\* one, no fault and no change of the catalog takes it further away.  The service
\* never goes back to save again: not after a collision, and not after an error
\* whose transaction may have been committed.
RequestsRunDown ==
  [][\A r \in Requests : /\ StepsLeft(r)' <= StepsLeft(r)
                         /\ Serve(r) => StepsLeft(r)' < StepsLeft(r)]_vars

-----------------------------------------------------------------------------
(* The promise of the endpoint *)

\* What the tables hold under a code.
EntryOf(c) ==
  [by     |-> owner[c],
   addons |-> {a \in Addons : <<c, a>> \in addonRows},
   events |-> {e \in EventTypes : <<c, e>> \in events}]

\* What the client of a request has been told.
ResponseTo(r) ==
  [status |-> reply[r], code |-> IF reply[r] = "201" THEN code[r] ELSE NoCode]

Book == INSTANCE ReservationBook WITH
          book <- [c \in Codes |-> EntryOf(c)],
          told <- [r \in Requests |-> ResponseTo(r)]

\* However requests interleave and fail, they are served as if each were one
\* step: it is answered together with the decision whether its reservation,
\* checked, whole and under a free code, is in the book.
KeepsBook == Book!Spec
=============================================================================
