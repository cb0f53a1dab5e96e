# PingPals: models, model checks and proofs

PingPals (`src/`) reminds its users to keep in touch: a scheduler generates reminders for the
contacts that are due, users act on them over an HTTP API, a worker delivers them, and an audit
log records it all. This directory models the parts of the back end where several actors share
state or a step can fail half way, checks them with TLC, and proves every safety property that holds
and the three refinements of abstract specifications with TLAPS.

Paths below are relative to `src/api/src/pingpals_api/`.

## 1. The system

Everything runs in Python against an owner-scoped repository, an audit log, a consent ledger and a
queue. A repository call is atomic. A service method is not: it makes several calls, keeps copies
of what it read, and any audit append can raise because the time source is down. There are no
transactions and no locks, although several docstrings speak of a "same commit".

| component | state it keeps | operations | what makes it correct |
|---|---|---|---|
| repository (`persistence/repository.py`) | tables by owner, entity, id | add, get, list, update, delete | rows belong to one owner; what is read is a copy |
| scheduler (`scheduler/engine.py`) | none of its own | `evaluate_user` | honours snoozes, cadence, quiet hours, consent; cap per window; one reminder per contact and window |
| reminder actions (`scheduler/actions.py`, `contacts/last_contact.py`) | reminder status, snooze, cadence clock | snooze, dismiss, mark_contacted, log_event | every effect is audited; clocks hold audited times |
| contact service (`contacts/service.py`, `quotas.py`) | contact rows | create, update, delete | quota; deletion is all or nothing |
| categories (`contacts/categories.py`) | category rows | provision, create, rename, delete | no contact without a category; unique names |
| consent (`consent.py`, `privacy/consent_store.py`) | append-only ledger | grant, withdraw, effective_state | the latest event decides; no event denies |
| audit log (`audit/log.py`) | entries, chain head in an anchor store | append, verify, seal_and_purge | verify detects tampering and raises no false alarm; purges keep what must be kept |
| retention job (`privacy/retention.py`) | none | run | as above; removes old operational rows |
| work-item consumer (`internal_authn.py`) | nonces seen | consume | authentic, fresh, entitled, once |
| delivery worker (`delivery/worker.py`, `payload.py`) | none | process | sends only with consent to an eligible endpoint; no job vanishes silently |
| breaker, dead-letter queue (`delivery/retry.py`) | failures, open; items | allow, record_*, reset; add | fails closed; bounded |
| endpoint registry (`delivery/endpoints.py`) | endpoints, proofs | register, confirm, revoke*, eligible, owns | only proven, unrevoked endpoints are eligible |
| erasure, data-subject rights, exports (`privacy/*.py`) | restriction flags, artifacts | erase, rectify, restrict, put, download, purge | erased means gone and on record; single use |
| import (`contacts/google_people.py`) | contact rows | import_from | within quota, no duplicates |
| sessions, refresh tokens, linking (`auth/*.py`) | sessions, token families, pending logins, links and challenges, credentials | promote, rotate, validate, revoke, put, consume, begin, complete, ... | expiry, revocation, single use |
| rate limiting (`rate_limit.py`) | windows, in-flight counters | check, acquire, release | bounds |
| crypto, secure store (`persistence/crypto`, `secure_store.py`) | bindings of purposes | bind, encrypt, decrypt | what was encrypted can be decrypted by who may |
| request boundary (`http_boundary.py`, `limits.py`, `csrf.py`, `authz.py`) | none | one check each, in order | served only if entitled; denials on record |
| preferences (`delivery/preferences.py`) | settings | set, get, effective_channel | consent still decides |
| adapters, outreach links, web client | none | stateless | validation and formatting |

How they interact: the scheduler reads what the API threads write (contacts, reminders, consent)
and writes reminders they act on. Both write to the audit log, which can fail at each append. The
deletion of a contact removes rows the scheduler and other requests hold copies of. The worker
reads consent and endpoints that users change meanwhile, shares breaker, dead-letter queue and
nonces with other worker threads, and is fed by a queue that delivers at least once. The retention
job rewrites the audit log to which everyone else appends. Categories, the import, the data-subject
rights and the retention job work on the same rows as the contact service. Sign-in, guards and the
secure store keep dictionaries that the threads of the process share without a lock.

What is hard here: stale copies, checks that race the action they guard, exceptions between two
writes, redelivery and restarts, and a log that is rewritten while it is in use. `PROJECT.json`
lists these hazards at the lines where they bite, with the properties that cover them.

## 2. Modules

| composition | of | checked with | proofs |
|---|---|---|---|
| `ReminderEngine` (implements `LifeCycle`) | `ReminderActions`, `ContactService` (both over `Repository`), `Scheduler` (over `ConsentStore` and `Cadence`; `ConsentStore` over `Consent` and `Repository`) | `MCReminderEngine` | `ReminderEngine_proofs`, `Generation_proofs` |
| `AuditLog` | | `MCAuditLog` | `AuditLog_proofs` |
| `Delivery` (implements `Dispatch`) | | `MCDelivery` | `Delivery_proofs` |
| `Access` | `Sessions`, `RefreshTokens`, `Ceremonies` (which implements `SingleUse`), `TokenVault`, `RequestGuards`, `ExportArtifacts`, all over `Calls` | `MCAccess` | `Sessions_proofs`, `TokenVault_proofs`, `Access_proofs` |
| `Records` | `Categories`, `PeopleImport`, `Privacy`, all over `OwnedRows` (over `Calls`) | `MCRecords` | `Records_proofs` |

**Reminder engine.** `Repository` holds the variables and calls every service shares: one owner's
tables as functions from the ids present to rows, the clock, the audit trail as a set, and for
each API thread the request it executes (`api[t]`: operation, next step, arguments). `Scheduler`,
`ReminderActions`, `ContactService` and `ConsentStore` each translate one class, **one repository,
ledger or audit call per step**; a request's locals live in `api`, `run` (evaluations) and
`cascade` (deletions). A deletion lists the reminders, then the events, reads a copy of each row, removes
them one by one, and so restores them. Where an append may raise, the action has a disjunct `AuditRaises` that
does what the exception does: abandon the request, or roll back. `Cadence` has the quiet hours, as
minutes of a day of any length that may wrap midnight; each window has its user settings and each
tick its minute (`Settings`, `MinuteAt`). `ReminderEngine` composes them with the clock, the outage of the
time source, and the killing of a background evaluation, and states the properties. Only what the
properties tell apart is kept of a row: category, snooze and clock of a contact, status and due
time of a reminder.

`LifeCycle` is what the engine promises in the abstract: a contact is created, deleted or its deletion
undone, its reminders are generated a bounded number of times, acted on, and removed by deletions
only. A contact's phase is read off the deletions in flight (`Phases`: "deleting" until the audit entry is
written, "restoring" from the moment that fails, "contested" once two deletions have met), a
reminder's status off its row, the generations and undone deletions off the history variables.

**Audit log.** `AuditLog` models `append` in three steps (read head and time, add entry, set
anchor), `seal_and_purge` in its five (read and rechain, set anchor, replace entries, then the
append of `audit.purge`), `verify` as an operator, the retention cutoff, outages, and one damage of
the entry store: an entry lost, changed, or the log rewritten or truncated with all hashes
recomputed. SHA-256 is taken to be injective, so a digest *is* the sequence of payloads hashed.
The retention job reads the entries once for the cutoff and once for the purge; the model merges
these two reads. `verify()` also runs at the end of the retention job and only reads.

**Delivery.** `Delivery` models the queue, `consume` (checks, rejection, nonce, handler) and `process` with
one step per call on a shared object, by several threads; grants, withdrawals, two-step
confirmation and revocation of endpoints, breaker resets, restarts that lose nonces, breaker and
dead-letter queue, audit outages, and the clock against which items expire. The adapter may fail
before or after the channel took the message. The increment of the breaker's failure count is one
step. Keys and MACs are the set `Valid`, payload confidentiality the set `Encryptable`; building a
payload touches nothing shared and is part of the step that asks the breaker.

What `consume` rejects it audits, and then hands to the callback `dead_letter` it was constructed with.
That callback is external: no code under `src/` provides one. It either takes the job (`shelved`) or raises,
as one that adds to a full `DeadLetterQueue` would; an exception leaves the item on the queue, as
everywhere in `consume`. A confirmation that has read its row, and not yet written it, does not count as one of the
`MaxChanges` changes, so that with two of them a confirmation can overwrite a revocation (`overwritten`)
and the worker then meets the revived endpoint.

`Dispatch` is what this side promises of each job: once issued it leaves the queue only settled on the
trail, rejected on the trail and shelved, or dropped; each life of the process has a limited number of
leases to send it. That a job is enqueued once is an assumption about the producer.
A job has as many leases as there are threads until its nonce is seen, then as many as threads
that hold it and have not sent it (`Leases`).

**Access.** `Calls` has what the in-memory services share: threads, each with the locals of the
call it executes, a clock, fresh ids, and dictionaries as functions. **One access to a dictionary
is one step**; two entries of one dictionary may be read and changed by other threads in between.
Listing a dictionary is one step as well: an iteration that another thread's insertion or deletion
interrupts raises, which is no different from the caller not having called.

| module | code | what is kept |
|---|---|---|
| `Sessions` | `auth/session.py` | rows, the copies `validate` and `rotate` hold; history: when the person signed in, which ids are dead |
| `RefreshTokens` | `auth/oauth_adapter.py` | families and the token index; a lost response is a token presented again |
| `Ceremonies` | `auth/oidc.py`, `idtoken.py`, `account_linking.py`, `webauthn.py` | pending logins, links, challenges, credentials (the counter is updated by a read and a write), and who completed what |
| `SingleUse` | the promise of those stores | a ticket is unissued, live, spent or void |
| `TokenVault` | `persistence/secure_store.py`, `crypto/agility.py` | bindings, ciphertexts, the audit trail |
| `RequestGuards` | `http_boundary.py`, `rate_limit.py`, `limits.py`, `csrf.py`, `authz.py` | window, in-flight counter, the last answer; the checks in the order the app runs them |
| `ExportArtifacts` | `privacy/export_access.py` | artifacts, used marks; history: what was handed out |

The OIDC functions are modelled as `app.py` would wire them (consume the transaction, validate the
ID token, resolve the account); no code under `src/` does so yet, nor puts a built export into the
artifact store. That a signature verifies is an input. `Access` lets a behaviour use one of the
services (`use`): they share no state, so an interleaving of two shows nothing new.

**Records.** `OwnedRows` is the repository once more, now with the references between categories,
contacts and events, and the quotas. `Categories` (with the creation and moving of contacts),
`PeopleImport` and `Privacy` (export, rectification, erasure of a contact and of an account, event
logging, retention of operational rows) translate their classes one repository or audit call a step: logging
an event takes the record time with the audit entry and adds the event later, a failed erasure looks for each
row before it adds it back.
`Records` composes them on the same rows; `mix` says which of them a behaviour uses, and `met` (a
history variable) which operations overlapped, so that a property can say precisely which race it
excepts.

Variables marked "history" are read by properties only, never by a guard, except that `damage` and
`overlapped` bound when the store may be damaged, and `touched` makes `uuid4` ids fresh. Operators
marked "Mutant" are not used by the specifications; each is a plausible bug that one of the
properties must catch.

## 3. Runs

| run | question | instance |
|---|---|---|
| `Scheduling` | does an evaluation honour snoozes, logged contacts, consent and quiet hours while users act? | 2 contacts, 2 windows, 1 evaluation at a time, 1 API thread with 2 requests, 2 ticks (a day of 4 minutes, quiet hours from 3 to 1), kills, outages |
| `ContactLifecycle` | contact creation, change, logging and deletion against each other, two overlapping evaluations and outages; does the engine implement `LifeCycle`? | 1 contact present, ids for 2 more, 2 categories, 2 threads, cap 1 |
| `AuditLog` | false alarms, missed damage, over-eager purges | 2 writers, 3 actions (2 accountable), 3 ticks, 2 entries before the purge's own |
| `Delivery` | authorization, bounded sends, breaker, no silent loss | 2 worker threads, 2 deliverable jobs, 2 changes besides what confirmations read |
| `DeliveryLiveness` | does every job leave the queue, and does the delivery side implement `Dispatch`? | 1 thread, one job of each kind, expiry, 1 restart, dead-letter queue of 1 |
| `Access` | do revocation, expiry, single use, counters and bounds survive two threads? | 2 threads; 3 to 6 calls and 1 to 4 ticks, by service (`MCBudget`) |
| `Records` | do references, quotas, exports, erasures and retention come out right? | 2 threads, 2 default categories, 2 persons; all services 2 calls and 3 ticks, categories and import 3 calls, privacy 3 calls (`MCMixes`) |
| `UnauditedAction`, `OrphanReminder`, `LaunderedDamage`, `UnrecordedSend`, `OrphanContact` | five promises of docs and docstrings the code does not keep (section 5) | 1 contact or job, 1 thread |

Deadlock is not checked: every bound (`MaxTime`, `MaxRequests`, `MaxEntries`, `MaxRestarts`,
`MaxChanges`, `MaxIds`, `Budget`, `Mixes`) lets the model stop. Symmetry is used for contacts,
threads, jobs, users, browsers, names and persons, never in the run with a liveness property.

What the properties say, besides the type invariants of `ReminderEngine`, `AuditLog` and `Delivery`:

* `StableRowMadeItDue`: unless the contact's row was written since the evaluation began, the row
  made the contact due, and the due time is outside the quiet hours, counted round the clock. A
  snooze or logged contact complete before an evaluation is honoured.
* `ConsentedDuringEvaluation`: every reminder had consent in some state of the ledger no older
  than the tick before its evaluation.
* `CapPerWindow`, `OncePerWindow`: cap and idempotency hold per evaluation in flight, across kills,
  re-runs, deletions and acted-on reminders. With one evaluation at a time the cap is exact.
* `ContactsFollowTheirLife`: `ReminderEngine` implements `LifeCycle`. Beyond `AllOrNothingDelete` it says
  that no step brings a deleted contact back, that a failed deletion ends only when every reminder is
  back, and that nothing but a deletion removes a reminder.
* `ClockResetIsAudited`, `AllOrNothingDelete`: see the hazards at `last_contact.py:38` and
  `service.py:90`.
* `NoFalseAlarm`, `FreshDamageIsDetected`, `NeededEntriesSurvive`: for writers that do not
  overlap. With overlapping appends the chain does break; the code has no lock and the properties
  say so by their hypothesis.
* `SendIsAuthorized`: a worker that reads endpoint and consent in several steps still sends only where each
  was good at some instant since the handover. A withdrawal from before is honoured unless consent was
  given again; a revocation from before is honoured *unless a confirmation under way wrote the row it had read
  over it* (`endpoints.py:48-56`), which does happen in the run. `SendsAreBounded`, `LateSendsAreBounded`: at
  most one send per thread and life of the process, and fewer than there are threads behind an open breaker.
* `NoSilentLoss`: a job off the queue is settled on the trail, rejected on the trail *and* dead-lettered, or
  was skipped. `EveryJobLeavesTheQueue`: no failure keeps a job on the queue for ever, once neither
  audit log nor dead-letter callback fails any more.
  `JobsAreDispatched`: `Delivery` implements `Dispatch`, by counting threads as leases.
* `RevokedStaysRevoked`: a revoked id comes back only if a validation under way writes its copy
  back. `NoSessionOutlivesSignIn`: `rotate` refreshes a session that has been idle for too long, but
  never its absolute lifetime. `RevokedExactlyOnReuse`: a family is revoked if, and only if, a token
  was used twice; a retry after a lost response counts as one.
* `TicketsAreSingleUse`: `Ceremonies` implements `SingleUse`, by a refinement mapping that reads a
  ticket's status off the stores, the calls that hold it and its completions; and `NoLateLogin`, `PendingIsBounded`,
  `CounterIsHighest` about lifetime, bound and counters.
* `DecryptsAreGrantedAndRecorded`, `OnlyRotationLosesObjects`: nothing is decrypted off the record,
  and only a rotation makes a stored object unreadable (it does: `decrypt` goes by the current binding).
* `FewerThanTwiceTheLimit`: around a window's boundary the limiter lets through more than its limit
  but less than twice. `SlotsAreAccountedFor`: the concurrency counter is right unless two updates
  overlap. `ServedOrRefused`: what is served passed every guard; what is refused is on record.
* `ServedOnceInTime`: an export is handed out once, to its owner, for a request in time, never
  after a purge.
* `StrandedOnlyByRace`, `NoEventWithoutContact`: references break only in the overlaps named.
  `CategoriesWithinQuota`, `ContactsWithinQuota`: quotas are exceeded by at most the racing calls.
  `NoPersonTwice`, `ExportIsComplete`, `ErasureIsAllOrNothing`, `RetentionIsExact`: see their comments.

The bounds are small but each interesting case needs few actors: a race needs two, a re-run two
evaluations of one window, a stale snooze two windows, a redelivery one item, a reuse of a refresh
token five calls, a counter race six, a window boundary one window and a tick. Every property has
a mutant of the code in the same instance that violates it.

**Fairness.** Only `Delivery` has it: weak fairness of each worker thread's next step. A worker is
a loop on a queue and a thread that can take a step is eventually scheduled. Nothing is assumed of the
environment (clock, time source, users, restarts). `EveryJobLeavesTheQueue` has two premises, that
the audit log can eventually write for good and that the consumer's dead-letter callback eventually raises no
more: without either a rejected job is never acknowledged. The
other services do nothing on their own: they answer calls, so nothing must eventually happen in them.

## 4. Proofs

`AuditLog_proofs` proves, for all writers, actions, retention periods and bounds allowed by
`AuditAssumption`:

* `TypeCorrect`: `Spec => []TypeOK`;
* `NoFalseAlarmHolds`: `Spec => []NoFalseAlarm`;
* `FreshDamageIsDetectedHolds`: `Spec => []FreshDamageIsDetected`;
* `NeededEntriesAreKept`: `Spec => NeededEntriesSurvive`, an action property.

`NoFalseAlarm` is not inductive: `ChainOK` compares neighbours, and nothing in it says what the
writer under way is about to store. The inductive invariant `Inv` adds that (a) as long as no
writers have overlapped at most one is at work; (b) the undamaged log is `Sound`: each entry is
numbered and hashed over all before it; (c) `Fits`: at each step the writer's locals match the log
(the entry to be stored is the next one, the rechained log is sound) and the anchor (after
`Reanchor` it is the head of the log about to be put in place); (d) after damage `verify` fails and the
only steps possible are those before the anchor is set. The lemmas: `SoundChainOK` (a sound log
passes the code's check), `RechainSound`, `AppendSound`, and `DamageDetected` (loss, change and
rewriting all yield a log whose check or head differs). The assumption that carries the result is
that the hash is injective, which the model builds in.

`NeededEntriesSurvive` needs besides `TimesInv`: the entries are in the order of their times, also
with the one about to be stored, and the rechained log a purge holds has as many entries of each
kind needed as the log it will replace. That a purge keeps them is counted: what is younger than
the retention period comes after every entry that sets the cutoff (`NeededIsKept`), the increasing
enumeration of `Kept` in `SealAndPurge` reaches all of it because an injection between finite sets of one
size is onto, and so it maps the survivors of a kind onto those of the log (`PurgeKeeps`).

`Delivery_proofs` proves, for all jobs, endpoints, worker threads (finitely many, at least one),
thresholds, queue sizes and bounds allowed by `DeliveryAssumption`, and so for any number of restarts and
changes, that `Spec` implies `[]TypeOK`, `[]SendIsAuthorized`, `[]SendsAreBounded`,
`[]LateSendsAreBounded` and `[]NoSilentLoss` (`TypeCorrect` and the theorems named after the
properties). The last is inductive given the types, which say that a job about to be dead-lettered
by the consumer is rejected on the trail, and that a denial has a reason; the others are not. The inductive invariant `IInv` adds:

* `WorkersOK`: what is permitted now was permitted during each processing under way (so the
  observations in `wasGranted` and `wasEligible` miss nothing), what was revoked at the handover still is or was
  overwritten (`wasRevoked`), a consent a worker holds was given, and at the
  point of sending both consent and endpoint are among what it observed; a denial has a reason;
* `SendsInv`: a job's nonce unseen means no send in this life of the process; once it is seen, its sends plus
  the threads that hold it and may still send it stay within threads x lives. Marking turns the
  first into the second, a send moves a thread from one term to the other, a restart adds a life;
* `LateInv`: behind an open breaker, late sends plus the threads at the point of sending are fewer
  than the threads. The thread whose failure opened the breaker is the one that is missing.

One lemma per action shows that it preserves the types and `WorkersOK`; `SendersShrink` (only
accepting a job adds a thread to its senders) and `SendingShrinks` (behind an open breaker no thread
reaches the point of sending) carry the two counts.

`JobsAreDispatchedAsPromised` is the refinement `Spec => JobsAreDispatched`. It needs, besides `IInv`,
`DispatchInv`: what is queued or held was enqueued, a thread past the first check holds a job with an
owner, one that sends a confidential one, and one about to record a delivery has sent it. A rejection is
`Settle`, which leaves the job queued, and then `Shelve` or, if the callback raises, a stutter.
`WorkersLeases` says what a step does to the leases: they stay, or some of the job held are spent, and
one is spent for certain when a thread stops being a sender. `DispatchMoves` draws the conclusions for
a step of `Dispatch`; hence `TrailTellsTheTruth` ("delivered" is on the trail only of jobs that were
sent, of unauthentic ones nothing but "rejected").

`ReminderEngine_proofs` and `Generation_proofs` prove every property of the runs `Scheduling`
and `ContactLifecycle`, for any contacts, windows, quiet hours, evaluations (finitely many), API threads and
bounds that `SchedulerAssumption` and the other assumptions of the modules allow. No proof
depends on how large the bounds are. Lemmas say who writes which variable
(`ContactWriters`, `ReminderWriters`, ...), and what one step is to one thread or one evaluation;
a proof about a variable then goes by its writers instead of by every action.

* `QuietHoursGoRoundTheClock` and `QuietHoursAreHalfOpen`: for every length of the day and all quiet hours, the two
  comparisons of `is_delivery_allowed` (within a day, across midnight) both mean that, going round the
  clock from the start, the minute comes before the end (by cases on the order of start, end and
  minute); quiet hours are half open, and empty when they start when they end. `StableRowMadeItDue` uses
  that reference definition.
* `TypeCorrect`, from `Types`: a request's arguments are of the operation it executes, an evaluation about to add
  a reminder is below its cap and has not seen its key.
* `ClocksAreAudited` (`ClockResetIsAudited`), from `ClocksLogged`: the clocks in the rows, in the
  copies that deletions restore and in those that edits write back, are on the trail.
* `StableRowsAreHonoured` and `RemindersHadConsent`, from `JustifiedInv`: each reminder, live, copied by a
  deletion or about to be added, has a due time that is `Justified` (the row made it due or was written
  since; consent was there); an evaluation's copy of a row *is* the row unless it was touched at or
  after the evaluation began (`ReadRows`); nothing was touched in the future. That a justification stays one
  is the lemma `JustifiedStays`: the ledger only grows, and later writes only excuse more.
* `GenerationIsIdempotent` (`OncePerWindow`), from `Onces`: how often a reminder was generated plus the
  evaluations that may still add it is at most the number of evaluations, unless a deletion was rolled back.
* `CapHoldsPerEvaluation` (`CapPerWindow`), from `WithinBudget`: the reminders of a window plus the
  places each evaluation in flight may still fill never exceed cap x evaluations. An addition turns a
  place into a reminder; an evaluation that begins takes its places from what is left (`BeginnersSlots`).
* `DeletionIsAllOrNothing` (`AllOrNothingDelete`), from `DeletionInv`: a contact not yet created has
  no rows (`Unborn`); unless two deletions contest it, at each step of a deletion (`Stage`) the rows there,
  copied, removed and restored make up those generated, and without one the contact is `Whole` or its deletion is on record.
* `ContactsLiveAsPromised`: `Spec => ContactsFollowTheirLife`, the refinement of `LifeCycle`. The
  invariant `LifeInv` joins what is proved above to what a contact's phase means for its row and the
  deletion in flight (`PhasesAre`); `RecordedWriters` says that only the end of a deletion puts one on
  record. `PhasesChange` gives the five kinds of step that change a phase, `PhasesStay` the condition
  under which none does; one lemma per abstract action (`CreatedLives`, `DeletionStartLives`, ...,
  `GenerationLives`) then finds the step of `LifeCycle`. That every reminder is back when a deletion
  is undone comes from `DeletionsAreInOrder`, the limit of generations from `GenerationIsIdempotent`.
  It follows that a deleted contact never returns (`DeletedForGood`) and that, unless two deletions
  contest it, a contact is deleted exactly if its deletion is on record (`DeletionsAreOnRecord`).

`Sessions_proofs` proves, for any number of threads, users, ids and calls and any lifetimes, that
`Access`'s `Spec` implies `[]NoSessionOutlivesSignIn` and `[]RevokedStaysRevoked`. Neither is inductive:
a validation writes back a row it read long ago, a rotation stores one under a new id. The inductive
invariant `SInv` adds that every copy of a row, stored or held by a call, dates from when its person
signed in (`Copies`), and that no validation in progress holds a dead id (`NoneDead`). Three lemmas say what opening and
dropping sessions and reading a row preserve; each step is an instance of one, except the write-back of a
validation. A behaviour that uses another service keeps the sessions' initial values.

`TokenVault_proofs` proves `[]DecryptsAreGrantedAndRecorded` and `[]OnlyRotationLosesObjects` for any
purposes, keys, components, grants and rotations. The inductive invariant `VInv` adds that a
ciphertext has a key of its purpose, the one bound now unless the purpose was rotated since
(`GoodCiphertext`), and that a call about to be recorded holds only what its event says and its
component was granted (`GoodCall`). The assumption that carries the result is that no two purposes share a
key (`VaultAssumption`), which nothing in the code enforces.

`Access_proofs` proves eight more properties of `Access` and its refinement, for any number of
threads, ids and calls. Each service has an inductive invariant that says nothing but the initial
values while another service is in use:

* `FamiliesAreRevokedOnReuse` (`RevokedExactlyOnReuse`), from `TokenInv`: in a family no token of which was
  presented twice, each token is the active one or among the used, no call is about to revoke, and an
  exchange under way is of the active token; a reused token's family is revoked or about to be.
* `ExportsAreServedOnce` (`ServedOnceInTime`), from `ExportInv`: what a download has checked still
  holds when it hands out (`Fits`), and an artifact that is gone never comes back (`GoneForGood`).
* `SlotsAreCounted` and `RequestsAreGuarded` (`SlotsAreAccountedFor`, `ServedOrRefused`), from `GuardInv`:
  unless an update was lost at most one thread is updating the counter, and the value it has read
  is current; a request past a guard passes it (`Checked`).
* `LimiterIsBounded` (`FewerThanTwiceTheLimit`), from `RateInv`: the window stored, or about to be
  stored by the one request that counts itself, fits what was let through (`WindowFits`): all of it
  came before the window's end, at most the limit since its start, and *fewer* than the limit
  shortly before, for a span that reaches into this window misses the request that opened the last one.
* `LoginsAreInTime` and `PendingStaysBounded` (`NoLateLogin`, `PendingIsBounded`), from `LoginInv`: a
  callback that holds a transaction came in its time; the pending logins plus the threads about
  to insert one are at most `MaxPending` plus all threads but one.
* `CountersAreHighest` (`CounterIsHighest`), from `PasskeyInv`: two requests that are about to write one
  credential have raced (`RacesAreSeen`); without a race the counter about to be written exceeds the stored one.
* `TicketsAreSpentOnce`: `Spec => TicketsAreSingleUse`, the refinement of `SingleUse`. The invariant
  `TInv` says that a ticket in a store or in the hands of a call is issued and unspent, in one place
  only, and that whoever holds it knows whom it was issued to (`LoginTickets`, `PasskeyTickets`).
  `IssueStep`, `SpendStep` and `VoidStep` give conditions under which a step issues, spends or voids
  tickets in `SingleUse`, or leaves them alone; every step of the stores meets those of one.

`Records_proofs` proves all eight properties of `Records`, for any number of threads, ids, names and
persons, any quotas, retention and mixes of services. `RecordsAssumption` has, as the code, that the
import's category is one of the defaults and that a provider id is not `None`. All rest on `Basics`:
the types, that an id is of one entity for good, whoever holds it (`SeenInv`: rows, and what
listings, deletions and copies in flight name), and that calls under way together are in `met`
(`MetInv`). The lemmas `Writes` and `Proceeds` reduce every step to the shape of what it writes (a row
added, deleted, rewritten or restored) and to what its call holds afterwards; `...ComeFrom` and
`...Go` then say for one entity how rows come and go. Each excuse a property names is an overlap in `met`; the
inductive invariant holds what is claimed *until* that overlap:

* `AnExportIsComplete`, from `ListingInv`: a row there since the call began and of an entity already
  listed is in the copy. `ARetentionRunIsExact`, from `RetentionInv`: an event of `before` past the
  cutoff is gone or still to do, any other is there.
* `AnErasureIsAllOrNothing`, from `ErasureInv`: each row there at the beginning is, at every step of the
  erasure, where `AsItWas` says: in place, in the copy, still to be listed, or still to be restored.
* `APersonIsImportedOnce` (`NoPersonTwice`), from `PersonInv`: a person's id is carried by one row at most, among
  those there *and those an erasure in flight may put back*, and an import has seen all there are.
* `EventsKeepTheirContact` (`NoEventWithoutContact`), from `EventInv`, and `ContactsKeepTheirCategory`
  (`StrandedOnlyByRace`), from `HomeInv`: references hold unless an erasure is at work; its copy is
  closed under references because contacts are listed before events, and what it has yet to
  restore makes up for what is missing; the deletion of a contact or category has all that
  refers to it on its list (`DependentsFine`, `DeleteFine`).
* `CategoriesStayWithinQuota` and `ContactsStayWithinQuota`, from `CategoryQuota` and `ContactQuota`:
  the rows there, those an erasure may put back and the calls about to add one are together within the
  quota, plus one less than there are threads once two such calls have met. A call that begins takes its
  place from what is left, an addition turns a place into a row. Their hypotheses are about the
  initial state, for `provision_defaults` checks no quota: the default categories fit
  (`Len(Defaults) <= MaxCategories`), and the quota admits the contact there is at first (`MaxContacts > 0`).

Model-checked only is `EveryJobLeavesTheQueue`, which is liveness under fairness and beyond the
prover. The five violated properties have counterexamples.

## 5. Disagreements between code and docs

With a run that shows them:

* `UnauditedAction`: `actions.py` updates the reminder and appends the audit entry afterwards; if
  that raises the effect stays. `audit/log.py:11-12` promises the opposite.
* `OrphanReminder`: `engine.py:73` adds a reminder for a contact whose deletion completed after it
  was listed; `contacts/service.py:5-7` promises an all-or-nothing cascade.
* `LaunderedDamage`: `append` overwrites the anchor without comparing it, so after truncation and
  one more append `verify()` passes although an accountability entry is gone
  (`audit/log.py:9-10`).
* `UnrecordedSend`: the dead-letter path needs the audit log that has just failed, so a sent but
  unrecorded message is neither recorded nor dead-lettered (`issues/042-delivery-audit-events.md:41`).
* `OrphanContact`: `categories.py:64` accepts the category being deleted as the one to reassign to;
  `categories.py:4-5` says that deletion fails closed if a contact would be left without a category.

Met while modelling, without a run:

* `consume` promises "reject + audit + dead-letter" (`internal_authn.py:87`). If the dead-letter callback
  raises, the item stays on the queue, is rejected again and audited again, without end as long as the callback
  raises; hence the second premise of `EveryJobLeavesTheQueue`.
* A confirmation of an endpoint under way undoes its revocation (`endpoints.py:48-56`).
* `processing_allowed` (`privacy/dsr.py:75-76`: "scheduler/delivery then suppress") has no caller.
* The rollback of an erasure restores the rows, not the tokens already revoked, though it reports
  "no partial state committed" (`privacy/erasure.py:74`); rows added during an erasure survive it.
* `rectify_contact` writes before its audit entry; the error class says "no state change"
  (`privacy/dsr.py:27-28`).
* An import stopped by the quota keeps what it added (`google_people.py:7` says "no partial write").
* A principal without the capability for a function gets 404 when the target has an owner
  (`authz.py:93`), where the docstring says 403 (`authz.py:80-82`).
* `RETIRING` and `RETIRED` bindings are described as valid for decryption in
  `persistence/crypto/inventory.py:20-22`; `decrypt` looks at the current binding only.
* `rename` does not look whether the name is taken; `provision_defaults` ignores the quota.
* `effective_channel` does not look at the `paused` flag, and nothing calls `is_paused`.

## 6. Not modelled

* Isolation between owners: one owner's rows are modelled. The declarative schema in
  `persistence/entities.py`, validation of request bodies, error bodies, headers, CORS, configuration.
* Signatures, hashes and encryption: what they establish is an input or built into the model.
* A contact's own cadence (`cadence_override_days`): no code writes one. `outreach_action` rows: no
  code writes them, which is also why the clause `row.get("reminder_id")` in `dsr.py:88` never applies.
* Equal sequence numbers of two racing consent appends: the order of the ledger stands for them.
* Restriction and objection flags and notification preferences: flags that are set in one call and
  that no other component reads.
* `RetryPolicy`, `audited_mutation`, the registry and inventory of algorithms: no caller.
* Channel adapters, outreach links, the web client: formatting and I/O.

## 7. Plan

1. `effective_channel` and the backoff bounds as pure operators with their theorems.
2. A stop of the process between the writes of `append` and `seal_and_purge`, if the entry and anchor stores
   become persistent.
