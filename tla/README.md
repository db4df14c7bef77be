# myAQI: TLA+ models, checks and proofs

This directory holds the TLA+ specifications of the myAQI platform, the TLC
configurations that check them on small instances, and TLAPS proofs of the
properties that matter most. Paths without a prefix are relative to the
repository (`backend/...` is `src/backend/...` here).

- [1. The system](#1-the-system)
- [2. Modules and how they follow the code](#2-modules-and-how-they-follow-the-code)
- [3. What TLC checks](#3-what-tlc-checks)
- [4. Where the code and its documentation disagree](#4-where-the-code-and-its-documentation-disagree)
- [5. What is proved](#5-what-is-proved)
- [6. What is not modelled](#6-what-is-not-modelled)
- [7. Plan](#7-plan)

## 1. The system

A CircuitPython board measures PM2.5, keeps its readings in a file, and uploads
them in batches to a Flask API. The API stores each batch in PostgreSQL together
with an outbox event. Worker processes hand the events to a message broker. An
operator has a command line tool; a workflow deploys new revisions.

| Part | State it keeps | Operations | What makes it hard |
|---|---|---|---|
| State store `JsonStateStore` (`AdafruitCode/myaqi_client.py:70-183`) | primary, backup and temporary file | `load`, `save` | power may go between any two file calls; FAT rename does not replace; a rename may fail and its repair too; an `os.stat` that fails makes a file look absent |
| Upload client `MyAQIClient` (`myaqi_client.py:186-378`) | state in memory and its durable copy: `next_sequence`, `pending_readings`, `dropped_readings`, `last_acknowledged_sequence` | `enqueue`, `flush`, `flush_one`, `_record_upload_failure` | a save that raises may have taken effect; lost answers; a full queue whose head is being uploaded |
| Main program (`AdafruitCode/code.py`) | `config.json`, `CONFIG_DATA`, `current_state`, radio, button | boot, Wi-Fi, access point, set-up of the client, main loop, factory reset | `config.json` is rewritten in place; every way out is a reset or an exception; what the configuration lacks (the access point, the error keys) shows only at boot, again and again |
| Ingestion API (`backend/src/myaqi_backend/ingestion.py`) | tables `devices`, `ingest_requests`, `measurements`, `outbox_events` | `POST .../measurements:batch` | overlapping transactions on the same key and the same readings, lost updates, commits whose answer is lost |
| Outbox workers (`outbox.py`) | columns of `outbox_events`; the claimed batch in each worker's memory | `claim_events`, `publish`, `mark_published`, `mark_failed`, stop | locks that expire under a slow worker, crashes, a broker that accepts and then fails |
| Administration (`admin.py`) | the same tables | provision, `replay-event`, sequence audit, reports | replay while a late worker is still about to mark the event |
| Validation, authentication, metrics, configuration | none | pure functions, counters | |
| Release workflow (`.github/workflows/deploy.yml`) | revisions of two services, schema version | migrate, update worker, canary, rollback | a step fails, or the job is cancelled, between two updates; a failing call inside `echo` is not noticed |
| Software trial (`soak/run_software.py`) | fault plan, deque of batches, two child processes, counters | start, upload, outages, replay, `wait_for_outbox`, checks | the processes go on by themselves; the port and the database may hold what others left; the plan must never run out of batches |
| Hardware soak (`soak/run_hardware.py`, `collect_serial.py`, `verify_results.py`) | operator log, serial log, manifest | schedule of checkpoints, prompts, serial collector thread, verdict | signals and a prompt that blocks; all evidence of the board comes over a line that drops out; the audit's interval is chosen by a person |

They interact in five places. (1) The client calls the store; a save that raises
leaves the client not knowing what is on flash. (2) The client sends HTTP requests
to the API and decides from the answer what to forget. (3) The API writes the event
in the transaction of its measurements (`ingestion.py:284-291`); the workers poll
for it. (4) The main program, the store and the client share the board: an
exception in one puts the LED and the main loop into another state. (5) The trials
judge the system from outside, by the sequence audit of `admin.py` and by counts in
the database; what they conclude is only as good as those.

What each must guarantee:

- **Store**: a save is atomic and durable; a device that has saved does not start
  from `DEFAULT_STATE` again because of what was interrupted or cannot be read.
- **Client and API together**: a reading that was saved is queued, stored or
  counted as dropped; it is stored once; a sequence number or a key never stands
  for two things; the backlog drains.
- **API**: concurrent requests behave as if handled one at a time, each once per
  key, and a 202 is true.
- **Outbox**: at-least-once handoff with every duplicate explained, bounded
  retries, no lock lost, every event settled.
- **Release**: no service runs a revision that the schema does not have, a failed
  release is undone as far as the workflow knows how, and a successful one runs.
- **Trials**: a trial that passes is right about the system, tested its own
  processes, and does not fail by itself.
- **Main program**: green means connected and set up; the board neither resets for
  ever nor stops without a reason that can be named; a person can get it to access
  point mode.

`PROJECT.json` lists every hazard with its source line and the properties that
watch it.

## 2. Modules and how they follow the code

| Module | Models | MC module, configurations |
|---|---|---|
| `EventHandoff` | abstract: at-least-once handoff of committed events with bounded retries | |
| `Outbox` | `outbox.py`, `replay-event`, rows of `outbox_events`; implements `EventHandoff` | `MCOutbox`: `Outbox.cfg`, `Outbox_claims.cfg` |
| `OutboxProofs` | theorems about `Outbox`, the refinement among them | |
| `CrashAtomicStore` | abstract: what the firmware expects of its store | |
| `JsonStateStore` | `load` and `save`, call by call; implements `CrashAtomicStore` | `MCJsonStateStore`: `JsonStateStore_board.cfg`, `_faults.cfg` |
| `JsonStateStoreProofs` | theorems about `JsonStateStore` | |
| `IngestService` | abstract: requests take effect one at a time | |
| `Ingestion` | `ingest_measurements`, statement by statement; implements `IngestService` | `MCIngestion`: `Ingestion.cfg`, `Ingestion_parallel.cfg` |
| `IngestionProofs` | theorems about `Ingestion`, the refinement among them | |
| `UploadClient` | `MyAQIClient` over the durable value of `CrashAtomicStore` | (checked through `Delivery`) |
| `Delivery` | `UploadClient`, a lossy network, and the API as `IngestService` describes it | `MCDelivery`: `Delivery.cfg`, `_fallback.cfg` |
| `DeliveryProofs` | theorems about `UploadClient` and `Delivery` | |
| `Firmware` | `code.py` | `MCFirmware`: `Firmware.cfg` |
| `FirmwareProofs` | theorems about `Firmware` | |
| `Release` | `deploy.yml`, with the ECS services of `runtime.tf` | `MCRelease`: `Release.cfg` |
| `ReleaseProofs` | theorems about `Release` | |
| `SequenceAudit` | `verify_sequence_range` and `_missing_ranges` of `admin.py`, as operators | (used by both trials) |
| `SoftwareTrial` | `run_software.py`, with the API and the worker as it sees them | `MCSoftwareTrial`: `SoftwareTrial.cfg` |
| `SoftwareTrialProofs` | theorems about `SoftwareTrial` | |
| `HardwareSoak` | `run_hardware.py`, `collect_serial.py`, `verify_results.py`, with board and audit | `MCHardwareSoak`: `HardwareSoak.cfg` |
| `HardwareSoakProofs` | theorems about `HardwareSoak` and the audit | |

The layers fit together like this: `JsonStateStore` implements the durable value that
`UploadClient` uses; `Ingestion` implements the service that `Delivery` uses; `Outbox`
implements `EventHandoff`, which is what a consumer of the broker may rely on;
`Firmware` says when the client is there at all. `SoftwareTrial` sees the API as
`IngestService` and the worker as the states of its events; `HardwareSoak` sees the
board as a queue and the API as a set of stored numbers. Each composition uses the
upper specification of the part below, so no run has to carry two detailed levels.

**Outbox.** Every database transaction is one action, because `claim_events` and
both marks read their rows `FOR UPDATE` and commit at the end of the block; calls of
`publish` happen between transactions and are actions of their own. `SKIP LOCKED`
is a nondeterministic set of rows passed over while another worker runs. `Claim`,
`MarkPublished`, `MarkFailed`, `MarkRefused` are the functions of `outbox.py`;
`Stop` is the test in `main`'s loop, which comes only between batches; `Crash`
stands for a killed process and for a database error, which nothing in
`process_once` catches. Times are relative to the present and move back with
`Tick`; below a floor no comparison can tell them apart. `delivered`, `excused`,
`replays` and `stops` are history. `Phase` is what an operator sees of an event
and the refinement mapping to `EventHandoff`: pending and processing are both
open, so a claim is a stutter, except that one of an event whose lock has expired
excuses the handoff that it takes over.

**JsonStateStore.** `pc` names the file call that comes next, so a power loss falls
between any two. A file is a state, absent, or `Torn` (rejected by `_read`). What
`load` makes of a file is `ReadAs`: a failing read rejects it (`ReadErrors`), a failing
`os.stat` makes it absent, whatever the error was (`StatErrors`). `blind` records that
the last `load` took every file there was for absent.
`RenameOverwrites` separates the board's FAT (rename fails on an existing target)
from POSIX, where the unit tests run.

**Ingestion.** The actions are the statements of the transaction: read of the device
row, reservation of the key with `ON CONFLICT DO NOTHING`, insertion of the
measurements, response and event in the session (autoflush is off), commit. The unique
constraints make the second inserter of a key or sequence number wait for the first
transaction to end: that is the guard of `ReserveKey` and `InsertReading`.
`CommitUnanswered` is a commit whose answer does not reach the device.

**UploadClient and Delivery.** A reading is its sequence number and the identity of
the measurement it came from, so that a reused number shows. With `StaleFallback`
a boot may load the backup or `DEFAULT_STATE` instead of the last state saved, the two
things `JsonStateStore` shows `load` to do when files cannot be read or looked up. A
request that was sent may be handled by the API at any later time and more than once, or rejected
without effect (`Reject`).

**Firmware.** A configuration is whether it has Wi-Fi credentials, whether an error is
stored (`errorMessage`, `errorCode`), is not, or its keys are absent, and whether it
names the access point; `Delivered` and `Backups` are what `config.json` and
`config.bak` may hold at first. With credentials and absent error keys `checkForErrors`
raises and the program ends (`Raises`); without the access point `startAP` resets the
board at every boot. `config.json` is truncated, then written: `BeginWrite` and
`FinishWrite`. What `updateAQIInfo` and the set-up of the client do to the queue is
in `UploadClient`; here only how they end matters.

**Release.** `pc` is the step of the job. A service has a `target` (its task
definition) and the one it settled on last; ECS may settle it or take it back at any
time, also while `wait_for_service` polls. A migration task may outlive its job.
`describe-services` runs inside `echo`, so if it fails the output is empty and the
step goes on (`Register` sets `previous` to `None`); with an empty `previous_api` the
rollback step is skipped, with an empty `previous_worker` its second call changes
nothing. `before`, `left` and `abandoned` are history: what the services ran when the
job began, what jobs left in place that did not finish a rollback, and whether this job
was cut off or a call of its rollback failed.
`Cancel` stands for a cancelled job and for the 45 minutes: `failure()` does not
hold then, so the rollback step does not run. A job may release an older revision.

**SequenceAudit.** The loop of `_missing_ranges` is a set comprehension: before each
number received, and after the last, the gap from `Expected` (the number after the
greatest one before) is missing. `Missing` and `Complete` are the report's fields.

**SoftwareTrial.** `pc` is the line of `run_trial` that comes next, in the body, in
`finally` or in the checks. The API and the worker are processes of their own: they
boot, exit, claim and settle between any two steps. `foreign` is another API on the
trial's port, left over from an earlier trial, which `wait_for_api` cannot tell from
its own; it ends at any moment, or never (`ForeignExits`), and then the port is free.
`Others` are events in
the database that are not of this trial and that `wait_for_outbox` counts
too. `SendFails` is any exception of `send`; nothing in the trial retries.

**HardwareSoak.** The main thread waits for a checkpoint, or in a prompt, where a
signal only sets a flag; `Finally` is the `finally` clause that writes the manifest,
reached by the end of the schedule, by a signal, by the end of input, and by a
confirmation that cannot be written. The collector is a second process whose line
opens, drops out, or dies with its thread. `Reports` are the audits an operator may
attach: any interval, of this device or by mistake of another. A run starts with
any board that is in service, one whose server has lost earlier readings included.
A reading is its place in `taken`, the sequence of the numbers given, so a number that
is given twice shows: the server keeps the first reading with it and takes the second
for a duplicate (`Fresh`). `Restart` loads the last state saved,
`RestartWithOlderState` the backup or `DEFAULT_STATE`; `reverted` records that the
state loaded lacked a reading.

## 3. What TLC checks

Every property of a passing run has a mutant: a small plausible bug in one mapped
definition, next to it in the module, under which TLC finds that property violated.

| Run | Bounds | What it shows |
|---|---|---|
| `outbox` | 2 events, 2 workers, batch 2, lock timeout 2 s, 1 s per event, 2 attempts, 1 replay, 1 crash or stop | no lock without holder unless a process crashed; only the owner releases; implements `EventHandoff` (published means delivered and stays published, every second delivery has an excuse, bounded retry); every event is settled |
| `outbox_claims` | 2 s per event, timeout 3 s, batch 2 | **violated**: `ExclusiveClaims` |
| `store_board` | FAT, 3 states, one fault or failed save at a time | the three files implement `CrashAtomicStore` |
| `store_faults` | up to 4 unfinished saves in a row, failing reads and `os.stat` | back to `DEFAULT_STATE` only if `os.stat` failed on every file; a complete file is left after two unfinished saves in a row |
| `ingestion` | 4 requests (a batch, its retry, an overlapping batch, the same key with another body), all in flight, 1 fault | implements `IngestService`; a 202 is true; the transactions never all wait for each other; every request is answered |
| `ingestion_parallel` | 3 requests, 2 in flight | **violated**: `HighestReported` |
| `delivery` | batch 2, queue 3, flush of 3, 5 readings, 2 faults, 2 losses | no silent loss, stored once, number and key unambiguous, the backlog drains |
| `delivery_fallback` | 3 readings, 1 fault, load may return the backup or `DEFAULT_STATE` | **violated**: `SequenceIdentifiesReading` |
| `firmware` | every configuration, every `config.bak` or none, 2 faults | green means ready; the board gets to the main loop again and again unless its configuration (`Unbootable`), a fault, the sensor or `config.bak` stops it; long press and submitted credentials work |
| `release` | 3 jobs, 3 revisions, 2 faults, cut jobs or masked calls | code never leads the schema; a failed release sets each service back whose task definition it has read; a successful one runs in both, unless ECS took the worker back; a rollback goes to something that has worked, or that an unfinished job had left |
| `software_trial` | 6 plans of 3 to 8 readings, batches of 2, 1 event of others, perhaps a foreign API, 1 unplanned disturbance | the deque suffices; a pass is true; from its first API outage on the trial counts only answers of its own API; undisturbed, the trial never fails, and passes |
| `hardware_soak` | a run of 1 s, checkpoints at 0, 1 and 3 s, queue 2, 3 readings, 2 versions, 1 disturbance | a pass was supervised to its end; a pass lost no reading, unless a restart loaded a state from before one; an audit names exactly what is missing |

`release`, `software_trial` and `hardware_soak` check their type invariants too, as
do the others.

*Why the bounds are enough.* Outbox: a takeover needs two workers, a lock that
expires inside a batch needs a batch of two and a lock timeout not above their
time, a dead event needs attempts below replays plus limit; all are reachable, and
the theorems of section 5 have no bound. Store: `save` has five file calls; the
interesting patterns are one, two and three unfinished saves in a row, and the
fourth repeats the third. Ingestion: the four requests are the ways two requests
can share a key or a reading; one fault is enough to abort the transaction that
another one waits for. Delivery: five readings with a queue of three overflow twice, and
a batch of two leaves both full and partial batches; two losses and two faults
together reach a lost answer followed by a failed checkpoint. Firmware: no counter
but `faults`; configurations and `config.bak` are all there are. Release: three jobs are a cut one, a failing one and one that reads what
they left; three revisions let an older one follow a newer one. Software trial: the
plans have every kind of operation alone and with the others, batches to spare, just
enough and one too few; one disturbance can hit any step, and a foreign API or
another's event comes on top of it. Hardware soak: with a queue of two, three
readings overflow it; checkpoints fall on the start and the end of the run and after
it, and a confirmation can come when the run's time is over;
one disturbance is a signal in a prompt, a lost confirmation, a line that drops out, a
lost diagnostic, another version, or a restart with an older state (with it, the
condition `~reverted` of `PassedLostNothing` is needed: TLC finds a loss without it). The versions are interchangeable (`SYMMETRY`); no
temporal property is checked in that run.

*Fairness.* Outbox: each worker's loop goes on, the scheduler restarts processes,
time passes (`Fairness`); nothing makes a publish succeed. Settling needs
`PublishTime` below `LockTimeout`: if one publish outlasts the timeout, the event
can be taken over for ever, and such takeovers, like crashes, do not count as
attempts (`outbox.py:195`). Ingestion: a thread that is not waiting goes on.
Delivery: a board with power boots and goes on measuring, and a request is handled
if the client waits for it long enough; faults and losses are bounded, since
otherwise nothing drains. Firmware: the program runs on; nobody has to press or
submit anything. Software trial: the trial goes on, gunicorn boots, and the worker
polls. `Release` and `HardwareSoak` have no fairness. Except in the runs of the
outbox and the store the deadlock check is off: requests that are all answered, a
device without faults left and an empty queue, a program that ended, a workflow
after its last job, or a trial that is judged is at rest.

*Limits to know.* `NeverFailsClosed` holds after at most two unfinished saves in a
row; a third can destroy the last complete file, since `save` truncates the
temporary file and removes the backup first. The cap `min(300, ...)` of the
back-off never binds (`2 ** 8` is 256). `BacklogDrains` excepts a device whose
enqueue could not be saved: `code.py:421` stops measuring and uploading until a
reset.

## 4. Where the code and its documentation disagree

Three runs check a sentence of the repository that the code does not keep:

1. `outbox_claims`: claims are exclusive (`README.md:44`) only if a whole batch
   fits in the lock timeout; the runbook (`docs/runbook.md:58`) takes one event.
2. `ingestion_parallel`: `last_sequence` is the highest reported number
   (`README.md:45`), except that an overlapping request can write it back.
3. `delivery_fallback`: the fallback to the backup (`docs/architecture.md:27`)
   returns an older `next_sequence`, and numbers are reused.

In the models, without a run of their own; a property states what does hold:

- Ingestion fails closed instead of resetting (`docs/architecture.md:27`), except that
  `load` takes every file whose `os.stat` raises for absent (`myaqi_client.py:144`), and
  without files returns `DEFAULT_STATE` (`ResetsOnlyIfBlind`).
- The workflow restores prior task definitions on failure (`README.md:91`), except
  that a `describe-services` that fails is masked by `echo` (`deploy.yml:124`), and the
  rollback step is skipped without `previous_api` (`FailureRestores`).
- The `config.json` shown in `AdafruitCode/README.md:27-36` has no `AP_SSID` and
  `AP_PASSWORD`, which `config.example.json` has: `startAP` raises (`code.py:211`), and
  the board resets for ever. With credentials but without `errorMessage` or
  `errorCode`, `checkForErrors` raises (`code.py:324`), and the program ends at every
  boot (`AlwaysComesUp`, `Unbootable`).
- A factory reset clears the credentials and restarts (`AdafruitCode/diagram.txt:33-36`),
  but it reads `config.bak` (`code.py:310`), which is not among the files of the board
  (`AdafruitCode/README.md:7-13`) and ignored by git; without it the program ends
  (`LongPressReachesSetup`).
- After saving the credentials the device restarts (`AdafruitCode/diagram.txt:8-10`),
  unless the response in between raises (`code.py:191`): the main loop swallows it
  (`CredentialsAreTried`).
- An error state leads to access point mode after a reset
  (`AdafruitCode/code.py:64`), but two of the three places that set it
  (`code.py:421`, `code.py:497`) store nothing that the next boot could find.

Seen while reading:

- An interrupted write "can recover on the next boot" (`AdafruitCode/README.md:44`),
  but not in a device's first save, which leaves no complete file: `load` fails closed.
- A retry after a failed upload takes the batch from the queue anew
  (`myaqi_client.py:303`); with the next measurement it is longer, so body and key do
  not "remain stable" (`docs/architecture.md:8`). `StoredOnce` shows it is harmless.
- A board whose `upload_batch_size` is above the API's `MAX_BATCH_SIZE` is refused for
  ever (`validation.py:57`); neither program knows the other's limit.
- `parse_batch` keeps the order of the request (`validation.py:99`). The device sends
  ascending numbers; two requests in opposite orders could wait for each other.
- A 401 resets the clock (`code.py:430`): until NTP answers, measurements are skipped,
  not queued. A board started without a sensor ends with the LED green
  (`code.py:406`, `pm25` is not defined).
- A power loss while `config.json` is rewritten leaves a file that is not JSON
  (`code.py:94`), and the program ends at every boot; the state file is protected
  against this, the configuration is not.
- `ingested_readings` and its neighbours are incremented before the commit
  (`ingestion.py:292`), so a failed commit is counted.
- The summary of a release names its revision and says "Worker: stable"
  (`deploy.yml:245-247`), also if ECS has returned the worker to the old revision:
  `wait_for_service` counts tasks, the smoke test asks only the API.
  `SuccessReleasesBoth` states what does hold.
- `soak/README.md:38` asks that the device queue drains; the check looks at the last
  diagnostic that was captured, which may be older than the end of the run, and does
  not compare the end of the audited interval with it (`verify_results.py:48`).
  `PassedLostNothing` states what does hold.
- A soak passes although readings were lost if the board restarted with an older state
  (finding 3): the next readings get numbers that were given already, the server drops
  them as duplicates, and the audit is complete.
- Batches of a software trial before its first API outage may be answered by an API
  left over from an earlier trial, which ends just before the upload that must fail
  (`run_software.py:492-494`); the trial passes all the same. `EvidenceIsOwn` states
  what does hold.
- `wait_for_api` retries only on `URLError` (`run_software.py:190`); an exception of
  `worker.stop` skips `api.stop` (`run_software.py:493-494`); the counts of the outbox
  are over the whole database (`run_software.py:231-238`), so a second trial on the
  same database fails.

## 5. What is proved

The proof modules are checked by TLAPS for every value of the constants that
satisfies the `ASSUME`s of the module (sets are finite where said, bounds are
naturals, `None` is nobody). Nothing else is assumed.

**`OutboxProofs`.** For any events, workers, batch size, timeout, clock error and
bounds:

- `TypeCorrect`, `LocksAgree`, `LocksHaveHolders`, `RetryBounded`: each invariant is
  inductive with `TypeOK`, `RetryBounded` through `AttemptLeft` (an event that is not
  dead has an attempt left).
- `PublishedReachedBroker`, `DuplicatesExcused`: the inductive invariant is
  `HandoffInv`. "Published means delivered" is not inductive, since a worker may be
  about to mark an event; it needs that a worker whose publish returned has delivered
  (`ReturnedWasDelivered`), that an event without an excuse is held by the one that
  claimed it (`UnexcusedIsOwned`), and that its only delivery is that worker's
  (`UnexcusedDelivery`).
- `OwnerReleases`, `PublishedStays`: action properties, from one lemma about a step.
- `WorkersHandOff`: `Outbox` implements `EventHandoff`, so everything the abstract
  module says (an event is handed off again only with an excuse, is done only when the
  broker has it, and is given up exactly when its attempts are used up) holds of the
  workers. `HandoffRefinesStep` maps each action to a step or a stutter; it needs
  `HandoffInv`: a mark that the database accepts comes from a worker whose publish did
  what the mark says, or of an event that is excused.
- `ClaimsAreExclusive`: under `BatchFitsLock` (`BatchSize * PublishTime + 2 *
  ClockSkew < LockTimeout`) no two workers hold an event. The invariant `ClaimInv`
  bounds a lock's age by the events its worker has already handled times
  `PublishTime`, plus the time on the current one and the clock error, so an event
  still to be handled cannot have expired for any competitor's clock. This is the
  positive side of finding 1, and the condition an operator should check the settings
  against.

**`JsonStateStoreProofs`.**

- `StateIsResetOnlyIfBlind`: for any pattern of power losses, failed calls, failed
  reads and failed `os.stat`. The invariant `SomeFile` adds that the temporary file is
  complete from the sync to the end of `save`, and present while it is written: so a
  device that saved once always has some file, and a reset takes a `load` that saw none
  of them. `StateIsNeverReset` is the consequence where `os.stat` fails only for files
  that are not there (`~StatErrors`): then `load` fails closed rather than reset.
  Section 4 says what happens without it.
- `StoreStaysOpen`: on a provisioned device (one that starts with a saved state;
  `Provisioned`), `load` finds a complete file after at most two unfinished saves in
  a row, for any faults before and after. `CompleteInv` says how many complete
  files are left after none, one and two of them; after the second it may be the
  temporary file alone, which is why a third is one too many.
- `StoreIsAtomic`: under `OneFault` (a provisioned device, at most one unfinished
  save between two that complete, neither reads nor `os.stat` failing; on POSIX, power losses only) the
  store implements `CrashAtomicStore`. `OneFaultInv` says which file is the current
  one at each call; `Simulation` maps each step to a step or a stutter. With
  several failed calls in one save on POSIX, `restore` can bring back an older backup,
  which is why `OneFault` excludes them there.

**`ReleaseProofs`.** For any number of jobs, revisions and faults.

- `CodeNeverLeadsSchema`: the invariant adds that a job past its migration has a
  revision the schema has, and that so do the revisions it would go back to
  (`PlanHasSchema`).
- `TypeCorrect` (`DataOK`, `PcOK`), `SuccessAlwaysReleases`, `FailureAlwaysRestores`,
  `RollbackTargetsWorked`: `OutcomeInv`. A service that ECS took back is on the
  revision it settled on last (`ReturnsToStable`); what each wait of the job has
  established is written down per step (`DeployedInv`), as is how far a rollback
  has come, and that what it goes back to is what the services ran before or was not
  read (`RestoredInv`). `WorkedInv`: between jobs each service is on a revision that has
  worked there or that an unfinished job left (`left`), and so is what a job reads.
  `FailureAlwaysRestores` is about the jobs that were not cut off and have read
  `previous_api`; section 4 says what happens to the others.

**`IngestionProofs`.** For any requests, keys and bodies, any number in flight and
any number of failures.

- `AcknowledgedBatchesAreStored` and `TransactionsAreSerial`: the invariant is
  `SerialInv`. At most one open transaction holds a key, and only if the key is free
  (`KeyReserved`); the readings it has inserted are in no other one and not stored,
  those it has skipped are stored, and when it is to commit it has accounted for all
  of its body (`RowsReserved`, `AllAccounted`): so what it has inserted is
  exactly what the abstract service calls new, although it was found out reading by
  reading. A replay carries the recorded answer (`ReplayRecorded`). Each commit
  is then `Accept` or `Replay`, each failure `Fail`, and `in_progress` cannot be
  answered, since key and response are committed together.

- `TypeCorrect`: that `last_sequence` is a number some request carried is where the
  greatest number of a batch is needed (`Highest`, the greatest element of a finite
  non-empty set exists).
- `TransactionsNeverDeadlock`, if every batch is in ascending order (`Ascending`):
  some open transaction waits for nothing. Not inductive but well-founded:
  `InsertedBefore` says that a transaction has inserted only readings that come
  earlier in its batch than the one it is at, which have lower numbers. So one that
  waits for a reading waits for a transaction that is at a higher number or has
  inserted all; one that waits for its key waits for a transaction that is past that
  step. The furthest one waits for nobody. The device sends ascending batches (proved
  of its queue in `DeliveryProofs`: `Consecutive`); `parse_batch` does not ask for it
  (section 4).
- `HighestIsReported`, if `MaxInFlight = 1`: `last_sequence` is not below any stored
  reading. This is the positive side of finding 2: overlap is all that breaks it.

**`DeliveryProofs`.** For any batch size, queue, and number of readings, faults and
losses, under `~StaleFallback`: `load` returns the last state saved (finding 3 shows
that the condition is needed).

- `SequencesAreUnique`, `KeysAreUnique`: `DeviceInv`. The readings that a request
  carried or may still carry (`Known`) differ in number and measurement and are
  below `next_sequence` on flash, also when a save raised and took effect. Queues
  have no gap (`Consecutive`), so the two ends of a batch, which are its key, determine
  its length and with it its body.
- `MeasurementsAreStoredOnce`, `DeliveryTypes`: `ServerInv` adds that rows come from
  requests, and that a request under a used key, and a batch that was
  answered 202, is stored with its own values.
- `NothingIsLostSilently`: `LossInv` bounds what is missing by `dropped`, for the
  queue on flash and, while the main loop uploads, for the one in memory; the two
  differ after a checkpoint that failed.

**`FirmwareProofs`.** `TypeCorrect`, `GreenIsAlwaysReady`: `ReadyInv` follows a usable
configuration from boot to the main loop, and says that credentials are only
being submitted while the state is not normal (a response that raises returns to the
main loop with another configuration).

**`SoftwareTrialProofs`.** For any plan, batch size, other events and disturbances.

- `DequeAlwaysSuffices`: `ReserveInv`, the deque holds at least what the operations
  still to begin will take, and `SteadyCount` takes only from the rest.
- `VerdictIsAlwaysTrue`: `VerdictInv`. Once the outbox was seen drained nothing is
  pending and no worker finds an event (`Quiet`), so the checks are about the
  database as it stays; with as many published events as batches, none is left for
  others.
- `EvidenceIsAlwaysOwn`: `EvidenceInv`. While a foreign API listens on the port no
  API outage is survived, because the upload that must fail succeeds (`Stuck`); so
  once an outage has begun and the trial goes on, what answers is its own API, also if
  the foreign one ended in between. Batches before that are not covered (section 4).

- `TypeCorrect`, and `TrialRaisesNoFalseAlarm`: as long as nothing has disturbed a
  trial on a clean host (`Undisturbed`), it neither aborts nor fails. `AlarmInv` joins
  the invariants above with `SoundInv`: both processes are in the state that the step
  expects (`Healthy`), the database holds every batch sent with its readings
  (`Recorded`), every operation of the plan is to begin, under way or counted
  (`Counted`), and the deque is empty when the last step that takes from it is done
  (`Emptied`). That the batches together are exactly the planned readings is
  arithmetic (`LastBatch`, `FullIsComplete`). That such a trial comes to an end is
  liveness, and left to TLC.

**`HardwareSoakProofs`.** For any schedule, board, line and disturbances.

- `SoakThatPassesLostNothing`: `LossInv`. As long as no restart loaded a state from
  before some reading (`~reverted`), the n-th reading has number n
  (`NumbersAreReadings`), and the backup only repeats uploads (`Behind`); for every
  diagnostic captured (`TrueOf`), with the same drop count as the first everything
  between is queued or stored, so an empty queue means stored.
- `TypeCorrect`: with `QueueFits`, the queue of a board is finite and within its limit.
- `SoakThatPassesWasSupervised`: `SupervisedInv`. The log is a set of confirmed
  checkpoints, each at its time or later and each due (`LogIsTrue`), and the manifest
  was written from what was known at its end (`ManifestIsTrue`); as many
  confirmations as checkpoints due are then all of them.
- `AuditNamesWhatIsMissing`: the loop of `_missing_ranges` returns exactly the numbers
  of the interval that are not stored, whatever is stored, and counts them right.

**Only model-checked.** Every invariant, action property and refinement that a passing
run checks is a theorem; `PublishedWasDelivered`, `DuplicateIsExcused`, `BoundedRetry`
and `PublishedIsFinal` of `Outbox` are theorems only, since TLC checks the refinement
that has them as consequences. What is left to TLC is liveness, which is outside what
the proof system supports: `EventuallySettled`, `EveryRequestAnswered`,
`BacklogDrains`, `UndisturbedTrialPasses`, `AlwaysComesUp`, `LongPressReachesSetup`
and `CredentialsAreTried`. The safety half of three of them is proved: no circle of
waiting transactions, no false alarm of an undisturbed trial, and no event given up
before its attempts are used up.

*Conditions.* Some theorems have a hypothesis on the constants: `BatchFitsLock`,
`MaxInFlight = 1` and `~StaleFallback` (findings 1 to 3 show what happens without),
`~StatErrors` (section 4), `Ascending` (true of the device), `Provisioned` (a device that has saved once;
before its first save `load` may fail closed, section 4), and `OneFault`, described
above. Three invariants carry a condition on the behaviour in their own statement:
`PassedLostNothing` (`~reverted`), `FailureRestores` (a job that was not cut off and
read `previous_api`) and `ResetsOnlyIfBlind`.

## 6. What is not modelled

- Authentication (`auth.py` and the signing in the client): HMAC is a pure
  function; its verdict is a nondeterministic rejection (`Reject`).
- Validation of fields: its rejections are part of `Reject`; that a batch is not empty
  and repeats no number is the assumption `BodiesAssumption`.
- Trials that run at the same time on one port or database: `foreign` is one other
  API, which listens when the trial begins.
- Several devices in `Ingestion`: rows and keys carry the device, so requests of
  different devices never meet.
- Device provisioning (`admin.py`): one row in one transaction. The other commands of
  the tool only read.
- Latencies, summaries and reports of the trials, as far as no check reads them.
- Rendering of task definitions (`render_task_definition.py`) and the build steps.
- Migrations, Terraform, metrics, logging, the benchmark, the web pages, the
  legacy prototype: no behaviour of interest to these properties, or generated, or
  retired.

## 7. Plan

The order so far was: outbox with its proofs, state store with its refinement and
proofs, ingestion with its refinement, client and delivery, main program, release
workflow; then the two reliability trials with the audit they use, and the proofs of
ingestion, delivery, main program and release. What remains:

1. **Limits of a batch**: the API's `MAX_BATCH_SIZE` against the board's
   `upload_batch_size`, as a parameter of `Delivery`.
2. **Clock**: the board's clock and the API's window of accepted timestamps, with the
   401 that makes the board synchronize again.
3. **Proofs**: an abstract specification of the whole delivery (a measurement is
   queued, stored or counted as dropped, once) implemented by `Delivery`; the
   worker of `SoftwareTrial` as an implementation of `EventHandoff`.
