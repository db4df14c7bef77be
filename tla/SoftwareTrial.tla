----------------------------- MODULE SoftwareTrial -----------------------------
(***************************************************************************)
(* The software fault-injection trial (soak/run_software.py): a program    *)
(* that starts the API and the outbox worker, uploads batches, stops and   *)
(* restarts both on a plan, and judges the result from the database.       *)
(*                                                                         *)
(* The API takes a batch as IngestService says; the worker is Outbox seen  *)
(* from outside: an event is claimed, and published or given up.  Both are *)
(* separate processes that go on while the trial waits.  A trial may find  *)
(* events in the database and an API on its port that are not its own.     *)
(***************************************************************************)
EXTENDS SequenceAudit

CONSTANTS
  Plans,      \* arguments: readings, buffer (outage_buffer_batches), and the
              \* number of operations of each kind
  BatchSize,  \* --batch-size
  Others,     \* events in the database that other devices' requests made
  MaxFaults   \* bound: disturbances that the trial did not plan

Kinds == {"api_outage", "worker_outage", "acknowledgement_replay"}

ASSUME TrialAssumption ==
  /\ Plans \subseteq [readings : Nat \ {0}, buffer : Nat \ {0}, operations : [Kinds -> Nat]]
  /\ BatchSize \in Nat \ {0} /\ MaxFaults \in Nat
  /\ IsFiniteSet(Others) /\ Others \cap Nat = {}

VARIABLES
  args,       \* the arguments of the trial
  pc,         \* what run_trial does next
  current,    \* the operation under way, "none" before and after them
  todo,       \* operations of each kind that are still to begin
  steady,     \* calls of send that send_steady has still to make
  left,       \* batches in the deque
  held,       \* batches taken from it and not sent yet: `buffered`
  api,        \* "down", "booting", "up", or "exited" by itself
  worker,     \* "down", "running", or "exited" by itself
  foreign,    \* another API on the port, left over from an earlier trial: "none",
              \* "listening", or "gone" since the trial began
  requests,   \* ingest_requests of the device: batches recorded
  stored,     \* measurements of the device: sequence numbers
  event,      \* status of each outbox event
  orphans,    \* events locked by a worker process that is gone
  accepted, replayed, recovered,  \* counters of the trial
  faults      \* history: disturbances so far

plan     == <<args, current, todo, steady, left, held>>
process  == <<api, worker, foreign>>
database == <<requests, stored, event, orphans>>
tally    == <<accepted, replayed, recovered>>
vars     == <<plan, pc, process, database, tally, faults>>

Sending == {"steady", "rest", "drain", "acknowledgement_replay", "replay"}
Body    == {"startApi", "awaitApi", "plan", "api_outage", "probe", "worker_outage",
            "awaitOutbox", "assert"} \cup Sending
Ends    == {"refused", "passed", "failed", "aborted"}
Statuses == {"none", "pending", "processing", "published", "dead"}

-----------------------------------------------------------------------------
\* build_batches: batch b covers the readings from its first to its last.
BatchCount == (args.readings + BatchSize - 1) \div BatchSize
Batches    == 1..BatchCount
ReadingsOf(b) == {n \in (b - 1) * BatchSize + 1..b * BatchSize : n <= args.readings}

Operations == todo["api_outage"] + todo["worker_outage"] + todo["acknowledgement_replay"]

\* Mutant of Reserved: the replays are forgotten.
Reserved_OutagesOnly == (todo["api_outage"] + todo["worker_outage"]) * args.buffer

\* `reserved`, and for the whole plan the minimum that run_trial asks for.
Reserved == (todo["api_outage"] + todo["worker_outage"]) * args.buffer
            + todo["acknowledgement_replay"]

\* steady_count: the batches not reserved, spread over the operations left.
SteadyCount ==
  IF left > Reserved THEN (left - Reserved) \div (Operations + 1) ELSE 0

Init ==
  /\ args \in Plans
  /\ todo = args.operations
  /\ left = BatchCount /\ held = 0 /\ steady = 0
  /\ pc = "check" /\ current = "none"
  /\ api = "down" /\ worker = "down" /\ foreign \in {"none", "listening"}
  /\ requests = {} /\ stored = {} /\ orphans = {}
  /\ event \in [Batches \cup Others -> Statuses \ {"processing"}]
  /\ \A b \in Batches : event[b] = "none"
  /\ accepted = 0 /\ replayed = 0 /\ recovered = 0
  /\ faults = 0

TypeOK ==
  /\ args \in Plans
  /\ pc \in {"check", "cleanup", "cleanupApi", "abortApi", "abort", "judge"} \cup Body \cup Ends
  /\ current \in Kinds \cup {"none"} /\ todo \in [Kinds -> Nat]
  /\ steady \in Nat /\ left \in Nat /\ held \in Nat
  /\ api \in {"down", "booting", "up", "exited"} /\ worker \in {"down", "running", "exited"}
  /\ foreign \in {"none", "listening", "gone"}
  /\ requests \subseteq Batches /\ stored \subseteq 1..args.readings
  /\ event \in [Batches \cup Others -> Statuses]
  /\ orphans \subseteq Batches \cup Others
  /\ accepted \in Nat /\ replayed \in Nat /\ recovered \in Nat /\ faults \in 0..MaxFaults

-----------------------------------------------------------------------------
Fault == faults < MaxFaults /\ faults' = faults + 1

\* What an earlier trial, or somebody else, has left makes a difference.
CleanStart == foreign = "none" /\ \A e \in Others : event[e] = "none"

Undisturbed == faults = 0 /\ CleanStart

Abort == pc' = "abort"

\* "not enough batches for the configured fault plan".
Check ==
  /\ pc = "check"
  /\ pc' = IF left >= Reserved THEN "startApi" ELSE "refused"
  /\ UNCHANGED <<plan, process, database, tally, faults>>

\* api.start.
StartApi ==
  /\ pc = "startApi"
  /\ api' = "booting" /\ pc' = "awaitApi"
  /\ UNCHANGED <<plan, worker, foreign, database, tally, faults>>

\* Mutant of Answering: a process that runs is taken for one that answers.
Answering_Started == api \in {"booting", "up"} \/ foreign = "listening"

Answering == api = "up" \/ foreign = "listening"

\* wait_for_api.  /health/ready may be answered by the other API while gunicorn
\* still tries to bind.  The first time, the worker is started next.
AwaitApi ==
  /\ pc = "awaitApi"
  /\ \/ /\ api # "exited" /\ Answering
        /\ IF current = "none" THEN worker' = "running" /\ pc' = "plan"
                               ELSE UNCHANGED worker /\ pc' = "drain"
        /\ UNCHANGED faults
     \/ api = "exited" /\ Abort /\ UNCHANGED <<worker, faults>>
     \/ Fault /\ Abort /\ UNCHANGED worker
  /\ UNCHANGED <<plan, api, foreign, database, tally>>

\* round_robin_operations: the kinds take turns as long as they have a turn left.
Turn == [none |-> "api_outage", api_outage |-> "worker_outage",
         worker_outage |-> "acknowledgement_replay",
         acknowledgement_replay |-> "api_outage"]
NextKind ==
  LET first == Turn[current]  second == Turn[first] IN
  IF todo[first] > 0 THEN first
  ELSE IF todo[second] > 0 THEN second ELSE Turn[second]

\* The loop over the operations, and what follows it.
NextOperation ==
  /\ pc = "plan"
  /\ IF Operations > 0
       THEN pc' = "steady" /\ current' = NextKind /\ steady' = SteadyCount
       ELSE pc' = "rest" /\ current' = "none" /\ steady' = left
  /\ UNCHANGED <<args, todo, left, held, process, database, tally, faults>>

\* send_steady has sent its batches, or the deque is empty.
SteadyOver ==
  /\ pc \in {"steady", "rest"} /\ (steady = 0 \/ left = 0)
  /\ pc' = IF pc = "rest" THEN "awaitOutbox" ELSE current
  /\ UNCHANGED <<plan, process, database, tally, faults>>

-----------------------------------------------------------------------------
\* Batches are sent in the order of the deque; a replay sends the last one again.
Batch == BatchCount - left - held + (IF pc = "replay" THEN 0 ELSE 1)

\* ingest_measurements: recorded once per key, with its readings and its event.
Record ==
  /\ requests' = requests \cup {Batch}
  /\ stored' = stored \cup ReadingsOf(Batch)
  /\ event' = [event EXCEPT ![Batch] = IF @ = "none" THEN "pending" ELSE @]
  /\ UNCHANGED orphans

\* Is there a batch that the current step of the trial sends?
ToSend ==
  \/ pc \in {"steady", "rest"} /\ steady > 0 /\ left > 0
  \/ pc = "drain" /\ held > 0
  \/ pc \in {"acknowledgement_replay", "replay"}

\* send: a 202 that covers the batch, and is a replay exactly if one is expected.
Send(step, expectReplay) ==
  /\ pc = step /\ ToSend
  /\ Answering /\ (Batch \in requests) = expectReplay
  /\ Record
  /\ UNCHANGED <<args, current, process, faults>>

Accept == accepted' = accepted + Cardinality(ReadingsOf(Batch))

SendSteady(step) ==
  /\ Send(step, FALSE) /\ Accept
  /\ steady' = steady - 1 /\ left' = left - 1
  /\ UNCHANGED <<pc, todo, held, replayed, recovered>>

SendHeld ==
  /\ Send("drain", FALSE) /\ Accept
  /\ held' = held - 1
  /\ UNCHANGED <<pc, todo, steady, left, replayed, recovered>>

\* The acknowledgement is discarded, and the batch sent again.
SendFirst ==
  /\ Send("acknowledgement_replay", FALSE) /\ Accept
  /\ pc' = "replay"
  /\ left' = left - 1 /\ todo' = [todo EXCEPT ![current] = @ - 1]
  /\ UNCHANGED <<steady, held, replayed, recovered>>

SendAgain ==
  /\ Send("replay", TRUE)
  /\ pc' = "plan"
  /\ replayed' = replayed + 1 /\ recovered' = recovered + 1
  /\ UNCHANGED <<todo, steady, left, held, accepted>>

\* No answer, a refusal (the foreign API may have another database), or a lost
\* answer: send raises, and nothing retries.
SendFails ==
  /\ ToSend
  /\ \/ api # "up" /\ UNCHANGED <<database, faults>>
     \/ Fault /\ (UNCHANGED database \/ (Answering /\ Record))
  /\ Abort
  /\ UNCHANGED <<plan, process, tally>>

-----------------------------------------------------------------------------
\* An outage takes its batches from the deque.
Hold ==
  /\ left' = left - args.buffer /\ held' = args.buffer
  /\ todo' = [todo EXCEPT ![current] = @ - 1]
  /\ UNCHANGED <<args, current, steady>>

\* api.stop.
StopApi ==
  /\ pc = "api_outage"
  /\ api' = "down" /\ Hold
  /\ pc' = "probe"
  /\ UNCHANGED <<worker, foreign, database, tally, faults>>

\* Mutant of ProbeFails: an upload that succeeds is not looked at.
ProbeFails_Always == TRUE

\* UploadUnavailable.
ProbeFails == ~Answering

\* The upload during the outage: if it is answered, the trial ends.
Probe ==
  /\ pc = "probe"
  /\ pc' = IF ProbeFails THEN "startApi" ELSE "abort"
  /\ UNCHANGED database \/ (Answering /\ Record)
  /\ UNCHANGED <<plan, process, tally, faults>>

Processing == {e \in DOMAIN event : event[e] = "processing"} \ orphans

\* worker.stop: the worker finishes its batch, or is killed after 10 seconds.
StopWorker ==
  /\ worker' = "down"
  /\ \/ Processing = {} /\ UNCHANGED <<orphans, faults>>
     \/ worker = "running" /\ Fault /\ orphans' = orphans \cup Processing

WorkerOutage ==
  /\ pc = "worker_outage"
  /\ StopWorker /\ Hold
  /\ pc' = "drain"
  /\ UNCHANGED <<api, foreign, requests, stored, event, tally>>

\* The held batches are sent.  An API outage is over; the worker is started
\* again and has to catch up.
DrainOver ==
  /\ pc = "drain" /\ held = 0
  /\ IF current = "api_outage"
       THEN pc' = "plan" /\ recovered' = recovered + 1 /\ UNCHANGED worker
       ELSE pc' = "awaitOutbox" /\ worker' = "running" /\ UNCHANGED recovered
  /\ UNCHANGED <<plan, api, foreign, database, accepted, replayed, faults>>

\* Mutant of Drained: events that are being published are not waited for.
Drained_PendingOnly == \A e \in DOMAIN event : event[e] \notin {"pending", "dead"}

\* No event of the whole database is pending, processing or dead.
Drained == \A e \in DOMAIN event : event[e] \in {"none", "published"}

\* wait_for_outbox, after a worker outage and at the end, or its deadline.
AwaitOutbox ==
  /\ pc = "awaitOutbox"
  /\ \/ /\ Drained
        /\ IF current = "none" THEN pc' = "assert" /\ UNCHANGED recovered
                               ELSE pc' = "plan" /\ recovered' = recovered + 1
        /\ UNCHANGED faults
     \/ /\ ~Drained /\ Abort /\ UNCHANGED recovered
        /\ IF Undisturbed THEN Fault ELSE UNCHANGED faults
  /\ UNCHANGED <<plan, process, database, accepted, replayed>>

\* assert_running of both processes.
AssertRunning ==
  /\ pc = "assert"
  /\ pc' = IF api \in {"booting", "up"} /\ worker = "running" THEN "cleanup" ELSE "abort"
  /\ UNCHANGED <<plan, process, database, tally, faults>>

\* An exception or Ctrl-C anywhere in the body.
Interrupt ==
  /\ pc \in Body /\ Fault
  /\ Abort
  /\ UNCHANGED <<plan, process, database, tally>>

\* The `finally` clause: worker.stop, then api.stop, unless the first raises.
StopWorkerFinally ==
  /\ pc \in {"cleanup", "abort"}
  /\ \/ StopWorker /\ pc' = IF pc = "cleanup" THEN "cleanupApi" ELSE "abortApi"
     \/ Fault /\ pc' = "aborted" /\ worker' = "down" /\ orphans' = orphans \cup Processing
  /\ UNCHANGED <<plan, api, foreign, requests, stored, event, tally>>

StopApiFinally ==
  /\ pc \in {"cleanupApi", "abortApi"}
  /\ api' = "down"
  /\ pc' = IF pc = "cleanupApi" THEN "judge" ELSE "aborted"
  /\ UNCHANGED <<plan, worker, foreign, database, tally, faults>>

CountOf(status) == Cardinality({e \in DOMAIN event : event[e] = status})

PlannedOperations == args.operations["api_outage"] + args.operations["worker_outage"]
                     + args.operations["acknowledgement_replay"]

\* `checks`: database_report counts the events of the whole database, and the
\* requests and measurements of the device.
Checks ==
  /\ accepted = args.readings
  /\ Complete(stored, 1, args.readings) /\ Missing(stored, 1, args.readings) = 0
  /\ Cardinality(requests) = BatchCount
  /\ CountOf("published") = BatchCount
  /\ CountOf("pending") = 0 /\ CountOf("dead") = 0
  /\ recovered = PlannedOperations
  /\ replayed = args.operations["acknowledgement_replay"]

Judge ==
  /\ pc = "judge"
  /\ pc' = IF Checks THEN "passed" ELSE "failed"
  /\ UNCHANGED <<plan, process, database, tally, faults>>

-----------------------------------------------------------------------------
\* gunicorn binds and boots, or gives up if the port is taken.
ApiBoots ==
  /\ api = "booting"
  /\ api' = IF foreign = "listening" THEN "exited" ELSE "up"
  /\ UNCHANGED <<plan, pc, worker, foreign, database, tally, faults>>

\* The other API ends when it likes: the earlier trial stops its worker first, and
\* that may take 10 seconds.
ForeignExits ==
  /\ foreign = "listening"
  /\ foreign' = "gone"
  /\ UNCHANGED <<plan, pc, api, worker, database, tally, faults>>

\* Either process of the trial may end by itself.
ApiExits ==
  /\ api \in {"booting", "up"} /\ Fault
  /\ api' = "exited"
  /\ UNCHANGED <<plan, pc, worker, foreign, database, tally>>

WorkerExits ==
  /\ worker = "running" /\ Fault
  /\ worker' = "exited" /\ orphans' = orphans \cup Processing
  /\ UNCHANGED <<plan, pc, api, foreign, requests, stored, event, tally>>

\* claim_events: a pending event, or one whose lock has run out.
Claim(e) ==
  /\ worker = "running"
  /\ event[e] = "pending" \/ e \in orphans
  /\ event' = [event EXCEPT ![e] = "processing"]
  /\ orphans' = orphans \ {e}
  /\ UNCHANGED <<plan, pc, process, requests, stored, tally, faults>>

\* The worker publishes e, or fails and leaves it pending or, in the end, dead.
Settle(e) ==
  /\ worker = "running" /\ e \in Processing
  /\ \/ event' = [event EXCEPT ![e] = "published"] /\ UNCHANGED faults
     \/ Fault /\ \E s \in {"pending", "dead"} : event' = [event EXCEPT ![e] = s]
  /\ UNCHANGED <<plan, pc, process, requests, stored, orphans, tally>>

Trial ==
  \/ Check \/ StartApi \/ AwaitApi \/ NextOperation \/ SteadyOver
  \/ SendSteady("steady") \/ SendSteady("rest") \/ SendHeld \/ SendFirst \/ SendAgain
  \/ SendFails \/ StopApi \/ Probe \/ WorkerOutage \/ DrainOver \/ AwaitOutbox
  \/ AssertRunning \/ StopWorkerFinally \/ StopApiFinally \/ Judge

Work == \E e \in DOMAIN event : Claim(e) \/ Settle(e)

Next == Trial \/ Interrupt \/ ApiBoots \/ ForeignExits \/ ApiExits \/ WorkerExits \/ Work

Spec == Init /\ [][Next]_vars

\* The trial goes on, gunicorn boots, and the worker polls.
FairSpec == Spec /\ WF_vars(Trial) /\ WF_vars(ApiBoots) /\ WF_vars(Work)

-----------------------------------------------------------------------------
\* No operation finds the deque too short: popleft would raise, and the trial
\* would fail although nothing is wrong (the minimum of the plan, steady_count).
DequeSuffices ==
  /\ pc \in {"api_outage", "worker_outage"} => left >= args.buffer
  /\ pc = "acknowledgement_replay" => left >= 1

\* A trial that passes is right: every reading is stored, every batch recorded,
\* and every event of the database published, none of them pending, dead, or,
\* what the checks do not count, locked by a worker (wait_for_outbox, checks).
VerdictIsTrue ==
  pc = "passed" =>
    /\ stored = 1..args.readings /\ requests = Batches
    /\ \A b \in Batches : event[b] = "published"
    /\ \A e \in Others : event[e] = "none"

\* From its first API outage on, a trial counts a batch as accepted or replayed
\* only if its own API has answered, although /health/ready and the upload may be
\* answered by another one, which may end at any time (the upload that must fail).
\* Batches before the first outage may have gone to the other API.
EvidenceIsOwn ==
  [][todo["api_outage"] < args.operations["api_outage"]
       /\ (accepted' # accepted \/ replayed' # replayed) => api = "up"]_vars

\* The trial raises no false alarm: on a clean database and a free port, and not
\* disturbed, it is not aborted and no check fails, whatever its plan and however
\* the processes interleave (wait_for_api, wait_for_outbox, the counters, checks).
NoFalseAlarm == Undisturbed => pc \notin {"failed", "aborted"}

\* And it comes to an end: it passes, unless the plan needs more batches than
\* there are.
UndisturbedTrialPasses == CleanStart => <>(faults > 0 \/ pc \in {"passed", "refused"})
=============================================================================
