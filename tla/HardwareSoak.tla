----------------------------- MODULE HardwareSoak -----------------------------
(***************************************************************************)
(* The supervised hardware soak: run_hardware.py asks an operator for      *)
(* faults on a schedule while collect_serial.py, a thread of it, writes    *)
(* down the diagnostics a board prints; afterwards admin.py audits the     *)
(* database, and verify_results.py judges the evidence bundle.             *)
(*                                                                         *)
(* The board is UploadClient and the API seen from outside: a queue that   *)
(* outlives power losses, and the readings stored.  A reading is what the  *)
(* sensor measured; its sequence number stands for it only as long as the  *)
(* board gives no number twice.  All evidence but the audit comes over a   *)
(* serial line that may be down or garbled.                                *)
(***************************************************************************)
EXTENDS SequenceAudit, Sequences

CONSTANTS
  Checkpoints,  \* at_seconds of the scenario's checkpoints
  Duration,     \* --duration-seconds, or the scenario's
  MaxPending,   \* max_buffered_readings of the board
  Versions,     \* firmware versions
  MaxReadings,  \* bound: readings ever taken
  MaxTime,      \* bound: seconds
  MaxFaults     \* bound: disturbances of the serial line, the host or the flash

ASSUME SoakAssumption ==
  /\ Checkpoints \in Seq(Nat) /\ Duration \in Nat \ {0}
  /\ MaxPending \in Nat \ {0} /\ MaxReadings \in Nat /\ MaxTime \in Nat /\ MaxFaults \in Nat

VARIABLES
  pc,         \* the main thread: "waiting" for a time, "prompt" (input), or done:
              \* "ended", "killed"
  clock,      \* seconds since `started`
  stop,       \* stop_requested
  log,        \* operator-events.jsonl: the time at which a checkpoint was
              \* confirmed, for those that were
  manifest,   \* manifest.json: status, elapsed and expected (checkpoints)
  collector,  \* "closed", "open" (serial line), or "dead"
  captured,   \* serial.jsonl: the first and the last diagnostic, how many there
              \* are (2 for more), and their firmware versions
  board,      \* [next, queue, dropped, version]; the queue holds readings
  backup,     \* the board's state before its last save
  taken,      \* history: the sequence number of each reading ever taken, in order
  stored,     \* the readings that the device's measurements hold
  reverted,   \* history: has a restart loaded a state from before some reading?
  result,     \* result.json: "none", "failed" or "passed"
  audited,    \* the sequence numbers the operator's audit covered, if it passed
  since, until, \* history: readings taken when the first, and the last, diagnostic
              \* captured was printed
  signalled,  \* history: has somebody asked the run to stop?
  endedAt,    \* history: when did the checkpoints and the waiting end?
  faults

run      == <<pc, clock, stop, log, manifest, signalled, endedAt>>
evidence == <<collector, captured, since, until>>
device   == <<board, backup, taken, stored, reverted>>
verdict  == <<result, audited>>
vars     == <<run, evidence, device, verdict, faults>>

Diagnostic == [next : Nat, pending : Nat, dropped : Nat, version : Versions]
Statuses   == {"running", "completed", "interrupted"}

\* The checkpoints of the run: those not later than its end.
Due == {i \in DOMAIN Checkpoints : Checkpoints[i] <= Duration}

Confirmed == DOMAIN log

\* The loop has come to checkpoint i.
Awaited(i) == i \in Due \ Confirmed /\ \A j \in Due \ Confirmed : i <= j

\* The sequence numbers of a set of readings.
Numbers(readings) == {taken[i] : i \in readings}

NoDiagnostics == [count |-> 0, first |-> <<>>, last |-> <<>>, versions |-> {}]

\* --expected-start-sequence is the number the board gives to its next reading;
\* of its earlier readings the last may be in its queue, and some before them lost.
\* Its last save may have been that of its last reading.
Init ==
  /\ pc = "waiting" /\ clock = 0 /\ stop = FALSE /\ log = [i \in {} |-> 0]
  /\ \E n \in 1..MaxReadings, v \in Versions : \E k \in 1..n :
     \E lost \in SUBSET {i \in 1..k - 1 : i < n - 1} :
       LET q == k..n - 1 IN
       /\ Cardinality(q) <= MaxPending
       /\ board = [next |-> n, queue |-> q, dropped |-> Cardinality(lost), version |-> v]
       /\ backup \in {b \in {board, [board EXCEPT !.next = n - 1, !.queue = q \ {n - 1}]} :
                        b.next > 0}
       /\ taken = [i \in 1..n - 1 |-> i]
       /\ stored = (1..n - 1) \ (q \cup lost)
       /\ manifest = [status |-> "running", elapsed |-> 0, expected |-> 0, start |-> n]
  /\ reverted = FALSE
  /\ collector = "closed" /\ captured = NoDiagnostics /\ since = 0 /\ until = 0
  /\ result = "none" /\ audited = {}
  /\ signalled = FALSE /\ endedAt = 0 /\ faults = 0

TypeOK ==
  /\ pc \in {"waiting", "prompt", "ended", "killed"}
  /\ clock \in 0..MaxTime /\ stop \in BOOLEAN /\ signalled \in BOOLEAN /\ endedAt \in 0..MaxTime
  /\ Confirmed \subseteq Due /\ log \in [Confirmed -> 0..MaxTime]
  /\ manifest \in [status : Statuses, elapsed : Nat, expected : Nat, start : Nat]
  /\ collector \in {"closed", "open", "dead"}
  /\ captured = NoDiagnostics
     \/ captured \in [count : 1..2, first : Diagnostic, last : Diagnostic,
                      versions : SUBSET Versions]
  /\ since \in Nat /\ until \in Nat /\ reverted \in BOOLEAN /\ taken \in Seq(Nat)
  /\ {board, backup} \subseteq
       [next : Nat, queue : SUBSET DOMAIN taken, dropped : Nat, version : Versions]
  /\ Cardinality(board.queue) <= MaxPending /\ Cardinality(backup.queue) <= MaxPending
  /\ stored \subseteq DOMAIN taken
  /\ result \in {"none", "failed", "passed"}
  /\ audited \subseteq Nat
  /\ faults \in 0..MaxFaults

-----------------------------------------------------------------------------
Fault == faults < MaxFaults /\ faults' = faults + 1

Tick ==
  /\ clock < MaxTime /\ clock' = clock + 1
  /\ UNCHANGED <<pc, stop, log, manifest, signalled, endedAt, evidence, device, verdict, faults>>

\* SIGINT or SIGTERM: request_stop.  A prompt goes on waiting for its line.
Signal ==
  /\ pc \in {"waiting", "prompt"} /\ Fault
  /\ stop' = TRUE /\ signalled' = TRUE
  /\ UNCHANGED <<pc, clock, log, manifest, endedAt, evidence, device, verdict>>

\* It is time for the next checkpoint.
Prompt ==
  /\ pc = "waiting" /\ ~stop
  /\ \E i \in Due : Awaited(i) /\ clock >= Checkpoints[i]
  /\ pc' = "prompt"
  /\ UNCHANGED <<clock, stop, log, manifest, signalled, endedAt, evidence, device, verdict, faults>>

\* The operator presses Enter.
Confirm ==
  /\ pc = "prompt"
  /\ \E i \in Due : Awaited(i) /\ log' = [j \in Confirmed \cup {i} |->
                                        IF j = i THEN clock ELSE log[j]]
  /\ pc' = "waiting"
  /\ UNCHANGED <<clock, stop, manifest, signalled, endedAt, evidence, device, verdict, faults>>

\* Mutant of Completed: the time that has passed is taken for completion.
Completed_ByTime(stopped) == clock >= Duration

Completed(stopped) == ~stopped /\ clock >= Duration

\* The `finally` clause of main.
Finally(stopped) ==
  /\ manifest' = [manifest EXCEPT
       !.status = IF Completed(stopped) THEN "completed" ELSE "interrupted",
       !.elapsed = clock, !.expected = Cardinality(Due)]
  /\ stop' = TRUE /\ endedAt' = clock /\ pc' = "ended"
  /\ UNCHANGED <<clock, log, evidence, device, verdict>>

\* The loop over the checkpoints and the wait that follows are over.
Finish ==
  /\ pc = "waiting"
  /\ stop \/ (Confirmed = Due /\ clock >= Duration)
  /\ Finally(stop)
  /\ UNCHANGED <<signalled, faults>>

\* The end of input stops the run (EOFError) ...
EndOfInput ==
  /\ pc = "prompt" /\ Fault
  /\ signalled' = TRUE
  /\ Finally(TRUE)

\* ... and a confirmation that cannot be written ends it without stopping it: a
\* late one leaves a run that is completed but for its confirmation.
ConfirmationLost ==
  /\ pc = "prompt" /\ Fault
  /\ Finally(stop)
  /\ UNCHANGED signalled

\* The host is killed: the manifest says for ever that the run is running.
Kill ==
  /\ pc \in {"waiting", "prompt"} /\ Fault
  /\ pc' = "killed" /\ collector' = "dead" /\ endedAt' = clock
  /\ UNCHANGED <<clock, stop, log, manifest, signalled, captured, since, until, device, verdict>>

-----------------------------------------------------------------------------
\* capture: it opens the line, again and again, until the run stops.
Connect ==
  /\ collector = "closed" /\ ~stop
  /\ collector' = "open"
  /\ UNCHANGED <<run, captured, since, until, device, verdict, faults>>

\* The board is unplugged; or, if serial.jsonl cannot be written, the handler of
\* the exception raises as well, and the thread is gone while the run goes on.
Disconnect ==
  /\ collector # "dead" /\ Fault
  /\ \/ collector = "open" /\ collector' = "closed"
     \/ collector' = "dead"
  /\ UNCHANGED <<run, captured, since, until, device, verdict>>

\* diagnostics, printed by the board with this state.
DiagnosticOf(b) == [next |-> b.next, pending |-> Cardinality(b.queue),
                    dropped |-> b.dropped, version |-> b.version]

\* write_record.
Appended(d) ==
  [count    |-> IF captured.count = 0 THEN 1 ELSE 2,
   first    |-> IF captured.count = 0 THEN d ELSE captured.first,
   last     |-> d,
   versions |-> captured.versions \cup {d.version}]

\* parse_serial_line keeps the line if it arrives whole.
Captures(b) ==
  /\ collector = "open" /\ ~stop
  /\ captured' = Appended(DiagnosticOf(b))
  /\ until' = Len(taken') /\ since' = IF captured.count = 0 THEN until' ELSE since

Misses == UNCHANGED <<captured, since, until>>

Printed(b) ==
  \/ Captures(b) /\ UNCHANGED faults
  \/ Misses /\ IF collector = "open" /\ ~stop THEN Fault ELSE UNCHANGED faults

Oldest(q) == CHOOSE i \in q : \A j \in q : i <= j

\* The reading that is taken next.
Reading == Len(taken) + 1

\* Mutant of Enqueued: a full queue grows.
Enqueued_Unbounded(b) == [b EXCEPT !.next = @ + 1, !.queue = @ \cup {Reading}]

\* enqueue: a full queue loses its oldest reading, and counts it.
Enqueued(b) ==
  LET full == Cardinality(b.queue) >= MaxPending IN
  [b EXCEPT !.next = @ + 1,
            !.queue = (IF full THEN @ \ {Oldest(@)} ELSE @) \cup {Reading},
            !.dropped = IF full THEN @ + 1 ELSE @]

\* The readings of a queue up to the i-th ever taken.
UpTo(q, i) == {j \in q : j <= i}

Without(b, i) == [b EXCEPT !.queue = @ \ UpTo(@, i)]

\* The readings whose number has no measurement yet: the others are duplicates.
Fresh(q) == {i \in q : \A j \in stored : taken'[j] # taken'[i]}

\* flush: readings from the front of the queue arrive up to reading i, and the
\* acknowledgements up to reading a.  (A batch whose key was used for another body
\* is refused: nothing arrives.)  Each batch is a save, also if it fails; without
\* one the backup is `earlier`.
Flush(b, earlier) ==
  \E i, a \in b.queue \cup {0} :
    /\ a <= i
    /\ stored' = stored \cup Fresh(UpTo(b.queue, i))
    /\ board' = Without(b, a)
    /\ backup' \in {Without(b, k) : k \in {k \in b.queue \cup {0} : k <= a}}
                   \cup {earlier : k \in {0} \cap {a}}

\* updateAQIInfo: a reading, a flush, and the diagnostics.
Measure ==
  /\ result = "none" /\ Len(taken) < MaxReadings
  /\ taken' = Append(taken, board.next)
  /\ Flush(Enqueued(board), board)
  /\ Printed(board')
  /\ UNCHANGED <<run, collector, verdict, reverted>>

\* DEFAULT_STATE.
Default == [board EXCEPT !.next = 1, !.queue = {}, !.dropped = 0]

\* The board restarts: load, the diagnostics, and the startup flush, after which
\* none are printed.
Restart ==
  /\ result = "none" /\ UNCHANGED taken
  /\ Printed(board)
  /\ Flush(board, backup)
  /\ UNCHANGED <<run, collector, verdict, reverted>>

\* The same, but load takes the backup as it cannot read the primary file, or
\* DEFAULT_STATE as os.stat fails on every file.
RestartWithOlderState ==
  /\ result = "none" /\ Fault /\ UNCHANGED taken
  /\ \E b \in {[backup EXCEPT !.version = board.version], Default} :
       /\ reverted' = (reverted \/ b.next < board.next)
       /\ Captures(b) \/ Misses
       /\ Flush(b, backup)
  /\ UNCHANGED <<run, collector, verdict>>

\* Another firmware is installed while the board is off.
Install(v) ==
  /\ result = "none" /\ v # board.version /\ Fault
  /\ board' = [board EXCEPT !.version = v]
  /\ UNCHANGED <<run, evidence, backup, taken, stored, reverted, verdict>>

-----------------------------------------------------------------------------
\* Mutant of QueueDrained: the queue of the last diagnostic is not looked at.
QueueDrained_Unchecked == captured.count > 0

QueueDrained == captured.last.pending = 0

\* build_report: `checks` on the bundle and a backend report r; with fewer than
\* two diagnostics it raises.
Checks(r) ==
  /\ captured.count = 2
  /\ manifest.status = "completed" /\ manifest.elapsed >= Duration
  /\ Cardinality(Confirmed) = manifest.expected
  /\ captured.last.dropped = captured.first.dropped /\ QueueDrained
  /\ r.complete /\ r.missing = 0 /\ r.device = "own" /\ r.start = manifest.start
  /\ Cardinality(captured.versions) = 1

\* verify_sequence_range, of this device or by mistake of another one.
Reports(start, end) ==
  {[device |-> "own", start |-> start,
    complete |-> Complete(Numbers(stored), start, end),
    missing |-> Missing(Numbers(stored), start, end)],
   [device |-> "other", start |-> start, complete |-> TRUE, missing |-> 0]}

\* The operator audits an interval of the database and has the bundle judged.
Verify ==
  /\ pc \in {"ended", "killed"} /\ result = "none"
  /\ \E start, end \in 1..Len(taken) + 1 : \E r \in Reports(start, end) :
       /\ start <= end
       /\ IF Checks(r) THEN result' = "passed" /\ audited' = start..end
                       ELSE result' = "failed" /\ audited' = {}
  /\ UNCHANGED <<run, evidence, device, faults>>

Next ==
  \/ Tick \/ Signal \/ Prompt \/ Confirm \/ Finish \/ EndOfInput \/ ConfirmationLost \/ Kill
  \/ Connect \/ Disconnect \/ Measure \/ Restart
  \/ RestartWithOlderState \/ (\E v \in Versions : Install(v)) \/ Verify

Spec == Init /\ [][Next]_vars

-----------------------------------------------------------------------------
\* A run that passes was supervised to its end: nothing stopped it, it took its
\* full time, and every checkpoint was confirmed, none before its time; also if
\* the operator was late, or a confirmation was not written.
PassedWasSupervised ==
  result = "passed" =>
    /\ ~signalled /\ endedAt >= Duration
    /\ Confirmed = Due /\ \A i \in Due : Checkpoints[i] <= log[i]

\* Once the run is over an audit of any interval names exactly the numbers that are not
\* stored: the ranges that it lists, the count `missing` and the flag `complete`
\* say the same (verify_sequence_range, _missing_ranges).
AuditIsExact ==
  pc \in {"ended", "killed"} => \A start, end \in 1..Len(taken) + 1 : start <= end =>
    LET lost == (start..end) \ Numbers(stored)
        ranges == MissingRanges(Received(Numbers(stored), start, end), start, end) IN
    /\ UNION {r[1]..r[2] : r \in ranges} = lost
    /\ \A r \in ranges : r[1] <= r[2]
    /\ Missing(Numbers(stored), start, end) = Cardinality(lost)
    /\ Complete(Numbers(stored), start, end) <=> lost = {}

\* In a run that passes no reading was lost that the board took between the first
\* and the last diagnostic that were captured, or whose number the audit covers;
\* whatever lines, power and acknowledgements were lost, and also if restarts loaded
\* a backup that only repeats uploads.  Not so once a restart has loaded a state from
\* before some reading: the next readings get numbers that were given already, the
\* server takes them for duplicates, and no evidence shows it.
PassedLostNothing ==
  result = "passed" /\ ~reverted =>
    \A i \in DOMAIN taken : i \in since + 1..until \/ taken[i] \in audited => i \in stored
=============================================================================
