------------------------------- MODULE Outbox -------------------------------
(***************************************************************************)
(* The transactional outbox: rows of outbox_events (models.py) and the     *)
(* worker processes that claim, publish and settle them (outbox.py), with  *)
(* the operator's replay command (admin.py).                               *)
(*                                                                         *)
(* Each database transaction of outbox.py is one action: it reads its rows *)
(* with FOR UPDATE (claim_events adds SKIP LOCKED) and commits, so two     *)
(* transactions on the same row are serialised.  Calls to the publisher    *)
(* happen outside any transaction and are actions of their own.            *)
(*                                                                         *)
(* Times are kept relative to the present: Tick moves every stored time    *)
(* one second into the past, down to a floor below which no comparison of  *)
(* the code can tell two times apart.  A process reads the present with an *)
(* error of at most ClockSkew.                                             *)
(***************************************************************************)
EXTENDS Integers, FiniteSets

CONSTANTS
  Events,       \* rows, numbered in the order of (created_at, id)
  Workers,      \* worker ids; WORKER_ID or hostname-pid, unique per process
  None,         \* the NULL of locked_at and locked_by
  BatchSize,    \* OUTBOX_BATCH_SIZE
  LockTimeout,  \* OUTBOX_LOCK_TIMEOUT_SECONDS
  MaxAttempts,  \* OUTBOX_MAX_ATTEMPTS
  ClockSkew,    \* how far a process's clock may be from the database rows' time
  PublishTime,  \* longest time a worker spends on one event of its batch
  MaxReplays,   \* bound: operator replays of one event
  MaxStops      \* bound: crashes and stop requests, all workers together

ASSUME EventsAssumption  == Events \subseteq Nat /\ IsFiniteSet(Events)
ASSUME WorkersAssumption == None \notin Workers /\ None \notin Int
ASSUME BoundsAssumption ==
  /\ BatchSize \in Nat \ {0} /\ LockTimeout \in Nat \ {0}
  /\ MaxAttempts \in Nat \ {0} /\ ClockSkew \in Nat /\ PublishTime \in Nat
  /\ MaxReplays \in Nat /\ MaxStops \in Nat

VARIABLES
  status, attempts, availableAt, lockedAt, lockedBy,  \* outbox_events columns
  process,    \* is the worker process running, asked to stop, or not running
  batch,      \* the claimed events it has still to settle, in its memory
  outcome,    \* what publish returned for the first event of the batch
  elapsed,    \* time spent on that event so far
  delivered,  \* history: times the broker accepted the event, counted to 2
  excused,    \* history: events re-claimed from a lock, or whose publish
              \* raised after the broker had accepted
  replays,    \* history: replays of each event
  stops       \* history: crashes and stop requests so far, and crashes alone

row    == <<status, attempts, availableAt, lockedAt, lockedBy>>
worker == <<process, batch, outcome, elapsed>>
vars   == <<row, worker, delivered, excused, replays, stops>>

Skew == (-ClockSkew)..ClockSkew
Later(t, floor) == IF t > floor THEN t - 1 ELSE floor
Smaller(a, b) == IF a < b THEN a ELSE b

\* mark_failed: min(300, 2 ** min(attempts, 8)).
Backoff(n) == Smaller(300, 2 ^ Smaller(n, 8))

TypeOK ==
  /\ status \in [Events -> {"absent", "pending", "processing", "published", "dead"}]
  /\ attempts \in [Events -> Nat]
  /\ availableAt \in [Events -> Int]
  /\ lockedAt \in [Events -> Int \cup {None}]
  /\ lockedBy \in [Events -> Workers \cup {None}]
  /\ process \in [Workers -> {"running", "stopping", "down"}]
  /\ batch \in [Workers -> SUBSET Events]
  /\ outcome \in [Workers -> {"none", "ok", "error"}]
  /\ elapsed \in [Workers -> Nat]
  /\ delivered \in [Events -> 0..2]
  /\ excused \subseteq Events
  /\ replays \in [Events -> Nat]
  /\ stops \in [all : Nat, crashes : Nat]

Init ==
  /\ status = [e \in Events |-> "absent"]
  /\ attempts = [e \in Events |-> 0]
  /\ availableAt = [e \in Events |-> 0]
  /\ lockedAt = [e \in Events |-> None]
  /\ lockedBy = [e \in Events |-> None]
  /\ process = [w \in Workers |-> "running"]
  /\ batch = [w \in Workers |-> {}]
  /\ outcome = [w \in Workers |-> "none"]
  /\ elapsed = [w \in Workers |-> 0]
  /\ delivered = [e \in Events |-> 0]
  /\ excused = {}
  /\ replays = [e \in Events |-> 0]
  /\ stops = [all |-> 0, crashes |-> 0]

-----------------------------------------------------------------------------
\* The API commits an event with its measurements.  created_at is taken before
\* the commit, so events may become visible in any order.
Insert(e) ==
  /\ status[e] = "absent"
  /\ status' = [status EXCEPT ![e] = "pending"]
  /\ availableAt' = [availableAt EXCEPT ![e] = 0]
  /\ UNCHANGED <<attempts, lockedAt, lockedBy, worker, delivered, excused, replays, stops>>

\* Mutant of Claimable: a lock is never taken over.
Claimable_NoRecovery(e, now) == status[e] = "pending" /\ availableAt[e] <= now

\* The WHERE clause of claim_events, for a worker whose clock shows `now`.
Claimable(e, now) ==
  \/ status[e] = "pending" /\ availableAt[e] <= now
  \/ status[e] = "processing" /\ lockedAt[e] <= now - LockTimeout

\* ORDER BY created_at, id LIMIT batch_size over the rows of `pool`.
Oldest(claimed, pool) ==
  /\ claimed \subseteq pool
  /\ Cardinality(claimed) <= BatchSize
  /\ \A e \in pool \ claimed :
       Cardinality(claimed) = BatchSize /\ \A c \in claimed : c < e

\* SKIP LOCKED: rows another worker's uncommitted transaction holds are passed
\* over; that transaction may still roll back.
Skippable(w) ==
  IF \E v \in Workers \ {w} : process[v] # "down" THEN Events ELSE {}

\* claim_events, called by process_once between two batches.  A call that finds
\* nothing changes nothing.
Claim(w) ==
  \E now \in Skew, skipped \in SUBSET Skippable(w), claimed \in SUBSET Events :
    /\ process[w] = "running"
    /\ batch[w] = {}
    /\ claimed # {}
    /\ Oldest(claimed, {e \in Events \ skipped : Claimable(e, now)})
    /\ status' = [e \in Events |-> IF e \in claimed THEN "processing" ELSE status[e]]
    /\ lockedAt' = [e \in Events |-> IF e \in claimed THEN now ELSE lockedAt[e]]
    /\ lockedBy' = [e \in Events |-> IF e \in claimed THEN w ELSE lockedBy[e]]
    /\ batch' = [batch EXCEPT ![w] = claimed]
    /\ elapsed' = [elapsed EXCEPT ![w] = 0]
    /\ excused' = excused \cup {e \in claimed : status[e] = "processing"}
    /\ UNCHANGED <<attempts, availableAt, process, outcome, delivered, replays, stops>>

\* e is the event the loop of process_once is at.
Current(w, e) == e \in batch[w] /\ \A f \in batch[w] : e <= f

Delivered(e) == [delivered EXCEPT ![e] = Smaller(2, @ + 1)]

\* publisher.publish returned: the broker accepted the event.
PublishOk(w, e) ==
  /\ Current(w, e) /\ outcome[w] = "none"
  /\ outcome' = [outcome EXCEPT ![w] = "ok"]
  /\ delivered' = Delivered(e)
  /\ UNCHANGED <<row, process, batch, elapsed, excused, replays, stops>>

\* publisher.publish raised; an answer lost on the way back raises after the
\* broker has accepted.
PublishError(w, e) ==
  /\ Current(w, e) /\ outcome[w] = "none"
  /\ outcome' = [outcome EXCEPT ![w] = "error"]
  /\ \/ UNCHANGED <<delivered, excused>>
     \/ delivered' = Delivered(e) /\ excused' = excused \cup {e}
  /\ UNCHANGED <<row, process, batch, elapsed, replays, stops>>

\* Mutant of Owns: the owner is not tested again.
Owns_AnyOwner(w, e) == status[e] = "processing"

\* The ownership test of mark_published and mark_failed.
Owns(w, e) == status[e] = "processing" /\ lockedBy[e] = w

\* The worker is done with e, whatever the marking transaction did.
NextOfBatch(w, e) ==
  /\ batch' = [batch EXCEPT ![w] = @ \ {e}]
  /\ outcome' = [outcome EXCEPT ![w] = "none"]
  /\ elapsed' = [elapsed EXCEPT ![w] = 0]
  /\ UNCHANGED <<process, delivered, excused, replays, stops>>

Unlock(e) ==
  /\ lockedAt' = [lockedAt EXCEPT ![e] = None]
  /\ lockedBy' = [lockedBy EXCEPT ![e] = None]

\* Mutant of the except branch of process_once: marking in a `finally` clause.
PublishRaised_Finally(w, e) == Current(w, e) /\ outcome[w] # "none"

PublishReturned(w, e) == Current(w, e) /\ outcome[w] = "ok"
PublishRaised(w, e) == Current(w, e) /\ outcome[w] = "error"

MarkPublished(w, e) ==
  /\ PublishReturned(w, e)
  /\ Owns(w, e)
  /\ status' = [status EXCEPT ![e] = "published"]
  /\ Unlock(e)
  /\ UNCHANGED <<attempts, availableAt>>
  /\ NextOfBatch(w, e)

\* Mutant of AfterFailure: a status nothing reads.
AfterFailure_Unknown(n) == IF n >= MaxAttempts THEN "failed" ELSE "pending"

AfterFailure(n) == IF n >= MaxAttempts THEN "dead" ELSE "pending"

MarkFailed(w, e) ==
  /\ PublishRaised(w, e)
  /\ Owns(w, e)
  /\ attempts' = [attempts EXCEPT ![e] = @ + 1]
  /\ Unlock(e)
  /\ status' = [status EXCEPT ![e] = AfterFailure(attempts[e] + 1)]
  /\ IF status'[e] = "pending"
       THEN \E now \in Skew :
              availableAt' = [availableAt EXCEPT ![e] = now + Backoff(attempts[e] + 1)]
       ELSE UNCHANGED availableAt
  /\ NextOfBatch(w, e)

\* mark_published or mark_failed returns False: the lock was taken over.
MarkRefused(w, e) ==
  /\ Current(w, e) /\ outcome[w] # "none"
  /\ ~Owns(w, e)
  /\ UNCHANGED row
  /\ NextOfBatch(w, e)

-----------------------------------------------------------------------------
\* The process ends anywhere: killed, or by a database error, which nothing in
\* process_once or main catches.  What it had claimed stays locked.
Crash(w) ==
  /\ process[w] # "down" /\ stops.all < MaxStops
  /\ process' = [process EXCEPT ![w] = "down"]
  /\ batch' = [batch EXCEPT ![w] = {}]
  /\ outcome' = [outcome EXCEPT ![w] = "none"]
  /\ elapsed' = [elapsed EXCEPT ![w] = 0]
  /\ stops' = [all |-> stops.all + 1, crashes |-> stops.crashes + 1]
  /\ UNCHANGED <<row, delivered, excused, replays>>

\* SIGTERM or SIGINT: request_stop only sets stop_requested.
RequestStop(w) ==
  /\ process[w] = "running" /\ stops.all < MaxStops
  /\ process' = [process EXCEPT ![w] = "stopping"]
  /\ stops' = [stops EXCEPT !.all = @ + 1]
  /\ UNCHANGED <<row, batch, outcome, elapsed, delivered, excused, replays>>

\* Mutant of Stop: the signal ends the process in the middle of its batch.
Stop_AtOnce(w) ==
  /\ process[w] = "stopping"
  /\ process' = [process EXCEPT ![w] = "down"]
  /\ batch' = [batch EXCEPT ![w] = {}]
  /\ outcome' = [outcome EXCEPT ![w] = "none"]
  /\ UNCHANGED <<row, elapsed, delivered, excused, replays, stops>>

\* main's loop tests stop_requested only between two calls of process_once.
Stop(w) ==
  /\ process[w] = "stopping" /\ batch[w] = {}
  /\ process' = [process EXCEPT ![w] = "down"]
  /\ UNCHANGED <<row, batch, outcome, elapsed, delivered, excused, replays, stops>>

\* The service scheduler keeps the desired number of workers running.
Start(w) ==
  /\ process[w] = "down"
  /\ process' = [process EXCEPT ![w] = "running"]
  /\ UNCHANGED <<row, batch, outcome, elapsed, delivered, excused, replays, stops>>

\* myaqi-admin replay-event: attempts and last_error are retained.
ReplayEvent(e) ==
  /\ status[e] = "dead" /\ replays[e] < MaxReplays
  /\ status' = [status EXCEPT ![e] = "pending"]
  /\ availableAt' = [availableAt EXCEPT ![e] = 0]
  /\ Unlock(e)
  /\ replays' = [replays EXCEPT ![e] = @ + 1]
  /\ UNCHANGED <<attempts, worker, delivered, excused, stops>>

\* A second passes.  No worker spends more than PublishTime on one event.
Tick ==
  /\ \A w \in Workers : batch[w] # {} => elapsed[w] < PublishTime
  /\ availableAt' = [e \in Events |-> Later(availableAt[e], -ClockSkew)]
  /\ lockedAt' = [e \in Events |->
                    IF lockedAt[e] = None THEN None
                    ELSE Later(lockedAt[e], -(LockTimeout + ClockSkew))]
  /\ elapsed' = [w \in Workers |->
                    IF batch[w] = {} THEN elapsed[w] ELSE elapsed[w] + 1]
  /\ UNCHANGED <<status, attempts, lockedBy, process, batch, outcome,
                 delivered, excused, replays, stops>>

Handle(w) == \E e \in Events :
  \/ PublishOk(w, e) \/ PublishError(w, e)
  \/ MarkPublished(w, e) \/ MarkFailed(w, e) \/ MarkRefused(w, e)

Next ==
  \/ \E e \in Events : Insert(e) \/ ReplayEvent(e)
  \/ \E w \in Workers :
       Claim(w) \/ Handle(w) \/ Crash(w) \/ RequestStop(w) \/ Stop(w) \/ Start(w)
  \/ Tick

Spec == Init /\ [][Next]_vars

\* Each worker process keeps running its loop, the scheduler restarts it, and
\* time passes.  Nothing makes a publish succeed, the API insert, or the
\* operator replay.
Fairness ==
  /\ \A w \in Workers : WF_vars(Claim(w)) /\ WF_vars(Handle(w))
                        /\ WF_vars(Stop(w)) /\ WF_vars(Start(w))
  /\ WF_vars(Tick)

FairSpec == Spec /\ Fairness

-----------------------------------------------------------------------------
\* A row has a lock exactly while it is processing, and all its lock columns
\* agree (claim_events, mark_published, mark_failed, replay_event).
LockColumnsAgree ==
  \A e \in Events : IF status[e] = "processing"
                       THEN lockedBy[e] # None /\ lockedAt[e] # None
                       ELSE lockedBy[e] = None /\ lockedAt[e] = None

\* Unless a worker process crashed, every locked event is in the memory of the
\* worker that locked it: a graceful stop leaves no lock behind, and neither
\* does a takeover (main's loop, process_once).
NoOrphanLock ==
  stops.crashes = 0 =>
    \A e \in Events : status[e] = "processing" =>
      \E w \in Workers : lockedBy[e] = w /\ e \in batch[w]

\* An event recorded as published did reach the broker, also when its lock was
\* taken over while a publish was under way (process_once, mark_published).
\* This, DuplicateIsExcused, BoundedRetry and PublishedIsFinal hold of every
\* implementation of EventHandoff; their theorems are in OutboxProofs.
PublishedWasDelivered ==
  \A e \in Events : status[e] = "published" => delivered[e] > 0

\* A consumer sees an event twice only if its lock was taken over or if the
\* publisher raised although the broker had accepted (at-least-once handoff).
DuplicateIsExcused ==
  \A e \in Events : delivered[e] = 2 => e \in excused

\* Retry is bounded: failures recorded against an event never pass the limit
\* but by one per operator replay, and an event is dead only with its attempts
\* used up; one with attempts left is never given up (mark_failed, replay_event).
BoundedRetry ==
  \A e \in Events :
    /\ attempts[e] <= MaxAttempts + replays[e]
    /\ status[e] = "dead" => attempts[e] >= MaxAttempts
    /\ attempts[e] >= MaxAttempts => status[e] = "dead" \/ replays[e] > 0

\* A lock is released only by the worker that holds it, for the event it has
\* just handled; a worker that lost its lock leaves the row alone
\* (the ownership tests of mark_published and mark_failed).
OnlyOwnerReleases ==
  [][\A e \in Events : status[e] = "processing" /\ status'[e] # "processing" =>
       \E w \in Workers : lockedBy[e] = w /\ e \in batch[w] /\ e \notin batch'[w]]_vars

\* Nothing brings a published event back, whatever a slow worker still does.
PublishedIsFinal ==
  [][\A e \in Events : status[e] = "published" => status'[e] = "published"]_vars

\* A whole batch, handled at the slowest, fits in the lock timeout with the
\* clock error of the claiming and of a competing worker to spare.
BatchFitsLock == BatchSize * PublishTime + 2 * ClockSkew < LockTimeout

\* Claims are exclusive: no two workers hold a claim on the same event (each
\* would publish it).  process_once works through its batch under the one
\* locked_at that claim_events wrote, so this takes BatchFitsLock.
ExclusiveClaims ==
  \A v, w \in Workers : v # w => batch[v] \cap batch[w] = {}

\* What the workers promise: every event is in the end published, or dead and
\* left to the operator, whatever fails or crashes on the way.
EventuallySettled ==
  \A e \in Events :
    status[e] \in {"pending", "processing"} ~> status[e] \in {"published", "dead"}

\* The handoff does not know workers or locks: a claimed event is an open one.
Phase(s) == CASE s = "absent" -> "none"
              [] s = "published" -> "done"
              [] s = "dead" -> "dead"
              [] OTHER -> "open"

\* Workers that claim, lose locks, crash and mark in any order, and operators
\* that replay, implement one handoff per event: each transaction of outbox.py
\* and admin.py and each call of publish is one step of it, or none.
Handoff == INSTANCE EventHandoff WITH phase <- [e \in Events |-> Phase(status[e])]
ImplementsHandoff == Handoff!Spec
=============================================================================
