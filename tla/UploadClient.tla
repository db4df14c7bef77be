---------------------------- MODULE UploadClient ----------------------------
(***************************************************************************)
(* MyAQIClient of myaqi_client.py and its callers in code.py: the queue of *)
(* readings in memory, its durable copy, and the uploads.                  *)
(*                                                                         *)
(* The state store is the durable value that JsonStateStore implements: a  *)
(* save that returns has replaced it, one that raises may have.  (A power  *)
(* loss in a save is one before it or after it.)  What the server answers  *)
(* is left open here; Delivery adds the server.                            *)
(*                                                                         *)
(* A reading's time and value are one identity, the number of the          *)
(* measurement it was taken in.  The upload counters and the last status   *)
(* are diagnostics: their save is kept, their values are left out.         *)
(***************************************************************************)
EXTENDS Naturals, Sequences

CONSTANTS
  BatchSize,     \* upload_batch_size
  MaxPending,    \* max_buffered_readings
  MaxBatches,    \* flush(max_batches=3)
  StaleFallback, \* may load return another state than the last one saved: the
                 \* backup if it cannot read the primary file, DEFAULT_STATE if
                 \* os.stat fails on every file?
  MaxReadings,   \* bound: measurements taken
  MaxFaults      \* bound: power losses and failed saves

ASSUME QueueAssumption ==
  /\ BatchSize \in Nat \ {0} /\ MaxPending \in Nat /\ MaxPending >= BatchSize
  /\ MaxBatches \in Nat \ {0} /\ StaleFallback \in BOOLEAN
  /\ MaxReadings \in Nat /\ MaxFaults \in Nat

VARIABLES
  mem,      \* self.state: [next, pending, dropped, lastAck]
  disk,     \* the durable state
  backup,   \* the durable state before the last save (Empty: there is no file)
  phase,    \* "off", "ready", "waiting" for the answer to a request, or "error":
            \* code.py measures no more (current_state = 2)
  budget,   \* calls of flush_one that the current flush may still make
  sent,     \* history: requests sent, as [key, body]
  taken,    \* history: measurements taken
  saved,    \* history: readings whose enqueue returned
  faults

store  == <<mem, disk, backup>>
device == <<store, phase, budget, sent, taken, saved, faults>>

Reading == [sequence : Nat, id : Nat]
State   == [next : Nat, pending : Seq(Reading), dropped : Nat, lastAck : Nat]
Empty   == [next |-> 1, pending |-> <<>>, dropped |-> 0, lastAck |-> 0]

TypeOK ==
  /\ mem \in State /\ disk \in State /\ backup \in State
  /\ phase \in {"off", "ready", "waiting", "error"}
  /\ budget \in Nat
  /\ sent \subseteq [key : Nat \X Nat, body : Seq(Reading)]
  /\ taken \in Nat /\ saved \subseteq Reading /\ faults \in Nat

Init ==
  /\ mem = Empty /\ disk = Empty /\ backup = Empty
  /\ phase = "off"
  /\ budget = 0
  /\ sent = {} /\ taken = 0 /\ saved = {} /\ faults = 0

-----------------------------------------------------------------------------
\* Mutant of SaveReturns: the state is kept in memory and saved some other time.
SaveReturns_Unsaved(s) == mem' = s /\ UNCHANGED <<disk, backup>>

\* state_store.save(s), then self.state = s.
SaveReturns(s) == mem' = s /\ disk' = s /\ backup' = disk

\* state_store.save(s) raises OSError; the caller keeps self.state.
SaveRaises(s) ==
  /\ faults < MaxFaults /\ faults' = faults + 1
  /\ \/ UNCHANGED <<disk, backup>>
     \/ disk' = s /\ backup' = disk
  /\ UNCHANGED mem

\* setupIngestionClient: load, then flush if the clock is synchronized.
Boot ==
  /\ phase = "off"
  /\ \E s \in {disk} \cup (IF StaleFallback THEN {backup, Empty} ELSE {}) :
       mem' = s /\ disk' = s
  /\ phase' = "ready"
  /\ budget' \in {0, MaxBatches}
  /\ UNCHANGED <<backup, sent, taken, saved, faults>>

PowerLoss ==
  /\ phase # "off" /\ faults < MaxFaults
  /\ phase' = "off"
  /\ faults' = faults + 1
  /\ UNCHANGED <<store, budget, sent, taken, saved>>

\* Mutant of Enqueued: a full queue is cut without counting.
Enqueued_Uncounted(s, id) ==
  [s EXCEPT !.next = @ + 1,
            !.pending = Append(IF Len(@) >= MaxPending THEN Tail(@) ELSE @,
                               [sequence |-> s.next, id |-> id])]

\* enqueue: the queue with one more reading, without its oldest one if full.
Enqueued(s, id) ==
  LET full == Len(s.pending) >= MaxPending IN
  [next    |-> s.next + 1,
   pending |-> Append(IF full THEN Tail(s.pending) ELSE s.pending,
                      [sequence |-> s.next, id |-> id]),
   dropped |-> IF full THEN s.dropped + 1 ELSE s.dropped,
   lastAck |-> s.lastAck]

\* The flush of the last measurement is over.
FlushOver == phase = "ready" /\ (budget = 0 \/ mem.pending = <<>>)

\* updateAQIInfo takes a reading, enqueues it, and starts a flush.  If the save
\* raises, the reading is reported as not persisted, and the main loop neither
\* measures nor uploads until the board is reset.
Enqueue ==
  /\ FlushOver /\ taken < MaxReadings
  /\ taken' = taken + 1
  /\ \/ /\ SaveReturns(Enqueued(mem, taken'))
        /\ saved' = saved \cup {[sequence |-> mem.next, id |-> taken']}
        /\ budget' = MaxBatches
        /\ UNCHANGED <<phase, faults>>
     \/ /\ SaveRaises(Enqueued(mem, taken'))
        /\ phase' = "error"
        /\ UNCHANGED <<saved, budget>>
  /\ UNCHANGED sent

\* Measurements beyond the bound go on starting flushes; their readings are
\* left out.
EnqueueBeyondBound ==
  /\ FlushOver /\ taken = MaxReadings /\ mem.pending # <<>>
  /\ budget' = MaxBatches
  /\ UNCHANGED <<store, phase, sent, taken, saved, faults>>

First(s, n) == SubSeq(s, 1, IF n < Len(s) THEN n ELSE Len(s))
Batch == First(mem.pending, BatchSize)

\* Mutant of KeyOf: the key names only the first reading of the batch.
KeyOf_FirstOnly(b) == <<b[1].sequence, 0>>

\* The idempotency key: device, first and last sequence number of the batch.
KeyOf(b) == <<b[1].sequence, b[Len(b)].sequence>>

Request == [key |-> KeyOf(Batch), body |-> Batch]

\* flush_one up to session.post.
Send ==
  /\ phase = "ready" /\ budget > 0 /\ mem.pending # <<>>
  /\ phase' = "waiting"
  /\ sent' = sent \cup {Request}
  /\ UNCHANGED <<store, budget, taken, saved, faults>>

\* The queue without the batch that the server acknowledged.
Acknowledged(s) ==
  [next    |-> s.next,
   pending |-> SubSeq(s.pending, Len(Batch) + 1, Len(s.pending)),
   dropped |-> s.dropped,
   lastAck |-> Batch[Len(Batch)].sequence]

\* Mutant of CallsLeft: flush_one and flush both count the call.
CallsLeft_Twice == budget - 2

\* The loop of flush goes on.
CallsLeft == budget - 1

\* A 202 that covers the batch.  When its checkpoint fails, flush_one raises,
\* the batch stays in memory, and the flush is over.
Acknowledge ==
  /\ phase = "waiting"
  /\ \/ SaveReturns(Acknowledged(mem)) /\ budget' = CallsLeft /\ UNCHANGED faults
     \/ SaveRaises(Acknowledged(mem)) /\ budget' = 0
  /\ phase' = "ready"
  /\ UNCHANGED <<sent, taken, saved>>

\* No answer in time, another status, or an answer that does not cover the
\* batch: _record_upload_failure saves the counters, and ignores an OSError.
UploadFailed ==
  /\ phase = "waiting"
  /\ \/ SaveReturns(mem) /\ UNCHANGED faults
     \/ SaveRaises(mem)
  /\ phase' = "ready"
  /\ budget' = 0
  /\ UNCHANGED <<sent, taken, saved>>

Local == Boot \/ PowerLoss \/ Enqueue \/ EnqueueBeyondBound \/ Send

Next == Local \/ Acknowledge \/ UploadFailed

Spec == Init /\ [][Next]_device

-----------------------------------------------------------------------------
\* A sequence number identifies one reading, over all requests ever sent: after
\* any power loss and any failed save (enqueue, load, save).
SequenceIdentifiesReading ==
  \A m, n \in sent : \A i \in 1..Len(m.body), j \in 1..Len(n.body) :
    m.body[i].sequence = n.body[j].sequence => m.body[i] = n.body[j]

\* An idempotency key stands for one body, so no retry is ever a conflict.
KeyIdentifiesBody == \A m, n \in sent : m.key = n.key => m.body = n.body
=============================================================================
