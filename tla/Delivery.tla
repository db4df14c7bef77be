------------------------------- MODULE Delivery -------------------------------
(***************************************************************************)
(* A device and the ingestion API, with a network that loses or delays     *)
(* requests and answers.  The API handles a request at one instant, as     *)
(* IngestService says and Ingestion implements.  A request that the client *)
(* has given up may still be handled later, and its retry also.            *)
(***************************************************************************)
EXTENDS UploadClient, FiniteSets

CONSTANTS MaxLosses   \* bound: requests that fail or are lost, and lost answers

ASSUME LossesAssumption == MaxLosses \in Nat

VARIABLES
  keys,    \* ingest_requests: the requests recorded, as [key, body]
  rows,    \* measurements: the readings stored, each with the key of the
           \* request that stored it (ingest_request_id)
  reply,   \* the answer on the client's connection: "none", "202", "refused"
           \* (a conflict), or "error": another 4xx or 5xx
  losses

server == <<keys, rows>>
vars   == <<device, server, reply, losses>>

DeliveryTypeOK ==
  /\ TypeOK
  /\ keys \subseteq sent
  /\ rows \subseteq [key : Nat \X Nat, reading : Reading]
  /\ reply \in {"none", "202", "refused", "error"}
  /\ losses \in 0..MaxLosses

DeliveryInit == Init /\ keys = {} /\ rows = {} /\ reply = "none" /\ losses = 0

RowsOf(m) == {[key |-> m.key, reading |-> m.body[i]] : i \in 1..Len(m.body)}

\* Mutant of NewRows: no unique constraint on (device_id, sequence).
NewRows_All(m) == RowsOf(m)

\* The readings of m whose sequence number is not stored yet.
NewRows(m) == {r \in RowsOf(m) : \A s \in rows : s.reading.sequence # r.reading.sequence}

\* Mutant of Verdict: a key in use is refused, also for the same body.
Verdict_NoReplay(m) == IF \E k \in keys : k.key = m.key THEN "refused" ELSE "202"

\* The API's verdict on m: a key that is in use needs the same body.
Verdict(m) == IF \E k \in keys : k.key = m.key /\ k # m THEN "refused" ELSE "202"

\* ingest_measurements records, replays or refuses m, and answers; the answer
\* goes nowhere if the client no longer waits for it.
Handle(m) ==
  /\ IF Verdict(m) = "202" /\ \A k \in keys : k.key # m.key
       THEN keys' = keys \cup {m} /\ rows' = rows \cup NewRows(m)
       ELSE UNCHANGED server
  /\ reply' = IF phase = "waiting" /\ reply = "none" /\ m = Request
                THEN Verdict(m) ELSE reply
  /\ UNCHANGED <<device, losses>>

\* The client's side, with the connection it waits on.
Run == Local /\ reply' = "none" /\ UNCHANGED <<server, losses>>

Acknowledged202 == reply = "202" /\ Acknowledge /\ reply' = "none" /\ UNCHANGED <<server, losses>>

\* Authentication, a limit or a database error stops the request: a 4xx or 5xx
\* without effect.
Reject ==
  /\ phase = "waiting" /\ reply = "none"
  /\ losses < MaxLosses /\ losses' = losses + 1
  /\ reply' = "error"
  /\ UNCHANGED <<device, server>>

Refused == reply \in {"refused", "error"} /\ UploadFailed /\ reply' = "none" /\ UNCHANGED <<server, losses>>

\* The request, or its answer, is lost or late.
Lost ==
  /\ losses < MaxLosses /\ losses' = losses + 1
  /\ UploadFailed /\ reply' = "none"
  /\ UNCHANGED server

DeliveryNext == Run \/ Acknowledged202 \/ Reject \/ Refused \/ Lost \/ \E m \in sent : Handle(m)

DeliverySpec == DeliveryInit /\ [][DeliveryNext]_vars

\* The board boots when it has power and goes on measuring; a request that is
\* sent is in the end handled and answered (losses are bounded).
DeliveryFairSpec ==
  /\ DeliverySpec
  /\ WF_vars(Run /\ (Boot \/ Enqueue \/ EnqueueBeyondBound \/ Send))
  /\ WF_vars(Acknowledged202) /\ WF_vars(Refused)
  /\ WF_vars(phase = "waiting" /\ \E m \in sent : m = Request /\ Handle(m))

-----------------------------------------------------------------------------
ReadingsIn(queue) == {queue[i] : i \in 1..Len(queue)}

\* No reading is lost silently: one that enqueue stored is still queued on the
\* device, or stored by the API with its own value, or among the number that
\* dropped_readings counts, whatever power, flash and network do.
NoSilentLoss ==
  LET stored == {r.reading : r \in rows} IN
  Cardinality(saved \ (stored \cup ReadingsIn(disk.pending))) <= disk.dropped

\* A measurement is stored once, however often it is sent and under however
\* many keys, and a row never stands for two measurements.
StoredOnce ==
  \A q, r \in rows :
    (q.reading.id = r.reading.id \/ q.reading.sequence = r.reading.sequence) => q = r

\* Once faults stop, the backlog drains: the queue becomes empty and stays so,
\* unless a measurement that could not be saved has stopped the uploads.
BacklogDrains == <>[](phase = "error" \/ (phase = "ready" /\ mem.pending = <<>>))
=============================================================================
