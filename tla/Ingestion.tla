------------------------------ MODULE Ingestion ------------------------------
(***************************************************************************)
(* ingest_measurements (ingestion.py) for one device: concurrent requests, *)
(* each a database transaction under READ COMMITTED, statement by statement*)
(* (rows and keys of different devices never meet).                        *)
(*                                                                         *)
(* The database is external.  What it gives the code: a unique constraint  *)
(* makes INSERT ... ON CONFLICT DO NOTHING wait for a transaction that has *)
(* inserted the same key and not ended, then insert or skip; nothing a     *)
(* transaction wrote is seen by others before it commits.  The session has *)
(* autoflush off, so the ORM's changes (device row, response, event) are   *)
(* written with the commit.                                                *)
(***************************************************************************)
EXTENDS Integers, Sequences, FiniteSets

CONSTANTS
  Requests,     \* HTTP requests that reach the API, retries included
  Key,          \* Idempotency-Key of each
  Body,         \* readings of each: a sequence of [sequence, value]
  None,         \* NULL
  MaxInFlight,  \* bound: requests of the device handled at the same time
  MaxFaults     \* bound: failed database calls and killed API processes

VARIABLES
  keys,          \* ingest_requests, committed: [body, accepted] of a used key
  rows,          \* measurements, committed: value of each sequence number
  events,        \* outbox_events, committed: keys with an event
  lastSequence,  \* devices.last_sequence, committed (0 for NULL)
  pc,            \* where the handling of each request stands
  seen,          \* devices.last_sequence as the request read it
  replayed,      \* did it find its key in use?
  index,         \* next reading of its INSERT of measurements
  mine,          \* rows it has inserted and not committed; on a replay, the
                 \* accepted readings of the recorded response
  status,        \* answer: "none" yet, "202", "conflict", "in_progress", "error"
  accepted,      \* readings the answer counts as accepted
  faults         \* history: failed calls and killed processes so far

table   == <<keys, rows, events, lastSequence>>
request == <<pc, seen, replayed, index, mine>>
answer  == <<status, accepted>>
vars    == <<table, request, answer, faults>>

KeySet == {Key[r] : r \in Requests}
SequencesOf(body) == {body[i].sequence : i \in 1..Len(body)}
ValueIn(body, s) == body[CHOOSE i \in 1..Len(body) : body[i].sequence = s].value
SequenceSet == UNION {SequencesOf(Body[r]) : r \in Requests}
ValueSet == UNION {{Body[r][i].value : i \in 1..Len(Body[r])} : r \in Requests}

\* validation.py: a non-empty array without a repeated sequence number.
ASSUME BodiesAssumption ==
  /\ MaxInFlight \in Nat \ {0} /\ MaxFaults \in Nat
  /\ \A r \in Requests :
       /\ Body[r] \in Seq([sequence : Nat, value : ValueSet]) /\ Body[r] # <<>>
       /\ \A i, j \in 1..Len(Body[r]) : Body[r][i].sequence = Body[r][j].sequence => i = j
ASSUME NoneAssumption ==
  /\ None \notin ValueSet
  /\ \A S \in SUBSET SequenceSet :
       None # S /\ \A r \in Requests : None # [body |-> Body[r], accepted |-> S]

InFlight == {r \in Requests : pc[r] \notin {"sent", "done"}}

TypeOK ==
  /\ keys \in [KeySet -> [body : {Body[r] : r \in Requests}, accepted : SUBSET SequenceSet] \cup {None}]
  /\ rows \in [SequenceSet -> ValueSet \cup {None}]
  /\ events \subseteq KeySet
  /\ lastSequence \in SequenceSet \cup {0}
  /\ pc \in [Requests -> {"sent", "begun", "inserting", "committing", "done"}]
  /\ seen \in [Requests -> SequenceSet \cup {0}]
  /\ replayed \in [Requests -> BOOLEAN]
  /\ index \in [Requests -> Nat]
  /\ mine \in [Requests -> SUBSET SequenceSet]
  /\ status \in [Requests -> {"none", "202", "conflict", "in_progress", "error"}]
  /\ accepted \in [Requests -> SUBSET SequenceSet]
  /\ faults \in 0..MaxFaults

Init ==
  /\ keys = [k \in KeySet |-> None]
  /\ rows = [s \in SequenceSet |-> None]
  /\ events = {}
  /\ lastSequence = 0
  /\ pc = [r \in Requests |-> "sent"]
  /\ seen = [r \in Requests |-> 0]
  /\ replayed = [r \in Requests |-> FALSE]
  /\ index = [r \in Requests |-> 1]
  /\ mine = [r \in Requests |-> {}]
  /\ status = [r \in Requests |-> "none"]
  /\ accepted = [r \in Requests |-> {}]
  /\ faults = 0

-----------------------------------------------------------------------------
\* The transaction of r ends and the request is answered.
End(r, code, counted) ==
  /\ pc' = [pc EXCEPT ![r] = "done"]
  /\ mine' = [mine EXCEPT ![r] = {}]
  /\ status' = [status EXCEPT ![r] = code]
  /\ accepted' = [accepted EXCEPT ![r] = counted]
  /\ UNCHANGED <<seen, replayed, index>>

\* The transaction begins by reading the device row.
ReadDevice(r) ==
  /\ pc[r] = "sent" /\ Cardinality(InFlight) < MaxInFlight
  /\ pc' = [pc EXCEPT ![r] = "begun"]
  /\ seen' = [seen EXCEPT ![r] = lastSequence]
  /\ UNCHANGED <<table, replayed, index, mine, answer, faults>>

\* Unknown or inactive device, bad signature (401), invalid batch (422): the
\* exception rolls the transaction back.
Reject(r) ==
  /\ pc[r] = "begun"
  /\ End(r, "error", {})
  /\ UNCHANGED <<table, faults>>

\* Transactions that have inserted and not committed a key, a measurement.
HoldsKey(q, k)      == pc[q] \in {"inserting", "committing"} /\ ~replayed[q] /\ Key[q] = k
HoldsSequence(q, s) == HoldsKey(q, Key[q]) /\ s \in mine[q]

\* A key in use is refused for another body, or without a recorded response.
Refusal(r, found) ==
  IF found.body # Body[r] THEN "conflict"
  ELSE IF found.accepted = None THEN "in_progress" ELSE "none"

\* _insert_ingest_request, and the branches on a key that is in use.
ReserveKey(r) ==
  /\ pc[r] = "begun"
  /\ \A q \in Requests \ {r} : ~HoldsKey(q, Key[r])
  /\ LET found == keys[Key[r]] IN
     \/ /\ found = None
        /\ pc' = [pc EXCEPT ![r] = "inserting"]
        /\ UNCHANGED <<seen, replayed, index, mine, answer>>
     \/ /\ found # None /\ Refusal(r, found) # "none"
        /\ End(r, Refusal(r, found), {})
     \/ /\ found # None /\ Refusal(r, found) = "none"
        /\ pc' = [pc EXCEPT ![r] = "committing"]
        /\ replayed' = [replayed EXCEPT ![r] = TRUE]
        /\ mine' = [mine EXCEPT ![r] = found.accepted]
        /\ UNCHANGED <<seen, index, answer>>
  /\ UNCHANGED <<table, faults>>

\* Mutant of Current: the newest reading of a batch goes in first.
Current_NewestFirst(r) ==
  Body[r][IF index[r] = 1 THEN Len(Body[r]) ELSE index[r] - 1].sequence

\* The reading that the INSERT has come to: the order of the array.
Current(r) == Body[r][index[r]].sequence

\* Mutant of InsertReading: the readings go in as a set, in no fixed order.
InsertReading_AnyOrder(r) ==
  /\ pc[r] = "inserting" /\ index[r] <= Len(Body[r])
  /\ \E s \in SequencesOf(Body[r]) \ mine[r] :
       /\ rows[s] = None
       /\ \A q \in Requests \ {r} : ~HoldsSequence(q, s)
       /\ mine' = [mine EXCEPT ![r] = @ \cup {s}]
  /\ index' = [index EXCEPT ![r] = @ + 1]
  /\ UNCHANGED <<table, pc, seen, replayed, answer, faults>>

\* Mutant of InsertReading: the conflict is not waited for.
InsertReading_NoWait(r) ==
  /\ pc[r] = "inserting" /\ index[r] <= Len(Body[r])
  /\ LET s == Current(r) IN
       mine' = IF rows[s] = None /\ \A q \in Requests \ {r} : ~HoldsSequence(q, s)
                 THEN [mine EXCEPT ![r] = @ \cup {s}] ELSE mine
  /\ index' = [index EXCEPT ![r] = @ + 1]
  /\ UNCHANGED <<table, pc, seen, replayed, answer, faults>>

\* _insert_measurements, one row of its VALUES at a time.
InsertReading(r) ==
  /\ pc[r] = "inserting" /\ index[r] <= Len(Body[r])
  /\ LET s == Current(r) IN
       /\ \A q \in Requests \ {r} : ~HoldsSequence(q, s)
       /\ mine' = IF rows[s] = None THEN [mine EXCEPT ![r] = @ \cup {s}] ELSE mine
  /\ index' = [index EXCEPT ![r] = @ + 1]
  /\ UNCHANGED <<table, pc, seen, replayed, answer, faults>>

\* The statement has returned its count: response and event.
Respond(r) ==
  /\ pc[r] = "inserting" /\ index[r] > Len(Body[r])
  /\ pc' = [pc EXCEPT ![r] = "committing"]
  /\ UNCHANGED <<table, seen, replayed, index, mine, answer, faults>>

Highest(S) == CHOOSE s \in S : \A t \in S : t <= s

\* Mutant of Reported: a count of readings.
Reported_Count(r) == seen[r] + Len(Body[r])

\* device.last_sequence = max(device.last_sequence or 0, max of the batch).
Reported(r) == Highest(SequencesOf(Body[r]) \cup {seen[r]})

\* The flush and the commit.  last_sequence is part of the UPDATE only if it
\* differs from the value the session read.
Write(r) ==
  /\ lastSequence' = IF Reported(r) # seen[r] THEN Reported(r) ELSE lastSequence
  /\ IF replayed[r] THEN UNCHANGED <<keys, rows, events>>
     ELSE /\ keys' = [keys EXCEPT ![Key[r]] = [body |-> Body[r], accepted |-> mine[r]]]
          /\ rows' = [s \in SequenceSet |->
                        IF s \in mine[r] THEN ValueIn(Body[r], s) ELSE rows[s]]
          /\ events' = events \cup {Key[r]}

Commit(r) ==
  /\ pc[r] = "committing"
  /\ Write(r)
  /\ End(r, "202", mine[r])
  /\ UNCHANGED faults

\* The database commits, but its reply, or the API's answer, is lost.
CommitUnanswered(r) ==
  /\ pc[r] = "committing" /\ faults < MaxFaults
  /\ Write(r)
  /\ End(r, "error", {})
  /\ faults' = faults + 1

\* A database error (503) or a killed process: the transaction rolls back.
Abort(r) ==
  /\ r \in InFlight /\ faults < MaxFaults
  /\ End(r, "error", {})
  /\ faults' = faults + 1
  /\ UNCHANGED table

Proceed(r) == ReserveKey(r) \/ InsertReading(r) \/ Respond(r) \/ Commit(r)

Next == \E r \in Requests :
  ReadDevice(r) \/ Reject(r) \/ Proceed(r) \/ CommitUnanswered(r) \/ Abort(r)

Spec == Init /\ [][Next]_vars

\* A thread that handles a request runs its next statement when it is not
\* waiting for another transaction.
FairSpec == Spec /\ \A r \in Requests : WF_vars(ReadDevice(r)) /\ WF_vars(Proceed(r))

-----------------------------------------------------------------------------
\* What a 202 tells the device is true, and it may forget the batch: every
\* reading of the body is stored, the request is recorded and has its event,
\* also when another request stored the reading and may still have failed.
AcknowledgedIsStored ==
  \A r \in Requests : status[r] = "202" =>
    /\ \A s \in SequencesOf(Body[r]) : rows[s] # None
    /\ keys[Key[r]] # None /\ Key[r] \in events

\* devices.last_sequence is the highest sequence number of the successful
\* requests, so it is not below any stored reading.
HighestReported == \A s \in SequenceSet : rows[s] # None => s <= lastSequence

\* Waiting for another transaction to end: for its key, or for a reading.
Waiting(r) ==
  \/ pc[r] = "begun" /\ \E q \in Requests \ {r} : HoldsKey(q, Key[r])
  \/ /\ pc[r] = "inserting" /\ index[r] <= Len(Body[r])
     /\ \E q \in Requests \ {r} : HoldsSequence(q, Current(r))

\* Transactions never all wait for each other: one of those under way can make
\* its next statement (the readings of a batch are inserted in ascending order,
\* and the key before them).
SomeoneProceeds == InFlight # {} => \E r \in InFlight : ~Waiting(r)

\* Requests of a device do not wait for each other forever: each one that is
\* taken up is answered.  (The device's batches are in ascending order; a cycle
\* of waits would take two batches that share readings in opposite orders.)
EveryRequestAnswered == \A r \in Requests : pc[r] = "begun" ~> status[r] # "none"

\* The transactions implement a service that takes requests one at a time.
Service == INSTANCE IngestService
ImplementsIngestService == Service!Spec
=============================================================================
