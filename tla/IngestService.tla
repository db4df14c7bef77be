---------------------------- MODULE IngestService ----------------------------
(***************************************************************************)
(* What the ingestion endpoint promises for one device: requests take      *)
(* effect one at a time, each at once and at most once per idempotency key,*)
(* and the answer 202 is given only for a request that has taken effect.   *)
(***************************************************************************)
EXTENDS Sequences, Naturals

CONSTANTS
  Requests,   \* HTTP requests, retries included
  Key,        \* idempotency key of each request
  Body,       \* body of each request: a sequence of [sequence, value]
  None

VARIABLES
  keys,       \* ingest_requests: what is recorded under each used key
  rows,       \* measurements: the stored value of each sequence number
  events,     \* keys with a measurements.ingested event
  status,     \* answer of each request: "none" yet, "202", "conflict", "error"
  accepted    \* the sequence numbers a 202 counts as accepted

vars == <<keys, rows, events, status, accepted>>

SequencesOf(body) == {body[i].sequence : i \in 1..Len(body)}
ValueIn(body, s)  == body[CHOOSE i \in 1..Len(body) : body[i].sequence = s].value
NewOf(r) == {s \in SequencesOf(Body[r]) : rows[s] = None}

Init ==
  /\ keys = [k \in {Key[r] : r \in Requests} |-> None]
  /\ rows = [s \in UNION {SequencesOf(Body[r]) : r \in Requests} |-> None]
  /\ events = {}
  /\ status = [r \in Requests |-> "none"]
  /\ accepted = [r \in Requests |-> {}]

Answer(r, code, counted) ==
  /\ status[r] = "none"
  /\ status' = [status EXCEPT ![r] = code]
  /\ accepted' = [accepted EXCEPT ![r] = counted]

\* The first request under a key stores the readings that are new, records its
\* answer, and emits an event.  Its own answer may be lost to a failure.
Accept(r) ==
  /\ keys[Key[r]] = None
  /\ keys' = [keys EXCEPT ![Key[r]] = [body |-> Body[r], accepted |-> NewOf(r)]]
  /\ rows' = [s \in DOMAIN rows |->
                IF s \in NewOf(r) THEN ValueIn(Body[r], s) ELSE rows[s]]
  /\ events' = events \cup {Key[r]}
  /\ Answer(r, "202", NewOf(r)) \/ Answer(r, "error", {})

\* A request with the same key and body gets the recorded answer.
Replay(r) ==
  /\ keys[Key[r]] # None /\ keys[Key[r]].body = Body[r]
  /\ Answer(r, "202", keys[Key[r]].accepted)
  /\ UNCHANGED <<keys, rows, events>>

\* A request with the same key and another body is refused.
Conflict(r) ==
  /\ keys[Key[r]] # None /\ keys[Key[r]].body # Body[r]
  /\ Answer(r, "conflict", {})
  /\ UNCHANGED <<keys, rows, events>>

\* Any request may be refused or fail without effect.
Fail(r) == Answer(r, "error", {}) /\ UNCHANGED <<keys, rows, events>>

Next == \E r \in Requests : Accept(r) \/ Replay(r) \/ Conflict(r) \/ Fail(r)

Spec == Init /\ [][Next]_vars
=============================================================================
