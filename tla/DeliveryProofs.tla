---------------------------- MODULE DeliveryProofs ----------------------------
(***************************************************************************)
(* Theorems about UploadClient and Delivery, for any queue and batch size  *)
(* and any number of faults, when load never returns an old backup: a      *)
(* sequence number and an idempotency key mean one thing, no reading is    *)
(* stored twice, and none is lost without being counted.                   *)
(***************************************************************************)
EXTENDS Delivery, FiniteSetTheorems, TLAPS

USE QueueAssumption

LEMMA ElementTyped ==
  ASSUME NEW q \in Seq(Reading), NEW i \in 1..Len(q)
  PROVE  q[i] \in Reading /\ q[i].sequence \in Nat /\ q[i].id \in Nat
<1>1. q[i] \in Reading
  OBVIOUS
<1> QED
  BY <1>1 DEF Reading

LEMMA AppendReading ==
  ASSUME NEW q \in Seq(Reading), NEW x \in Reading
  PROVE  /\ Append(q, x) \in Seq(Reading) /\ Len(Append(q, x)) = Len(q) + 1
         /\ \A i \in 1..Len(q) : Append(q, x)[i] = q[i]
         /\ Append(q, x)[Len(q) + 1] = x
         /\ ReadingsIn(Append(q, x)) = ReadingsIn(q) \cup {x}
<1>1. /\ Append(q, x) \in Seq(Reading) /\ Len(Append(q, x)) = Len(q) + 1
      /\ \A i \in 1..Len(q) : Append(q, x)[i] = q[i]
      /\ Append(q, x)[Len(q) + 1] = x
  OBVIOUS
<1>2. 1..(Len(q) + 1) = 1..Len(q) \cup {Len(q) + 1}
  OBVIOUS
<1> QED
  BY <1>1, <1>2 DEF ReadingsIn

LEMMA TailReading ==
  ASSUME NEW q \in Seq(Reading), q # <<>>
  PROVE  /\ Tail(q) \in Seq(Reading) /\ Len(Tail(q)) = Len(q) - 1
         /\ \A i \in 1..Len(Tail(q)) : Tail(q)[i] = q[i + 1]
         /\ ReadingsIn(Tail(q)) \subseteq ReadingsIn(q)
         /\ ReadingsIn(q) \subseteq ReadingsIn(Tail(q)) \cup {q[1]}
<1>1. /\ Tail(q) \in Seq(Reading) /\ Len(Tail(q)) = Len(q) - 1 /\ Len(q) \in Nat \ {0}
      /\ \A i \in 1..Len(Tail(q)) : Tail(q)[i] = q[i + 1]
  OBVIOUS
<1>2. \A i \in 1..Len(q) : i = 1 \/ i - 1 \in 1..Len(Tail(q))
  BY <1>1
<1>3. ReadingsIn(Tail(q)) \subseteq ReadingsIn(q)
  BY <1>1 DEF ReadingsIn
<1>4. ReadingsIn(q) \subseteq ReadingsIn(Tail(q)) \cup {q[1]}
  <2> SUFFICES ASSUME NEW i \in 1..Len(q), i # 1 PROVE q[i] \in ReadingsIn(Tail(q))
    BY DEF ReadingsIn
  <2>1. i - 1 \in 1..Len(Tail(q)) /\ q[i] = Tail(q)[i - 1]
    BY <1>1, <1>2
  <2> QED
    BY <2>1 DEF ReadingsIn
<1> QED
  BY <1>1, <1>3, <1>4

\* The batch and the rest of a queue.
LEMMA SplitQueue ==
  ASSUME NEW q \in Seq(Reading), q # <<>>
  PROVE  LET b == First(q, BatchSize)
             rest == SubSeq(q, Len(b) + 1, Len(q)) IN
         /\ b \in Seq(Reading) /\ Len(b) \in 1..Len(q)
         /\ \A i \in 1..Len(b) : b[i] = q[i]
         /\ rest \in Seq(Reading) /\ Len(rest) = Len(q) - Len(b)
         /\ \A i \in 1..Len(rest) : rest[i] = q[Len(b) + i]
         /\ ReadingsIn(b) \subseteq ReadingsIn(q) /\ ReadingsIn(rest) \subseteq ReadingsIn(q)
         /\ ReadingsIn(q) \subseteq ReadingsIn(b) \cup ReadingsIn(rest)
<1> DEFINE n == IF BatchSize < Len(q) THEN BatchSize ELSE Len(q)
           b == First(q, BatchSize)
           rest == SubSeq(q, Len(b) + 1, Len(q))
<1>1. n \in 1..Len(q) /\ Len(q) \in Nat
  OBVIOUS
<1>2. b = SubSeq(q, 1, n)
  BY DEF First
<1> HIDE DEF n, b
<1>3. b \in Seq(Reading) /\ Len(b) = n /\ \A i \in 1..n : b[i] = q[i]
  BY <1>1, <1>2
<1>4. /\ rest \in Seq(Reading) /\ Len(rest) = Len(q) - n
      /\ \A i \in 1..Len(rest) : rest[i] = q[n + i]
  BY <1>1, <1>3
<1> HIDE DEF rest
<1>5. ReadingsIn(b) \subseteq ReadingsIn(q) /\ ReadingsIn(rest) \subseteq ReadingsIn(q)
  <2>1. ASSUME NEW i \in 1..Len(b) PROVE b[i] \in ReadingsIn(q)
    <3>1. i \in 1..Len(q) /\ b[i] = q[i]
      BY <1>1, <1>3
    <3> QED
      BY <3>1 DEF ReadingsIn
  <2>2. ASSUME NEW i \in 1..Len(rest) PROVE rest[i] \in ReadingsIn(q)
    <3>1. n + i \in 1..Len(q) /\ rest[i] = q[n + i]
      BY <1>1, <1>4
    <3> QED
      BY <3>1 DEF ReadingsIn
  <2> QED
    BY <2>1, <2>2 DEF ReadingsIn
<1>6. ReadingsIn(q) \subseteq ReadingsIn(b) \cup ReadingsIn(rest)
  <2> SUFFICES ASSUME NEW i \in 1..Len(q) PROVE q[i] \in ReadingsIn(b) \cup ReadingsIn(rest)
    BY DEF ReadingsIn
  <2>1. CASE i <= n
    BY <1>1, <1>3, <2>1 DEF ReadingsIn
  <2>2. CASE i > n
    <3>1. i - n \in 1..Len(rest) /\ rest[i - n] = q[i]
      BY <1>1, <1>4, <2>2
    <3> QED
      BY <3>1 DEF ReadingsIn
  <2> QED
    BY <1>1, <2>1, <2>2
<1> QED
  BY <1>1, <1>3, <1>4, <1>5, <1>6 DEF b, rest

-----------------------------------------------------------------------------
(***************************************************************************)
(* The device.  Its memory counts only while the main loop uploads: after  *)
(* a measurement that could not be saved it is not used again.             *)
(***************************************************************************)
Live == phase \in {"ready", "waiting"}

\* The queue holds the sequence numbers up to the next one, without a gap.
Consecutive(s) ==
  \A i \in 1..Len(s.pending) : s.pending[i].sequence = s.next + i - Len(s.pending) - 1

QueuesOK ==
  /\ TypeOK
  /\ Consecutive(disk)
  /\ Live => Consecutive(mem) /\ mem.next = disk.next
  /\ phase = "waiting" => mem.pending # <<>> /\ budget > 0

\* A body is a part of a queue, under the key of its ends.
BodiesOK ==
  \A m \in sent :
    /\ m.body # <<>> /\ m.key = KeyOf(m.body)
    /\ \A i \in 1..Len(m.body) : m.body[i].sequence = m.body[1].sequence + i - 1

\* The readings that a request has carried, or still may.
Known ==
  (UNION {ReadingsIn(m.body) : m \in sent}) \cup ReadingsIn(disk.pending)
    \cup (IF Live THEN ReadingsIn(mem.pending) ELSE {})

\* They differ in sequence number and in measurement, and no later reading can
\* be taken for one of them.
UniqueReadings ==
  /\ \A r \in Known : r.sequence < disk.next /\ r.id <= taken
  /\ \A q, r \in Known : (q.sequence = r.sequence \/ q.id = r.id) => q = r

DeviceInv == QueuesOK /\ BodiesOK /\ UniqueReadings

LEMMA DeviceInit == Init => DeviceInv
<1> SUFFICES ASSUME Init PROVE DeviceInv
  OBVIOUS
<1> USE DEF Init, Empty
<1>1. TypeOK
  BY DEF TypeOK, State
<1>2. QueuesOK /\ BodiesOK
  BY <1>1 DEF QueuesOK, Consecutive, BodiesOK, Live
<1>3. UniqueReadings
  BY DEF UniqueReadings, Known, Live, ReadingsIn
<1> QED
  BY <1>2, <1>3 DEF DeviceInv

LEMMA KnownTyped == TypeOK => Known \subseteq Reading
<1> SUFFICES ASSUME TypeOK PROVE Known \subseteq Reading
  OBVIOUS
<1>1. \A q \in Seq(Reading) : ReadingsIn(q) \subseteq Reading
  BY ElementTyped DEF ReadingsIn
<1>2. /\ mem.pending \in Seq(Reading) /\ disk.pending \in Seq(Reading)
      /\ \A m \in sent : m.body \in Seq(Reading)
  BY DEF TypeOK, State
<1> QED
  BY <1>1, <1>2 DEF Known

\* The known readings stay unique when none is added...
LEMMA UniqueKept ==
  ASSUME DeviceInv, Known' \subseteq Known, disk'.next = disk.next, taken' \in Nat, taken' >= taken
  PROVE  UniqueReadings'
<1>1. Known \subseteq Reading
  BY KnownTyped DEF DeviceInv, QueuesOK
<1> QED
  BY <1>1 DEF DeviceInv, QueuesOK, TypeOK, UniqueReadings, Reading

\* ... or one that takes the next numbers.
LEMMA UniqueExtended ==
  ASSUME DeviceInv, disk'.next = disk.next + 1, taken' = taken + 1,
         Known' \subseteq Known \cup {[sequence |-> disk.next, id |-> taken + 1]}
  PROVE  UniqueReadings'
<1> DEFINE x == [sequence |-> disk.next, id |-> taken + 1]
<1>1. Known \subseteq Reading /\ disk.next \in Nat /\ taken \in Nat
  BY KnownTyped DEF DeviceInv, QueuesOK, TypeOK, State
<1>2. x.sequence = disk.next /\ x.id = taken + 1
  OBVIOUS
<1>3. \A r \in Known : r.sequence < disk.next /\ r.id <= taken /\ r.sequence \in Nat /\ r.id \in Nat
  BY <1>1 DEF DeviceInv, UniqueReadings, Reading
<1> HIDE DEF x
<1>4. \A r \in Known' : r \in Known \/ r = x
  BY DEF x
<1>5. \A r \in Known' : r.sequence < disk'.next /\ r.id <= taken'
  BY <1>1, <1>2, <1>3, <1>4
<1>6. \A q, r \in Known' : (q.sequence = r.sequence \/ q.id = r.id) => q = r
  BY <1>1, <1>2, <1>3, <1>4 DEF DeviceInv, UniqueReadings
<1> QED
  BY <1>5, <1>6 DEF UniqueReadings

\* enqueue: one more reading, one less of the old ones if the queue is full.
LEMMA EnqueuedQueue ==
  ASSUME NEW s \in State, NEW id \in Nat
  PROVE  LET e == Enqueued(s, id)
             x == [sequence |-> s.next, id |-> id] IN
         /\ e \in State /\ e.next = s.next + 1 /\ x \in Reading
         /\ Consecutive(s) => Consecutive(e)
         /\ x \in ReadingsIn(e.pending)
         /\ ReadingsIn(e.pending) \subseteq ReadingsIn(s.pending) \cup {x}
         /\ \/ /\ e.dropped = s.dropped
               /\ ReadingsIn(s.pending) \subseteq ReadingsIn(e.pending)
            \/ /\ e.dropped = s.dropped + 1
               /\ ReadingsIn(s.pending) \subseteq ReadingsIn(e.pending) \cup {s.pending[1]}
<1> DEFINE full == Len(s.pending) >= MaxPending
           q == IF full THEN Tail(s.pending) ELSE s.pending
           x == [sequence |-> s.next, id |-> id]
           e == Enqueued(s, id)
<1>1. /\ s.pending \in Seq(Reading) /\ s.next \in Nat /\ s.dropped \in Nat /\ s.lastAck \in Nat
      /\ x \in Reading /\ x.sequence = s.next
  BY DEF State, Reading
<1> HIDE DEF x
<1>2. full => s.pending # <<>>
  BY <1>1
<1>3. e = [next |-> s.next + 1, pending |-> Append(q, x),
           dropped |-> IF full THEN s.dropped + 1 ELSE s.dropped, lastAck |-> s.lastAck]
  BY DEF Enqueued, e, q, x, full
<1>4. /\ e.next = s.next + 1 /\ e.pending = Append(q, x) /\ e.lastAck = s.lastAck
      /\ e.dropped = IF full THEN s.dropped + 1 ELSE s.dropped
  BY <1>3
<1>5. q \in Seq(Reading)
  BY <1>1, <1>2, TailReading
<1>6. /\ ReadingsIn(q) \subseteq ReadingsIn(s.pending)
      /\ IF full THEN ReadingsIn(s.pending) \subseteq ReadingsIn(q) \cup {s.pending[1]}
                 ELSE q = s.pending
  BY <1>1, <1>2, TailReading
<1> HIDE DEF q, e, x
<1>7. Consecutive(s) => \A i \in 1..Len(q) : q[i].sequence = s.next + i - Len(q) - 1
  <2> SUFFICES ASSUME Consecutive(s), NEW i \in 1..Len(q)
               PROVE  q[i].sequence = s.next + i - Len(q) - 1
    OBVIOUS
  <2>1. CASE full
    <3>1. q = Tail(s.pending) /\ Len(q) = Len(s.pending) - 1 /\ q[i] = s.pending[i + 1]
      BY <1>1, <1>2, <2>1, TailReading DEF q
    <3>2. i + 1 \in 1..Len(s.pending) /\ Len(s.pending) \in Nat
      BY <1>1, <3>1
    <3>3. s.pending[i + 1].sequence = s.next + (i + 1) - Len(s.pending) - 1
      BY <3>2 DEF Consecutive
    <3>4. /\ Len(q) = Len(s.pending) - 1 /\ q[i] = s.pending[i + 1]
          /\ s.next \in Nat /\ Len(q) \in Nat /\ i \in Nat
      BY <1>1, <1>5, <3>1
    <3>5. s.pending[i + 1].sequence = s.next + i - Len(q) - 1
      BY <3>2, <3>3, <3>4
    <3> QED
      BY <3>4, <3>5
  <2>2. CASE ~full
    <3>1. q = s.pending /\ Len(q) \in Nat /\ q[i].sequence \in Nat
      BY <1>1, <2>2, ElementTyped DEF q
    <3> QED
      BY <1>1, <3>1 DEF Consecutive
  <2> QED
    BY <2>1, <2>2
<1> HIDE DEF full
<1>8. e \in State
  BY <1>1, <1>3, <1>5, AppendReading DEF State
<1>9. Consecutive(s) => Consecutive(e)
  <2> SUFFICES ASSUME Consecutive(s), NEW i \in 1..Len(e.pending)
               PROVE  e.pending[i].sequence = e.next + i - Len(e.pending) - 1
    BY DEF Consecutive
  <2>1. Len(e.pending) = Len(q) + 1 /\ Len(q) \in Nat
    BY <1>1, <1>4, <1>5, AppendReading
  <2>2. CASE i = Len(q) + 1
    <3>1. e.pending[i] = x
      BY <1>1, <1>4, <1>5, <2>2, AppendReading
    <3> QED
      BY <1>1, <1>4, <2>1, <2>2, <3>1
  <2>3. CASE i \in 1..Len(q)
    <3>1. e.pending[i] = q[i] /\ q[i].sequence \in Nat
      BY <1>1, <1>4, <1>5, <2>3, AppendReading, ElementTyped
    <3>2. q[i].sequence = s.next + i - Len(q) - 1
      BY <1>7, <2>3
    <3> DEFINE k == Len(q)
               m == s.next
    <3>3. k \in Nat /\ m \in Nat /\ i \in Nat /\ e.next = m + 1 /\ Len(e.pending) = k + 1
      BY <1>1, <1>4, <2>1, <2>3
    <3>4. e.pending[i].sequence = m + i - k - 1
      BY <3>1, <3>2
    <3> HIDE DEF k, m
    <3>5. (m + 1) + i - (k + 1) - 1 = m + i - k - 1
      BY <3>3
    <3> QED
      BY <3>3, <3>4, <3>5
  <2> QED
    BY <2>1, <2>2, <2>3
<1>10. ReadingsIn(e.pending) = ReadingsIn(q) \cup {x}
  BY <1>1, <1>4, <1>5, AppendReading
<1> QED
  BY <1>1, <1>4, <1>6, <1>8, <1>9, <1>10 DEF e, x

\* An acknowledged batch leaves the head of the queue.
LEMMA AcknowledgedQueue ==
  ASSUME mem \in State, mem.pending # <<>>
  PROVE  LET a == Acknowledged(mem) IN
         /\ a \in State /\ a.next = mem.next /\ a.dropped = mem.dropped
         /\ Consecutive(mem) => Consecutive(a)
         /\ ReadingsIn(a.pending) \subseteq ReadingsIn(mem.pending)
         /\ ReadingsIn(mem.pending) \subseteq ReadingsIn(a.pending) \cup ReadingsIn(Batch)
<1> DEFINE q == mem.pending
           a == Acknowledged(mem)
           rest == SubSeq(q, Len(Batch) + 1, Len(q))
<1>1. /\ q \in Seq(Reading) /\ mem.next \in Nat /\ mem.dropped \in Nat /\ mem.lastAck \in Nat
      /\ Len(q) \in Nat
  BY DEF State
<1>2. /\ Batch \in Seq(Reading) /\ Len(Batch) \in 1..Len(q)
      /\ rest \in Seq(Reading) /\ Len(rest) = Len(q) - Len(Batch)
      /\ \A i \in 1..Len(rest) : rest[i] = q[Len(Batch) + i]
      /\ ReadingsIn(rest) \subseteq ReadingsIn(q)
      /\ ReadingsIn(q) \subseteq ReadingsIn(Batch) \cup ReadingsIn(rest)
  BY <1>1, SplitQueue DEF Batch
<1>3. a = [next |-> mem.next, pending |-> rest, dropped |-> mem.dropped,
           lastAck |-> Batch[Len(Batch)].sequence]
  BY DEF Acknowledged
<1>4. Batch[Len(Batch)].sequence \in Nat
  <2>1. Len(Batch) \in 1..Len(Batch)
    BY <1>1, <1>2
  <2> QED
    BY <1>2, <2>1, ElementTyped
<1> HIDE DEF a, rest
<1>5. a \in State /\ a.next = mem.next /\ a.dropped = mem.dropped /\ a.pending = rest
  BY <1>1, <1>2, <1>3, <1>4 DEF State
<1>6. Consecutive(mem) => Consecutive(a)
  <2> SUFFICES ASSUME Consecutive(mem), NEW i \in 1..Len(rest)
               PROVE  rest[i].sequence = mem.next + i - Len(rest) - 1
    BY <1>5 DEF Consecutive
  <2>1. /\ rest[i] = q[Len(Batch) + i] /\ Len(rest) = Len(q) - Len(Batch)
        /\ Len(rest) \in Nat /\ Len(Batch) \in Nat /\ i \in Nat
    BY <1>1, <1>2
  <2>2. Len(Batch) + i \in 1..Len(q)
    BY <1>1, <2>1
  <2>3. q[Len(Batch) + i].sequence = mem.next + (Len(Batch) + i) - Len(q) - 1
    BY <2>2 DEF Consecutive
  <2>4. q[Len(Batch) + i].sequence = mem.next + i - Len(rest) - 1
    <3> DEFINE n == Len(q)
               k == Len(Batch)
               l == Len(rest)
               m == mem.next
    <3>1. n \in Nat /\ k \in Nat /\ l \in Nat /\ m \in Nat /\ i \in Nat /\ l = n - k
      BY <1>1, <2>1
    <3>2. q[Len(Batch) + i].sequence = m + (k + i) - n - 1
      BY <2>3
    <3> HIDE DEF n, k, l, m
    <3>3. m + (k + i) - n - 1 = m + i - l - 1
      BY <3>1
    <3> QED
      BY <3>2, <3>3 DEF l, m
  <2> QED
    BY <2>1, <2>4
<1> QED
  BY <1>2, <1>5, <1>6 DEF a

\* The batch is a run of sequence numbers, under the key of its ends.
LEMMA RequestFromQueue ==
  ASSUME mem \in State, mem.pending # <<>>, Consecutive(mem)
  PROVE  /\ Request \in [key : Nat \X Nat, body : Seq(Reading)]
         /\ Request.body = Batch /\ Batch # <<>> /\ Request.key = KeyOf(Batch)
         /\ \A i \in 1..Len(Batch) : Batch[i].sequence = Batch[1].sequence + i - 1
         /\ ReadingsIn(Batch) \subseteq ReadingsIn(mem.pending)
<1> DEFINE q == mem.pending
           b == Batch
<1>1. q \in Seq(Reading) /\ mem.next \in Nat /\ Len(q) \in Nat
  BY DEF State
<1>2. /\ b \in Seq(Reading) /\ Len(b) \in 1..Len(q) /\ \A i \in 1..Len(b) : b[i] = q[i]
      /\ ReadingsIn(b) \subseteq ReadingsIn(q)
  BY <1>1, SplitQueue DEF Batch
<1>3. Request = [key |-> KeyOf(b), body |-> b]
  BY DEF Request
<1> HIDE DEF b
<1>4. 1 \in 1..Len(b) /\ Len(b) \in 1..Len(b) /\ b # <<>>
  BY <1>1, <1>2
<1>5. b[1].sequence \in Nat /\ b[Len(b)].sequence \in Nat
  BY <1>2, <1>4, ElementTyped
<1>6. KeyOf(b) \in Nat \X Nat
  BY <1>5 DEF KeyOf
<1>7. \A i \in 1..Len(b) : b[i].sequence = b[1].sequence + i - 1
  <2> SUFFICES ASSUME NEW i \in 1..Len(b) PROVE b[i].sequence = b[1].sequence + i - 1
    OBVIOUS
  <2>1. i \in 1..Len(q) /\ 1 \in 1..Len(q) /\ i \in Nat
    BY <1>1, <1>2, <1>4
  <2>2. q[i].sequence = mem.next + i - Len(q) - 1 /\ q[1].sequence = mem.next + 1 - Len(q) - 1
    BY <2>1 DEF Consecutive
  <2>3. b[i] = q[i] /\ b[1] = q[1]
    BY <1>2, <1>4
  <2>4. q[i].sequence = q[1].sequence + i - 1
    BY <1>1, <2>1, <2>2
  <2> QED
    BY <2>3, <2>4
<1> QED
  BY <1>2, <1>3, <1>4, <1>6, <1>7 DEF b

\* A step that adds no reading keeps the invariant, whatever it does to the
\* queues, if they stay without gaps.
LEMMA QuietStep ==
  ASSUME DeviceInv, QueuesOK', UNCHANGED <<sent, taken>>, disk'.next = disk.next,
         ReadingsIn(disk'.pending) \subseteq Known,
         Live' => ReadingsIn(mem'.pending) \subseteq Known
  PROVE  DeviceInv'
<1>1. Known' \subseteq Known
  BY DEF Known
<1>2. taken' \in Nat /\ taken' >= taken
  BY DEF DeviceInv, QueuesOK, TypeOK
<1>3. UniqueReadings'
  BY <1>1, <1>2, UniqueKept
<1>4. BodiesOK'
  BY DEF DeviceInv, BodiesOK
<1> QED
  BY <1>3, <1>4 DEF DeviceInv

LEMMA BootKeeps == ASSUME DeviceInv, ~StaleFallback, Boot PROVE DeviceInv'
<1>1. mem' = disk /\ disk' = disk /\ phase' = "ready" /\ budget' \in {0, MaxBatches}
      /\ UNCHANGED <<backup, sent, taken, saved, faults>>
  BY DEF Boot
<1>2. QueuesOK'
  BY <1>1 DEF DeviceInv, QueuesOK, TypeOK, Live, Consecutive
<1>3. ReadingsIn(disk.pending) \subseteq Known
  BY DEF Known
<1> QED
  BY <1>1, <1>2, <1>3, QuietStep

LEMMA PowerLossKeeps == ASSUME DeviceInv, PowerLoss PROVE DeviceInv'
<1>1. phase' = "off" /\ faults' = faults + 1 /\ UNCHANGED <<mem, disk, backup, budget, sent, taken, saved>>
  BY DEF PowerLoss, store
<1>2. QueuesOK'
  BY <1>1 DEF DeviceInv, QueuesOK, TypeOK, Live, Consecutive
<1>3. ReadingsIn(disk.pending) \subseteq Known /\ ~Live'
  BY <1>1 DEF Known, Live
<1> QED
  BY <1>1, <1>2, <1>3, QuietStep

LEMMA EnqueueBeyondBoundKeeps == ASSUME DeviceInv, EnqueueBeyondBound PROVE DeviceInv'
<1>1. phase = "ready" /\ budget' = MaxBatches /\ UNCHANGED <<mem, disk, backup, phase, sent, taken, saved, faults>>
  BY DEF EnqueueBeyondBound, FlushOver, store
<1>2. QueuesOK'
  BY <1>1 DEF DeviceInv, QueuesOK, TypeOK, Live, Consecutive
<1>3. ReadingsIn(disk.pending) \subseteq Known /\ ReadingsIn(mem.pending) \subseteq Known
  BY <1>1 DEF Known, Live
<1> QED
  BY <1>1, <1>2, <1>3, QuietStep

LEMMA EnqueueKeeps == ASSUME DeviceInv, Enqueue PROVE DeviceInv'
<1> DEFINE e == Enqueued(mem, taken + 1)
           x == [sequence |-> mem.next, id |-> taken + 1]
<1>1. /\ TypeOK /\ phase = "ready" /\ Consecutive(mem) /\ mem.next = disk.next
      /\ mem \in State /\ disk \in State /\ taken \in Nat /\ faults \in Nat
  BY DEF DeviceInv, QueuesOK, TypeOK, Enqueue, FlushOver, Live
<1>2. /\ e \in State /\ e.next = mem.next + 1 /\ x \in Reading /\ Consecutive(e)
      /\ ReadingsIn(e.pending) \subseteq ReadingsIn(mem.pending) \cup {x}
  BY <1>1, EnqueuedQueue
<1>3. taken' = taken + 1 /\ UNCHANGED sent
  BY DEF Enqueue
<1>4. BodiesOK'
  BY <1>3 DEF DeviceInv, BodiesOK
<1>5. ReadingsIn(disk.pending) \subseteq Known /\ ReadingsIn(mem.pending) \subseteq Known
  BY <1>1 DEF Known, Live
<1>6. x = [sequence |-> disk.next, id |-> taken + 1]
  BY <1>1
<1>7. \/ mem' = e /\ disk' = e /\ backup' = disk /\ saved' = saved \cup {x} /\ budget' = MaxBatches
         /\ UNCHANGED <<phase, faults>>
      \/ disk' = e /\ backup' = disk /\ faults' = faults + 1 /\ phase' = "error" /\ UNCHANGED <<mem, saved, budget>>
      \/ faults' = faults + 1 /\ phase' = "error" /\ UNCHANGED <<mem, disk, backup, saved, budget>>
  BY <1>3 DEF Enqueue, SaveReturns, SaveRaises
<1> HIDE DEF e, x
<1>8. CASE mem' = e /\ disk' = e /\ backup' = disk /\ saved' = saved \cup {x} /\ budget' = MaxBatches
           /\ UNCHANGED <<phase, faults>>
  <2>1. QueuesOK'
    BY <1>1, <1>2, <1>3, <1>8 DEF QueuesOK, TypeOK, Live, Consecutive
  <2>2. Known' \subseteq Known \cup {x}
    BY <1>1, <1>2, <1>3, <1>5, <1>8 DEF Known, Live
  <2>3. UniqueReadings'
    BY <1>1, <1>2, <1>3, <1>6, <1>8, <2>2, UniqueExtended
  <2> QED
    BY <1>4, <2>1, <2>3 DEF DeviceInv
<1>9. CASE disk' = e /\ backup' = disk /\ faults' = faults + 1 /\ phase' = "error" /\ UNCHANGED <<mem, saved, budget>>
  <2>1. QueuesOK'
    BY <1>1, <1>2, <1>3, <1>9 DEF QueuesOK, TypeOK, Live, Consecutive
  <2>2. Known' \subseteq Known \cup {x}
    BY <1>1, <1>2, <1>3, <1>5, <1>9 DEF Known, Live
  <2>3. UniqueReadings'
    BY <1>1, <1>2, <1>3, <1>6, <1>9, <2>2, UniqueExtended
  <2> QED
    BY <1>4, <2>1, <2>3 DEF DeviceInv
<1>10. CASE faults' = faults + 1 /\ phase' = "error" /\ UNCHANGED <<mem, disk, backup, saved, budget>>
  <2>1. QueuesOK'
    BY <1>1, <1>3, <1>10 DEF DeviceInv, QueuesOK, TypeOK, Live, Consecutive
  <2>2. Known' \subseteq Known
    BY <1>3, <1>5, <1>10 DEF Known, Live
  <2>3. UniqueReadings'
    BY <1>1, <1>3, <1>10, <2>2, UniqueKept
  <2> QED
    BY <1>4, <2>1, <2>3 DEF DeviceInv
<1> QED
  BY <1>7, <1>8, <1>9, <1>10

LEMMA SendKeeps == ASSUME DeviceInv, Send PROVE DeviceInv'
<1>1. /\ TypeOK /\ phase = "ready" /\ budget > 0 /\ mem.pending # <<>> /\ mem \in State /\ Consecutive(mem)
      /\ phase' = "waiting" /\ sent' = sent \cup {Request}
      /\ UNCHANGED <<mem, disk, backup, budget, taken, saved, faults>>
  BY DEF DeviceInv, QueuesOK, TypeOK, Send, Live, store
<1>2. /\ Request \in [key : Nat \X Nat, body : Seq(Reading)]
      /\ Request.body # <<>> /\ Request.key = KeyOf(Request.body)
      /\ \A i \in 1..Len(Request.body) : Request.body[i].sequence = Request.body[1].sequence + i - 1
      /\ ReadingsIn(Request.body) \subseteq ReadingsIn(mem.pending)
  BY <1>1, RequestFromQueue
<1> HIDE DEF Request
<1>3. QueuesOK'
  BY <1>1, <1>2 DEF DeviceInv, QueuesOK, TypeOK, Live, Consecutive
<1>4. BodiesOK'
  BY <1>1, <1>2 DEF DeviceInv, BodiesOK
<1>5. Known' \subseteq Known
  BY <1>1, <1>2 DEF Known, Live
<1>6. UniqueReadings'
  BY <1>1, <1>5, UniqueKept DEF TypeOK
<1> QED
  BY <1>3, <1>4, <1>6 DEF DeviceInv

LEMMA AcknowledgeKeeps == ASSUME DeviceInv, Acknowledge PROVE DeviceInv'
<1> DEFINE a == Acknowledged(mem)
<1>1. /\ TypeOK /\ phase = "waiting" /\ budget > 0 /\ mem.pending # <<>> /\ mem \in State /\ disk \in State
      /\ Consecutive(mem) /\ Consecutive(disk) /\ mem.next = disk.next
      /\ phase' = "ready" /\ UNCHANGED <<sent, taken, saved>>
  BY DEF DeviceInv, QueuesOK, TypeOK, Acknowledge, Live
<1>2. /\ a \in State /\ a.next = mem.next /\ Consecutive(a)
      /\ ReadingsIn(a.pending) \subseteq ReadingsIn(mem.pending)
  BY <1>1, AcknowledgedQueue
<1>3. ReadingsIn(disk.pending) \subseteq Known /\ ReadingsIn(mem.pending) \subseteq Known
  BY <1>1 DEF Known, Live
<1>4. \/ mem' = a /\ disk' = a /\ backup' = disk /\ budget' = budget - 1 /\ UNCHANGED faults
      \/ disk' = a /\ backup' = disk /\ budget' = 0 /\ faults' = faults + 1 /\ UNCHANGED mem
      \/ budget' = 0 /\ faults' = faults + 1 /\ UNCHANGED <<mem, disk, backup>>
  BY DEF Acknowledge, SaveReturns, SaveRaises, CallsLeft
<1> HIDE DEF a
<1>5. QueuesOK'
  <2>1. /\ mem' \in State /\ Consecutive(mem')
        /\ disk' \in State /\ Consecutive(disk') /\ mem'.next = disk'.next
    BY <1>1, <1>2, <1>4
  <2>2. backup' \in State /\ budget' \in Nat /\ faults' \in Nat
    BY <1>1, <1>4 DEF TypeOK
  <2>3. TypeOK'
    BY <1>1, <2>1, <2>2 DEF TypeOK
  <2>4. Consecutive(mem)' /\ Consecutive(disk)'
    BY <2>1 DEF Consecutive
  <2> QED
    BY <1>1, <2>1, <2>3, <2>4 DEF QueuesOK
<1>6. disk'.next = disk.next /\ ReadingsIn(disk'.pending) \subseteq Known /\ ReadingsIn(mem'.pending) \subseteq Known
  BY <1>1, <1>2, <1>3, <1>4
<1> QED
  BY <1>1, <1>5, <1>6, QuietStep

LEMMA UploadFailedKeeps == ASSUME DeviceInv, UploadFailed PROVE DeviceInv'
<1>1. /\ TypeOK /\ phase = "waiting" /\ mem \in State /\ disk \in State
      /\ Consecutive(mem) /\ Consecutive(disk) /\ mem.next = disk.next
      /\ phase' = "ready" /\ budget' = 0 /\ mem' = mem /\ UNCHANGED <<sent, taken, saved>>
  BY DEF DeviceInv, QueuesOK, TypeOK, UploadFailed, SaveReturns, SaveRaises, Live
<1>2. /\ \/ disk' = mem /\ backup' = disk
         \/ UNCHANGED <<disk, backup>>
      /\ faults' \in Nat
  BY <1>1 DEF UploadFailed, SaveReturns, SaveRaises, TypeOK
<1>3. QueuesOK'
  <2>1. /\ disk' \in State /\ Consecutive(disk') /\ mem'.next = disk'.next
    BY <1>1, <1>2
  <2>2. TypeOK'
    BY <1>1, <1>2, <2>1 DEF TypeOK
  <2>3. Consecutive(mem)' /\ Consecutive(disk)'
    BY <1>1, <2>1 DEF Consecutive
  <2> QED
    BY <1>1, <2>1, <2>2, <2>3 DEF QueuesOK
<1>4. ReadingsIn(disk.pending) \subseteq Known /\ ReadingsIn(mem.pending) \subseteq Known
  BY <1>1 DEF Known, Live
<1> QED
  BY <1>1, <1>2, <1>3, <1>4, QuietStep

LEMMA DeviceStep == ~StaleFallback /\ DeviceInv /\ [Next]_device => DeviceInv'
<1>1. ASSUME DeviceInv, UNCHANGED device PROVE DeviceInv'
  <2>1. UNCHANGED <<mem, disk, backup, phase, budget, sent, taken, saved, faults>>
    BY <1>1 DEF device, store
  <2>2. TypeOK' /\ Consecutive(disk)' /\ Live' = Live /\ Consecutive(mem)' = Consecutive(mem)
    BY <1>1, <2>1 DEF DeviceInv, QueuesOK, TypeOK, Live, Consecutive
  <2>3. QueuesOK'
    BY <1>1, <2>1, <2>2 DEF DeviceInv, QueuesOK
  <2>4. BodiesOK'
    BY <1>1, <2>1 DEF DeviceInv, BodiesOK
  <2>5. UniqueReadings'
    BY <1>1, <2>1 DEF DeviceInv, UniqueReadings, Known, Live
  <2> QED
    BY <2>3, <2>4, <2>5 DEF DeviceInv
<1> QED
  BY <1>1, BootKeeps, PowerLossKeeps, EnqueueKeeps, EnqueueBeyondBoundKeeps, SendKeeps,
     AcknowledgeKeeps, UploadFailedKeeps DEF Next, Local

-----------------------------------------------------------------------------
(***************************************************************************)
(* What the numbers mean, over all requests ever sent.                     *)
(***************************************************************************)
LEMMA OneReadingPerSequence == DeviceInv => SequenceIdentifiesReading
<1> SUFFICES ASSUME DeviceInv, NEW m \in sent, NEW n \in sent,
                    NEW i \in 1..Len(m.body), NEW j \in 1..Len(n.body),
                    m.body[i].sequence = n.body[j].sequence
             PROVE  m.body[i] = n.body[j]
  BY DEF SequenceIdentifiesReading
<1>1. m.body[i] \in Known /\ n.body[j] \in Known
  BY DEF Known, ReadingsIn
<1> QED
  BY <1>1 DEF DeviceInv, UniqueReadings

LEMMA OneBodyPerKey == DeviceInv => KeyIdentifiesBody
<1> SUFFICES ASSUME DeviceInv, NEW m \in sent, NEW n \in sent, m.key = n.key
             PROVE  m.body = n.body
  BY DEF KeyIdentifiesBody
<1> DEFINE b == m.body
           c == n.body
<1>1. /\ b \in Seq(Reading) /\ c \in Seq(Reading) /\ b # <<>> /\ c # <<>>
      /\ \A i \in 1..Len(b) : b[i].sequence = b[1].sequence + i - 1
      /\ \A i \in 1..Len(c) : c[i].sequence = c[1].sequence + i - 1
      /\ KeyOf(b) = KeyOf(c)
  BY DEF DeviceInv, QueuesOK, TypeOK, BodiesOK
<1>2. \A i \in 1..Len(b), j \in 1..Len(c) : b[i].sequence = c[j].sequence => b[i] = c[j]
  BY OneReadingPerSequence DEF SequenceIdentifiesReading
<1> HIDE DEF b, c
<1>3. Len(b) \in Nat \ {0} /\ Len(c) \in Nat \ {0}
  BY <1>1
<1>4. b[1].sequence = c[1].sequence /\ b[Len(b)].sequence = c[Len(c)].sequence
  BY <1>1 DEF KeyOf
<1>5. b[1].sequence \in Nat /\ 1 \in 1..Len(b) /\ Len(b) \in 1..Len(b) /\ Len(c) \in 1..Len(c)
  BY <1>1, <1>3, ElementTyped
<1>6. Len(b) = Len(c)
  <2> DEFINE f == b[1].sequence
             k == Len(b)
             l == Len(c)
  <2>1. b[k].sequence = f + k - 1 /\ c[l].sequence = f + l - 1
    BY <1>1, <1>4, <1>5
  <2>2. f + k - 1 = f + l - 1 /\ f \in Nat /\ k \in Nat /\ l \in Nat
    BY <1>3, <1>4, <1>5, <2>1
  <2> HIDE DEF f, k, l
  <2>3. k = l
    BY <2>2
  <2> QED
    BY <2>3 DEF k, l
<1>7. \A i \in 1..Len(b) : b[i] = c[i]
  <2> SUFFICES ASSUME NEW i \in 1..Len(b) PROVE b[i] = c[i]
    OBVIOUS
  <2>1. b[i].sequence = c[i].sequence
    BY <1>1, <1>4, <1>6
  <2> QED
    BY <1>2, <1>6, <2>1
<1> QED
  BY <1>1, <1>6, <1>7 DEF b, c

-----------------------------------------------------------------------------
(***************************************************************************)
(* The server.                                                             *)
(***************************************************************************)
Stored == {r.reading : r \in rows}

ServerInv ==
  /\ DeliveryTypeOK
  /\ \A r \in rows : \E m \in sent : r \in RowsOf(m)
  /\ \A q, r \in rows : q.reading.sequence = r.reading.sequence => q = r
  /\ \A m \in keys : ReadingsIn(m.body) \subseteq Stored
  /\ reply = "202" => phase = "waiting" /\ ReadingsIn(Batch) \subseteq Stored

LEMMA ServerInit == DeliveryInit => ServerInv
<1> SUFFICES ASSUME DeliveryInit PROVE ServerInv
  OBVIOUS
<1>1. TypeOK
  BY DeviceInit DEF DeliveryInit, DeviceInv, QueuesOK
<1> QED
  BY <1>1, LossesAssumption DEF ServerInv, DeliveryInit, DeliveryTypeOK

LEMMA DeliveryRunsDevice == DeliveryNext => [Next]_device
BY DEF DeliveryNext, Run, Acknowledged202, Reject, Refused, Lost, Handle, Next

LEMMA SentKept == [Next]_device => sent \subseteq sent'
BY DEF Next, Local, Boot, PowerLoss, Enqueue, EnqueueBeyondBound, Send, Acknowledge, UploadFailed, device

LEMMA RowTyped ==
  ASSUME TypeOK, NEW m \in sent
  PROVE  /\ RowsOf(m) \subseteq [key : Nat \X Nat, reading : Reading]
         /\ \A r \in RowsOf(m) : r.key = m.key /\ r.reading \in ReadingsIn(m.body)
         /\ \A x \in ReadingsIn(m.body) : \E r \in RowsOf(m) : r.reading = x
<1>1. m.key \in Nat \X Nat /\ m.body \in Seq(Reading)
  BY DEF TypeOK
<1>2. \A i \in 1..Len(m.body) : m.body[i] \in Reading
  BY <1>1, ElementTyped
<1>3. ASSUME NEW r \in RowsOf(m)
      PROVE  /\ r \in [key : Nat \X Nat, reading : Reading]
             /\ r.key = m.key /\ r.reading \in ReadingsIn(m.body)
  <2>1. PICK i \in 1..Len(m.body) : r = [key |-> m.key, reading |-> m.body[i]]
    BY DEF RowsOf
  <2> QED
    BY <1>1, <1>2, <2>1 DEF ReadingsIn
<1>4. ASSUME NEW x \in ReadingsIn(m.body) PROVE \E r \in RowsOf(m) : r.reading = x
  <2>1. PICK i \in 1..Len(m.body) : x = m.body[i]
    BY DEF ReadingsIn
  <2>2. [key |-> m.key, reading |-> m.body[i]] \in RowsOf(m)
    BY DEF RowsOf
  <2> QED
    BY <2>1, <2>2
<1> QED
  BY <1>3, <1>4

\* The API stores only what it has not, and answers 202 only when it has all.
LEMMA HandleKeeps ==
  ASSUME DeviceInv, ServerInv, NEW m \in sent, Handle(m)
  PROVE  ServerInv' /\ Stored \subseteq Stored'
<1>1. TypeOK /\ keys \subseteq sent /\ rows \subseteq [key : Nat \X Nat, reading : Reading]
      /\ losses \in 0..MaxLosses /\ reply \in {"none", "202", "refused", "error"}
  BY DEF ServerInv, DeliveryTypeOK
<1>2. UNCHANGED <<mem, disk, backup, phase, budget, sent, taken, saved, faults, losses>>
  BY DEF Handle, device, store
<1>3. Batch' = Batch /\ TypeOK'
  BY <1>1, <1>2 DEF Batch, First, TypeOK
<1>4. \A q, r \in rows \cup RowsOf(m) : q.reading.sequence = r.reading.sequence => q.reading = r.reading
  <2>1. \A r \in rows \cup RowsOf(m) : r.reading \in Known
    BY <1>1, RowTyped DEF ServerInv, Known
  <2> QED
    BY <2>1 DEF DeviceInv, UniqueReadings
<1>5. CASE Verdict(m) = "202" /\ \A k \in keys : k.key # m.key
  <2>1. keys' = keys \cup {m} /\ rows' = rows \cup NewRows(m)
    BY <1>5 DEF Handle
  <2>2. NewRows(m) \subseteq RowsOf(m)
    BY DEF NewRows
  <2>3. \A q, r \in rows' : q.reading.sequence = r.reading.sequence => q = r
    <3> SUFFICES ASSUME NEW q \in rows', NEW r \in rows', q.reading.sequence = r.reading.sequence
                 PROVE  q = r
      OBVIOUS
    <3>1. CASE q \in rows /\ r \in rows
      BY <3>1 DEF ServerInv
    <3>2. CASE q \in NewRows(m) /\ r \in NewRows(m)
      <4>1. q.reading = r.reading /\ q.key = r.key
        BY <1>1, <1>4, <2>2, <3>2, RowTyped
      <4>2. q \in [key : Nat \X Nat, reading : Reading] /\ r \in [key : Nat \X Nat, reading : Reading]
        BY <1>1, <2>2, <3>2, RowTyped
      <4> QED
        BY <4>1, <4>2
    <3>3. CASE ~(q \in rows <=> r \in rows)
      BY <2>1, <3>3 DEF NewRows
    <3> QED
      BY <2>1, <3>1, <3>2, <3>3
  <2>4. ReadingsIn(m.body) \subseteq Stored'
    <3> SUFFICES ASSUME NEW x \in ReadingsIn(m.body) PROVE \E r \in rows' : r.reading = x
      BY DEF Stored
    <3>1. PICK r \in RowsOf(m) : r.reading = x
      BY <1>1, RowTyped
    <3>2. CASE r \in NewRows(m)
      BY <2>1, <3>1, <3>2
    <3>3. CASE r \notin NewRows(m)
      <4>1. PICK q \in rows : q.reading.sequence = r.reading.sequence
        BY <3>3 DEF NewRows
      <4> QED
        BY <1>4, <2>1, <3>1, <4>1
    <3> QED
      BY <3>2, <3>3
  <2>5. Stored \subseteq Stored'
    BY <2>1 DEF Stored
  <2>6. \A r \in rows' : \E n \in sent' : r \in RowsOf(n)
    BY <1>2, <2>1, <2>2 DEF ServerInv
  <2>7. \A n \in keys' : ReadingsIn(n.body) \subseteq Stored'
    BY <2>1, <2>4, <2>5 DEF ServerInv
  <2>8. reply' = "202" => phase' = "waiting" /\ ReadingsIn(Batch') \subseteq Stored'
    <3>1. Request.body = Batch
      BY DEF Request
    <3> QED
      BY <1>2, <1>3, <2>4, <2>5, <3>1 DEF Handle, ServerInv
  <2>9. DeliveryTypeOK'
    BY <1>1, <1>2, <1>3, <2>1, <2>2, RowTyped DEF DeliveryTypeOK, Handle, Verdict
  <2> QED
    BY <2>3, <2>5, <2>6, <2>7, <2>8, <2>9 DEF ServerInv
<1>6. CASE ~(Verdict(m) = "202" /\ \A k \in keys : k.key # m.key)
  <2>1. UNCHANGED <<keys, rows>>
    BY <1>6 DEF Handle, server
  <2>2. Stored' = Stored
    BY <2>1 DEF Stored
  <2>3. Verdict(m) = "202" => m \in keys
    BY <1>6 DEF Verdict
  <2>4. reply' = "202" => phase' = "waiting" /\ ReadingsIn(Batch') \subseteq Stored'
    <3>1. Request.body = Batch
      BY DEF Request
    <3> QED
      BY <1>2, <1>3, <2>2, <2>3, <3>1 DEF Handle, ServerInv
  <2>5. DeliveryTypeOK'
    BY <1>1, <1>2, <1>3, <2>1 DEF DeliveryTypeOK, Handle, Verdict
  <2> QED
    BY <1>2, <2>1, <2>2, <2>4, <2>5 DEF ServerInv
<1> QED
  BY <1>5, <1>6

\* Every other step leaves the tables alone; an answer 202 is gone before the
\* client's queue changes.
LEMMA ServerStep ==
  ASSUME DeviceInv, DeviceInv', ServerInv, [DeliveryNext]_vars
  PROVE  ServerInv' /\ Stored \subseteq Stored'
<1>1. CASE \E m \in sent : Handle(m)
  BY <1>1, HandleKeeps
<1>2. ASSUME UNCHANGED server, reply' \in {"none", "error"}, losses' \in 0..MaxLosses, sent \subseteq sent'
      PROVE  ServerInv' /\ Stored \subseteq Stored'
  <2>1. TypeOK'
    BY DEF DeviceInv, QueuesOK
  <2>2. DeliveryTypeOK'
    BY <1>2, <2>1 DEF ServerInv, DeliveryTypeOK, server
  <2>3. Stored' = Stored
    BY <1>2 DEF Stored, server
  <2> QED
    BY <1>2, <2>2, <2>3 DEF ServerInv, server
<1>3. CASE UNCHANGED vars
  BY <1>3 DEF vars, device, store, server, ServerInv, DeliveryTypeOK, TypeOK, Stored, Batch, First
<1>4. losses \in 0..MaxLosses /\ MaxLosses \in Nat
  BY LossesAssumption DEF ServerInv, DeliveryTypeOK
<1>5. sent \subseteq sent'
  <2>1. [Next]_device
    BY DeliveryRunsDevice DEF vars
  <2> QED
    BY <2>1, SentKept
<1>6. CASE Run \/ Acknowledged202 \/ Refused
  BY <1>2, <1>4, <1>5, <1>6 DEF Run, Acknowledged202, Refused, server
<1>7. CASE Reject \/ Lost
  BY <1>2, <1>4, <1>5, <1>7 DEF Reject, Lost, server
<1> QED
  BY <1>1, <1>3, <1>6, <1>7 DEF DeliveryNext

LEMMA StoredOnceHolds == DeviceInv /\ ServerInv => StoredOnce
<1> SUFFICES ASSUME DeviceInv, ServerInv, NEW q \in rows, NEW r \in rows,
                    q.reading.id = r.reading.id \/ q.reading.sequence = r.reading.sequence
             PROVE  q = r
  BY DEF StoredOnce
<1>1. q.reading \in Known /\ r.reading \in Known
  BY RowTyped DEF ServerInv, DeliveryTypeOK, Known
<1>2. q.reading.sequence = r.reading.sequence
  BY <1>1 DEF DeviceInv, UniqueReadings
<1> QED
  BY <1>2 DEF ServerInv

-----------------------------------------------------------------------------
(***************************************************************************)
(* The count of what is lost.                                              *)
(***************************************************************************)
Missing(queue) == saved \ (Stored \cup ReadingsIn(queue))

LossInv ==
  /\ IsFiniteSet(saved)
  /\ Cardinality(Missing(disk.pending)) <= disk.dropped
  /\ Live => Cardinality(Missing(mem.pending)) <= mem.dropped

LEMMA Fewer ==
  ASSUME NEW S, NEW T, IsFiniteSet(T), S \subseteq T, NEW n \in Nat, Cardinality(T) <= n
  PROVE  Cardinality(S) <= n
<1>1. IsFiniteSet(S) /\ Cardinality(S) <= Cardinality(T)
  BY FS_Subset
<1>2. Cardinality(S) \in Nat /\ Cardinality(T) \in Nat
  BY <1>1, FS_CardinalityType
<1> QED
  BY <1>1, <1>2

LEMMA OneMore ==
  ASSUME NEW S, NEW T, IsFiniteSet(T), NEW x, S \subseteq T \cup {x}, NEW n \in Nat, Cardinality(T) <= n
  PROVE  Cardinality(S) <= n + 1
<1>1. /\ IsFiniteSet(T \cup {x})
      /\ Cardinality(T \cup {x}) = IF x \in T THEN Cardinality(T) ELSE Cardinality(T) + 1
  BY FS_AddElement
<1>2. Cardinality(T) \in Nat
  BY FS_CardinalityType
<1>3. Cardinality(T \cup {x}) <= n + 1
  BY <1>1, <1>2
<1> QED
  BY <1>1, <1>3, Fewer

\* A queue that misses no more than another, while more is stored.
LEMMA MissingKept ==
  ASSUME IsFiniteSet(saved), saved' = saved, Stored \subseteq Stored',
         NEW q, NEW p, ReadingsIn(q) \subseteq ReadingsIn(p) \cup Stored',
         NEW n \in Nat, Cardinality(Missing(q)) <= n
  PROVE  Cardinality(saved' \ (Stored' \cup ReadingsIn(p))) <= n
<1>1. saved' \ (Stored' \cup ReadingsIn(p)) \subseteq Missing(q)
  BY DEF Missing
<1>2. IsFiniteSet(Missing(q))
  BY FS_Subset DEF Missing
<1> QED
  BY <1>1, <1>2, Fewer

LEMMA LossInit == DeliveryInit => LossInv
<1> SUFFICES ASSUME DeliveryInit PROVE LossInv
  OBVIOUS
<1>1. saved = {} /\ disk.dropped = 0 /\ mem.dropped = 0
  BY DEF DeliveryInit, Init, Empty
<1>2. \A q : Missing(q) = {}
  BY <1>1 DEF Missing
<1> QED
  BY <1>1, <1>2, FS_EmptySet DEF LossInv

\* enqueue: the new reading is queued, and only the reading that the full queue
\* cuts may be missing more.
LEMMA LossEnqueue ==
  ASSUME DeviceInv, LossInv, Enqueue, UNCHANGED rows
  PROVE  LossInv'
<1> DEFINE e == Enqueued(mem, taken + 1)
           x == [sequence |-> mem.next, id |-> taken + 1]
           h == mem.pending[1]
<1>1. phase = "ready" /\ mem \in State /\ disk \in State /\ taken \in Nat /\ mem.dropped \in Nat
  BY DEF DeviceInv, QueuesOK, TypeOK, State, Enqueue, FlushOver
<1>2. /\ x \in ReadingsIn(e.pending)
      /\ \/ e.dropped = mem.dropped /\ ReadingsIn(mem.pending) \subseteq ReadingsIn(e.pending)
         \/ e.dropped = mem.dropped + 1
            /\ ReadingsIn(mem.pending) \subseteq ReadingsIn(e.pending) \cup {h}
  <2>1. taken + 1 \in Nat
    BY <1>1
  <2> QED
    BY <1>1, <2>1, EnqueuedQueue
<1>3. \/ mem' = e /\ disk' = e /\ saved' = saved \cup {x} /\ UNCHANGED phase
      \/ disk' = e /\ phase' = "error" /\ saved' = saved
      \/ disk' = disk /\ phase' = "error" /\ saved' = saved
  BY DEF Enqueue, SaveReturns, SaveRaises
<1>4. Stored' = Stored
  BY DEF Stored
<1>5. IsFiniteSet(saved') /\ IsFiniteSet(Missing(mem.pending))
  BY <1>3, FS_AddElement, FS_Subset DEF LossInv, Missing
<1>6. Cardinality(Missing(mem.pending)) <= mem.dropped
  BY <1>1 DEF LossInv, Live
<1> HIDE DEF e, x, h
<1>7. ASSUME saved' \subseteq saved \cup {x}
      PROVE  Cardinality(saved' \ (Stored' \cup ReadingsIn(e.pending))) <= e.dropped
  <2> DEFINE lost == saved' \ (Stored' \cup ReadingsIn(e.pending))
  <2>1. CASE e.dropped = mem.dropped /\ ReadingsIn(mem.pending) \subseteq ReadingsIn(e.pending)
    <3>1. lost \subseteq Missing(mem.pending)
      BY <1>2, <1>4, <1>7, <2>1 DEF Missing
    <3> QED
      BY <1>1, <1>5, <1>6, <2>1, <3>1, Fewer
  <2>2. CASE e.dropped = mem.dropped + 1
             /\ ReadingsIn(mem.pending) \subseteq ReadingsIn(e.pending) \cup {h}
    <3>1. lost \subseteq Missing(mem.pending) \cup {h}
      BY <1>2, <1>4, <1>7, <2>2 DEF Missing
    <3> QED
      BY <1>1, <1>5, <1>6, <2>2, <3>1, OneMore
  <2> QED
    BY <1>2, <2>1, <2>2
<1>8. CASE mem' = e /\ disk' = e /\ saved' = saved \cup {x} /\ UNCHANGED phase
  BY <1>5, <1>7, <1>8 DEF LossInv, Missing
<1>9. CASE disk' = e /\ phase' = "error" /\ saved' = saved
  BY <1>5, <1>7, <1>9 DEF LossInv, Missing, Live
<1>10. CASE disk' = disk /\ phase' = "error" /\ saved' = saved
  BY <1>4, <1>10 DEF LossInv, Missing, Live
<1> QED
  BY <1>3, <1>8, <1>9, <1>10

\* Every other step misses nothing that was not missing, if a batch leaves the
\* queue only when it is stored.
LEMMA LossOther ==
  ASSUME DeviceInv, LossInv, Stored \subseteq Stored', saved' = saved,
         \/ Live' /\ mem' = disk /\ disk' = disk
         \/ mem' = mem /\ disk' = disk /\ (Live' => Live)
         \/ mem' = mem /\ disk' = mem /\ Live
         \/ /\ Live /\ mem.pending # <<>> /\ ReadingsIn(Batch) \subseteq Stored
            /\ mem' \in {mem, Acknowledged(mem)} /\ disk' \in {disk, Acknowledged(mem)}
  PROVE  LossInv'
<1>1. mem \in State /\ disk \in State /\ mem.dropped \in Nat /\ disk.dropped \in Nat
  BY DEF DeviceInv, QueuesOK, TypeOK, State
<1>2. IsFiniteSet(saved) /\ Cardinality(Missing(disk.pending)) <= disk.dropped
      /\ (Live => Cardinality(Missing(mem.pending)) <= mem.dropped)
  BY DEF LossInv
<1>3. Cardinality(saved' \ (Stored' \cup ReadingsIn(disk.pending))) <= disk.dropped
  BY <1>1, <1>2, MissingKept
<1>4. Live => Cardinality(saved' \ (Stored' \cup ReadingsIn(mem.pending))) <= mem.dropped
  BY <1>1, <1>2, MissingKept
<1>5. CASE Live' /\ mem' = disk /\ disk' = disk
  BY <1>2, <1>3, <1>5 DEF LossInv, Missing
<1>6. CASE mem' = mem /\ disk' = disk /\ (Live' => Live)
  BY <1>2, <1>3, <1>4, <1>6 DEF LossInv, Missing
<1>7. CASE mem' = mem /\ disk' = mem /\ Live
  BY <1>2, <1>4, <1>7 DEF LossInv, Missing
<1>8. CASE /\ Live /\ mem.pending # <<>> /\ ReadingsIn(Batch) \subseteq Stored
           /\ mem' \in {mem, Acknowledged(mem)} /\ disk' \in {disk, Acknowledged(mem)}
  <2> DEFINE a == Acknowledged(mem)
  <2>1. a.dropped = mem.dropped /\ ReadingsIn(mem.pending) \subseteq ReadingsIn(a.pending) \cup ReadingsIn(Batch)
    BY <1>1, <1>8, AcknowledgedQueue
  <2> HIDE DEF a
  <2>2. ReadingsIn(mem.pending) \subseteq ReadingsIn(a.pending) \cup Stored'
    BY <1>8, <2>1
  <2>3. Cardinality(saved' \ (Stored' \cup ReadingsIn(a.pending))) <= a.dropped
    BY <1>1, <1>2, <1>8, <2>1, <2>2, MissingKept
  <2>4. mem' \in {mem, a} /\ disk' \in {disk, a}
    BY <1>8 DEF a
  <2> QED
    BY <1>2, <1>3, <1>4, <1>8, <2>3, <2>4 DEF LossInv, Missing
<1> QED
  BY <1>5, <1>6, <1>7, <1>8

LEMMA LossStep ==
  ASSUME ~StaleFallback, DeviceInv, ServerInv, LossInv, [DeliveryNext]_vars, Stored \subseteq Stored'
  PROVE  LossInv'
<1>1. CASE Run /\ Enqueue
  BY <1>1, LossEnqueue DEF Run, server
<1>2. CASE Run /\ ~Enqueue
  <2>1. CASE Boot
    <3>1. Live' /\ mem' = disk /\ disk' = disk /\ saved' = saved
      BY <2>1 DEF Boot, Live
    <3> QED
      BY <3>1, LossOther
  <2>2. CASE PowerLoss \/ EnqueueBeyondBound \/ Send
    <3>1. mem' = mem /\ disk' = disk /\ (Live' => Live) /\ saved' = saved
      BY <2>2 DEF PowerLoss, EnqueueBeyondBound, Send, FlushOver, store, Live
    <3> QED
      BY <3>1, LossOther
  <2> QED
    BY <1>2, <2>1, <2>2 DEF Run, Local
<1>3. CASE Acknowledged202
  <2>1. /\ Live /\ mem.pending # <<>> /\ ReadingsIn(Batch) \subseteq Stored /\ saved' = saved
        /\ mem' \in {mem, Acknowledged(mem)} /\ disk' \in {disk, Acknowledged(mem)}
    BY <1>3 DEF Acknowledged202, Acknowledge, SaveReturns, SaveRaises, Live, DeviceInv, QueuesOK, ServerInv
  <2> QED
    BY <2>1, LossOther
<1>4. CASE Refused \/ Lost
  <2>1. Live /\ mem' = mem /\ disk' \in {disk, mem} /\ saved' = saved /\ Live'
    BY <1>4 DEF Refused, Lost, UploadFailed, SaveReturns, SaveRaises, Live
  <2> QED
    BY <2>1, LossOther
<1>5. CASE Reject \/ UNCHANGED vars \/ \E m \in sent : Handle(m)
  <2>1. UNCHANGED <<mem, disk, saved, phase>>
    BY <1>5 DEF Reject, Handle, vars, device, store
  <2>2. Live' => Live
    BY <2>1 DEF Live
  <2> QED
    BY <2>1, <2>2, LossOther
<1> QED
  BY <1>1, <1>2, <1>3, <1>4, <1>5 DEF DeliveryNext

-----------------------------------------------------------------------------
DeliveryInv == DeviceInv /\ ServerInv /\ LossInv

LEMMA DeliveryInvariant == ~StaleFallback => (DeliverySpec => []DeliveryInv)
<1> SUFFICES ASSUME ~StaleFallback PROVE DeliverySpec => []DeliveryInv
  OBVIOUS
<1>1. DeliveryInit => DeliveryInv
  BY DeviceInit, ServerInit, LossInit DEF DeliveryInit, DeliveryInv
<1>2. DeliveryInv /\ [DeliveryNext]_vars => DeliveryInv'
  <2> SUFFICES ASSUME DeliveryInv, [DeliveryNext]_vars PROVE DeliveryInv'
    OBVIOUS
  <2>1. [Next]_device
    BY DeliveryRunsDevice DEF vars
  <2>2. DeviceInv'
    BY <2>1, DeviceStep DEF DeliveryInv
  <2>3. ServerInv' /\ Stored \subseteq Stored'
    BY <2>2, ServerStep DEF DeliveryInv
  <2> QED
    BY <2>2, <2>3, LossStep DEF DeliveryInv
<1> QED
  BY <1>1, <1>2, PTL DEF DeliverySpec

\* The variables of device, network and server have their types.
THEOREM DeliveryTypes == ~StaleFallback => (DeliverySpec => []DeliveryTypeOK)
<1>1. DeliveryInv => DeliveryTypeOK
  BY DEF DeliveryInv, ServerInv
<1> QED
  BY <1>1, DeliveryInvariant, PTL

\* A sequence number means one reading in all requests a device ever sends
\* (enqueue, save and load of myaqi_client.py).
THEOREM SequencesAreUnique == ~StaleFallback => (DeliverySpec => []SequenceIdentifiesReading)
<1>1. DeliveryInv => SequenceIdentifiesReading
  BY OneReadingPerSequence DEF DeliveryInv
<1> QED
  BY <1>1, DeliveryInvariant, PTL

\* The first and the last sequence number name the whole batch, so a retry has
\* the body of the first attempt (flush_one of myaqi_client.py).
THEOREM KeysAreUnique == ~StaleFallback => (DeliverySpec => []KeyIdentifiesBody)
<1>1. DeliveryInv => KeyIdentifiesBody
  BY OneBodyPerKey DEF DeliveryInv
<1> QED
  BY <1>1, DeliveryInvariant, PTL

\* However often a measurement is sent, the API stores it once.
THEOREM MeasurementsAreStoredOnce == ~StaleFallback => (DeliverySpec => []StoredOnce)
<1>1. DeliveryInv => StoredOnce
  BY StoredOnceHolds DEF DeliveryInv
<1> QED
  BY <1>1, DeliveryInvariant, PTL

\* A reading that enqueue saved is queued, stored, or counted as dropped.
THEOREM NothingIsLostSilently == ~StaleFallback => (DeliverySpec => []NoSilentLoss)
<1>1. DeliveryInv => NoSilentLoss
  BY DEF DeliveryInv, LossInv, NoSilentLoss, Missing, Stored
<1> QED
  BY <1>1, DeliveryInvariant, PTL
=============================================================================
