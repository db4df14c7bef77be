-------------------------- MODULE HardwareSoakProofs --------------------------
(***************************************************************************)
(* Theorems about HardwareSoak, for any schedule, duration, queue length,  *)
(* firmware versions, and any number of readings and disturbances.         *)
(***************************************************************************)
EXTENDS HardwareSoak, FiniteSetTheorems, WellFoundedInduction, TLAPS

-----------------------------------------------------------------------------
(***************************************************************************)
(* Least and greatest elements: the natural numbers are well-founded.      *)
(***************************************************************************)
LEMMA Least ==
  ASSUME NEW S \in SUBSET Nat, S # {}
  PROVE  \E m \in S : \A n \in S : m <= n
<1> DEFINE R == OpToRel(<, Nat)
<1>1. IsWellFoundedOn(R, Nat)
  BY NatLessThanWellFounded
<1> HIDE DEF R
<1>2. PICK m \in S : \A n \in S : ~(<<n, m>> \in R)
  BY <1>1, WFMin
<1>3. ASSUME NEW n \in S PROVE m <= n
  <2>1. m \in Nat /\ n \in Nat
    OBVIOUS
  <2>2. ~(n < m)
    BY <1>2, <2>1 DEF R, OpToRel
  <2> QED
    BY <2>1, <2>2
<1> QED
  BY <1>3

\* The greatest element is the least upper bound.
LEMMA Greatest ==
  ASSUME NEW S \in SUBSET Nat, S # {}, NEW b \in Nat, \A s \in S : s <= b
  PROVE  \E m \in S : \A n \in S : n <= m
<1> DEFINE U == {u \in Nat : \A s \in S : s <= u}
<1>1. PICK m \in U : \A u \in U : m <= u
  <2>1. U \in SUBSET Nat /\ U # {}
    OBVIOUS
  <2> HIDE DEF U
  <2> QED
    BY <2>1, Least
<1>2. ASSUME m \notin S PROVE FALSE
  <2>1. PICK s \in S : TRUE
    OBVIOUS
  <2>2. \A n \in S : n \in Nat /\ n <= m /\ n # m
    BY <1>1, <1>2
  <2>3. m - 1 \in Nat
    BY <1>1, <2>1, <2>2
  <2>4. \A n \in S : n <= m - 1
    BY <1>1, <2>2
  <2> QED
    BY <1>1, <2>3, <2>4
<1> QED
  BY <1>1, <1>2

-----------------------------------------------------------------------------
(***************************************************************************)
(* Types, and the length of the queue.                                     *)
(***************************************************************************)
Boards(t) == [next : Nat, queue : SUBSET (1..t), dropped : Nat, version : Versions]

\* A state of the board when t readings have been taken, with at most MaxPending queued.
QueueFits(b, t) == b \in Boards(t) /\ Cardinality(b.queue) <= MaxPending

LEMMA QueueFinite ==
  ASSUME NEW t \in Nat, NEW b, QueueFits(b, t)
  PROVE  /\ IsFiniteSet(b.queue) /\ Cardinality(b.queue) \in Nat
         /\ DiagnosticOf(b) \in Diagnostic
<1>1. IsFiniteSet(1..t)
  BY FS_Interval
<1>2. IsFiniteSet(b.queue) /\ Cardinality(b.queue) \in Nat
  BY <1>1, FS_Subset, FS_CardinalityType DEF QueueFits, Boards
<1> QED
  BY <1>2 DEF DiagnosticOf, Diagnostic, QueueFits, Boards

\* More readings leave a state that it was.
LEMMA FitsLater ==
  ASSUME NEW t \in Nat, NEW b, QueueFits(b, t)
  PROVE  QueueFits(b, t + 1)
BY DEF QueueFits, Boards

\* enqueue keeps the queue within its length: a full one loses a reading first.
LEMMA EnqueueFits ==
  ASSUME NEW b, taken \in Seq(Nat), QueueFits(b, Len(taken))
  PROVE  /\ QueueFits(Enqueued(b), Len(taken) + 1)
         /\ Enqueued(b).next = b.next + 1
<1> DEFINE q == b.queue
           full == Cardinality(q) >= MaxPending
           kept == IF full THEN q \ {Oldest(q)} ELSE q
           c == Cardinality(q)
           r == Reading
           t == Len(taken)
<1>0. t \in Nat /\ r = t + 1
  BY DEF Reading
<1>1. IsFiniteSet(q) /\ c \in Nat /\ c <= MaxPending
  BY <1>0, QueueFinite DEF QueueFits
<1>2. q \subseteq 1..t /\ b.next \in Nat /\ q \in SUBSET Nat
  BY <1>0 DEF QueueFits, Boards
<1>3. full => Oldest(q) \in q
  <2> SUFFICES ASSUME full PROVE Oldest(q) \in q
    OBVIOUS
  <2>1. q # {}
    <3> SUFFICES ASSUME q = {} PROVE FALSE
      OBVIOUS
    <3>1. c = 0
      BY FS_EmptySet
    <3> QED
      BY <1>1, <3>1, SoakAssumption
  <2>2. \E n \in q : \A m \in q : n <= m
    BY <1>2, <2>1, Least
  <2> QED
    BY <2>2 DEF Oldest
<1>4. IsFiniteSet(kept) /\ Cardinality(kept) \in Nat /\ Cardinality(kept) + 1 <= MaxPending
  <2>1. CASE full
    <3>1. IsFiniteSet(kept) /\ Cardinality(kept) = c - 1
      BY <1>1, <1>3, <2>1, FS_RemoveElement
    <3>2. Cardinality(kept) \in Nat
      BY <3>1, FS_CardinalityType
    <3> QED
      BY <1>1, <3>1, <3>2
  <2>2. CASE ~full
    BY <1>1, <2>2, SoakAssumption
  <2> QED
    BY <2>1, <2>2
<1>5. r \notin kept
  BY <1>0, <1>2
<1>6. Cardinality(kept \cup {r}) <= MaxPending
  <2> HIDE DEF kept, r
  <2>1. Cardinality(kept \cup {r}) = Cardinality(kept) + 1
    BY <1>4, <1>5, FS_AddElement
  <2> QED
    BY <1>4, <2>1
<1> DEFINE lost == IF full THEN b.dropped + 1 ELSE b.dropped
<1>7. Enqueued(b) = [b EXCEPT !.next = b.next + 1, !.queue = kept \cup {r}, !.dropped = lost]
  BY DEF Enqueued, QueueFits, Boards
<1>8. b.dropped \in Nat /\ lost \in Nat /\ b \in Boards(t + 1)
  BY <1>0 DEF QueueFits, Boards
<1>9. kept \cup {r} \in SUBSET (1..t + 1)
  BY <1>0, <1>2
<1> HIDE DEF kept, full, lost, r, t
<1>10. Enqueued(b) \in Boards(t + 1)
  <2> DEFINE n == b.next + 1  k == kept \cup {r}
  <2>1. n \in Nat /\ k \in SUBSET (1..t + 1)
    BY <1>2, <1>9
  <2> HIDE DEF n, k
  <2>2. [b EXCEPT !.next = n, !.queue = k, !.dropped = lost] \in Boards(t + 1)
    BY <1>8, <2>1 DEF Boards
  <2> QED
    BY <1>7, <2>2 DEF n, k
<1>11. Enqueued(b).next = b.next + 1 /\ Enqueued(b).queue = kept \cup {r}
  BY <1>7, <1>8 DEF Boards
<1> QED
  BY <1>6, <1>10, <1>11 DEF QueueFits, t

LEMMA WithoutFits ==
  ASSUME NEW t \in Nat, NEW b, NEW k, QueueFits(b, t)
  PROVE  QueueFits(Without(b, k), t)
<1> DEFINE q == b.queue \ UpTo(b.queue, k)
<1>1. Without(b, k) \in Boards(t) /\ Without(b, k).queue = q
  BY DEF Without, QueueFits, Boards
<1>2. IsFiniteSet(b.queue) /\ Cardinality(b.queue) \in Nat /\ q \subseteq b.queue
  BY QueueFinite
<1>3. Cardinality(q) <= Cardinality(b.queue) /\ Cardinality(q) \in Nat
  BY <1>2, FS_Subset, FS_CardinalityType
<1> QED
  BY <1>1, <1>2, <1>3, SoakAssumption DEF QueueFits

\* flush leaves a part of the queue, and stores readings of it.
LEMMA FlushFits ==
  ASSUME NEW t \in Nat, NEW b, NEW e, QueueFits(b, t), QueueFits(e, t), Flush(b, e),
         stored \subseteq 1..t
  PROVE  QueueFits(board', t) /\ QueueFits(backup', t) /\ stored' \subseteq 1..t
<1>1. PICK i \in b.queue \cup {0}, a \in b.queue \cup {0} :
        /\ stored' = stored \cup Fresh(UpTo(b.queue, i))
        /\ board' = Without(b, a)
        /\ backup' \in {Without(b, k) : k \in {k \in b.queue \cup {0} : k <= a}}
                       \cup {e : k \in {0} \cap {a}}
  BY DEF Flush
<1>2. QueueFits(board', t)
  BY <1>1, WithoutFits
<1>3. QueueFits(backup', t)
  BY <1>1, WithoutFits
<1>4. stored' \subseteq 1..t
  BY <1>1 DEF Fresh, UpTo, QueueFits, Boards
<1> QED
  BY <1>2, <1>3, <1>4

CapturedOK(c) ==
  \/ c = NoDiagnostics
  \/ c \in [count : 1..2, first : Diagnostic, last : Diagnostic, versions : SUBSET Versions]

LEMMA CapturesOK ==
  ASSUME NEW t \in Nat, NEW b, QueueFits(b, t), Captures(b) \/ Misses, CapturedOK(captured),
         taken' \in Seq(Nat), since \in Nat, until \in Nat
  PROVE  CapturedOK(captured') /\ since' \in Nat /\ until' \in Nat
<1>1. DiagnosticOf(b) \in Diagnostic
  BY QueueFinite
<1>2. b.version \in Versions /\ DiagnosticOf(b).version = b.version
  BY DEF QueueFits, Boards, DiagnosticOf
<1>3. CapturedOK(Appended(DiagnosticOf(b)))
  BY <1>1, <1>2 DEF CapturedOK, Appended, NoDiagnostics
<1> QED
  BY <1>3 DEF Captures, Misses

\* There are finitely many checkpoints.
LEMMA DueFinite == IsFiniteSet(Due) /\ Cardinality(Due) \in Nat
<1>1. DOMAIN Checkpoints = 1..Len(Checkpoints) /\ Len(Checkpoints) \in Nat
  BY SoakAssumption
<1>2. IsFiniteSet(DOMAIN Checkpoints)
  BY <1>1, FS_Interval
<1> QED
  BY <1>2, FS_Subset, FS_CardinalityType DEF Due

\* The initial state, with the readings that the board has queued and lost.
Started(n, v, q, lost) ==
  /\ Cardinality(q) <= MaxPending /\ \A i \in lost : i < n - 1
  /\ board = [next |-> n, queue |-> q, dropped |-> Cardinality(lost), version |-> v]
  /\ backup \in {b \in {board, [board EXCEPT !.next = n - 1, !.queue = q \ {n - 1}]} : b.next > 0}
  /\ taken = [i \in 1..n - 1 |-> i]
  /\ stored = (1..n - 1) \ (q \cup lost)
  /\ manifest = [status |-> "running", elapsed |-> 0, expected |-> 0, start |-> n]

LEMMA StartIsStarted ==
  ASSUME Init
  PROVE  \E n \in 1..MaxReadings, v \in Versions : \E q, lost \in SUBSET (1..n - 1) :
           Started(n, v, q, lost) /\ Cardinality(lost) \in Nat
<1>1. PICK n \in 1..MaxReadings, v \in Versions : \E k \in 1..n :
        \E lost \in SUBSET {i \in 1..k - 1 : i < n - 1} : Started(n, v, k..n - 1, lost)
  BY DEF Init, Started
<1>2. PICK k \in 1..n : \E lost \in SUBSET {i \in 1..k - 1 : i < n - 1} : Started(n, v, k..n - 1, lost)
  BY <1>1
<1>3. PICK lost \in SUBSET {i \in 1..k - 1 : i < n - 1} : Started(n, v, k..n - 1, lost)
  BY <1>2
<1>4. n \in Nat /\ k \in Nat /\ 1 <= k /\ k <= n
  BY SoakAssumption
<1>5. k..n - 1 \in SUBSET (1..n - 1) /\ lost \in SUBSET (1..n - 1)
  BY <1>4
<1>6. Cardinality(lost) \in Nat
  <2>1. IsFiniteSet(1..k - 1)
    BY <1>4, FS_Interval
  <2> QED
    BY <2>1, FS_Subset, FS_CardinalityType
<1> QED
  BY <1>3, <1>5, <1>6

LEMMA BoardTypes ==
  ASSUME taken \in Seq(Nat)
  PROVE  /\ DOMAIN taken = 1..Len(taken) /\ Len(taken) \in Nat
         /\ [next : Nat, queue : SUBSET DOMAIN taken, dropped : Nat, version : Versions]
              = Boards(Len(taken))
<1>1. DOMAIN taken = 1..Len(taken) /\ Len(taken) \in Nat
  OBVIOUS
<1> QED
  BY <1>1 DEF Boards

LEMMA TypeInit == Init => TypeOK
<1> SUFFICES ASSUME Init PROVE TypeOK
  OBVIOUS
<1>0. PICK n \in 1..MaxReadings, v \in Versions : \E q, lost \in SUBSET (1..n - 1) :
        Started(n, v, q, lost) /\ Cardinality(lost) \in Nat
  BY StartIsStarted
<1>1. PICK q \in SUBSET (1..n - 1), lost \in SUBSET (1..n - 1) :
        Started(n, v, q, lost) /\ Cardinality(lost) \in Nat
  BY <1>0
<1>2. n \in Nat \ {0}
  BY SoakAssumption
<1>3. taken \in Seq(Nat) /\ Len(taken) = n - 1
  <2>1. \A i \in 1..n - 1 : i \in Nat
    BY <1>2
  <2> QED
    BY <1>1, <1>2, <2>1 DEF Started
<1>4. QueueFits(board, n - 1)
  BY <1>1, <1>2 DEF Started, QueueFits, Boards
<1>5. QueueFits(backup, n - 1)
  <2> DEFINE m == n - 1  r == q \ {n - 1}  b == [board EXCEPT !.next = m, !.queue = r]
  <2>0. m \in Nat /\ r \in SUBSET (1..n - 1) /\ board \in Boards(n - 1)
    BY <1>2, <1>4 DEF QueueFits
  <2>1. b \in Boards(n - 1) /\ b.queue = q \ {n - 1} /\ board.queue = q
    <3> HIDE DEF m
    <3>1. board.queue = q
      BY <1>1 DEF Started
    <3> QED
      BY <2>0, <3>1 DEF Boards
  <2>2. IsFiniteSet(q) /\ Cardinality(q) \in Nat
    BY <1>2, <1>4, <2>1, QueueFinite
  <2>3. Cardinality(q \ {n - 1}) <= Cardinality(q) /\ Cardinality(q \ {n - 1}) \in Nat
    BY <2>2, FS_Subset, FS_CardinalityType
  <2>4. QueueFits(b, n - 1)
    BY <1>1, <2>1, <2>2, <2>3, SoakAssumption DEF QueueFits, Started
  <2> QED
    BY <1>1, <1>4, <2>4 DEF Started
<1>6. manifest \in [status : Statuses, elapsed : Nat, expected : Nat, start : Nat]
      /\ stored \subseteq 1..n - 1
  BY <1>1, <1>2 DEF Statuses, Started
<1>7. Confirmed = {} /\ log \in [Confirmed -> 0..MaxTime]
  BY DEF Init, Confirmed
<1>8. /\ clock = 0 /\ endedAt = 0 /\ faults = 0 /\ result = "none" /\ audited = {}
      /\ captured = NoDiagnostics /\ pc = "waiting" /\ collector = "closed"
      /\ since = 0 /\ until = 0 /\ reverted = FALSE /\ stop = FALSE /\ signalled = FALSE
  BY DEF Init
<1>9. 0 \in 0..MaxTime /\ 0 \in 0..MaxFaults
  BY SoakAssumption
<1> QED
  BY <1>3, <1>4, <1>5, <1>6, <1>7, <1>8, <1>9, BoardTypes DEF TypeOK, QueueFits

LEMMA TypeStep == TypeOK /\ [Next]_vars => TypeOK'
<1> SUFFICES ASSUME TypeOK, [Next]_vars PROVE TypeOK'
  OBVIOUS
<1> USE SoakAssumption DEF run, evidence, device, verdict
<1>1. /\ pc \in {"waiting", "prompt", "ended", "killed"}
      /\ clock \in 0..MaxTime /\ stop \in BOOLEAN /\ signalled \in BOOLEAN /\ endedAt \in 0..MaxTime
      /\ Confirmed \subseteq Due /\ log \in [Confirmed -> 0..MaxTime]
      /\ manifest \in [status : Statuses, elapsed : Nat, expected : Nat, start : Nat]
      /\ collector \in {"closed", "open", "dead"}
      /\ CapturedOK(captured) /\ since \in Nat /\ until \in Nat
      /\ reverted \in BOOLEAN /\ taken \in Seq(Nat)
      /\ QueueFits(board, Len(taken)) /\ QueueFits(backup, Len(taken))
      /\ stored \subseteq 1..Len(taken)
      /\ result \in {"none", "failed", "passed"} /\ audited \subseteq Nat
      /\ faults \in 0..MaxFaults
  BY BoardTypes DEF TypeOK, CapturedOK, QueueFits
<1> DEFINE Goal ==
        /\ pc' \in {"waiting", "prompt", "ended", "killed"}
        /\ clock' \in 0..MaxTime /\ stop' \in BOOLEAN /\ signalled' \in BOOLEAN /\ endedAt' \in 0..MaxTime
        /\ Confirmed' \subseteq Due /\ log' \in [Confirmed' -> 0..MaxTime]
        /\ manifest' \in [status : Statuses, elapsed : Nat, expected : Nat, start : Nat]
        /\ collector' \in {"closed", "open", "dead"}
        /\ CapturedOK(captured') /\ since' \in Nat /\ until' \in Nat
        /\ reverted' \in BOOLEAN /\ taken' \in Seq(Nat)
        /\ QueueFits(board', Len(taken')) /\ QueueFits(backup', Len(taken'))
        /\ stored' \subseteq 1..Len(taken')
        /\ result' \in {"none", "failed", "passed"} /\ audited' \subseteq Nat
        /\ faults' \in 0..MaxFaults
<1>2. SUFFICES Goal
  <2>1. ASSUME taken' \in Seq(Nat)
        PROVE  /\ DOMAIN taken' = 1..Len(taken')
               /\ [next : Nat, queue : SUBSET DOMAIN taken', dropped : Nat, version : Versions]
                    = Boards(Len(taken'))
    <3>1. DOMAIN taken' = 1..Len(taken')
      BY <2>1
    <3> QED
      BY <3>1 DEF Boards
  <2> QED
    BY <2>1 DEF TypeOK, CapturedOK, QueueFits, Confirmed, Due
<1>f. Fault => faults' \in 0..MaxFaults
  BY <1>1 DEF Fault
<1>t. Len(taken) \in Nat
  BY <1>1
<1>3. CASE Tick \/ Signal \/ Prompt \/ Kill
  <2>1. CASE Tick
    <3>1. clock' \in 0..MaxTime
      BY <1>1, <2>1 DEF Tick
    <3> QED
      BY <1>1, <2>1, <3>1 DEF Tick, Confirmed
  <2>2. CASE Signal
    BY <1>1, <1>f, <2>2 DEF Signal, Confirmed
  <2>3. CASE Prompt
    BY <1>1, <2>3 DEF Prompt, Confirmed
  <2>4. CASE Kill
    BY <1>1, <1>f, <2>4 DEF Kill, Confirmed
  <2> QED
    BY <1>3, <2>1, <2>2, <2>3, <2>4
<1>4. CASE Confirm
  <2>1. PICK i \in Due : log' = [j \in Confirmed \cup {i} |-> IF j = i THEN clock ELSE log[j]]
    BY <1>4 DEF Confirm
  <2>2. Confirmed' = Confirmed \cup {i} /\ log' \in [Confirmed' -> 0..MaxTime]
    BY <1>1, <2>1 DEF Confirmed
  <2> QED
    BY <1>1, <1>4, <2>2 DEF Confirm
<1>5. ASSUME NEW s \in BOOLEAN, Finally(s), signalled' \in BOOLEAN, faults' \in 0..MaxFaults
      PROVE Goal
  <2>1. manifest' \in [status : Statuses, elapsed : Nat, expected : Nat, start : Nat]
    <3> DEFINE t == IF Completed(s) THEN "completed" ELSE "interrupted"  n == Cardinality(Due)
    <3>1. manifest' = [manifest EXCEPT !.status = t, !.elapsed = clock, !.expected = n]
      BY <1>5 DEF Finally
    <3>2. t \in Statuses /\ clock \in Nat /\ n \in Nat
      BY <1>1, DueFinite DEF Statuses
    <3> HIDE DEF t, n
    <3> QED
      BY <1>1, <3>1, <3>2
  <2> QED
    BY <1>1, <1>5, <2>1 DEF Finally, Confirmed
<1>6. CASE Finish \/ EndOfInput \/ ConfirmationLost
  <2>1. CASE Finish
    BY <1>1, <1>5, <2>1 DEF Finish
  <2>2. CASE EndOfInput
    BY <1>1, <1>5, <1>f, <2>2 DEF EndOfInput
  <2>3. CASE ConfirmationLost
    BY <1>1, <1>5, <1>f, <2>3 DEF ConfirmationLost
  <2> QED
    BY <1>6, <2>1, <2>2, <2>3
<1>7. CASE Connect \/ Disconnect
  BY <1>1, <1>7 DEF Connect, Disconnect, Fault, Confirmed
<1>8. CASE Measure
  <2> DEFINE b == Enqueued(board)  t == Len(taken) + 1
  <2>1. /\ Flush(b, board) /\ Printed(board') /\ UNCHANGED <<run, collector, verdict, reverted>>
        /\ taken' = Append(taken, board.next)
    BY <1>8 DEF Measure
  <2>2. QueueFits(b, t) /\ QueueFits(board, t)
    BY <1>1, <1>t, EnqueueFits, FitsLater
  <2>3. taken' \in Seq(Nat) /\ Len(taken') = t /\ t \in Nat /\ stored \subseteq 1..t
    BY <1>1, <1>t, <2>1 DEF QueueFits, Boards
  <2> HIDE DEF b, t
  <2>4. QueueFits(board', t) /\ QueueFits(backup', t) /\ stored' \subseteq 1..t
    BY <2>1, <2>2, <2>3, FlushFits
  <2>5. CapturedOK(captured') /\ since' \in Nat /\ until' \in Nat
    BY <1>1, <2>1, <2>3, <2>4, CapturesOK DEF Printed
  <2>6. faults' \in 0..MaxFaults
    BY <1>1, <1>f, <2>1 DEF Printed
  <2> QED
    BY <1>1, <2>1, <2>3, <2>4, <2>5, <2>6 DEF Confirmed
<1>9. ASSUME NEW b, QueueFits(b, Len(taken)), Flush(b, backup), Captures(b) \/ Misses,
             UNCHANGED <<run, collector, verdict, taken>>, faults' \in 0..MaxFaults,
             reverted' \in BOOLEAN
      PROVE  Goal
  <2>1. QueueFits(board', Len(taken)) /\ QueueFits(backup', Len(taken)) /\ stored' \subseteq 1..Len(taken)
    BY <1>1, <1>t, <1>9, FlushFits
  <2>2. CapturedOK(captured') /\ since' \in Nat /\ until' \in Nat
    BY <1>1, <1>t, <1>9, CapturesOK
  <2> QED
    BY <1>1, <1>9, <2>1, <2>2 DEF Confirmed
<1>10. CASE Restart
  <2>1. /\ Flush(board, backup) /\ (Captures(board) \/ Misses)
        /\ UNCHANGED <<run, collector, verdict, taken, reverted>>
    BY <1>10 DEF Restart, Printed
  <2>2. faults' \in 0..MaxFaults
    BY <1>1, <1>f, <1>10 DEF Restart, Printed
  <2> QED
    BY <1>1, <1>9, <2>1, <2>2
<1>11. CASE RestartWithOlderState
  <2> DEFINE l == [backup EXCEPT !.version = board.version]
  <2>1. PICK b \in {l, Default} :
          /\ reverted' = (reverted \/ b.next < board.next)
          /\ Captures(b) \/ Misses
          /\ Flush(b, backup)
    BY <1>11 DEF RestartWithOlderState
  <2>2. UNCHANGED <<run, collector, verdict, taken>> /\ faults' \in 0..MaxFaults
    BY <1>f, <1>11 DEF RestartWithOlderState
  <2>3. QueueFits(l, Len(taken))
    BY <1>1 DEF QueueFits, Boards
  <2>4. QueueFits(Default, Len(taken))
    <3>1. Default \in Boards(Len(taken)) /\ Default.queue = {}
      BY <1>1, <1>t DEF Default, QueueFits, Boards
    <3> QED
      BY <3>1, FS_EmptySet DEF QueueFits
  <2> HIDE DEF l
  <2>5. QueueFits(b, Len(taken))
    BY <2>1, <2>3, <2>4
  <2>6. reverted' \in BOOLEAN
    BY <1>1, <2>1
  <2> QED
    BY <1>9, <2>1, <2>2, <2>5, <2>6
<1>12. ASSUME NEW v \in Versions, Install(v) PROVE Goal
  <2>1. board' = [board EXCEPT !.version = v]
    BY <1>12 DEF Install
  <2>2. QueueFits(board', Len(taken))
    BY <1>1, <2>1 DEF QueueFits, Boards
  <2>3. faults' \in 0..MaxFaults
    BY <1>f, <1>12 DEF Install
  <2>4. UNCHANGED <<run, evidence, backup, taken, stored, reverted, verdict>>
    BY <1>12 DEF Install
  <2> QED
    BY <1>1, <2>2, <2>3, <2>4 DEF Confirmed
<1>13. CASE Verify
  <2>1. UNCHANGED <<run, evidence, device, faults>>
    BY <1>13 DEF Verify
  <2>2. result' \in {"failed", "passed"} /\ audited' \subseteq Nat
    <3>1. PICK start \in 1..Len(taken) + 1, end \in 1..Len(taken) + 1 :
            \/ result' = "passed" /\ audited' = start..end
            \/ result' = "failed" /\ audited' = {}
      BY <1>13 DEF Verify
    <3> QED
      BY <1>t, <3>1
  <2> QED
    BY <1>1, <2>1, <2>2 DEF Confirmed
<1>14. CASE UNCHANGED vars
  BY <1>1, <1>14 DEF vars, Confirmed
<1> QED
  BY <1>3, <1>4, <1>6, <1>7, <1>8, <1>10, <1>11, <1>12, <1>13, <1>14 DEF Next

\* The variables of the soak have their types; the queue of a board never grows
\* beyond its length.
THEOREM TypeCorrect == Spec => []TypeOK
BY TypeInit, TypeStep, PTL DEF Spec

-----------------------------------------------------------------------------
(***************************************************************************)
(* The readings.  As long as no restart goes back before a reading, the    *)
(* n-th reading has number n, and the backup is a state that only repeats  *)
(* uploads.                                                                *)
(***************************************************************************)
\* A board has numbered its readings from 1 on.
Board(b) ==
  /\ b.next \in Nat \ {0} /\ b.dropped \in Nat
  /\ b.queue \subseteq 1..b.next - 1
  /\ b.next = 1 => b.dropped = 0

\* e is an earlier state than b: if it lacks no reading, it has at least b's queue.
Behind(e, b) ==
  /\ Board(e) /\ e.next <= b.next
  /\ e.next = b.next => e.dropped = b.dropped /\ b.queue \subseteq e.queue

\* What the diagnostics c say of the readings since the first of them, with board
\* b and measurements s: as long as no reading was dropped they are queued or
\* stored, and if the last diagnostic saw an empty queue, those up to it are stored.
TrueOf(c, b, s) ==
  /\ c.count \in Nat
  /\ c.count > 0 =>
       /\ c.first.next \in Nat \ {0} /\ c.last.next \in Nat \ {0}
       /\ c.first.dropped \in Nat /\ c.last.dropped \in Nat
       /\ c.last.next <= b.next
       /\ c.first.dropped <= c.last.dropped /\ c.last.dropped <= b.dropped
       /\ b.dropped = c.first.dropped => c.first.next..b.next - 1 \subseteq b.queue \cup s
       /\ c.last.dropped = c.first.dropped /\ c.last.pending = 0 =>
            c.first.next..c.last.next - 1 \subseteq s

NumbersAreReadings ==
  /\ Len(taken) = board.next - 1
  /\ \A i \in 1..Len(taken) : taken[i] = i

\* The numbers of the diagnostics say how many readings there were.
MarksAreNumbers ==
  captured.count > 0 => since = captured.first.next - 1 /\ until = captured.last.next - 1

NothingLost ==
  /\ Board(board) /\ Behind(backup, board) /\ NumbersAreReadings
  /\ TrueOf(captured, board, stored) /\ MarksAreNumbers

LossInv == TypeOK /\ (~reverted => NothingLost) /\ PassedLostNothing

\* What a board may do: take readings, and give some to the server.
GoesOn(b, s, c, t) ==
  /\ Board(c) /\ b.next <= c.next /\ b.dropped <= c.dropped /\ s \subseteq t
  /\ c.dropped = b.dropped => b.queue \cup s \cup (b.next..c.next - 1) \subseteq c.queue \cup t

-----------------------------------------------------------------------------
LEMMA EmptyQueue ==
  ASSUME NEW b, Board(b), DiagnosticOf(b).pending = 0
  PROVE  b.queue = {}
<1>1. IsFiniteSet(1..b.next - 1)
  BY FS_Interval DEF Board
<1>2. IsFiniteSet(b.queue) /\ Cardinality(b.queue) = 0
  BY <1>1, FS_Subset DEF DiagnosticOf, Board
<1> QED
  BY <1>2, FS_EmptySet

\* An audit that misses nothing has found every number.
LEMMA NoneMissing ==
  ASSUME NEW S, NEW start \in Nat \ {0}, NEW end \in Nat, start <= end,
         Missing(S, start, end) = 0
  PROVE  start..end \subseteq S
<1> DEFINE R == S \cap (start..end)
<1>1. IsFiniteSet(start..end) /\ Cardinality(start..end) = end - start + 1
  BY FS_Interval
<1>2. IsFiniteSet(R) /\ Cardinality(R) \in Nat
  BY <1>1, FS_Subset, FS_CardinalityType
<1>3. end - start + 1 - Cardinality(R) = 0
  BY DEF Missing, Received
<1>4. Cardinality(R) = Cardinality(start..end)
  <2>1. end - start + 1 \in Nat
    OBVIOUS
  <2> QED
    BY <1>1, <1>2, <1>3, <2>1
<1>5. R = start..end
  BY <1>1, <1>4, FS_Subset
<1> QED
  BY <1>5

\* What the diagnostics say stays true while the board goes on.
LEMMA TruthStays ==
  ASSUME NEW c, NEW b, NEW s, NEW b2, NEW s2,
         Board(b), TrueOf(c, b, s), GoesOn(b, s, b2, s2)
  PROVE  TrueOf(c, b2, s2)
<1> SUFFICES ASSUME c.count > 0 PROVE TrueOf(c, b2, s2)
  BY DEF TrueOf
<1>1. /\ c.count \in Nat /\ c.first.next \in Nat \ {0} /\ c.last.next \in Nat \ {0}
      /\ c.first.dropped \in Nat /\ c.last.dropped \in Nat
      /\ c.last.next <= b.next
      /\ c.first.dropped <= c.last.dropped /\ c.last.dropped <= b.dropped
  BY DEF TrueOf
<1>2. c.last.next <= b2.next /\ c.last.dropped <= b2.dropped /\ s \subseteq s2
  BY <1>1 DEF Board, GoesOn
<1>3. ASSUME b2.dropped = c.first.dropped
      PROVE  c.first.next..b2.next - 1 \subseteq b2.queue \cup s2
  <2>1. b.dropped = c.first.dropped /\ b2.dropped = b.dropped
    BY <1>1, <1>3 DEF Board, GoesOn
  <2>2. c.first.next..b.next - 1 \subseteq b.queue \cup s
    BY <2>1 DEF TrueOf
  <2>3. c.first.next..b2.next - 1 \subseteq (c.first.next..b.next - 1) \cup (b.next..b2.next - 1)
    BY <1>1 DEF Board, GoesOn
  <2> QED
    BY <2>1, <2>2, <2>3 DEF GoesOn
<1> QED
  BY <1>1, <1>2, <1>3 DEF TrueOf

\* A diagnostic that is captured is true of the board that printed it.
LEMMA TruthCaptured ==
  ASSUME NEW b, NEW s, Board(b), TrueOf(captured, b, s)
  PROVE  TrueOf(Appended(DiagnosticOf(b)), b, s)
<1> DEFINE d == DiagnosticOf(b)  c == Appended(d)
<1>1. d.next = b.next /\ d.dropped = b.dropped
  BY DEF DiagnosticOf
<1>2. d.pending = 0 => b.queue = {}
  BY EmptyQueue
<1> HIDE DEF d
<1>3. /\ c.first = IF captured.count = 0 THEN d ELSE captured.first
      /\ c.last = d /\ c.count \in Nat
  BY DEF Appended
<1> HIDE DEF c
<1>4. ASSUME captured.count = 0 PROVE TrueOf(c, b, s)
  BY <1>1, <1>2, <1>3, <1>4 DEF TrueOf, Board
<1>5. ASSUME captured.count # 0 PROVE TrueOf(c, b, s)
  BY <1>1, <1>2, <1>3, <1>5 DEF TrueOf, Board
<1>6. TrueOf(c, b, s)
  BY <1>4, <1>5
<1> QED
  BY <1>6 DEF c, d

LEMMA TruthMissed ==
  ASSUME NEW b, NEW s, Board(b), TrueOf(captured, b, s), MarksAreNumbers,
         Captures(b) \/ Misses, Len(taken') = b.next - 1
  PROVE  TrueOf(captured', b, s) /\ MarksAreNumbers'
<1>1. CASE Misses
  BY <1>1 DEF Misses, MarksAreNumbers
<1>2. CASE Captures(b)
  <2>1. captured' = Appended(DiagnosticOf(b))
    BY <1>2 DEF Captures
  <2>2. TrueOf(captured', b, s)
    BY <2>1, TruthCaptured
  <2>3. until' = b.next - 1 /\ since' = IF captured.count = 0 THEN b.next - 1 ELSE since
    BY <1>2 DEF Captures
  <2>4. /\ captured'.last.next = b.next
        /\ captured'.first.next = IF captured.count = 0 THEN b.next ELSE captured.first.next
    BY <2>1 DEF Appended, DiagnosticOf
  <2>5. captured.count \in Nat
    BY DEF TrueOf
  <2> QED
    BY <2>2, <2>3, <2>4, <2>5 DEF MarksAreNumbers
<1> QED
  BY <1>1, <1>2

-----------------------------------------------------------------------------
\* enqueue takes one reading; an older one is lost only if it is counted.
LEMMA EnqueueGoesOn ==
  ASSUME TypeOK, NothingLost
  PROVE  /\ GoesOn(board, stored, Enqueued(board), stored)
         /\ Behind(board, Enqueued(board)) /\ Enqueued(board).next = board.next + 1
<1> DEFINE full == Cardinality(board.queue) >= MaxPending
           kept == IF full THEN board.queue \ {Oldest(board.queue)} ELSE board.queue
           b == Enqueued(board)
<1>0. /\ DOMAIN board = {"next", "queue", "dropped", "version"} /\ Board(board)
      /\ Reading = board.next
  BY DEF TypeOK, NothingLost, NumbersAreReadings, Reading, Board
<1>1. /\ b.next = board.next + 1
      /\ b.queue = kept \cup {board.next}
      /\ b.dropped = IF full THEN board.dropped + 1 ELSE board.dropped
  BY <1>0 DEF Enqueued
<1>2. kept \subseteq board.queue /\ (~full => kept = board.queue)
  OBVIOUS
<1> HIDE DEF full, kept, b
<1>4. Board(b)
  BY <1>0, <1>1, <1>2 DEF Board
<1>5. board.next <= b.next /\ board.dropped <= b.dropped
  BY <1>0, <1>1 DEF Board
<1>6. b.dropped = board.dropped =>
        board.queue \cup stored \cup (board.next..b.next - 1) \subseteq b.queue \cup stored
  BY <1>0, <1>1, <1>2 DEF Board
<1>7. GoesOn(board, stored, b, stored) /\ Behind(board, b)
  BY <1>0, <1>1, <1>4, <1>5, <1>6 DEF GoesOn, Behind, Board
<1> QED
  BY <1>1, <1>7 DEF b

\* flush moves readings from the queue to the database: none is a duplicate of
\* another reading.
LEMMA FlushGoesOn ==
  ASSUME NEW b, NEW e, Board(b), Behind(e, b), Flush(b, e),
         DOMAIN b = {"next", "queue", "dropped", "version"},
         NEW t \in Nat, \A i \in 1..t : taken'[i] = i,
         stored \subseteq 1..t, b.queue \subseteq 1..t
  PROVE  /\ GoesOn(b, stored, board', stored')
         /\ Behind(backup', board') /\ board'.next = b.next
<1>1. PICK n \in b.queue \cup {0}, a \in b.queue \cup {0} :
        /\ a <= n
        /\ stored' = stored \cup Fresh(UpTo(b.queue, n))
        /\ board' = Without(b, a)
        /\ backup' \in {Without(b, k) : k \in {k \in b.queue \cup {0} : k <= a}}
                       \cup {e : k \in {0} \cap {a}}
  BY DEF Flush
<1>2. \A k : /\ Without(b, k).next = b.next /\ Without(b, k).dropped = b.dropped
             /\ Without(b, k).queue = b.queue \ UpTo(b.queue, k)
  BY DEF Without
<1>3. UpTo(b.queue, a) \subseteq UpTo(b.queue, n)
  BY <1>1 DEF UpTo, Board
<1>4. UpTo(b.queue, n) \subseteq stored \cup Fresh(UpTo(b.queue, n))
  <2> SUFFICES ASSUME NEW i \in UpTo(b.queue, n), i \notin stored
               PROVE  i \in Fresh(UpTo(b.queue, n))
    OBVIOUS
  <2>1. i \in 1..t /\ taken'[i] = i
    BY DEF UpTo
  <2>2. \A j \in stored : taken'[j] = j /\ j # i
    OBVIOUS
  <2> QED
    BY <2>1, <2>2 DEF Fresh
<1>5. GoesOn(b, stored, board', stored')
  BY <1>1, <1>2, <1>3, <1>4 DEF GoesOn, Board
<1>6. ASSUME NEW k \in b.queue \cup {0}, k <= a PROVE Behind(Without(b, k), board')
  <2>1. UpTo(b.queue, k) \subseteq UpTo(b.queue, a)
    BY <1>1, <1>6 DEF UpTo, Board
  <2> QED
    BY <1>1, <1>2, <2>1 DEF Behind, Board
<1>7. ASSUME a = 0 PROVE Behind(e, board')
  <2>1. UpTo(b.queue, 0) = {}
    BY DEF UpTo, Board
  <2> QED
    BY <1>1, <1>2, <1>7, <2>1 DEF Behind
<1> QED
  BY <1>1, <1>2, <1>5, <1>6, <1>7

LEMMA LossInit == Init => LossInv
<1> SUFFICES ASSUME Init PROVE LossInv
  OBVIOUS
<1>0. PICK n \in 1..MaxReadings, v \in Versions : \E q, lost \in SUBSET (1..n - 1) :
        Started(n, v, q, lost) /\ Cardinality(lost) \in Nat
  BY StartIsStarted
<1>1. PICK q \in SUBSET (1..n - 1), lost \in SUBSET (1..n - 1) :
        Started(n, v, q, lost) /\ Cardinality(lost) \in Nat
  BY <1>0
<1>2. n \in Nat \ {0}
  BY SoakAssumption
<1>3. board = [next |-> n, queue |-> q, dropped |-> Cardinality(lost), version |-> v]
  BY <1>1 DEF Started
<1>4. Board(board)
  <2>1. n = 1 => lost = {}
    OBVIOUS
  <2>2. n = 1 => Cardinality(lost) = 0
    BY <2>1, FS_EmptySet
  <2> QED
    BY <1>1, <1>2, <1>3, <2>2 DEF Board
<1>5. Behind(backup, board)
  <2> DEFINE b == [board EXCEPT !.next = n - 1, !.queue = q \ {n - 1}]
  <2>1. b.next = n - 1 /\ b.queue = q \ {n - 1} /\ b.dropped = Cardinality(lost)
    BY <1>3
  <2> HIDE DEF b
  <2>2. backup = board \/ (backup = b /\ b.next > 0)
    BY <1>1 DEF Started, b
  <2>3. CASE backup = board
    BY <1>2, <1>3, <1>4, <2>3 DEF Behind
  <2>4. CASE backup = b /\ b.next > 0
    <3>1. n - 1 = 1 => Cardinality(lost) = 0
      <4>1. n = 2 => lost = {}
        <5>1. \A i \in lost : i < n - 1 /\ i \in 1..n - 1
          BY <1>1 DEF Started
        <5> QED
          BY <5>1
      <4>2. lost = {} => Cardinality(lost) = 0
        BY FS_EmptySet
      <4> QED
        BY <1>2, <4>1, <4>2
    <3>2. n - 1 \in Nat \ {0} /\ n - 1 <= n /\ n - 1 # n
      BY <1>2, <2>1, <2>4
    <3>3. b.queue \subseteq 1..(n - 1) - 1
      BY <1>2, <2>1
    <3>4. Board(b)
      BY <1>1, <2>1, <3>1, <3>2, <3>3 DEF Board
    <3>5. board.next = n
      BY <1>3
    <3> QED
      BY <2>1, <2>4, <3>2, <3>4, <3>5 DEF Behind
  <2> QED
    BY <2>2, <2>3, <2>4
<1>6. NumbersAreReadings
  BY <1>1, <1>2, <1>3 DEF Started, NumbersAreReadings
<1>7. captured.count = 0 /\ result = "none"
  BY DEF Init, NoDiagnostics
<1> QED
  BY <1>4, <1>5, <1>6, <1>7, TypeInit
  DEF LossInv, NothingLost, TrueOf, MarksAreNumbers, PassedLostNothing

\* A restart that loads state b, which lacks no reading.
LEMMA RestartLosesNothing ==
  ASSUME TypeOK, NothingLost, NEW b, Behind(backup, b),
         DOMAIN b = {"next", "queue", "dropped", "version"},
         GoesOn(board, stored, b, stored), b.next = board.next,
         Captures(b) \/ Misses, Flush(b, backup), UNCHANGED taken
  PROVE  NothingLost'
<1>1. /\ Board(board) /\ NumbersAreReadings /\ MarksAreNumbers /\ Board(b)
      /\ TrueOf(captured, board, stored)
  BY DEF NothingLost, GoesOn
<1>2. Len(taken') = b.next - 1
  BY <1>1 DEF NumbersAreReadings
<1>3. TrueOf(captured, b, stored)
  BY <1>1, TruthStays
<1>4. TrueOf(captured', b, stored) /\ MarksAreNumbers'
  BY <1>1, <1>2, <1>3, TruthMissed
<1>5. /\ Len(taken) \in Nat /\ \A i \in 1..Len(taken) : taken'[i] = i
      /\ stored \subseteq 1..Len(taken) /\ b.queue \subseteq 1..Len(taken)
  BY <1>1, <1>2 DEF NumbersAreReadings, TypeOK, Board
<1>6. GoesOn(b, stored, board', stored') /\ Behind(backup', board') /\ board'.next = b.next
  BY <1>1, <1>5, FlushGoesOn
<1>7. TrueOf(captured', board', stored') /\ Board(board')
  BY <1>1, <1>4, <1>6, TruthStays DEF GoesOn
<1>8. NumbersAreReadings'
  BY <1>1, <1>6 DEF NumbersAreReadings
<1> QED
  BY <1>4, <1>6, <1>7, <1>8 DEF NothingLost

LEMMA MeasureLosesNothing ==
  ASSUME TypeOK, TypeOK', NothingLost, Measure
  PROVE  NothingLost'
<1> DEFINE b == Enqueued(board)
<1>1. /\ Flush(b, board) /\ (Captures(board') \/ Misses) /\ taken' = Append(taken, board.next)
  BY DEF Measure, Printed
<1>2. /\ GoesOn(board, stored, b, stored) /\ Behind(board, b) /\ b.next = board.next + 1
  BY EnqueueGoesOn
<1>3. DOMAIN b = {"next", "queue", "dropped", "version"}
  BY DEF Enqueued, TypeOK
<1> HIDE DEF b
<1>4. /\ Board(board) /\ NumbersAreReadings /\ MarksAreNumbers /\ Board(b)
      /\ TrueOf(captured, board, stored)
  BY <1>2 DEF NothingLost, GoesOn
<1>5. /\ taken \in Seq(Nat) /\ stored \subseteq 1..Len(taken) /\ Len(taken) = board.next - 1
      /\ \A i \in 1..Len(taken) : taken[i] = i
  BY <1>4 DEF TypeOK, NumbersAreReadings
<1>6. Len(taken') = board.next /\ \A i \in 1..board.next : taken'[i] = i
  <2>1. board.next \in Nat \ {0}
    BY <1>4 DEF Board
  <2> QED
    BY <1>1, <1>5, <2>1
<1>7. stored \subseteq 1..board.next /\ b.queue \subseteq 1..board.next /\ board.next \in Nat
  BY <1>2, <1>4, <1>5 DEF Board
<1>8. GoesOn(b, stored, board', stored') /\ Behind(backup', board') /\ board'.next = b.next
  BY <1>1, <1>2, <1>3, <1>4, <1>6, <1>7, FlushGoesOn
<1>9. TrueOf(captured, b, stored)
  BY <1>2, <1>4, TruthStays
<1>10. TrueOf(captured, board', stored') /\ Board(board')
  BY <1>4, <1>8, <1>9, TruthStays DEF GoesOn
<1>11. Len(taken') = board'.next - 1
  BY <1>2, <1>6, <1>7, <1>8
<1>12. TrueOf(captured', board', stored') /\ MarksAreNumbers'
  BY <1>1, <1>4, <1>10, <1>11, TruthMissed
<1>13. NumbersAreReadings'
  BY <1>6, <1>11 DEF NumbersAreReadings
<1> QED
  BY <1>8, <1>10, <1>12, <1>13 DEF NothingLost

\* The verdict: what the diagnostics say, and what the audit found.
LEMMA VerdictIsRight ==
  ASSUME TypeOK, ~reverted => NothingLost, Verify
  PROVE  PassedLostNothing'
<1>1. UNCHANGED <<evidence, device>>
  BY DEF Verify
<1>2. PICK start, end \in 1..Len(taken) + 1 : \E r \in Reports(start, end) :
        /\ start <= end
        /\ IF Checks(r) THEN result' = "passed" /\ audited' = start..end
                        ELSE result' = "failed" /\ audited' = {}
  BY DEF Verify
<1>3. PICK r \in Reports(start, end) :
        /\ start <= end
        /\ IF Checks(r) THEN result' = "passed" /\ audited' = start..end
                        ELSE result' = "failed" /\ audited' = {}
  BY <1>2
<1> SUFFICES ASSUME Checks(r), ~reverted, NEW i \in DOMAIN taken,
                    i \in since + 1..until \/ taken[i] \in start..end
             PROVE  i \in stored
  BY <1>1, <1>3 DEF PassedLostNothing, evidence, device
<1>4. /\ NumbersAreReadings /\ TrueOf(captured, board, stored) /\ MarksAreNumbers
      /\ taken \in Seq(Nat) /\ stored \subseteq 1..Len(taken)
  BY BoardTypes DEF NothingLost, TypeOK
<1>5. Len(taken) \in Nat /\ i \in 1..Len(taken) /\ taken[i] = i
  BY <1>4 DEF NumbersAreReadings
<1>6. CASE taken[i] \in start..end
  <2>1. Missing(Numbers(stored), start, end) = 0
    BY <1>3 DEF Reports, Checks
  <2>2. start \in Nat \ {0} /\ end \in Nat
    BY <1>5
  <2>3. start..end \subseteq Numbers(stored)
    BY <1>3, <2>1, <2>2, NoneMissing
  <2>4. PICK j \in stored : taken[j] = i
    BY <1>5, <1>6, <2>3 DEF Numbers
  <2> QED
    BY <1>4, <2>4 DEF NumbersAreReadings
<1>7. CASE i \in since + 1..until
  <2>1. captured.count = 2 /\ captured.last.dropped = captured.first.dropped
        /\ captured.last.pending = 0
    BY DEF Checks, QueueDrained
  <2>2. captured.first.next..captured.last.next - 1 \subseteq stored
    BY <1>4, <2>1 DEF TrueOf
  <2>3. since = captured.first.next - 1 /\ until = captured.last.next - 1
        /\ captured.first.next \in Nat /\ captured.last.next \in Nat
    BY <1>4, <2>1 DEF MarksAreNumbers, TrueOf
  <2> QED
    BY <1>7, <2>2, <2>3
<1> QED
  BY <1>6, <1>7

LEMMA LossStep == LossInv /\ [Next]_vars => LossInv'
<1> SUFFICES ASSUME LossInv, [Next]_vars PROVE LossInv'
  OBVIOUS
<1> USE DEF run, evidence, device, verdict
<1>1. TypeOK /\ TypeOK' /\ (~reverted => NothingLost) /\ PassedLostNothing
  BY TypeStep DEF LossInv
<1>2. ASSUME UNCHANGED <<captured, since, until, device, verdict>> PROVE LossInv'
  BY <1>1, <1>2 DEF LossInv, NothingLost, Board, Behind, TrueOf, MarksAreNumbers,
     NumbersAreReadings, PassedLostNothing
<1>3. CASE Tick \/ Signal \/ Prompt \/ Confirm
  BY <1>2, <1>3 DEF Tick, Signal, Prompt, Confirm
<1>4. CASE Finish \/ EndOfInput \/ ConfirmationLost \/ Kill
  BY <1>2, <1>4 DEF Finish, EndOfInput, ConfirmationLost, Finally, Kill
<1>5. CASE Connect \/ Disconnect
  BY <1>2, <1>5 DEF Connect, Disconnect
<1>6. CASE Measure
  <2>1. result' = "none" /\ reverted' = reverted
    BY <1>6 DEF Measure
  <2> QED
    BY <1>1, <1>6, <2>1, MeasureLosesNothing DEF LossInv, PassedLostNothing
<1>7. CASE Restart
  <2>1. /\ result' = "none" /\ reverted' = reverted /\ UNCHANGED taken
        /\ (Captures(board) \/ Misses) /\ Flush(board, backup)
    BY <1>7 DEF Restart, Printed
  <2>2. ASSUME ~reverted PROVE NothingLost'
    <3>1. DOMAIN board = {"next", "queue", "dropped", "version"}
      BY <1>1 DEF TypeOK
    <3>2. Behind(backup, board) /\ GoesOn(board, stored, board, stored)
      BY <1>1, <2>2 DEF NothingLost, GoesOn, Board
    <3> QED
      BY <1>1, <2>1, <2>2, <3>1, <3>2, RestartLosesNothing
  <2> QED
    BY <1>1, <2>1, <2>2 DEF LossInv, PassedLostNothing
<1>8. CASE RestartWithOlderState
  <2> DEFINE l == [backup EXCEPT !.version = board.version]
  <2>1. PICK b \in {l, Default} :
          /\ reverted' = (reverted \/ b.next < board.next)
          /\ Captures(b) \/ Misses
          /\ Flush(b, backup)
    BY <1>8 DEF RestartWithOlderState
  <2>2. result' = "none" /\ UNCHANGED taken
    BY <1>8 DEF RestartWithOlderState
  <2>3. ASSUME ~reverted' PROVE NothingLost'
    <3>1. ~reverted /\ ~(b.next < board.next) /\ NothingLost
      BY <1>1, <2>1, <2>3
    <3>2. Board(board) /\ Behind(backup, board)
      BY <3>1 DEF NothingLost
    <3>3. /\ DOMAIN board = {"next", "queue", "dropped", "version"}
          /\ DOMAIN backup = {"next", "queue", "dropped", "version"}
      BY <1>1 DEF TypeOK
    <3>4. /\ l.next = backup.next /\ l.queue = backup.queue /\ l.dropped = backup.dropped
          /\ DOMAIN l = {"next", "queue", "dropped", "version"}
      BY <3>3
    <3>5. /\ Default.next = 1 /\ Default.queue = {} /\ Default.dropped = 0
          /\ DOMAIN Default = {"next", "queue", "dropped", "version"}
      BY <3>3 DEF Default
    <3> HIDE DEF l
    <3>6. CASE b = l
      <4>1. b.next = board.next
        BY <3>1, <3>2, <3>4, <3>6 DEF Behind, Board
      <4>2. Behind(backup, b) /\ GoesOn(board, stored, b, stored)
        BY <3>2, <3>4, <3>6, <4>1 DEF Behind, GoesOn, Board
      <4> QED
        BY <1>1, <2>1, <2>2, <3>1, <3>4, <3>6, <4>1, <4>2, RestartLosesNothing
    <3>7. CASE b = Default
      <4>1. board.next = 1 /\ b.next = 1
        BY <3>1, <3>2, <3>5, <3>7 DEF Board
      <4>2. board.queue = {} /\ board.dropped = 0 /\ backup.next = 1 /\ backup.queue = {}
            /\ backup.dropped = 0
        BY <3>2, <4>1 DEF Behind, Board
      <4>3. Behind(backup, b) /\ GoesOn(board, stored, b, stored)
        BY <3>2, <3>5, <3>7, <4>1, <4>2 DEF Behind, GoesOn, Board
      <4> QED
        BY <1>1, <2>1, <2>2, <3>1, <3>5, <3>7, <4>1, <4>3, RestartLosesNothing
    <3> QED
      BY <3>6, <3>7
  <2> QED
    BY <1>1, <2>2, <2>3 DEF LossInv, PassedLostNothing
<1>9. ASSUME NEW v \in Versions, Install(v) PROVE LossInv'
  <2>1. /\ board'.next = board.next /\ board'.queue = board.queue
        /\ board'.dropped = board.dropped
        /\ UNCHANGED <<captured, since, until, backup, taken, stored, reverted, verdict>>
    BY <1>1, <1>9 DEF Install, TypeOK
  <2>2. NothingLost => NothingLost'
    BY <2>1 DEF NothingLost, Board, Behind, TrueOf, MarksAreNumbers, NumbersAreReadings
  <2> QED
    BY <1>1, <2>1, <2>2 DEF LossInv, PassedLostNothing
<1>10. CASE Verify
  <2>1. UNCHANGED <<evidence, device>>
    BY <1>10 DEF Verify
  <2>2. PassedLostNothing'
    BY <1>1, <1>10, VerdictIsRight
  <2>3. NothingLost => NothingLost'
    BY <2>1 DEF NothingLost, Board, Behind, TrueOf, MarksAreNumbers, NumbersAreReadings
  <2> QED
    BY <1>1, <2>1, <2>2, <2>3 DEF LossInv
<1>11. CASE UNCHANGED vars
  BY <1>2, <1>11 DEF vars
<1> QED
  BY <1>3, <1>4, <1>5, <1>6, <1>7, <1>8, <1>9, <1>10, <1>11 DEF Next

\* A soak that passes lost no reading that the board took between the first and the
\* last diagnostic captured, and none whose number the audit covers, whatever the
\* line, the power and the network did, and also if restarts loaded older states, as
\* long as none of these lacked a reading: the counter and the queue length in two
\* diagnostics are enough.
THEOREM SoakThatPassesLostNothing == Spec => []PassedLostNothing
<1>1. LossInv => PassedLostNothing
  BY DEF LossInv
<1> QED
  BY <1>1, LossInit, LossStep, PTL DEF Spec

-----------------------------------------------------------------------------
(***************************************************************************)
(* The scheduler.  The manifest says "completed" only of a run that nobody *)
(* has stopped and that took its time; it counts the checkpoints, and the  *)
(* log holds as many only if it holds them all.                            *)
(***************************************************************************)
Going == {"waiting", "prompt"}

\* A confirmation is written at its time or later, and a prompt is not early.
LogIsTrue ==
  /\ Confirmed \subseteq Due
  /\ \A i \in Confirmed : log[i] \in Nat /\ Checkpoints[i] <= log[i]
  /\ pc = "prompt" => \E i \in Due : Awaited(i) /\ Checkpoints[i] <= clock

\* The manifest is written at the end; a stop that was asked for is remembered.
ManifestIsTrue ==
  /\ pc \in Going /\ signalled => stop
  /\ pc \in Going \cup {"killed"} => manifest.status = "running"
  /\ pc \in Going => result = "none"
  /\ manifest.status = "completed" =>
       ~signalled /\ endedAt >= Duration /\ manifest.expected = Cardinality(Due)

SupervisedInv == TypeOK /\ LogIsTrue /\ ManifestIsTrue /\ PassedWasSupervised

LEMMA SupervisedInit == Init => SupervisedInv
<1> SUFFICES ASSUME Init PROVE SupervisedInv
  OBVIOUS
<1>1. TypeOK
  BY TypeInit
<1>2. LogIsTrue
  BY DEF Init, LogIsTrue, Confirmed
<1>3. manifest.status = "running" /\ result = "none" /\ ~signalled
  BY DEF Init
<1> QED
  BY <1>1, <1>2, <1>3 DEF SupervisedInv, ManifestIsTrue, PassedWasSupervised

\* As many confirmations as checkpoints: all of them.
LEMMA AllConfirmed ==
  ASSUME Confirmed \subseteq Due, Cardinality(Confirmed) = Cardinality(Due)
  PROVE  Confirmed = Due
BY DueFinite, FS_Subset

LEMMA SupervisedStep == SupervisedInv /\ [Next]_vars => SupervisedInv'
<1> SUFFICES ASSUME SupervisedInv, [Next]_vars PROVE SupervisedInv'
  OBVIOUS
<1> USE DEF run, evidence, device, verdict
<1>1. TypeOK /\ LogIsTrue /\ ManifestIsTrue /\ PassedWasSupervised
  BY DEF SupervisedInv
<1>2. TypeOK'
  BY <1>1, TypeStep
<1>3. /\ pc \in {"waiting", "prompt", "ended", "killed"} /\ clock \in Nat
      /\ manifest \in [status : Statuses, elapsed : Nat, expected : Nat, start : Nat]
  BY <1>1, SoakAssumption DEF TypeOK
<1>4. SUFFICES LogIsTrue' /\ ManifestIsTrue' /\ PassedWasSupervised'
  BY <1>2 DEF SupervisedInv
<1>5. \A i \in Due : Checkpoints[i] \in Nat
  BY SoakAssumption DEF Due
<1>6. ASSUME UNCHANGED <<run, result>> PROVE LogIsTrue' /\ ManifestIsTrue' /\ PassedWasSupervised'
  BY <1>1, <1>6 DEF LogIsTrue, ManifestIsTrue, PassedWasSupervised, Confirmed, Awaited, Due, Going
<1>8. CASE Tick
  <2>1. /\ UNCHANGED <<pc, stop, log, manifest, signalled, endedAt, result>>
        /\ clock' = clock + 1
    BY <1>8 DEF Tick
  <2>2. LogIsTrue'
    <3>1. \A i \in Due : Checkpoints[i] <= clock => Checkpoints[i] <= clock + 1
      BY <1>3, <1>5
    <3> QED
      BY <1>1, <2>1, <3>1 DEF LogIsTrue, Confirmed, Awaited, Due
  <2> QED
    BY <1>1, <2>1, <2>2 DEF ManifestIsTrue, PassedWasSupervised, Confirmed, Due, Going
<1>9. CASE Signal
  <2>1. /\ UNCHANGED <<pc, clock, log, manifest, endedAt, result>>
        /\ stop' /\ pc \in Going
    BY <1>9 DEF Signal, Going
  <2>2. LogIsTrue'
    BY <1>1, <2>1 DEF LogIsTrue, Confirmed, Awaited, Due
  <2> QED
    BY <1>1, <2>1, <2>2 DEF ManifestIsTrue, PassedWasSupervised, Going
<1>10. CASE Prompt
  <2>1. /\ UNCHANGED <<clock, stop, log, manifest, signalled, endedAt, result>>
        /\ pc \in Going /\ pc' = "prompt"
    BY <1>10 DEF Prompt, Going
  <2>2. PICK i \in Due : Awaited(i) /\ clock >= Checkpoints[i]
    BY <1>10 DEF Prompt
  <2>3. Checkpoints[i] <= clock
    BY <1>3, <1>5, <2>2
  <2>4. LogIsTrue'
    BY <1>1, <2>1, <2>2, <2>3 DEF LogIsTrue, Confirmed, Awaited, Due
  <2> QED
    BY <1>1, <2>1, <2>4 DEF ManifestIsTrue, PassedWasSupervised, Going
<1>11. CASE Confirm
  <2>1. /\ UNCHANGED <<clock, stop, manifest, signalled, endedAt, result>>
        /\ pc = "prompt" /\ pc' = "waiting"
    BY <1>11 DEF Confirm
  <2>2. PICK i \in Due :
          Awaited(i) /\ log' = [j \in Confirmed \cup {i} |-> IF j = i THEN clock ELSE log[j]]
    BY <1>11 DEF Confirm
  <2>3. Checkpoints[i] <= clock
    <3>1. PICK j \in Due : Awaited(j) /\ Checkpoints[j] <= clock
      BY <1>1, <2>1 DEF LogIsTrue
    <3>2. i \in Nat /\ j \in Nat
      BY SoakAssumption DEF Due
    <3>3. i <= j /\ j <= i
      BY <2>2, <3>1 DEF Awaited
    <3>4. i = j
      BY <3>2, <3>3
    <3> QED
      BY <3>1, <3>4
  <2>4. Confirmed' = Confirmed \cup {i}
    BY <2>2 DEF Confirmed
  <2>5. \A j \in Confirmed' : log'[j] = IF j = i THEN clock ELSE log[j]
    BY <2>2, <2>4
  <2>6. LogIsTrue'
    BY <1>1, <1>3, <2>1, <2>3, <2>4, <2>5 DEF LogIsTrue, Due
  <2> QED
    BY <1>1, <2>1, <2>6 DEF ManifestIsTrue, PassedWasSupervised, Going
<1>12. ASSUME NEW s \in BOOLEAN, Finally(s), pc \in Going,
              ~s => ~stop /\ signalled' = signalled
       PROVE  LogIsTrue' /\ ManifestIsTrue' /\ PassedWasSupervised'
  <2> DEFINE t == IF Completed(s) THEN "completed" ELSE "interrupted"  n == Cardinality(Due)
  <2>1. /\ manifest' = [manifest EXCEPT !.status = t, !.elapsed = clock, !.expected = n]
        /\ endedAt' = clock /\ pc' = "ended" /\ UNCHANGED <<clock, log, result>>
    BY <1>12 DEF Finally
  <2>2. t = "completed" => ~s /\ clock >= Duration
    BY DEF Completed
  <2>3. manifest'.status = t /\ manifest'.expected = n
    BY <1>3, <2>1
  <2>4. ~s => ~signalled'
    BY <1>1, <1>12 DEF ManifestIsTrue
  <2>5. result' = "none"
    BY <1>1, <1>12, <2>1 DEF ManifestIsTrue
  <2>6. LogIsTrue'
    BY <1>1, <2>1 DEF LogIsTrue, Confirmed, Due
  <2> QED
    BY <2>1, <2>2, <2>3, <2>4, <2>5, <2>6 DEF ManifestIsTrue, PassedWasSupervised, Going, Due
<1>13. CASE Finish
  <2>1. Finally(stop) /\ pc \in Going /\ signalled' = signalled /\ stop \in BOOLEAN
    BY <1>1, <1>13 DEF Finish, Going, TypeOK
  <2> QED
    BY <1>12, <2>1
<1>14. CASE EndOfInput
  BY <1>12, <1>14 DEF EndOfInput, Going
<1>15. CASE ConfirmationLost
  <2>1. Finally(stop) /\ pc \in Going /\ signalled' = signalled /\ stop \in BOOLEAN
    BY <1>1, <1>15 DEF ConfirmationLost, Going, TypeOK
  <2> QED
    BY <1>12, <2>1
<1>16. CASE Kill
  <2>1. /\ UNCHANGED <<clock, stop, log, manifest, signalled, result>>
        /\ pc \in Going /\ pc' = "killed"
    BY <1>16 DEF Kill, Going
  <2>2. LogIsTrue'
    BY <1>1, <2>1 DEF LogIsTrue, Confirmed, Due
  <2> QED
    BY <1>1, <2>1, <2>2 DEF ManifestIsTrue, PassedWasSupervised, Going
<1>17. CASE Connect \/ Disconnect
  BY <1>6, <1>17 DEF Connect, Disconnect
<1>18. CASE Measure \/ Restart \/ RestartWithOlderState
  BY <1>6, <1>18 DEF Measure, Restart, RestartWithOlderState
<1>19. ASSUME NEW v \in Versions, Install(v)
       PROVE LogIsTrue' /\ ManifestIsTrue' /\ PassedWasSupervised'
  BY <1>6, <1>19 DEF Install
<1>20. CASE Verify
  <2>1. UNCHANGED <<pc, clock, stop, log, manifest, signalled, endedAt>> /\ pc \notin Going
    BY <1>20 DEF Verify, Going
  <2>2. LogIsTrue' /\ ManifestIsTrue'
    BY <1>1, <2>1 DEF LogIsTrue, ManifestIsTrue, Confirmed, Awaited, Due, Going
  <2>3. ASSUME result' = "passed"
        PROVE  manifest.status = "completed" /\ Cardinality(Confirmed) = manifest.expected
    BY <1>20, <2>3 DEF Verify, Checks
  <2>4. ASSUME result' = "passed" PROVE Confirmed = Due
    BY <1>1, <2>3, <2>4, AllConfirmed DEF LogIsTrue, ManifestIsTrue
  <2>5. PassedWasSupervised'
    BY <1>1, <2>1, <2>3, <2>4 DEF PassedWasSupervised, LogIsTrue, ManifestIsTrue, Confirmed, Due
  <2> QED
    BY <2>2, <2>5
<1>21. CASE UNCHANGED vars
  BY <1>6, <1>21 DEF vars
<1> QED
  BY <1>8, <1>9, <1>10, <1>11, <1>13, <1>14, <1>15, <1>16, <1>17, <1>18, <1>19, <1>20, <1>21 DEF Next

\* A soak that passes was supervised to its end: nobody stopped it, it took its
\* full time, and every checkpoint that was due was confirmed, none before its
\* time.  The verifier only compares a number of lines with a number of the
\* manifest, and takes the manifest's word for the rest.
THEOREM SoakThatPassesWasSupervised == Spec => []PassedWasSupervised
<1>1. SupervisedInv => PassedWasSupervised
  BY DEF SupervisedInv
<1> QED
  BY <1>1, SupervisedInit, SupervisedStep, PTL DEF Spec

-----------------------------------------------------------------------------
(***************************************************************************)
(* The audit.  _missing_ranges has seen every number below n when it comes *)
(* to n: `expected` is the number after the greatest of them.              *)
(***************************************************************************)
LEMMA ExpectedIsNext ==
  ASSUME NEW start \in Nat, NEW end \in Nat, NEW R \in SUBSET (start..end),
         NEW n \in start..end + 1
  PROVE  /\ Expected(R, start, n) \in start..n
         /\ \A x \in Expected(R, start, n)..n - 1 : x \notin R
         /\ Expected(R, start, n) # start => Expected(R, start, n) - 1 \in R
<1> DEFINE Before == {m \in R : m < n}
<1>1. CASE Before = {}
  <2>1. Expected(R, start, n) = start
    BY <1>1 DEF Expected
  <2>2. \A x \in start..n - 1 : x \notin R
    BY <1>1
  <2> QED
    BY <2>1, <2>2
<1>2. CASE Before # {}
  <2>1. Before \in SUBSET Nat /\ \A m \in Before : m <= end
    <3>1. \A m \in R : m \in Nat /\ m <= end
      OBVIOUS
    <3> QED
      BY <3>1
  <2>2. \E m \in Before : \A k \in Before : k <= m
    <3> HIDE DEF Before
    <3> QED
      BY <1>2, <2>1, Greatest
  <2> DEFINE g == CHOOSE m \in R : m < n /\ \A k \in R : k < n => k <= m
  <2>3. g \in R /\ g < n /\ \A k \in R : k < n => k <= g
    BY <2>2
  <2>4. Expected(R, start, n) = 1 + g
    BY <1>2 DEF Expected
  <2> HIDE DEF g
  <2>5. g \in start..end
    BY <2>3
  <2>6. \A x \in (1 + g)..n - 1 : x \notin R
    BY <2>3, <2>5
  <2> QED
    BY <2>3, <2>4, <2>5, <2>6
<1> QED
  BY <1>1, <1>2

\* The ranges are the gaps: no number in one was received, and every number that
\* was not is in one, that before the next number received or the end.
LEMMA RangesAreGaps ==
  ASSUME NEW start \in Nat, NEW end \in Nat, start <= end, NEW R \in SUBSET (start..end)
  PROVE  /\ UNION {r[1]..r[2] : r \in MissingRanges(R, start, end)} = (start..end) \ R
         /\ \A r \in MissingRanges(R, start, end) : r[1] \in Nat /\ r[2] \in Nat /\ r[1] <= r[2]
<1> DEFINE E(n) == Expected(R, start, n)
           Stops == R \cup {end + 1}
<1>0. \A n \in Stops : n \in start..end + 1 /\ n \in Nat
  OBVIOUS
<1>1. ASSUME NEW r \in MissingRanges(R, start, end)
      PROVE  /\ r[1] \in Nat /\ r[2] \in Nat /\ r[1] <= r[2]
             /\ r[1]..r[2] \subseteq (start..end) \ R
  <2>1. PICK n \in Stops : E(n) < n /\ r = <<E(n), n - 1>>
    BY DEF MissingRanges
  <2>2. E(n) \in start..n /\ \A x \in E(n)..n - 1 : x \notin R
    BY <1>0, ExpectedIsNext
  <2>3. r[1] = E(n) /\ r[2] = n - 1
    BY <2>1
  <2> HIDE DEF E
  <2> QED
    BY <1>0, <2>1, <2>2, <2>3
<1>2. ASSUME NEW x \in (start..end) \ R
      PROVE  \E r \in MissingRanges(R, start, end) : x \in r[1]..r[2]
  <2> DEFINE After == {n \in Stops : x < n}
  <2>1. After \in SUBSET Nat /\ After # {}
    <3>1. end + 1 \in After
      OBVIOUS
    <3> QED
      BY <1>0, <3>1
  <2>2. PICK n \in After : \A k \in After : n <= k
    <3> HIDE DEF After
    <3> QED
      BY <2>1, Least
  <2>3. E(n) \in start..n /\ (E(n) # start => E(n) - 1 \in R)
    BY <1>0, <2>2, ExpectedIsNext
  <2> HIDE DEF E
  <2>4. n \in Nat /\ E(n) \in Nat /\ x \in Nat /\ x < n
    BY <1>0, <2>2, <2>3
  <2>5. E(n) <= x
    <3> SUFFICES ASSUME E(n) > x PROVE FALSE
      BY <2>4
    <3>1. E(n) # start
      BY <2>4
    <3>2. E(n) - 1 \in R /\ x # E(n) - 1
      BY <2>3, <3>1
    <3>3. E(n) - 1 \in After
      BY <2>4, <3>2
    <3>4. n <= E(n) - 1
      BY <2>2, <3>3
    <3> QED
      BY <2>3, <2>4, <3>4
  <2>6. <<E(n), n - 1>> \in MissingRanges(R, start, end)
    BY <2>2, <2>4, <2>5 DEF MissingRanges, E
  <2>7. x \in E(n)..n - 1
    BY <2>4, <2>5
  <2> QED
    BY <2>6, <2>7
<1> HIDE DEF E, Stops
<1>3. UNION {r[1]..r[2] : r \in MissingRanges(R, start, end)} \subseteq (start..end) \ R
  BY <1>1
<1>4. (start..end) \ R \subseteq UNION {r[1]..r[2] : r \in MissingRanges(R, start, end)}
  BY <1>2
<1> QED
  BY <1>1, <1>3, <1>4

\* Whatever is stored, an audit of any interval lists exactly the numbers that
\* are missing, counts them, and is complete if there are none.
THEOREM AuditNamesWhatIsMissing == Spec => []AuditIsExact
<1>1. ASSUME TypeOK PROVE AuditIsExact
  <2> SUFFICES ASSUME NEW start \in 1..Len(taken) + 1, NEW end \in 1..Len(taken) + 1, start <= end
               PROVE  LET lost == (start..end) \ Numbers(stored)
                          ranges == MissingRanges(Received(Numbers(stored), start, end), start, end) IN
                      /\ UNION {r[1]..r[2] : r \in ranges} = lost
                      /\ \A r \in ranges : r[1] <= r[2]
                      /\ Missing(Numbers(stored), start, end) = Cardinality(lost)
                      /\ Complete(Numbers(stored), start, end) <=> lost = {}
    BY DEF AuditIsExact
  <2> DEFINE R == Numbers(stored) \cap (start..end)
             lost == (start..end) \ Numbers(stored)
             ranges == MissingRanges(R, start, end)
  <2>1. start \in Nat /\ end \in Nat
    BY <1>1 DEF TypeOK
  <2>2. lost = (start..end) \ R /\ R \in SUBSET (start..end)
    OBVIOUS
  <2>3. /\ UNION {r[1]..r[2] : r \in ranges} = lost
        /\ \A r \in ranges : r[1] \in Nat /\ r[2] \in Nat /\ r[1] <= r[2]
    <3> HIDE DEF R, lost
    <3> QED
      BY <2>1, <2>2, RangesAreGaps
  <2>4. ranges = {} <=> lost = {}
    <3>1. \A r \in ranges : r[1] \in r[1]..r[2]
      BY <2>3
    <3> HIDE DEF ranges, lost
    <3> QED
      BY <2>3, <3>1
  <2>5. end - start + 1 - Cardinality(R) = Cardinality(lost)
    <3>1. IsFiniteSet(start..end) /\ Cardinality(start..end) = end - start + 1
      BY <2>1, FS_Interval
    <3>2. IsFiniteSet(R) /\ Cardinality(R) \in Nat
      BY <3>1, FS_Subset, FS_CardinalityType
    <3>3. (start..end) \cap R = R
      OBVIOUS
    <3>4. Cardinality((start..end) \ R) = Cardinality(start..end) - Cardinality((start..end) \cap R)
      BY <3>1, FS_Difference
    <3>5. Cardinality(lost) = Cardinality(start..end) - Cardinality(R)
      BY <2>2, <3>3, <3>4
    <3> DEFINE c == Cardinality(R)  l == Cardinality(lost)  i == Cardinality(start..end)
    <3>6. i = end - start + 1 /\ l = i - c /\ c \in Nat
      BY <3>1, <3>2, <3>5
    <3> HIDE DEF R, lost, c, l, i
    <3>7. end - start + 1 - c = l
      BY <2>1, <3>6
    <3> QED
      BY <3>7 DEF c, l
  <2>6. Received(Numbers(stored), start, end) = R
    BY DEF Received
  <2> HIDE DEF R, lost, ranges
  <2>7. Missing(Numbers(stored), start, end) = Cardinality(lost)
    BY <2>5, <2>6 DEF Missing
  <2>8. Complete(Numbers(stored), start, end) <=> lost = {}
    BY <2>4, <2>6 DEF Complete, ranges
  <2> QED
    BY <2>3, <2>6, <2>7, <2>8 DEF ranges, lost
<1> QED
  BY <1>1, TypeCorrect, PTL
=============================================================================
