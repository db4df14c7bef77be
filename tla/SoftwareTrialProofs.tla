-------------------------- MODULE SoftwareTrialProofs --------------------------
(***************************************************************************)
(* Theorems about SoftwareTrial, for any plans, batch size, events of      *)
(* other devices, and any number of disturbances.                          *)
(***************************************************************************)
EXTENDS SoftwareTrial, FiniteSetTheorems, TLAPS

\* As much of TypeOK as the arithmetic of the deque needs.
Numbered ==
  /\ args \in Plans /\ todo \in [Kinds -> Nat] /\ current \in Kinds \cup {"none"}
  /\ steady \in Nat /\ left \in Nat /\ held \in Nat

\* The batches that are left cover what the operations still to begin will take,
\* and the steady batches before an operation come out of the others.
Reserve ==
  /\ pc \in Body => left >= Reserved
  /\ pc = "steady" => steady <= left - Reserved
  /\ pc \in Kinds \cup {"steady"} => current \in Kinds /\ todo[current] > 0
  /\ pc \in Kinds => current = pc
  /\ pc = "rest" => Operations = 0

ReserveInv == Numbered /\ Reserve

-----------------------------------------------------------------------------
LEMMA DivisionBound ==
  ASSUME NEW a \in Nat, NEW b \in Nat \ {0}
  PROVE  a \div b \in Nat /\ a \div b <= a
<1> DEFINE q == a \div b
<1>1. q \in Int /\ b * q <= a /\ a < b * (q + 1)
  BY SMT
<1> HIDE DEF q
<1>2. q >= 0
  BY <1>1, SMT
<1>3. q <= b * q
  BY <1>1, <1>2, SMT
<1> QED
  BY <1>1, <1>2, <1>3 DEF q

LEMMA OneLess ==
  ASSUME NEW a \in Nat, NEW b \in Nat, NEW c \in Nat
  PROVE  /\ (a + b) * c \in Nat
         /\ a > 0 => (a - 1 + b) * c = (a + b) * c - c /\ (a + b) * c >= c
         /\ a = 0 /\ b = 0 => (a + b) * c = 0
<1>1. a * c \in Nat /\ b * c \in Nat
  BY SMT
<1>2. (a + b) * c = a * c + b * c /\ (a - 1 + b) * c = a * c - c + b * c
  BY SMT
<1>3. a > 0 => a * c >= c
  BY SMT
<1>4. a = 0 /\ b = 0 => (a + b) * c = 0
  BY SMT
<1> QED
  BY <1>1, <1>2, <1>3, <1>4

\* How many batches an operation takes from the deque.
Need(k) == IF k = "acknowledgement_replay" THEN 1 ELSE args.buffer

LEMMA ReservedIsNat ==
  ASSUME Numbered
  PROVE  /\ Reserved \in Nat /\ Operations \in Nat
         /\ Operations = 0 => Reserved = 0
         /\ args.buffer \in Nat \ {0}
         /\ \A k \in Kinds : todo[k] > 0 => Reserved >= Need(k)
<1> DEFINE a == todo["api_outage"]  w == todo["worker_outage"]
           r == todo["acknowledgement_replay"]
<1>1. a \in Nat /\ w \in Nat /\ r \in Nat /\ args.buffer \in Nat \ {0}
  BY TrialAssumption DEF Numbered, Kinds
<1>2. Reserved = (a + w) * args.buffer + r /\ Operations = a + w + r
  BY DEF Reserved, Operations
<1> HIDE DEF a, w, r
<1>3. /\ (a + w) * args.buffer \in Nat
      /\ a > 0 => (a + w) * args.buffer >= args.buffer
      /\ a = 0 /\ w = 0 => (a + w) * args.buffer = 0
  BY <1>1, OneLess
<1>4. w > 0 => (a + w) * args.buffer >= args.buffer
  <2>1. w > 0 => (w + a) * args.buffer >= args.buffer
    BY <1>1, OneLess
  <2>2. w + a = a + w
    BY <1>1
  <2> QED
    BY <2>1, <2>2
<1>5. ASSUME NEW k \in Kinds, todo[k] > 0 PROVE Reserved >= Need(k)
  BY <1>1, <1>2, <1>3, <1>4, <1>5 DEF Kinds, Need, a, w, r
<1> QED
  BY <1>1, <1>2, <1>3, <1>5

\* An operation that begins gives up what was reserved for it.
LEMMA ReservedDecreases ==
  ASSUME Numbered, NEW k \in Kinds, todo[k] > 0,
         args' = args, todo' = [todo EXCEPT ![k] = @ - 1]
  PROVE  Reserved' = Reserved - Need(k) /\ todo' \in [Kinds -> Nat]
<1> DEFINE a == todo["api_outage"]  w == todo["worker_outage"]
           r == todo["acknowledgement_replay"]  b == args.buffer
<1>1. a \in Nat /\ w \in Nat /\ r \in Nat /\ b \in Nat
  BY TrialAssumption DEF Numbered, Kinds
<1>2. Reserved = (a + w) * b + r
  BY DEF Reserved
<1>3. todo' \in [Kinds -> Nat]
  BY DEF Numbered
<1>4. CASE k = "api_outage"
  <2>1. Reserved' = (a - 1 + w) * b + r /\ Need(k) = b /\ a > 0
    BY <1>4 DEF Reserved, Need, Numbered, Kinds
  <2> HIDE DEF a, w, r, b
  <2>2. (a - 1 + w) * b = (a + w) * b - b /\ (a + w) * b \in Nat
    BY <1>1, <2>1, OneLess
  <2> QED
    BY <1>1, <1>2, <1>3, <2>1, <2>2
<1>5. CASE k = "worker_outage"
  <2>1. Reserved' = (a + (w - 1)) * b + r /\ Need(k) = b /\ w > 0
    BY <1>5 DEF Reserved, Need, Numbered, Kinds
  <2> HIDE DEF a, w, r, b
  <2>2. (w - 1 + a) * b = (w + a) * b - b /\ (w + a) * b \in Nat
    BY <1>1, <2>1, OneLess
  <2>3. w - 1 + a = a + (w - 1) /\ w + a = a + w
    BY <1>1
  <2>4. (a + (w - 1)) * b = (a + w) * b - b /\ (a + w) * b \in Nat
    BY <2>2, <2>3
  <2> QED
    BY <1>1, <1>2, <1>3, <2>1, <2>4
<1>6. CASE k = "acknowledgement_replay"
  <2>1. Reserved' = (a + w) * b + (r - 1) /\ Need(k) = 1
    BY <1>6 DEF Reserved, Need, Numbered, Kinds
  <2>2. (a + w) * b \in Nat
    BY <1>1, OneLess
  <2> HIDE DEF a, w, r, b
  <2> QED
    BY <1>1, <1>2, <1>3, <2>1, <2>2
<1> QED
  BY <1>4, <1>5, <1>6 DEF Kinds

-----------------------------------------------------------------------------
LEMMA ReserveInit == Init => ReserveInv
<1> SUFFICES ASSUME Init PROVE ReserveInv
  OBVIOUS
<1>1. args \in Plans /\ args.readings \in Nat \ {0} /\ BatchSize \in Nat \ {0}
  BY TrialAssumption DEF Init
<1>2. BatchCount \in Nat
  <2>1. args.readings + BatchSize - 1 \in Nat
    BY <1>1
  <2> QED
    BY <1>1, <2>1, DivisionBound DEF BatchCount
<1>3. Numbered
  BY <1>1, <1>2, TrialAssumption DEF Init, Numbered
<1>4. Reserve
  BY DEF Init, Reserve, Body, Sending, Kinds
<1> QED
  BY <1>3, <1>4 DEF ReserveInv

\* A step that leaves the deque alone, and does not begin or enter an operation.
LEMMA ReserveStays ==
  ASSUME ReserveInv, UNCHANGED <<args, todo, left, held, steady, current>>,
         pc' \in Body => pc \in Body,
         pc' # pc => pc' \notin Kinds \cup {"steady", "rest"}
  PROVE  ReserveInv'
<1>1. Numbered'
  BY DEF ReserveInv, Numbered
<1>2. Reserved' = Reserved /\ Operations' = Operations
  BY DEF Reserved, Operations
<1>3. CASE pc' = pc
  BY <1>1, <1>2, <1>3 DEF ReserveInv, Reserve, Body, Sending, Kinds
<1>4. CASE pc' # pc
  BY <1>1, <1>2, <1>4 DEF ReserveInv, Reserve, Body, Sending, Kinds
<1> QED
  BY <1>3, <1>4

\* A step that begins an operation and takes its batches.
LEMMA ReserveBegins ==
  ASSUME ReserveInv, pc \in Kinds, NEW n \in Nat, held' = n,
         todo' = [todo EXCEPT ![current] = @ - 1], left' = left - Need(current),
         UNCHANGED <<args, current, steady>>,
         pc' \in Body \ (Kinds \cup {"steady", "rest"})
  PROVE  ReserveInv'
<1>1. Numbered /\ current \in Kinds /\ todo[current] > 0 /\ left >= Reserved
  BY DEF ReserveInv, Reserve, Kinds, Body, Sending
<1>2. Reserved \in Nat /\ Reserved >= Need(current) /\ Need(current) \in Nat
  BY <1>1, ReservedIsNat DEF Need
<1>3. Reserved' = Reserved - Need(current) /\ todo' \in [Kinds -> Nat]
  BY <1>1, ReservedDecreases
<1>4. left' \in Nat /\ left' >= Reserved'
  BY <1>1, <1>2, <1>3 DEF Numbered
<1>5. Numbered'
  BY <1>1, <1>3, <1>4 DEF Numbered
<1>6. Reserve'
  BY <1>4 DEF Reserve
<1> QED
  BY <1>5, <1>6 DEF ReserveInv

LEMMA ReserveNextOperation == ReserveInv /\ NextOperation => ReserveInv'
<1> SUFFICES ASSUME ReserveInv, NextOperation PROVE ReserveInv'
  OBVIOUS
<1>1. Numbered /\ left \in Nat /\ left >= Reserved
  BY DEF ReserveInv, Reserve, Numbered, NextOperation, Body
<1>2. Reserved \in Nat /\ Operations \in Nat
  BY <1>1, ReservedIsNat
<1>3. UNCHANGED <<args, todo, left, held>>
  BY DEF NextOperation
<1>4. Reserved' = Reserved /\ Operations' = Operations
  BY <1>3 DEF Reserved, Operations
<1>5. CASE Operations > 0
  <2>1. pc' = "steady" /\ current' = NextKind /\ steady' = SteadyCount
    BY <1>5 DEF NextOperation
  <2>2. NextKind \in Kinds /\ todo[NextKind] > 0
    BY <1>1, <1>5 DEF NextKind, Turn, Operations, Numbered, Kinds
  <2>3. SteadyCount \in Nat /\ SteadyCount <= left - Reserved
    <3>1. CASE left > Reserved
      <4>1. left - Reserved \in Nat /\ Operations + 1 \in Nat \ {0}
        BY <1>1, <1>2, <3>1
      <4> QED
        BY <3>1, <4>1, DivisionBound DEF SteadyCount
    <3>2. CASE ~(left > Reserved)
      BY <1>1, <1>2, <3>2 DEF SteadyCount
    <3> QED
      BY <3>1, <3>2
  <2>4. Numbered'
    BY <1>1, <1>3, <2>1, <2>2, <2>3 DEF Numbered
  <2>5. Reserve'
    BY <1>1, <1>3, <1>4, <2>1, <2>2, <2>3 DEF Reserve, Kinds
  <2> QED
    BY <2>4, <2>5 DEF ReserveInv
<1>6. CASE ~(Operations > 0)
  <2>1. pc' = "rest" /\ current' = "none" /\ steady' = left /\ Operations = 0
    BY <1>2, <1>6 DEF NextOperation
  <2>2. Numbered'
    BY <1>1, <1>3, <2>1 DEF Numbered
  <2>3. Reserve'
    BY <1>1, <1>3, <1>4, <2>1 DEF Reserve, Kinds
  <2> QED
    BY <2>2, <2>3 DEF ReserveInv
<1> QED
  BY <1>5, <1>6

LEMMA ReserveSteadyOver == ReserveInv /\ SteadyOver => ReserveInv'
<1> SUFFICES ASSUME ReserveInv, SteadyOver PROVE ReserveInv'
  OBVIOUS
<1>1. UNCHANGED <<args, todo, left, held, steady, current>>
  BY DEF SteadyOver, plan
<1>2. CASE pc = "rest"
  BY <1>1, <1>2, ReserveStays DEF SteadyOver, Body, Sending, Kinds
<1>3. CASE pc = "steady"
  <2>1. pc' = current /\ current \in Kinds /\ todo[current] > 0 /\ left >= Reserved
    BY <1>3 DEF SteadyOver, ReserveInv, Reserve, Body, Sending
  <2>2. Reserved' = Reserved
    BY <1>1 DEF Reserved
  <2>3. Numbered'
    BY <1>1 DEF ReserveInv, Numbered
  <2>4. Reserve'
    BY <1>1, <2>1, <2>2 DEF Reserve, Kinds
  <2> QED
    BY <2>3, <2>4 DEF ReserveInv
<1> QED
  BY <1>2, <1>3 DEF SteadyOver

LEMMA ReserveSendSteady ==
  ASSUME NEW step \in {"steady", "rest"}
  PROVE  ReserveInv /\ SendSteady(step) => ReserveInv'
<1> SUFFICES ASSUME ReserveInv, SendSteady(step) PROVE ReserveInv'
  OBVIOUS
<1>1. /\ pc = step /\ pc' = pc /\ steady > 0 /\ left > 0
      /\ steady' = steady - 1 /\ left' = left - 1
      /\ UNCHANGED <<args, current, todo, held>>
  BY DEF SendSteady, Send, ToSend
<1>2. Numbered /\ Reserved \in Nat /\ (Operations = 0 => Reserved = 0)
  BY ReservedIsNat DEF ReserveInv
<1>3. Reserved' = Reserved /\ Operations' = Operations
  BY <1>1 DEF Reserved, Operations
<1>4. Numbered'
  BY <1>1, <1>2 DEF Numbered
<1>5. Reserve'
  <2>1. left >= Reserved /\ left \in Nat /\ steady \in Nat
    BY <1>1, <1>2 DEF ReserveInv, Reserve, Body, Sending, Numbered
  <2>2. CASE pc = "steady"
    BY <1>1, <1>2, <1>3, <2>1, <2>2 DEF ReserveInv, Reserve, Kinds
  <2>3. CASE pc = "rest"
    BY <1>1, <1>2, <1>3, <2>1, <2>3 DEF ReserveInv, Reserve, Kinds
  <2> QED
    BY <1>1, <2>2, <2>3
<1> QED
  BY <1>4, <1>5 DEF ReserveInv

LEMMA ReserveStep == ReserveInv /\ [Next]_vars => ReserveInv'
<1> SUFFICES ASSUME ReserveInv, [Next]_vars PROVE ReserveInv'
  OBVIOUS
<1> USE DEF plan, tally, process, database, Abort
<1>1. CASE Check
  <2>1. CASE left >= Reserved
    <3>1. UNCHANGED <<args, todo, left, held, steady, current>> /\ pc' = "startApi"
      BY <1>1, <2>1 DEF Check
    <3>2. Numbered' /\ Reserved' = Reserved
      BY <3>1 DEF ReserveInv, Numbered, Reserved
    <3> QED
      BY <2>1, <3>1, <3>2 DEF ReserveInv, Reserve, Kinds
  <2>2. CASE ~(left >= Reserved)
    BY <1>1, <2>2, ReserveStays DEF Check, Body, Sending, Kinds
  <2> QED
    BY <2>1, <2>2
<1>2. CASE StartApi \/ AwaitApi
  BY <1>2, ReserveStays DEF StartApi, AwaitApi, Body, Sending, Kinds
<1>3. CASE NextOperation \/ SteadyOver
  BY <1>3, ReserveNextOperation, ReserveSteadyOver
<1>4. CASE SendSteady("steady") \/ SendSteady("rest")
  BY <1>4, ReserveSendSteady
<1>5. CASE SendHeld
  <2>1. /\ UNCHANGED <<args, todo, left, steady, current, pc>>
        /\ held' \in Nat
    BY <1>5 DEF SendHeld, Send, ToSend, ReserveInv, Numbered
  <2>2. Reserved' = Reserved /\ Operations' = Operations
    BY <2>1 DEF Reserved, Operations
  <2> QED
    BY <2>1, <2>2 DEF ReserveInv, Reserve, Numbered
<1>6. CASE SendFirst
  <2>1. pc = "acknowledgement_replay" /\ current = pc
    BY <1>6 DEF SendFirst, Send, ReserveInv, Reserve, Kinds
  <2>2. left' = left - Need(current) /\ pc' = "replay" /\ held' = held
    BY <1>6, <2>1 DEF SendFirst, Need
  <2>3. todo' = [todo EXCEPT ![current] = @ - 1] /\ UNCHANGED <<args, current, steady>>
    BY <1>6 DEF SendFirst, Send
  <2>4. held \in Nat
    BY DEF ReserveInv, Numbered
  <2> QED
    BY <2>1, <2>2, <2>3, <2>4, ReserveBegins DEF Body, Sending, Kinds
<1>7. CASE SendAgain
  BY <1>7, ReserveStays DEF SendAgain, Send, Body, Sending, Kinds
<1>8. CASE SendFails \/ Probe
  BY <1>8, ReserveStays DEF SendFails, Probe, Body, Sending, Kinds
<1>9. CASE StopApi \/ WorkerOutage
  <2>1. pc \in {"api_outage", "worker_outage"} /\ pc' \in {"probe", "drain"} /\ Hold
    BY <1>9 DEF StopApi, WorkerOutage
  <2>2. current = pc /\ args.buffer \in Nat
    BY <2>1, ReservedIsNat DEF ReserveInv, Reserve, Kinds
  <2>3. left' = left - Need(current) /\ held' = args.buffer
    BY <2>1, <2>2 DEF Hold, Need
  <2>4. todo' = [todo EXCEPT ![current] = @ - 1] /\ UNCHANGED <<args, current, steady>>
    BY <2>1 DEF Hold
  <2> QED
    BY <2>1, <2>2, <2>3, <2>4, ReserveBegins DEF Body, Sending, Kinds
<1>10. CASE DrainOver \/ AwaitOutbox \/ AssertRunning
  BY <1>10, ReserveStays DEF DrainOver, AwaitOutbox, AssertRunning, Body, Sending, Kinds
<1>11. CASE StopWorkerFinally \/ StopApiFinally \/ Judge \/ Interrupt
  BY <1>11, ReserveStays
     DEF StopWorkerFinally, StopApiFinally, Judge, Interrupt, Body, Sending, Kinds
<1>12. CASE ApiBoots \/ ForeignExits \/ ApiExits \/ WorkerExits \/ Work
  BY <1>12, ReserveStays DEF ApiBoots, ForeignExits, ApiExits, WorkerExits, Work, Claim, Settle
<1>13. CASE UNCHANGED vars
  BY <1>13, ReserveStays DEF vars
<1> QED
  BY <1>1, <1>2, <1>3, <1>4, <1>5, <1>6, <1>7, <1>8, <1>9, <1>10, <1>11, <1>12, <1>13
     DEF Next, Trial

\* Whatever the plan, no operation finds the deque too short: the minimum that
\* run_trial asks for is enough, and steady_count leaves it (popleft never raises).
THEOREM DequeAlwaysSuffices == Spec => []DequeSuffices
<1>1. ReserveInv => DequeSuffices
  <2> SUFFICES ASSUME ReserveInv PROVE DequeSuffices
    OBVIOUS
  <2>1. CASE pc \in Kinds
    <3>1. current = pc /\ todo[current] > 0 /\ left >= Reserved /\ left \in Nat
      BY <2>1 DEF ReserveInv, Reserve, Numbered, Kinds, Body, Sending
    <3>2. Reserved \in Nat /\ Reserved >= Need(current) /\ args.buffer \in Nat
      BY <2>1, <3>1, ReservedIsNat DEF ReserveInv
    <3> QED
      BY <2>1, <3>1, <3>2 DEF DequeSuffices, Need, Kinds
  <2>2. CASE pc \notin Kinds
    BY <2>2 DEF DequeSuffices, Kinds
  <2> QED
    BY <2>1, <2>2
<1> QED
  BY <1>1, ReserveInit, ReserveStep, PTL DEF Spec

-----------------------------------------------------------------------------
(* The verdict.                                                            *)

\* The database holds nothing but what the trial, and others, have sent.
Database ==
  /\ requests \subseteq Batches /\ stored \subseteq 1..args.readings
  /\ event \in [Batches \cup Others -> Statuses]
  /\ \A b \in requests : event[b] # "none"
  /\ \A e \in orphans : e \in DOMAIN event /\ event[e] = "processing"

\* Every batch that has left the deque and is not held has a number.
Numbering ==
  /\ left + held <= BatchCount
  /\ pc = "replay" => left + held < BatchCount
  /\ pc = "probe" => held > 0

\* The pcs of a trial that has seen its outbox drained.
After == {"assert", "cleanup", "cleanupApi", "judge", "passed"}

\* From then on no worker finds an event, and the verdict stays as it was.
Quiet ==
  /\ pc \in After => Drained
  /\ pc = "passed" => Checks

VerdictInv == ReserveInv /\ Database /\ Numbering /\ Quiet

-----------------------------------------------------------------------------
LEMMA BatchCountIsNat == Numbered => BatchCount \in Nat
<1> SUFFICES ASSUME Numbered PROVE BatchCount \in Nat
  OBVIOUS
<1>1. args.readings \in Nat \ {0} /\ BatchSize \in Nat \ {0}
  BY TrialAssumption DEF Numbered
<1>2. args.readings + BatchSize - 1 \in Nat
  BY <1>1
<1> QED
  BY <1>1, <1>2, DivisionBound DEF BatchCount

LEMMA SubsetOfSameSize ==
  ASSUME NEW S, NEW T, IsFiniteSet(T), S \subseteq T, Cardinality(S) = Cardinality(T)
  PROVE  S = T
  BY FS_Subset

LEMMA IntervalSize ==
  ASSUME NEW n \in Nat
  PROVE  IsFiniteSet(1..n) /\ Cardinality(1..n) = n
<1>1. /\ IsFiniteSet(1..n)
      /\ Cardinality(1..n) = IF 1 > n THEN 0 ELSE n - 1 + 1
  BY FS_Interval
<1> QED
  BY <1>1

\* The checks are enough: they count, and the counts leave no room.
LEMMA ChecksAreEnough ==
  ASSUME Numbered, Database, Drained, Checks
  PROVE  /\ stored = 1..args.readings /\ requests = Batches
         /\ \A b \in Batches : event[b] = "published"
         /\ \A e \in Others : event[e] = "none"
<1>1. args.readings \in Nat /\ BatchCount \in Nat
  BY TrialAssumption, BatchCountIsNat DEF Numbered
<1>2. stored = 1..args.readings
  <2>1. Received(stored, 1, args.readings) = stored
    BY DEF Database, Received
  <2>2. args.readings - 1 + 1 - Cardinality(stored) = 0
    BY <2>1 DEF Checks, Missing
  <2>3. IsFiniteSet(1..args.readings) /\ Cardinality(1..args.readings) = args.readings
    BY <1>1, IntervalSize
  <2>4. stored \subseteq 1..args.readings
    BY DEF Database
  <2>5. Cardinality(stored) \in Nat
    BY <2>3, <2>4, FS_Subset, FS_CardinalityType
  <2>6. Cardinality(stored) = Cardinality(1..args.readings)
    BY <1>1, <2>2, <2>3, <2>5
  <2> QED
    BY <2>3, <2>4, <2>6, SubsetOfSameSize
<1>3. IsFiniteSet(Batches) /\ Cardinality(Batches) = BatchCount
  BY <1>1, IntervalSize DEF Batches
<1>4. requests = Batches
  <2>1. requests \subseteq Batches /\ Cardinality(requests) = Cardinality(Batches)
    BY <1>3 DEF Database, Checks
  <2> QED
    BY <1>3, <2>1, SubsetOfSameSize
<1>5. \A b \in Batches : event[b] = "published"
  BY <1>4 DEF Database, Drained
<1>6. Batches = {e \in DOMAIN event : event[e] = "published"}
  <2> DEFINE P == {e \in DOMAIN event : event[e] = "published"}
  <2>1. DOMAIN event = Batches \cup Others
    BY DEF Database
  <2>2. IsFiniteSet(Batches \cup Others)
    BY <1>3, TrialAssumption, FS_Union
  <2>3. P \subseteq Batches \cup Others /\ Batches \subseteq P
    BY <1>5, <2>1
  <2>4. IsFiniteSet(P)
    BY <2>2, <2>3, FS_Subset
  <2>5. Cardinality(Batches) = Cardinality(P)
    BY <1>3 DEF Checks, CountOf
  <2> QED
    BY <2>3, <2>4, <2>5, SubsetOfSameSize
<1>7. \A e \in Others : event[e] = "none"
  <2> SUFFICES ASSUME NEW e \in Others PROVE event[e] = "none"
    OBVIOUS
  <2>1. e \in DOMAIN event
    BY DEF Database
  <2>2. e \notin Batches
    BY <1>1, TrialAssumption DEF Batches
  <2> QED
    BY <1>6, <2>1, <2>2 DEF Drained
<1> QED
  BY <1>2, <1>4, <1>5, <1>7

LEMMA VerdictInit == Init => VerdictInv
<1> SUFFICES ASSUME Init PROVE VerdictInv
  OBVIOUS
<1>1. ReserveInv
  BY ReserveInit
<1>2. Database
  BY DEF Init, Database, Statuses
<1>3. Numbering
  BY <1>1, BatchCountIsNat DEF Init, Numbering, ReserveInv
<1>4. Quiet
  BY DEF Init, Quiet, After
<1> QED
  BY <1>1, <1>2, <1>3, <1>4 DEF VerdictInv

\* A batch that is sent has a number.
LEMMA SentIsABatch ==
  ASSUME ReserveInv, Numbering, ToSend
  PROVE  Batch \in Batches
<1>1. Numbered /\ BatchCount \in Nat /\ left \in Nat /\ held \in Nat
  BY BatchCountIsNat DEF ReserveInv, Numbered
<1>2. CASE pc = "replay"
  BY <1>1, <1>2 DEF Numbering, Batch, Batches
<1>3. CASE pc # "replay"
  <2>1. left + held > 0
    <3>1. CASE pc = "acknowledgement_replay"
      <4>1. Reserved >= 1 /\ left >= Reserved /\ Reserved \in Nat
        BY <1>1, <3>1, ReservedIsNat DEF ReserveInv, Reserve, Kinds, Body, Sending, Need
      <4> QED
        BY <1>1, <4>1
    <3>2. CASE pc # "acknowledgement_replay"
      BY <1>1, <1>3, <3>2 DEF ToSend
    <3> QED
      BY <3>1, <3>2
  <2> QED
    BY <1>1, <1>3, <2>1 DEF Numbering, Batch, Batches
<1> QED
  BY <1>2, <1>3

\* What ingest_measurements records is one of the batches, with its readings.
LEMMA RecordKeepsDatabase ==
  ASSUME Numbered, Database, Batch \in Batches, Record, args' = args
  PROVE  Database'
<1>1. args.readings \in Nat /\ BatchSize \in Nat \ {0} /\ BatchCount \in Nat
  BY TrialAssumption, BatchCountIsNat DEF Numbered
<1>2. Batches' = Batches
  BY DEF Batches, BatchCount
<1>3. ReadingsOf(Batch) \subseteq 1..args.readings
  <2> SUFFICES ASSUME NEW n \in ReadingsOf(Batch) PROVE n \in 1..args.readings
    OBVIOUS
  <2> DEFINE b == Batch
  <2>1. b \in Nat /\ b >= 1
    BY <1>1 DEF Batches
  <2> HIDE DEF b
  <2>2. (b - 1) * BatchSize \in Nat /\ b * BatchSize \in Nat
    <3>1. b - 1 \in Nat
      BY <2>1
    <3> QED
      BY <1>1, <2>1, <3>1
  <2>3. n \in (b - 1) * BatchSize + 1..b * BatchSize /\ n <= args.readings
    BY DEF ReadingsOf, b
  <2> QED
    BY <1>1, <2>2, <2>3
<1>4. requests' \subseteq Batches' /\ stored' \subseteq 1..args'.readings
  BY <1>2, <1>3 DEF Record, Database
<1>5. event' \in [Batches' \cup Others -> Statuses]
  BY <1>2 DEF Record, Database, Statuses
<1>6. \A b \in requests' : event'[b] # "none"
  BY DEF Record, Database
<1>7. \A e \in orphans' : e \in DOMAIN event' /\ event'[e] = "processing"
  BY DEF Record, Database
<1> QED
  BY <1>4, <1>5, <1>6, <1>7 DEF Database

\* A step of the trial that is not a request leaves the events alone; a worker
\* that is gone leaves orphans among those it was publishing.
LEMMA DatabaseStays ==
  ASSUME Database, UNCHANGED <<args, requests, stored, event>>,
         orphans' = orphans \/ orphans' = orphans \cup Processing
  PROVE  Database'
<1>1. Batches' = Batches
  BY DEF Batches, BatchCount
<1> QED
  BY <1>1 DEF Database, Processing

LEMMA DatabaseStep == VerdictInv /\ [Next]_vars => Database'
<1> SUFFICES ASSUME VerdictInv, [Next]_vars PROVE Database'
  OBVIOUS
<1> USE DEF plan, tally, process, database
<1>0. Database /\ Numbered /\ ReserveInv /\ Numbering
  BY DEF VerdictInv, ReserveInv
<1>1. ASSUME NEW step, NEW replay, Send(step, replay) PROVE Database'
  <2>1. Batch \in Batches /\ Record /\ args' = args
    BY <1>0, <1>1, SentIsABatch DEF Send
  <2> QED
    BY <1>0, <2>1, RecordKeepsDatabase
<1>2. CASE SendSteady("steady") \/ SendSteady("rest") \/ SendHeld \/ SendFirst \/ SendAgain
  BY <1>1, <1>2 DEF SendSteady, SendHeld, SendFirst, SendAgain
<1>3. CASE SendFails
  <2>1. CASE Record
    BY <1>0, <1>3, <2>1, SentIsABatch, RecordKeepsDatabase DEF SendFails
  <2>2. CASE UNCHANGED database
    BY <1>0, <1>3, <2>2, DatabaseStays DEF SendFails
  <2> QED
    BY <1>3, <2>1, <2>2 DEF SendFails
<1>4. CASE Probe
  <2>1. CASE Record
    <3>1. pc = "probe" /\ held > 0
      BY <1>0, <1>4 DEF Probe, Numbering
    <3>2. left \in Nat /\ held \in Nat /\ BatchCount \in Nat /\ left + held <= BatchCount
      BY <1>0, BatchCountIsNat DEF Numbered, Numbering
    <3>3. Batch \in Batches
      BY <3>1, <3>2 DEF Batch, Batches
    <3> QED
      BY <1>0, <1>4, <2>1, <3>3, RecordKeepsDatabase DEF Probe
  <2>2. CASE UNCHANGED database
    BY <1>0, <1>4, <2>2, DatabaseStays DEF Probe
  <2> QED
    BY <1>4, <2>1, <2>2 DEF Probe
<1>5. CASE Check \/ StartApi \/ AwaitApi \/ NextOperation \/ SteadyOver \/ DrainOver
  BY <1>0, <1>5, DatabaseStays
     DEF Check, StartApi, AwaitApi, NextOperation, SteadyOver, DrainOver
<1>6. CASE StopApi \/ WorkerOutage
  BY <1>0, <1>6, DatabaseStays DEF StopApi, WorkerOutage, StopWorker, Hold
<1>7. CASE AwaitOutbox \/ AssertRunning \/ StopApiFinally \/ Judge \/ Interrupt
  BY <1>0, <1>7, DatabaseStays
     DEF AwaitOutbox, AssertRunning, StopApiFinally, Judge, Interrupt
<1>8. CASE StopWorkerFinally
  BY <1>0, <1>8, DatabaseStays DEF StopWorkerFinally, StopWorker
<1>9. CASE ApiBoots \/ ForeignExits \/ ApiExits \/ WorkerExits
  BY <1>0, <1>9, DatabaseStays DEF ApiBoots, ForeignExits, ApiExits, WorkerExits
<1>10. ASSUME NEW e \in DOMAIN event, Claim(e) \/ Settle(e) PROVE Database'
  <2>1. Batches' = Batches
    BY <1>10 DEF Claim, Settle, Batches, BatchCount
  <2> QED
    BY <1>0, <1>10, <2>1 DEF Claim, Settle, Database, Statuses, Processing
<1>11. CASE UNCHANGED vars
  BY <1>0, <1>11, DatabaseStays DEF vars
<1> QED
  BY <1>2, <1>3, <1>4, <1>5, <1>6, <1>7, <1>8, <1>9, <1>10, <1>11 DEF Next, Trial, Work

LEMMA NumberingStep == VerdictInv /\ [Next]_vars => Numbering'
<1> SUFFICES ASSUME VerdictInv, [Next]_vars PROVE Numbering'
  OBVIOUS
<1> USE DEF plan, tally, process, database, Abort
<1>1. /\ Numbered /\ Numbering /\ ReserveInv /\ BatchCount \in Nat
      /\ left \in Nat /\ held \in Nat /\ args.buffer \in Nat \ {0}
  BY BatchCountIsNat, ReservedIsNat DEF VerdictInv, ReserveInv, Numbered
<1>2. args' = args => BatchCount' = BatchCount
  BY DEF BatchCount
<1>3. ASSUME UNCHANGED <<args, left, held>>,
             pc' # pc => pc' \notin {"replay", "probe"}
      PROVE  Numbering'
  BY <1>1, <1>2, <1>3 DEF Numbering
<1>4. CASE SendSteady("steady") \/ SendSteady("rest")
  BY <1>1, <1>2, <1>4 DEF SendSteady, Send, ToSend, Numbering
<1>5. CASE SendHeld
  BY <1>1, <1>2, <1>5 DEF SendHeld, Send, ToSend, Numbering
<1>6. CASE SendFirst
  BY <1>1, <1>2, <1>6 DEF SendFirst, Send, ToSend, Numbering
<1>7. CASE SendAgain \/ SendFails \/ Probe \/ Interrupt \/ Judge
  BY <1>3, <1>7 DEF SendAgain, Send, SendFails, Probe, Interrupt, Judge
<1>8. CASE StopApi \/ WorkerOutage
  <2>1. pc \in {"api_outage", "worker_outage"} /\ Hold /\ pc' # "replay"
    BY <1>8 DEF StopApi, WorkerOutage
  <2>2. left' = left - args.buffer /\ held' = args.buffer /\ args' = args
    BY <2>1 DEF Hold
  <2>3. left' + held' <= BatchCount'
    BY <1>1, <1>2, <2>2 DEF Numbering
  <2> QED
    BY <1>1, <2>1, <2>2, <2>3 DEF Numbering
<1>9. CASE Check \/ StartApi \/ AwaitApi \/ NextOperation \/ DrainOver \/ AwaitOutbox
  BY <1>3, <1>9 DEF Check, StartApi, AwaitApi, NextOperation, DrainOver, AwaitOutbox
<1>10. CASE SteadyOver
  BY <1>1, <1>3, <1>10 DEF SteadyOver, Numbered, Kinds
<1>11. CASE AssertRunning \/ StopWorkerFinally \/ StopApiFinally
  BY <1>3, <1>11 DEF AssertRunning, StopWorkerFinally, StopApiFinally
<1>12. CASE ApiBoots \/ ForeignExits \/ ApiExits \/ WorkerExits \/ Work
  BY <1>3, <1>12 DEF ApiBoots, ForeignExits, ApiExits, WorkerExits, Work, Claim, Settle
<1>13. CASE UNCHANGED vars
  BY <1>3, <1>13 DEF vars
<1> QED
  BY <1>4, <1>5, <1>6, <1>7, <1>8, <1>9, <1>10, <1>11, <1>12, <1>13 DEF Next, Trial

LEMMA QuietStep == VerdictInv /\ [Next]_vars => Quiet'
<1> SUFFICES ASSUME VerdictInv, [Next]_vars PROVE Quiet'
  OBVIOUS
<1> USE DEF plan, tally, process, database, Abort
<1>1. Quiet /\ Database /\ Numbered
  BY DEF VerdictInv, ReserveInv
<1>2. UNCHANGED event => Drained' = Drained
  BY DEF Drained
<1>3. ASSUME pc' \notin After PROVE Quiet'
  BY <1>3 DEF Quiet, After
<1>4. ASSUME UNCHANGED event, pc \in After, pc' # "passed" PROVE Quiet'
  BY <1>1, <1>2, <1>4 DEF Quiet
<1>5. ASSUME UNCHANGED <<args, pc, requests, stored, event, tally>> PROVE Quiet'
  <2>1. Checks' = Checks
    BY <1>5 DEF Checks, Complete, Missing, Received, MissingRanges, Expected, CountOf,
                PlannedOperations, BatchCount
  <2> QED
    BY <1>1, <1>2, <1>5, <2>1 DEF Quiet, After
<1>6. CASE Check \/ StartApi \/ AwaitApi \/ NextOperation \/ DrainOver
  BY <1>3, <1>6 DEF Check, StartApi, AwaitApi, NextOperation, DrainOver, After
<1>7. CASE SteadyOver
  BY <1>1, <1>3, <1>7 DEF SteadyOver, Numbered, Kinds, After
<1>8. CASE SendSteady("steady") \/ SendSteady("rest") \/ SendHeld \/ SendFirst \/ SendAgain
  BY <1>3, <1>8 DEF SendSteady, SendHeld, SendFirst, SendAgain, Send, After
<1>9. CASE SendFails \/ Probe \/ StopApi \/ WorkerOutage \/ Interrupt
  BY <1>3, <1>9 DEF SendFails, Probe, StopApi, WorkerOutage, Interrupt, After
<1>10. CASE AwaitOutbox
  <2>1. CASE pc' = "assert"
    <3>1. Drained /\ UNCHANGED event
      BY <1>10, <2>1 DEF AwaitOutbox
    <3> QED
      BY <1>2, <2>1, <3>1 DEF Quiet
  <2>2. CASE pc' # "assert"
    BY <1>3, <1>10, <2>2 DEF AwaitOutbox, After
  <2> QED
    BY <2>1, <2>2
<1>11. CASE AssertRunning
  BY <1>4, <1>11 DEF AssertRunning, After
<1>12. CASE StopWorkerFinally
  <2>1. CASE pc = "cleanup"
    BY <1>4, <1>12, <2>1 DEF StopWorkerFinally, After
  <2>2. CASE pc = "abort"
    BY <1>3, <1>12, <2>2 DEF StopWorkerFinally, After
  <2> QED
    BY <1>12, <2>1, <2>2 DEF StopWorkerFinally
<1>13. CASE StopApiFinally
  <2>1. CASE pc = "cleanupApi"
    BY <1>4, <1>13, <2>1 DEF StopApiFinally, After
  <2>2. CASE pc = "abortApi"
    BY <1>3, <1>13, <2>2 DEF StopApiFinally, After
  <2> QED
    BY <1>13, <2>1, <2>2 DEF StopApiFinally
<1>14. CASE Judge
  <2>1. CASE Checks
    <3>1. Checks' = Checks
      BY <1>14 DEF Judge, Checks, Complete, Missing, Received, MissingRanges, Expected,
                   CountOf, PlannedOperations, BatchCount
    <3>2. Drained /\ UNCHANGED event
      BY <1>1, <1>14 DEF Judge, Quiet, After
    <3> QED
      BY <1>2, <2>1, <3>1, <3>2 DEF Quiet
  <2>2. CASE ~Checks
    BY <1>3, <1>14, <2>2 DEF Judge, After
  <2> QED
    BY <2>1, <2>2
<1>15. CASE ApiBoots \/ ForeignExits \/ ApiExits \/ WorkerExits
  BY <1>5, <1>15 DEF ApiBoots, ForeignExits, ApiExits, WorkerExits
<1>16. ASSUME NEW e \in DOMAIN event, Claim(e) \/ Settle(e) PROVE Quiet'
  <2>1. CASE pc \in After
    <3>1. Drained
      BY <1>1, <2>1 DEF Quiet
    <3> QED
      BY <1>1, <1>16, <3>1 DEF Drained, Claim, Settle, Processing, Database
  <2>2. CASE pc \notin After
    BY <1>3, <1>16, <2>2 DEF Claim, Settle
  <2> QED
    BY <2>1, <2>2
<1>17. CASE UNCHANGED vars
  BY <1>5, <1>17 DEF vars
<1> QED
  BY <1>6, <1>7, <1>8, <1>9, <1>10, <1>11, <1>12, <1>13, <1>14, <1>15, <1>16, <1>17
     DEF Next, Trial, Work

\* A trial that passes is right about every reading, batch and event, whatever
\* its plan, the faults it met, and the events of others.
THEOREM VerdictIsAlwaysTrue == Spec => []VerdictIsTrue
<1>1. VerdictInv /\ [Next]_vars => VerdictInv'
  BY ReserveStep, DatabaseStep, NumberingStep, QuietStep DEF VerdictInv
<1>2. VerdictInv => VerdictIsTrue
  <2> SUFFICES ASSUME VerdictInv, pc = "passed" PROVE VerdictIsTrue
    BY DEF VerdictIsTrue
  <2>1. Numbered /\ Database /\ Drained /\ Checks
    BY DEF VerdictInv, ReserveInv, Quiet, After
  <2> QED
    BY <2>1, ChecksAreEnough DEF VerdictIsTrue
<1> QED
  BY <1>1, <1>2, VerdictInit, PTL DEF Spec

-----------------------------------------------------------------------------
(* Whose evidence it is.                                                   *)

\* The trial has no operation left when it waits for the outbox a last time.
Exhausted ==
  /\ pc \in After \/ (pc = "awaitOutbox" /\ current = "none") => Operations = 0
  /\ pc = "drain" => current \in Kinds

\* An API outage of the plan has begun.
Tested == todo["api_outage"] < args.operations["api_outage"]

\* With a foreign API on the port no API outage is survived, since the upload that
\* must fail is answered; so once one was, nothing else listens there.
Stuck ==
  /\ foreign \in {"none", "listening", "gone"}
  /\ foreign = "listening" /\ pc \in {"check"} \cup Body => ~Tested \/ pc = "probe"

EvidenceInv == ReserveInv /\ Exhausted /\ Stuck

-----------------------------------------------------------------------------
LEMMA EvidenceInit == Init => EvidenceInv
<1> SUFFICES ASSUME Init PROVE EvidenceInv
  OBVIOUS
<1>1. Exhausted
  BY DEF Init, Exhausted, After
<1>2. ~Tested
  <2>1. args.operations["api_outage"] \in Nat
    BY TrialAssumption DEF Init, Kinds
  <2> QED
    BY <2>1 DEF Init, Tested
<1>3. Stuck
  BY <1>2 DEF Init, Stuck
<1> QED
  BY <1>1, <1>3, ReserveInit DEF EvidenceInv

LEMMA ExhaustedStep == EvidenceInv /\ [Next]_vars => Exhausted'
<1> SUFFICES ASSUME EvidenceInv, [Next]_vars PROVE Exhausted'
  OBVIOUS
<1> USE DEF plan, Abort
<1>1. Exhausted /\ Reserve /\ Numbered
  BY DEF EvidenceInv, ReserveInv
<1>2. UNCHANGED todo => Operations' = Operations
  BY DEF Operations
<1>3. ASSUME pc' \notin After \cup {"awaitOutbox", "drain"} PROVE Exhausted'
  BY <1>3 DEF Exhausted, After
<1>4. ASSUME UNCHANGED <<todo, pc, current>> PROVE Exhausted'
  BY <1>1, <1>2, <1>4 DEF Exhausted, Kinds, After
<1>5. ASSUME UNCHANGED todo, pc \in After, pc' \notin {"awaitOutbox", "drain"} PROVE Exhausted'
  BY <1>1, <1>2, <1>5 DEF Exhausted, Kinds, After
<1>6. CASE Check \/ StartApi \/ NextOperation \/ SendFirst \/ SendAgain
  BY <1>3, <1>6 DEF Check, StartApi, NextOperation, SendFirst, SendAgain, After
<1>7. CASE AwaitApi
  <2>1. CASE pc' = "drain"
    BY <1>1, <1>7, <2>1 DEF AwaitApi, Exhausted, Numbered, After
  <2>2. CASE pc' # "drain"
    BY <1>3, <1>7, <2>2 DEF AwaitApi, After
  <2> QED
    BY <2>1, <2>2
<1>8. CASE SteadyOver
  <2>1. CASE pc = "rest"
    <3>1. pc' = "awaitOutbox" /\ Operations = 0 /\ UNCHANGED todo
      BY <1>1, <1>8, <2>1 DEF SteadyOver, Reserve
    <3> QED
      BY <1>2, <3>1 DEF Exhausted, After
  <2>2. CASE pc = "steady"
    BY <1>1, <1>3, <1>8, <2>2 DEF SteadyOver, Reserve, Kinds, After
  <2> QED
    BY <1>8, <2>1, <2>2 DEF SteadyOver
<1>9. CASE SendSteady("steady") \/ SendSteady("rest") \/ SendHeld
  BY <1>4, <1>9 DEF SendSteady, SendHeld, Send
<1>10. CASE SendFails \/ StopApi \/ Probe \/ Interrupt
  BY <1>3, <1>10 DEF SendFails, StopApi, Probe, Interrupt, After
<1>11. CASE WorkerOutage
  <2>1. current = pc /\ pc' = "drain" /\ current' = current /\ current \in Kinds
    BY <1>1, <1>11 DEF WorkerOutage, Hold, Reserve, Kinds
  <2> QED
    BY <2>1 DEF Exhausted, Kinds, After
<1>12. CASE DrainOver
  <2>1. current \in Kinds /\ current' = current /\ pc' \in {"plan", "awaitOutbox"}
    BY <1>1, <1>12 DEF DrainOver, Exhausted
  <2> QED
    BY <2>1 DEF Exhausted, Kinds, After
<1>13. CASE AwaitOutbox
  <2>1. CASE pc' = "assert"
    <3>1. current = "none" /\ pc = "awaitOutbox" /\ UNCHANGED todo
      BY <1>13, <2>1 DEF AwaitOutbox
    <3> QED
      BY <1>1, <1>2, <2>1, <3>1 DEF Exhausted
  <2>2. CASE pc' # "assert"
    BY <1>3, <1>13, <2>2 DEF AwaitOutbox, After
  <2> QED
    BY <2>1, <2>2
<1>14. CASE AssertRunning \/ Judge
  <2>1. CASE pc' \in After
    BY <1>5, <1>14, <2>1 DEF AssertRunning, Judge, After
  <2>2. CASE pc' \notin After
    BY <1>3, <1>14, <2>2 DEF AssertRunning, Judge, After
  <2> QED
    BY <2>1, <2>2
<1>15. CASE StopWorkerFinally
  <2>1. CASE pc = "cleanup"
    BY <1>5, <1>15, <2>1 DEF StopWorkerFinally, After
  <2>2. CASE pc = "abort"
    BY <1>3, <1>15, <2>2 DEF StopWorkerFinally, After
  <2> QED
    BY <1>15, <2>1, <2>2 DEF StopWorkerFinally
<1>16. CASE StopApiFinally
  <2>1. CASE pc = "cleanupApi"
    BY <1>5, <1>16, <2>1 DEF StopApiFinally, After
  <2>2. CASE pc = "abortApi"
    BY <1>3, <1>16, <2>2 DEF StopApiFinally, After
  <2> QED
    BY <1>16, <2>1, <2>2 DEF StopApiFinally
<1>17. CASE ApiBoots \/ ForeignExits \/ ApiExits \/ WorkerExits \/ Work
  BY <1>4, <1>17 DEF ApiBoots, ForeignExits, ApiExits, WorkerExits, Work, Claim, Settle
<1>18. CASE UNCHANGED vars
  BY <1>4, <1>18 DEF vars
<1> QED
  BY <1>6, <1>7, <1>8, <1>9, <1>10, <1>11, <1>12, <1>13, <1>14, <1>15, <1>16, <1>17, <1>18
     DEF Next, Trial

LEMMA StuckStep == EvidenceInv /\ [Next]_vars => Stuck'
<1> SUFFICES ASSUME EvidenceInv, [Next]_vars PROVE Stuck'
  OBVIOUS
<1> USE DEF plan, process, tally, Abort, Answering
<1>1. Stuck /\ Reserve /\ Numbered
  BY DEF EvidenceInv, ReserveInv
<1> DEFINE Going == {"check"} \cup Body
<1>2. ASSUME UNCHANGED <<args, foreign>>, todo'["api_outage"] = todo["api_outage"],
             pc # "probe", pc' \in Going => pc \in Going
      PROVE  Stuck'
  BY <1>1, <1>2 DEF Stuck, Tested, Body, Sending
<1>3. ASSUME UNCHANGED <<args, foreign, todo, pc>> PROVE Stuck'
  BY <1>1, <1>3 DEF Stuck, Tested, Body, Sending
<1>4. CASE Check \/ StartApi \/ AwaitApi \/ NextOperation \/ DrainOver \/ AwaitOutbox
  BY <1>2, <1>4 DEF Check, StartApi, AwaitApi, NextOperation, DrainOver, AwaitOutbox,
                    Body, Sending
<1>5. CASE SteadyOver
  BY <1>2, <1>5 DEF SteadyOver, Body, Sending
<1>6. CASE SendSteady("steady") \/ SendSteady("rest") \/ SendHeld \/ SendAgain
  BY <1>2, <1>6 DEF SendSteady, SendHeld, SendAgain, Send, Body, Sending
<1>7. CASE SendFails \/ Interrupt
  BY <1>1, <1>7 DEF SendFails, Interrupt, Stuck, Body, Sending, After
<1>8. CASE SendFirst
  <2>1. pc = "acknowledgement_replay" /\ current = pc /\ current \in Kinds
    BY <1>1, <1>8 DEF SendFirst, Send, Reserve, Kinds
  <2>2. todo'["api_outage"] = todo["api_outage"]
    BY <1>1, <1>8, <2>1 DEF SendFirst, Numbered, Kinds
  <2> QED
    BY <1>2, <1>8, <2>1, <2>2 DEF SendFirst, Send, Body, Sending
<1>9. CASE StopApi
  BY <1>1, <1>9 DEF StopApi, Hold, Stuck
<1>10. CASE WorkerOutage
  <2>1. pc = "worker_outage" /\ current = pc
    BY <1>1, <1>10 DEF WorkerOutage, Reserve, Kinds
  <2>2. todo'["api_outage"] = todo["api_outage"]
    BY <1>1, <1>10, <2>1 DEF WorkerOutage, Hold, Numbered, Kinds
  <2> QED
    BY <1>2, <1>10, <2>1, <2>2 DEF WorkerOutage, Hold, Body, Sending
<1>11. CASE Probe
  <2>1. foreign = "listening" => pc' = "abort"
    BY <1>11 DEF Probe, ProbeFails
  <2>2. foreign' = foreign
    BY <1>11 DEF Probe
  <2> QED
    BY <1>1, <2>1, <2>2 DEF Stuck, Body, Sending
<1>12. CASE AssertRunning \/ StopWorkerFinally \/ StopApiFinally \/ Judge
  BY <1>2, <1>12 DEF AssertRunning, StopWorkerFinally, StopApiFinally, Judge, Body, Sending
<1>13. CASE ApiBoots \/ ApiExits \/ WorkerExits \/ Work
  BY <1>3, <1>13 DEF ApiBoots, ApiExits, WorkerExits, Work, Claim, Settle
<1>14. CASE ForeignExits
  BY <1>14 DEF ForeignExits, Stuck
<1>15. CASE UNCHANGED vars
  BY <1>3, <1>15 DEF vars
<1> QED
  BY <1>4, <1>5, <1>6, <1>7, <1>8, <1>9, <1>10, <1>11, <1>12, <1>13, <1>14, <1>15
     DEF Next, Trial

\* Only a request that is sent changes the two counters of answers.
LEMMA AnswersAreSent ==
  ASSUME [Next]_vars, accepted' # accepted \/ replayed' # replayed
  PROVE  pc \in Sending /\ Answering
<1> USE DEF plan, process, database, tally
<1>1. CASE SendSteady("steady") \/ SendSteady("rest") \/ SendHeld \/ SendFirst \/ SendAgain
  BY <1>1 DEF SendSteady, SendHeld, SendFirst, SendAgain, Send, Sending
<1>2. CASE Check \/ StartApi \/ AwaitApi \/ NextOperation \/ SteadyOver \/ SendFails
  BY <1>2 DEF Check, StartApi, AwaitApi, NextOperation, SteadyOver, SendFails
<1>3. CASE StopApi \/ Probe \/ WorkerOutage \/ DrainOver \/ AwaitOutbox
  BY <1>3 DEF StopApi, Probe, WorkerOutage, DrainOver, AwaitOutbox
<1>4. CASE AssertRunning \/ StopWorkerFinally \/ StopApiFinally \/ Judge \/ Interrupt
  BY <1>4 DEF AssertRunning, StopWorkerFinally, StopApiFinally, Judge, Interrupt
<1>5. CASE ApiBoots \/ ForeignExits \/ ApiExits \/ WorkerExits \/ Work
  BY <1>5 DEF ApiBoots, ForeignExits, ApiExits, WorkerExits, Work, Claim, Settle
<1>6. CASE UNCHANGED vars
  BY <1>6 DEF vars
<1> QED
  BY <1>1, <1>2, <1>3, <1>4, <1>5, <1>6 DEF Next, Trial

\* From its first API outage on, a trial counts only answers of its own API: with
\* another one on the port, the upload that must fail is answered and the trial
\* ends; and one that has ended does not come back.
THEOREM EvidenceIsAlwaysOwn == Spec => EvidenceIsOwn
<1>1. EvidenceInv /\ [Next]_vars => EvidenceInv'
  BY ReserveStep, ExhaustedStep, StuckStep DEF EvidenceInv
<1>2. EvidenceInv /\ [Next]_vars =>
        [todo["api_outage"] < args.operations["api_outage"]
           /\ (accepted' # accepted \/ replayed' # replayed) => api = "up"]_vars
  <2> SUFFICES ASSUME EvidenceInv, [Next]_vars, Tested,
                      accepted' # accepted \/ replayed' # replayed
               PROVE  api = "up"
    BY DEF Tested
  <2>1. pc \in Sending /\ Answering
    BY AnswersAreSent
  <2> QED
    BY <2>1 DEF EvidenceInv, Stuck, Answering, Body, Sending
<1> QED
  BY <1>1, <1>2, EvidenceInit, PTL DEF Spec, EvidenceIsOwn

-----------------------------------------------------------------------------
(* Types: the processes, the counters, and where the trial stands.         *)

Points == {"check", "cleanup", "cleanupApi", "abortApi", "abort", "judge"} \cup Body \cup Ends

ProcessOK ==
  /\ pc \in Points
  /\ api \in {"down", "booting", "up", "exited"} /\ worker \in {"down", "running", "exited"}

TallyOK ==
  /\ accepted \in Nat /\ replayed \in Nat /\ recovered \in Nat
  /\ faults \in 0..MaxFaults

LEMMA ReadingsFinite ==
  ASSUME Numbered, NEW b \in Nat
  PROVE  Cardinality(ReadingsOf(b)) \in Nat
<1>1. (b - 1) * BatchSize + 1 \in Int /\ b * BatchSize \in Int
  <2>1. BatchSize \in Int /\ b \in Int /\ b - 1 \in Int
    BY TrialAssumption
  <2> QED
    BY <2>1
<1> DEFINE first == (b - 1) * BatchSize + 1  last == b * BatchSize
<1> HIDE DEF first, last
<1>2. IsFiniteSet(first..last)
  BY <1>1, FS_Interval DEF first, last
<1>3. ReadingsOf(b) \subseteq first..last
  BY DEF ReadingsOf, first, last
<1> QED
  BY <1>2, <1>3, FS_Subset, FS_CardinalityType

LEMMA ProcessStep == ReserveInv /\ ProcessOK /\ [Next]_vars => ProcessOK'
<1> SUFFICES ASSUME ReserveInv, ProcessOK, [Next]_vars PROVE ProcessOK'
  OBVIOUS
<1> USE DEF ProcessOK, Points, Body, Sending, Ends, plan, process, Abort
<1>1. CASE Check \/ StartApi \/ NextOperation \/ StopApi \/ Probe
  BY <1>1 DEF Check, StartApi, NextOperation, StopApi, Probe
<1>2. CASE AwaitApi \/ DrainOver \/ AwaitOutbox
  BY <1>2 DEF AwaitApi, DrainOver, AwaitOutbox
<1>3. CASE SteadyOver
  BY <1>3 DEF SteadyOver, ReserveInv, Reserve, Kinds
<1>4. CASE SendSteady("steady") \/ SendSteady("rest") \/ SendHeld \/ SendFirst \/ SendAgain
  BY <1>4 DEF SendSteady, SendHeld, SendFirst, SendAgain, Send
<1>5. CASE SendFails \/ Interrupt \/ AssertRunning \/ Judge
  BY <1>5 DEF SendFails, Interrupt, AssertRunning, Judge
<1>6. CASE WorkerOutage
  BY <1>6 DEF WorkerOutage, StopWorker
<1>7. CASE StopWorkerFinally \/ StopApiFinally
  BY <1>7 DEF StopWorkerFinally, StopWorker, StopApiFinally
<1>8. CASE ApiBoots \/ ForeignExits \/ ApiExits \/ WorkerExits
  BY <1>8 DEF ApiBoots, ForeignExits, ApiExits, WorkerExits
<1>9. CASE Work
  BY <1>9 DEF Work, Claim, Settle
<1>10. CASE UNCHANGED vars
  BY <1>10 DEF vars
<1> QED
  BY <1>1, <1>2, <1>3, <1>4, <1>5, <1>6, <1>7, <1>8, <1>9, <1>10 DEF Next, Trial

LEMMA TallyStep == VerdictInv /\ TallyOK /\ [Next]_vars => TallyOK'
<1> SUFFICES ASSUME VerdictInv, TallyOK, [Next]_vars PROVE TallyOK'
  OBVIOUS
<1> USE DEF TallyOK, tally
<1>1. ASSUME UNCHANGED faults \/ Fault PROVE faults' \in 0..MaxFaults
  BY <1>1, TrialAssumption DEF Fault
<1>2. CASE Check \/ StartApi \/ NextOperation \/ SteadyOver \/ Probe \/ AssertRunning \/ Judge
  BY <1>2 DEF Check, StartApi, NextOperation, SteadyOver, Probe, AssertRunning, Judge
<1>3. CASE AwaitApi \/ SendFails \/ Interrupt
  BY <1>1, <1>3 DEF AwaitApi, SendFails, Interrupt
<1>4. ASSUME NEW step, NEW replay, Send(step, replay), Accept PROVE accepted' \in Nat
  <2>1. Batch \in Nat
    <3>1. Batch \in Batches
      BY <1>4, SentIsABatch DEF Send, VerdictInv
    <3> QED
      BY <3>1, BatchCountIsNat DEF Batches, VerdictInv, ReserveInv
  <2>2. Cardinality(ReadingsOf(Batch)) \in Nat
    BY <2>1, ReadingsFinite DEF VerdictInv, ReserveInv
  <2> QED
    BY <1>4, <2>2 DEF Accept
<1>5. CASE SendSteady("steady") \/ SendSteady("rest") \/ SendHeld \/ SendFirst
  <2>1. accepted' \in Nat
    BY <1>4, <1>5 DEF SendSteady, SendHeld, SendFirst
  <2> QED
    BY <1>5, <2>1 DEF SendSteady, SendHeld, SendFirst, Send
<1>6. CASE SendAgain
  BY <1>6 DEF SendAgain, Send
<1>7. CASE StopApi \/ WorkerOutage
  BY <1>1, <1>7 DEF StopApi, WorkerOutage, StopWorker
<1>8. CASE DrainOver
  BY <1>8 DEF DrainOver
<1>9. CASE AwaitOutbox
  <2>1. faults' \in 0..MaxFaults
    BY <1>1, <1>9 DEF AwaitOutbox
  <2> QED
    BY <1>9, <2>1 DEF AwaitOutbox
<1>10. CASE StopWorkerFinally \/ StopApiFinally
  BY <1>1, <1>10 DEF StopWorkerFinally, StopWorker, StopApiFinally
<1>11. CASE ApiBoots \/ ForeignExits \/ ApiExits \/ WorkerExits
  BY <1>1, <1>11 DEF ApiBoots, ForeignExits, ApiExits, WorkerExits
<1>12. CASE Work
  BY <1>1, <1>12 DEF Work, Claim, Settle
<1>13. CASE UNCHANGED vars
  BY <1>13 DEF vars
<1> QED
  BY <1>2, <1>3, <1>5, <1>6, <1>7, <1>8, <1>9, <1>10, <1>11, <1>12, <1>13 DEF Next, Trial

\* The variables of the trial have their types.
THEOREM TypeCorrect == Spec => []TypeOK
<1>1. Init => ProcessOK /\ TallyOK
  BY TrialAssumption DEF Init, ProcessOK, Points, TallyOK
<1>2. VerdictInv /\ [Next]_vars => VerdictInv'
  BY ReserveStep, DatabaseStep, NumberingStep, QuietStep DEF VerdictInv
<1>3. EvidenceInv /\ [Next]_vars => EvidenceInv'
  BY ReserveStep, ExhaustedStep, StuckStep DEF EvidenceInv
<1>4. VerdictInv => ReserveInv
  BY DEF VerdictInv
<1>5. VerdictInv /\ EvidenceInv /\ ProcessOK /\ TallyOK => TypeOK
  BY DEF VerdictInv, ReserveInv, Numbered, Database, EvidenceInv, Stuck, ProcessOK, Points,
         TallyOK, TypeOK
<1> QED
  BY <1>1, <1>2, <1>3, <1>4, <1>5, VerdictInit, EvidenceInit, ProcessStep, TallyStep, PTL
     DEF Spec
-----------------------------------------------------------------------------
(***************************************************************************)
(* No false alarm: what holds of a trial that nothing has disturbed.       *)
(***************************************************************************)

\* The batches sent so far, and the readings in them.
Sent == BatchCount - left - held
Covered(k) == IF k * BatchSize < args.readings THEN k * BatchSize ELSE args.readings

\* Where an operation is under way that has been counted off the plan.
Underway ==
  \/ pc \in {"probe", "drain", "replay"}
  \/ pc \in {"startApi", "awaitApi", "awaitOutbox"} /\ current # "none"

\* Where the worker is not running.
NoWorker ==
  \/ pc \in {"startApi", "awaitApi"} /\ current = "none"
  \/ pc = "drain" /\ current = "worker_outage"

\* The trial goes on, with its processes as the next step needs them.
Healthy ==
  /\ pc \notin {"abort", "abortApi", "aborted", "failed"}
  /\ pc \in Sending \cup {"plan", "api_outage", "worker_outage", "awaitOutbox", "assert"}
       => api = "up"
  /\ pc = "awaitApi" => api \in {"booting", "up"}
  /\ pc = "probe" => api = "down"
  /\ pc \in Body /\ ~NoWorker => worker = "running"

\* The database holds what was sent.
Recorded == requests = 1..Sent /\ stored = 1..Covered(Sent) /\ accepted = Covered(Sent)

\* Every operation of the plan is still to begin, under way, or counted.
Counted ==
  /\ recovered + Operations + (IF Underway THEN 1 ELSE 0) = PlannedOperations
  /\ replayed + todo["acknowledgement_replay"] + (IF pc = "replay" THEN 1 ELSE 0)
       = args.operations["acknowledgement_replay"]

\* Nothing is held between two operations, and nothing is left at the end.
Emptied ==
  /\ held > 0 => pc \in {"probe", "startApi", "awaitApi", "drain"}
  /\ pc \in {"startApi", "awaitApi"} => (current = "none" <=> held = 0)
  /\ pc = "check" => current = "none"
  /\ pc = "probe" => current # "none"
  /\ pc = "rest" => steady = left /\ current = "none"
  /\ pc \in After \/ (pc = "awaitOutbox" /\ current = "none") => left = 0 /\ held = 0

SoundInv == Undisturbed => Healthy /\ Recorded /\ Counted /\ Emptied

AlarmInv == VerdictInv /\ EvidenceInv /\ TallyOK /\ SoundInv

-----------------------------------------------------------------------------
\* The batches before the last one are full, and the last one ends the readings.
LEMMA LastBatch ==
  ASSUME NEW r \in Nat \ {0}, NEW b \in Nat \ {0}, NEW k \in Nat
  PROVE  /\ k + 1 <= (r + b - 1) \div b => k * b < r
         /\ ((r + b - 1) \div b) * b >= r
<1> DEFINE a == r + b - 1  q == a \div b
<1>1. a \in Nat
  OBVIOUS
<1>2. q \in Int /\ b * q <= a /\ a < b * (q + 1)
  <2> HIDE DEF a
  <2> QED
    BY <1>1, SMT
<1>3. a = r + b - 1
  OBVIOUS
<1> HIDE DEF a, q
<1>4. b * (q + 1) = b * q + b /\ b * q = q * b /\ b * q \in Int
  BY <1>2, SMT
<1>5. q * b >= r
  BY <1>2, <1>3, <1>4
<1>6. ASSUME k + 1 <= q PROVE k * b < r
  <2>1. b * (k + 1) <= b * q
    <3> DEFINE d == q - (k + 1)
    <3>1. d \in Nat /\ q = k + 1 + d
      BY <1>2, <1>6
    <3> HIDE DEF d
    <3>2. b * d \in Nat /\ b * (k + 1 + d) = b * (k + 1) + b * d /\ b * (k + 1) \in Int
      BY <3>1, SMT
    <3> QED
      BY <3>1, <3>2
  <2>2. b * (k + 1) = k * b + b /\ k * b \in Int
    BY SMT
  <2> QED
    BY <1>2, <1>3, <2>1, <2>2
<1> QED
  BY <1>5, <1>6 DEF a, q

LEMMA CoveredType ==
  ASSUME Numbered, NEW k \in Nat
  PROVE  Covered(k) \in Nat /\ Covered(k) <= args.readings
<1>1. args.readings \in Nat /\ k * BatchSize \in Nat
  <2>1. BatchSize \in Nat
    BY TrialAssumption
  <2> QED
    BY <2>1, TrialAssumption DEF Numbered
<1> QED
  BY <1>1 DEF Covered

LEMMA CoveredEnds ==
  ASSUME Numbered
  PROVE  Covered(BatchCount) = args.readings /\ Covered(0) = 0
<1>1. args.readings \in Nat \ {0} /\ BatchSize \in Nat \ {0} /\ BatchCount \in Nat
  BY TrialAssumption, BatchCountIsNat DEF Numbered
<1>2. BatchCount * BatchSize >= args.readings
  BY <1>1, LastBatch DEF BatchCount
<1>3. BatchCount * BatchSize \in Nat /\ 0 * BatchSize = 0
  BY <1>1
<1> QED
  BY <1>1, <1>2, <1>3 DEF Covered

\* The next batch has the readings that follow those sent.
LEMMA NextReadings ==
  ASSUME Numbered, NEW k \in Nat, k + 1 <= BatchCount
  PROVE  /\ ReadingsOf(k + 1) = Covered(k) + 1..Covered(k + 1)
         /\ Covered(k) <= Covered(k + 1)
<1> DEFINE first == k * BatchSize  last == (k + 1) * BatchSize
<1>1. args.readings \in Nat \ {0} /\ BatchSize \in Nat \ {0}
  BY TrialAssumption DEF Numbered
<1>2. first < args.readings
  BY <1>1, LastBatch DEF BatchCount
<1>3. first \in Nat /\ last = first + BatchSize
  BY <1>1
<1>4. Covered(k) = first /\ Covered(k + 1) = IF last < args.readings THEN last ELSE args.readings
  BY <1>2 DEF Covered
<1>5. ReadingsOf(k + 1) = {n \in first + 1..last : n <= args.readings}
  <2>1. k + 1 - 1 = k
    OBVIOUS
  <2> QED
    BY <2>1 DEF ReadingsOf
<1> DEFINE end == Covered(k + 1)
<1>6. end = IF last < args.readings THEN last ELSE args.readings
  BY <1>4
<1>7. Covered(k) = first
  BY <1>4
<1> HIDE DEF first, last, end
<1>8. first <= end /\ end \in Nat
  BY <1>1, <1>2, <1>3, <1>6
<1>9. {n \in first + 1..last : n <= args.readings} = first + 1..end
  BY <1>1, <1>2, <1>3, <1>6
<1> QED
  BY <1>5, <1>7, <1>8, <1>9 DEF end

\* A batch that was sent has no other readings than those that count as sent.
LEMMA SentReadings ==
  ASSUME Numbered, NEW k \in Nat \ {0}
  PROVE  ReadingsOf(k) \subseteq 1..Covered(k)
<1> DEFINE first == (k - 1) * BatchSize  last == k * BatchSize
<1>1. args.readings \in Nat \ {0} /\ BatchSize \in Nat \ {0}
  BY TrialAssumption DEF Numbered
<1>2. first \in Nat /\ last \in Nat
  <2>1. k - 1 \in Nat /\ BatchSize \in Nat
    BY <1>1
  <2> QED
    BY <2>1
<1>3. Covered(k) = IF last < args.readings THEN last ELSE args.readings
  BY DEF Covered
<1>4. ReadingsOf(k) = {n \in first + 1..last : n <= args.readings}
  BY DEF ReadingsOf
<1> HIDE DEF first, last
<1> QED
  BY <1>1, <1>2, <1>3, <1>4

\* Appending the next interval, and its size.
LEMMA IntervalAppend ==
  ASSUME NEW m \in Nat, NEW n \in Nat, m <= n
  PROVE  1..m \cup (m + 1..n) = 1..n /\ Cardinality(m + 1..n) = n - m
<1>1. Cardinality(m + 1..n) = IF m + 1 > n THEN 0 ELSE n - (m + 1) + 1
  BY FS_Interval
<1> QED
  BY <1>1

-----------------------------------------------------------------------------
\* A step after which the trial is still undisturbed disturbs nothing.
LEMMA UndisturbedBefore ==
  ASSUME VerdictInv, faults \in Nat, [Next]_vars, Undisturbed'
  PROVE  Undisturbed /\ ~Fault /\ faults' = faults
<1> USE DEF plan, process, tally, database, Abort
<1>1. ~Fault
  BY DEF Fault, Undisturbed
<1>2. Database
  BY DEF VerdictInv
<1> DEFINE Goal == UNCHANGED <<faults, foreign>> /\ \A e \in Others : event'[e] = "none" => event[e] = "none"
<1>3. Record => \A e \in Others : event'[e] = "none" => event[e] = "none"
  BY <1>2 DEF Record, Database
<1>4. ASSUME Check \/ StartApi \/ AwaitApi \/ NextOperation \/ SteadyOver PROVE Goal
  BY <1>1, <1>4 DEF Check, StartApi, AwaitApi, NextOperation, SteadyOver
<1>5. ASSUME SendSteady("steady") \/ SendSteady("rest") \/ SendHeld \/ SendFirst \/ SendAgain PROVE Goal
  BY <1>3, <1>5 DEF SendSteady, SendHeld, SendFirst, SendAgain, Send
<1>6. ASSUME SendFails \/ Probe PROVE Goal
  BY <1>1, <1>3, <1>6 DEF SendFails, Probe
<1>7. ASSUME StopApi \/ WorkerOutage \/ DrainOver PROVE Goal
  BY <1>1, <1>7 DEF StopApi, WorkerOutage, StopWorker, DrainOver
<1>8. ASSUME AwaitOutbox \/ AssertRunning \/ StopApiFinally \/ Judge \/ Interrupt PROVE Goal
  BY <1>1, <1>8 DEF AwaitOutbox, AssertRunning, StopApiFinally, Judge, Interrupt
<1>9. ASSUME StopWorkerFinally PROVE Goal
  BY <1>1, <1>9 DEF StopWorkerFinally, StopWorker
<1>0. ~ForeignExits
  BY DEF ForeignExits, Undisturbed, CleanStart
<1>10. ASSUME ApiBoots \/ ApiExits \/ WorkerExits PROVE Goal
  BY <1>1, <1>10 DEF ApiBoots, ApiExits, WorkerExits
<1>11. ASSUME Work PROVE Goal
  BY <1>1, <1>2, <1>11 DEF Work, Claim, Settle, Database
<1>12. ASSUME UNCHANGED vars PROVE Goal
  BY <1>12 DEF vars
<1>13. Goal
  BY <1>0, <1>4, <1>5, <1>6, <1>7, <1>8, <1>9, <1>10, <1>11, <1>12 DEF Next, Trial
<1> QED
  BY <1>1, <1>13 DEF Undisturbed, CleanStart

-----------------------------------------------------------------------------
\* The audit finds an unbroken run of numbers complete.
LEMMA FullIsComplete ==
  ASSUME NEW n \in Nat
  PROVE  Complete(1..n, 1, n) /\ Missing(1..n, 1, n) = 0
<1>1. Received(1..n, 1, n) = 1..n
  BY DEF Received
<1>2. Cardinality(1..n) = n
  BY IntervalSize
<1>3. ASSUME NEW m \in 1..n + 1 PROVE Expected(1..n, 1, m) = m
  <2>1. CASE m = 1
    BY <2>1 DEF Expected
  <2>2. CASE m > 1
    <3> DEFINE last == CHOOSE k \in 1..n : k < m /\ \A j \in 1..n : j < m => j <= k
    <3>1. m - 1 \in 1..n /\ m - 1 < m /\ \A j \in 1..n : j < m => j <= m - 1
      BY <2>2
    <3>2. last \in 1..n /\ last < m /\ \A j \in 1..n : j < m => j <= last
      BY <3>1
    <3>3. Expected(1..n, 1, m) = 1 + last
      BY <3>1 DEF Expected
    <3> HIDE DEF last
    <3>4. last = m - 1
      BY <3>1, <3>2
    <3> QED
      BY <3>3, <3>4
  <2> QED
    BY <2>1, <2>2
<1>4. MissingRanges(1..n, 1, n) = {}
  <2>1. \A m \in 1..n \cup {n + 1} : ~(Expected(1..n, 1, m) < m)
    BY <1>3
  <2> QED
    BY <2>1 DEF MissingRanges
<1> QED
  BY <1>1, <1>2, <1>4 DEF Complete, Missing

\* The checks ask for nothing that an undisturbed trial may not have.
LEMMA ChecksHold ==
  ASSUME AlarmInv, Undisturbed, pc = "judge"
  PROVE  Checks
<1>1. /\ Numbered /\ Database /\ Drained /\ Operations = 0 /\ left = 0 /\ held = 0
      /\ Recorded /\ Counted
  BY DEF AlarmInv, VerdictInv, ReserveInv, Quiet, EvidenceInv, Exhausted, SoundInv, Emptied, After
<1>2. BatchCount \in Nat /\ args.readings \in Nat
  BY <1>1, BatchCountIsNat, TrialAssumption DEF Numbered
<1>3. Sent = BatchCount
  BY <1>1, <1>2 DEF Sent
<1>4. requests = 1..BatchCount /\ stored = 1..args.readings /\ accepted = args.readings
  BY <1>1, <1>3, CoveredEnds DEF Recorded
<1>5. IsFiniteSet(1..BatchCount) /\ Cardinality(1..BatchCount) = BatchCount
  BY <1>2, IntervalSize
<1>6. \A e \in DOMAIN event : event[e] \in {"none", "published"}
  BY <1>1 DEF Drained
<1>7. CountOf("pending") = 0 /\ CountOf("dead") = 0
  BY <1>6, FS_EmptySet DEF CountOf
<1>8. {e \in DOMAIN event : event[e] = "published"} = 1..BatchCount
  <2>1. DOMAIN event = Batches \cup Others /\ Batches = 1..BatchCount
    BY <1>1 DEF Database, Batches
  <2>2. \A b \in Batches : event[b] = "published"
    BY <1>1, <1>4, <1>6, <2>1 DEF Database
  <2>3. \A e \in Others : event[e] # "published"
    BY DEF Undisturbed, CleanStart
  <2> QED
    BY <2>1, <2>2, <2>3
<1>9. /\ recovered = PlannedOperations
      /\ replayed = args.operations["acknowledgement_replay"]
  <2>1. todo["acknowledgement_replay"] = 0
    BY <1>1 DEF Numbered, Operations, Kinds
  <2>2. recovered \in Nat /\ replayed \in Nat
    BY DEF AlarmInv, TallyOK
  <2> QED
    BY <1>1, <2>1, <2>2 DEF Counted, Underway
<1>10. Complete(stored, 1, args.readings) /\ Missing(stored, 1, args.readings) = 0
  BY <1>2, <1>4, FullIsComplete
<1> QED
  BY <1>4, <1>5, <1>7, <1>8, <1>9, <1>10 DEF Checks, CountOf

-----------------------------------------------------------------------------
LEMMA HealthyStep ==
  ASSUME AlarmInv, [Next]_vars, Undisturbed, ~Fault
  PROVE  Healthy'
<1> USE DEF plan, process, tally, database, Abort, Body, Sending, NoWorker
<1>1. Healthy /\ Emptied /\ Reserve /\ Exhausted /\ foreign = "none" /\ current \in Kinds \cup {"none"}
  BY DEF AlarmInv, VerdictInv, ReserveInv, Numbered, EvidenceInv, SoundInv, Undisturbed, CleanStart
<1>2. ASSUME UNCHANGED <<pc, current, api, worker>> PROVE Healthy'
  BY <1>1, <1>2 DEF Healthy
<1>3. ASSUME Check \/ StartApi \/ NextOperation PROVE Healthy'
  BY <1>1, <1>3 DEF Check, StartApi, NextOperation, Healthy, Emptied
<1>4. ASSUME AwaitApi PROVE Healthy'
  <2>1. api \in {"booting", "up"} /\ ~Fault
    BY <1>1, <1>4 DEF AwaitApi, Healthy
  <2>2. api = "up"
    BY <1>1, <1>4, <2>1 DEF AwaitApi, Answering
  <2> QED
    BY <1>1, <1>4, <2>1, <2>2 DEF AwaitApi, Healthy
<1>5. ASSUME SteadyOver PROVE Healthy'
  <2>1. pc = "steady" => current \in Kinds
    BY <1>1 DEF Reserve
  <2> QED
    BY <1>1, <1>5, <2>1 DEF SteadyOver, Healthy, Kinds
<1>6. ASSUME SendSteady("steady") \/ SendSteady("rest") \/ SendHeld PROVE Healthy'
  BY <1>2, <1>6 DEF SendSteady, SendHeld, Send
<1>7. ASSUME SendFirst \/ SendAgain PROVE Healthy'
  BY <1>1, <1>7 DEF SendFirst, SendAgain, Send, Healthy
<1>8. ~SendFails
  BY <1>1 DEF SendFails, ToSend, Healthy
<1>9. ASSUME StopApi PROVE Healthy'
  BY <1>1, <1>9 DEF StopApi, Hold, Healthy
<1>10. ASSUME Probe PROVE Healthy'
  <2>1. ~Answering
    BY <1>1, <1>10 DEF Probe, Healthy, Answering
  <2> QED
    BY <1>1, <1>10, <2>1 DEF Probe, ProbeFails, Healthy
<1>11. ASSUME WorkerOutage PROVE Healthy'
  <2>1. current = "worker_outage"
    BY <1>1, <1>11 DEF WorkerOutage, Reserve, Kinds
  <2> QED
    BY <1>1, <1>11, <2>1 DEF WorkerOutage, Hold, Healthy
<1>12. ASSUME DrainOver PROVE Healthy'
  BY <1>1, <1>12 DEF DrainOver, Healthy
<1>13. ASSUME AwaitOutbox PROVE Healthy'
  BY <1>1, <1>13 DEF AwaitOutbox, Healthy
<1>14. ASSUME AssertRunning PROVE Healthy'
  BY <1>1, <1>14 DEF AssertRunning, Healthy
<1>15. ~Interrupt
  BY DEF Interrupt
<1>16. ASSUME StopWorkerFinally \/ StopApiFinally PROVE Healthy'
  BY <1>1, <1>16 DEF StopWorkerFinally, StopApiFinally, Healthy
<1>17. ASSUME Judge PROVE Healthy'
  <2>1. Checks
    BY <1>17, ChecksHold DEF Judge
  <2> QED
    BY <1>1, <1>17, <2>1 DEF Judge, Healthy
<1>18. ASSUME ApiBoots PROVE Healthy'
  BY <1>1, <1>18 DEF ApiBoots, Healthy
<1>19. ~ForeignExits /\ ~ApiExits /\ ~WorkerExits
  BY <1>1 DEF ForeignExits, ApiExits, WorkerExits
<1>20. ASSUME Work PROVE Healthy'
  BY <1>2, <1>20 DEF Work, Claim, Settle
<1>21. ASSUME UNCHANGED vars PROVE Healthy'
  BY <1>2, <1>21 DEF vars
<1> QED
  BY <1>3, <1>4, <1>5, <1>6, <1>7, <1>8, <1>9, <1>10, <1>11, <1>12, <1>13, <1>14, <1>15,
     <1>16, <1>17, <1>18, <1>19, <1>20, <1>21 DEF Next, Trial

LEMMA EmptiedStep ==
  ASSUME AlarmInv, [Next]_vars, Undisturbed, ~Fault
  PROVE  Emptied'
<1> USE DEF plan, process, tally, database, Abort, After
<1>1. /\ Emptied /\ Reserve /\ Exhausted /\ Healthy /\ foreign = "none"
      /\ current \in Kinds \cup {"none"} /\ left \in Nat /\ held \in Nat /\ steady \in Nat
      /\ (pc = "probe" => held > 0)
  BY DEF AlarmInv, VerdictInv, Numbering, ReserveInv, Numbered, EvidenceInv, SoundInv,
         Undisturbed, CleanStart
<1>2. ASSUME UNCHANGED <<pc, current, left, held, steady>> PROVE Emptied'
  BY <1>1, <1>2 DEF Emptied
<1>3. ASSUME Check \/ StartApi \/ AwaitApi PROVE Emptied'
  BY <1>1, <1>3 DEF Check, StartApi, AwaitApi, Emptied, Healthy
<1>4. ASSUME NextOperation PROVE Emptied'
  BY <1>1, <1>4 DEF NextOperation, Emptied
<1>5. ASSUME SteadyOver PROVE Emptied'
  <2>1. CASE pc = "steady"
    <3>1. current \in Kinds
      BY <1>1, <2>1 DEF Reserve
    <3> QED
      BY <1>1, <1>5, <2>1, <3>1 DEF SteadyOver, Emptied, Kinds
  <2>2. CASE pc = "rest"
    BY <1>1, <1>5, <2>2 DEF SteadyOver, Emptied
  <2> QED
    BY <1>5, <2>1, <2>2 DEF SteadyOver
<1>6. ASSUME SendSteady("steady") \/ SendSteady("rest") PROVE Emptied'
  BY <1>1, <1>6 DEF SendSteady, Send, Emptied
<1>7. ASSUME SendHeld PROVE Emptied'
  BY <1>1, <1>7 DEF SendHeld, Send, Emptied
<1>8. ASSUME SendFirst \/ SendAgain PROVE Emptied'
  BY <1>1, <1>8 DEF SendFirst, SendAgain, Send, Emptied
<1>9. ~SendFails /\ ~Interrupt /\ ~ForeignExits /\ ~ApiExits /\ ~WorkerExits
  BY <1>1 DEF SendFails, ToSend, Healthy, Sending, Interrupt, ForeignExits, ApiExits, WorkerExits,
              Undisturbed, CleanStart
<1>10. ASSUME StopApi \/ WorkerOutage PROVE Emptied'
  <2>1. current = pc
    BY <1>1, <1>10 DEF StopApi, WorkerOutage, Reserve, Kinds
  <2> QED
    BY <1>1, <1>10, <2>1 DEF StopApi, WorkerOutage, Hold, Emptied
<1>11. ASSUME Probe PROVE Emptied'
  BY <1>1, <1>11 DEF Probe, ProbeFails, Answering, Healthy, Emptied
<1>12. ASSUME DrainOver PROVE Emptied'
  BY <1>1, <1>12 DEF DrainOver, Emptied, Exhausted, Kinds
<1>13. ASSUME AwaitOutbox \/ AssertRunning PROVE Emptied'
  BY <1>1, <1>13 DEF AwaitOutbox, AssertRunning, Emptied
<1>14. ASSUME StopWorkerFinally \/ StopApiFinally \/ Judge PROVE Emptied'
  BY <1>1, <1>14 DEF StopWorkerFinally, StopApiFinally, Judge, Emptied
<1>15. ASSUME ApiBoots \/ Work PROVE Emptied'
  BY <1>2, <1>15 DEF ApiBoots, Work, Claim, Settle
<1>16. ASSUME UNCHANGED vars PROVE Emptied'
  BY <1>2, <1>16 DEF vars
<1> QED
  BY <1>3, <1>4, <1>5, <1>6, <1>7, <1>8, <1>9, <1>10, <1>11, <1>12, <1>13, <1>14, <1>15,
     <1>16 DEF Next, Trial

-----------------------------------------------------------------------------
\* What a batch that is sent for the first time adds to the database.
LEMMA RecordedNext ==
  ASSUME Numbered, Recorded, Batch = Sent + 1, Batch \in Batches, Sent \in Nat,
         Record, Accept, args' = args, Sent' = Sent + 1
  PROVE  Recorded'
<1> DEFINE k == Sent
<1>1. BatchCount \in Nat /\ k \in Nat /\ k + 1 <= BatchCount
  BY BatchCountIsNat DEF Batches
<1>2. /\ requests = 1..k /\ stored = 1..Covered(k) /\ accepted = Covered(k)
      /\ requests' = requests \cup {k + 1} /\ stored' = stored \cup ReadingsOf(k + 1)
      /\ accepted' = accepted + Cardinality(ReadingsOf(k + 1))
  BY DEF Recorded, Record, Accept
<1>3. Covered(Sent)' = Covered(k + 1)
  BY DEF Covered
<1>4. Recorded' <=> /\ requests' = 1..k + 1 /\ stored' = 1..Covered(k + 1)
                    /\ accepted' = Covered(k + 1)
  BY <1>3 DEF Recorded
<1> HIDE DEF k
<1>5. /\ Covered(k) \in Nat /\ Covered(k + 1) \in Nat /\ Covered(k) <= Covered(k + 1)
      /\ ReadingsOf(k + 1) = Covered(k) + 1..Covered(k + 1)
  BY <1>1, CoveredType, NextReadings
<1>6. /\ 1..Covered(k) \cup ReadingsOf(k + 1) = 1..Covered(k + 1)
      /\ Cardinality(ReadingsOf(k + 1)) = Covered(k + 1) - Covered(k)
  BY <1>5, IntervalAppend
<1>7. 1..k \cup {k + 1} = 1..k + 1
  BY <1>1
<1>8. accepted' = Covered(k + 1)
  BY <1>2, <1>5, <1>6
<1> QED
  BY <1>2, <1>4, <1>6, <1>7, <1>8

\* A batch that is sent again adds nothing.
LEMMA RecordedAgain ==
  ASSUME Numbered, Recorded, Batch = Sent, Batch \in Batches,
         Record, UNCHANGED <<args, accepted>>, Sent' = Sent
  PROVE  Recorded'
<1>1. BatchCount \in Nat
  BY BatchCountIsNat
<1>2. Sent \in Nat \ {0} /\ Sent \in 1..Sent
  BY <1>1 DEF Batches
<1>3. ReadingsOf(Sent) \subseteq 1..Covered(Sent)
  BY <1>2, SentReadings
<1>4. requests' = requests /\ stored' = stored
  BY <1>2, <1>3 DEF Recorded, Record
<1>5. Covered(Sent)' = Covered(Sent)
  BY DEF Covered
<1> QED
  BY <1>4, <1>5 DEF Recorded

LEMMA RecordedStays ==
  ASSUME Recorded, UNCHANGED <<args, requests, stored, accepted>>, Sent' = Sent
  PROVE  Recorded'
BY DEF Recorded, Covered

LEMMA RecordedStep ==
  ASSUME AlarmInv, [Next]_vars, Undisturbed, ~Fault
  PROVE  Recorded'
<1> USE DEF plan, process, tally, database
<1>1. /\ Numbered /\ Numbering /\ ReserveInv /\ Healthy /\ Emptied /\ Recorded /\ foreign = "none"
      /\ left \in Nat /\ held \in Nat /\ BatchCount \in Nat /\ args.buffer \in Nat
  BY BatchCountIsNat, ReservedIsNat
     DEF AlarmInv, VerdictInv, ReserveInv, Numbered, SoundInv, Undisturbed, CleanStart
<1>2. Sent \in Nat
  BY <1>1 DEF Sent, Numbering
<1>3. args' = args => BatchCount' = BatchCount
  BY DEF BatchCount
<1>4. ASSUME UNCHANGED <<args, left, held, requests, stored, accepted>> PROVE Recorded'
  <2>1. Sent' = Sent
    BY <1>3, <1>4 DEF Sent
  <2> QED
    BY <1>1, <1>4, <2>1, RecordedStays
<1>5. ASSUME Check \/ StartApi \/ AwaitApi \/ NextOperation \/ SteadyOver \/ DrainOver
      PROVE Recorded'
  BY <1>4, <1>5 DEF Check, StartApi, AwaitApi, NextOperation, SteadyOver, DrainOver
<1>6. ASSUME NEW step \in {"steady", "rest", "drain", "acknowledgement_replay"},
             Send(step, FALSE), Accept, left' + held' = left + held - 1,
             left' \in Int, held' \in Int
      PROVE  Recorded'
  <2>1. pc = step /\ ToSend /\ Record /\ args' = args
    BY <1>6 DEF Send
  <2>2. Batch = Sent + 1
    BY <2>1 DEF Batch, Sent
  <2>3. Batch \in Batches
    BY <1>1, <2>1, SentIsABatch
  <2>4. Sent' = Sent + 1
    <3>1. Sent' = BatchCount - left' - held'
      BY <1>3, <2>1 DEF Sent
    <3>2. Sent = BatchCount - left - held
      BY DEF Sent
    <3>3. left \in Nat /\ held \in Nat /\ BatchCount \in Nat
      BY <1>1
    <3>4. left' \in Int /\ held' \in Int /\ left' + held' = left + held - 1
      BY <1>6
    <3> DEFINE n == BatchCount  l == left'  h == held'
    <3> HIDE DEF n, l, h
    <3>5. n \in Nat /\ l \in Int /\ h \in Int /\ l + h = left + held - 1
      BY <3>3, <3>4 DEF n, l, h
    <3>6. n - l - h = n - left - held + 1
      BY <3>3, <3>5
    <3> QED
      BY <3>1, <3>2, <3>6 DEF n, l, h
  <2> QED
    BY <1>1, <1>2, <1>6, <2>1, <2>2, <2>3, <2>4, RecordedNext
<1>7. ASSUME SendSteady("steady") \/ SendSteady("rest") PROVE Recorded'
  <2>1. left' = left - 1 /\ held' = held
    BY <1>7 DEF SendSteady
  <2>2. left' + held' = left + held - 1 /\ left' \in Int /\ held' \in Int
    BY <1>1, <2>1
  <2> QED
    BY <1>6, <1>7, <2>2 DEF SendSteady
<1>8. ASSUME SendHeld PROVE Recorded'
  <2>1. left' = left /\ held' = held - 1
    BY <1>8 DEF SendHeld
  <2>2. left' + held' = left + held - 1 /\ left' \in Int /\ held' \in Int
    BY <1>1, <2>1
  <2> QED
    BY <1>6, <1>8, <2>2 DEF SendHeld
<1>9. ASSUME SendFirst PROVE Recorded'
  <2>1. left' = left - 1 /\ held' = held
    BY <1>9 DEF SendFirst
  <2>2. left' + held' = left + held - 1 /\ left' \in Int /\ held' \in Int
    BY <1>1, <2>1
  <2> QED
    BY <1>6, <1>9, <2>2 DEF SendFirst
<1>10. ASSUME SendAgain PROVE Recorded'
  <2>1. /\ pc = "replay" /\ ToSend /\ Record
        /\ UNCHANGED <<args, left, held, accepted>>
    BY <1>10 DEF SendAgain, Send
  <2>2. Batch = Sent
    BY <1>1, <2>1 DEF Batch, Sent
  <2>3. Batch \in Batches
    BY <1>1, <2>1, SentIsABatch
  <2>4. Sent' = Sent
    BY <1>3, <2>1 DEF Sent
  <2> QED
    BY <1>1, <2>1, <2>2, <2>3, <2>4, RecordedAgain
<1>11. ~SendFails /\ ~Interrupt /\ ~ForeignExits /\ ~ApiExits /\ ~WorkerExits
  BY <1>1 DEF SendFails, ToSend, Healthy, Sending, Interrupt, ForeignExits, ApiExits, WorkerExits,
              Undisturbed, CleanStart
<1>12. ASSUME StopApi \/ WorkerOutage PROVE Recorded'
  <2>1. /\ pc \in {"api_outage", "worker_outage"} /\ Hold
        /\ UNCHANGED <<requests, stored, accepted>>
    BY <1>12 DEF StopApi, WorkerOutage
  <2>2. held = 0
    BY <1>1, <2>1 DEF Emptied
  <2>3. left' = left - args.buffer /\ held' = args.buffer /\ args' = args
    BY <2>1 DEF Hold
  <2>4. Sent' = Sent
    BY <1>1, <1>3, <2>2, <2>3 DEF Sent
  <2> QED
    BY <1>1, <2>1, <2>3, <2>4, RecordedStays
<1>13. ASSUME Probe PROVE Recorded'
  <2>1. ~Answering
    BY <1>1, <1>13 DEF Probe, Healthy, Answering
  <2> QED
    BY <1>4, <1>13, <2>1 DEF Probe
<1>14. ASSUME AwaitOutbox \/ AssertRunning \/ StopWorkerFinally \/ StopApiFinally \/ Judge
       PROVE  Recorded'
  BY <1>4, <1>14 DEF AwaitOutbox, AssertRunning, StopWorkerFinally, StopApiFinally, Judge
<1>15. ASSUME ApiBoots \/ Work PROVE Recorded'
  BY <1>4, <1>15 DEF ApiBoots, Work, Claim, Settle
<1>16. ASSUME UNCHANGED vars PROVE Recorded'
  BY <1>4, <1>16 DEF vars
<1> QED
  BY <1>5, <1>7, <1>8, <1>9, <1>10, <1>11, <1>12, <1>13, <1>14, <1>15, <1>16
     DEF Next, Trial

-----------------------------------------------------------------------------
\* An operation that begins is one less to begin.
LEMMA OneOperationLess ==
  ASSUME Numbered, NEW k \in Kinds, todo[k] > 0, todo' = [todo EXCEPT ![k] = @ - 1]
  PROVE  Operations' = Operations - 1 /\ Operations \in Nat /\ Operations' \in Nat
BY DEF Numbered, Operations, Kinds

\* A step that begins an operation, and one that ends it.
LEMMA CountedStep ==
  ASSUME AlarmInv, [Next]_vars, Undisturbed, ~Fault
  PROVE  Counted'
<1> USE DEF plan, process, tally, database, Abort
<1> DEFINE replays == todo["acknowledgement_replay"]
           planned == args.operations["acknowledgement_replay"]
<1>1. /\ Numbered /\ Reserve /\ Exhausted /\ Healthy /\ Emptied /\ Counted /\ foreign = "none"
      /\ current \in Kinds \cup {"none"}
  BY DEF AlarmInv, VerdictInv, ReserveInv, Numbered, EvidenceInv, SoundInv, Undisturbed,
         CleanStart
<1>2. Operations \in Nat /\ replays \in Nat /\ recovered \in Nat /\ replayed \in Nat
  BY <1>1, ReservedIsNat DEF AlarmInv, TallyOK, Numbered, Kinds
<1>3. args' = args => PlannedOperations' = PlannedOperations /\ planned' = planned
  BY DEF PlannedOperations
<1>4. ASSUME UNCHANGED <<args, todo, recovered, replayed>>, Underway' = Underway,
             (pc' = "replay") = (pc = "replay")
      PROVE  Counted'
  <2>1. Operations' = Operations
    BY <1>4 DEF Operations
  <2> QED
    BY <1>1, <1>3, <1>4, <2>1 DEF Counted
<1>5. ASSUME Check \/ StartApi PROVE Counted'
  BY <1>1, <1>4, <1>5 DEF Check, StartApi, Emptied, Underway
<1>6. ASSUME AwaitApi PROVE Counted'
  <2>1. ~(api = "exited")
    BY <1>1, <1>6 DEF AwaitApi, Healthy
  <2> QED
    BY <1>1, <1>4, <1>6, <2>1 DEF AwaitApi, Underway
<1>7. ASSUME NextOperation PROVE Counted'
  BY <1>4, <1>7 DEF NextOperation, Underway
<1>8. ASSUME SteadyOver PROVE Counted'
  <2>1. pc = "steady" => current \in Kinds
    BY <1>1 DEF Reserve
  <2>2. pc = "rest" => current = "none"
    BY <1>1 DEF Emptied
  <2> QED
    BY <1>4, <1>8, <2>1, <2>2 DEF SteadyOver, Underway, Kinds
<1>9. ASSUME SendSteady("steady") \/ SendSteady("rest") \/ SendHeld PROVE Counted'
  BY <1>4, <1>9 DEF SendSteady, SendHeld, Send, Underway
<1>10. ASSUME SendFirst PROVE Counted'
  <2>1. /\ pc = "acknowledgement_replay" /\ pc' = "replay" /\ current = pc /\ todo[current] > 0
        /\ todo' = [todo EXCEPT ![current] = @ - 1] /\ UNCHANGED <<args, recovered, replayed>>
    BY <1>1, <1>10 DEF SendFirst, Send, Reserve, Kinds
  <2>2. Operations' = Operations - 1 /\ Operations' \in Nat
    BY <1>1, <2>1, OneOperationLess DEF Kinds
  <2>3. replays' = replays - 1
    BY <1>1, <2>1 DEF Numbered, Kinds
  <2>4. ~Underway /\ Underway'
    BY <2>1 DEF Underway
  <2> HIDE DEF replays, planned
  <2> QED
    BY <1>1, <1>2, <1>3, <2>1, <2>2, <2>3, <2>4 DEF Counted, replays, planned
<1>11. ASSUME SendAgain PROVE Counted'
  <2>1. /\ pc = "replay" /\ pc' = "plan" /\ UNCHANGED <<args, todo>>
        /\ recovered' = recovered + 1 /\ replayed' = replayed + 1
    BY <1>11 DEF SendAgain, Send
  <2>2. Operations' = Operations /\ Underway /\ ~Underway'
    BY <2>1 DEF Operations, Underway
  <2> QED
    BY <1>1, <1>2, <1>3, <2>1, <2>2 DEF Counted
<1>12. ~SendFails /\ ~Interrupt /\ ~ForeignExits /\ ~ApiExits /\ ~WorkerExits
  BY <1>1 DEF SendFails, ToSend, Healthy, Sending, Interrupt, ForeignExits, ApiExits, WorkerExits,
              Undisturbed, CleanStart
<1>13. ASSUME StopApi \/ WorkerOutage PROVE Counted'
  <2>1. /\ pc \in {"api_outage", "worker_outage"} /\ pc' \in {"probe", "drain"} /\ Hold
        /\ UNCHANGED <<recovered, replayed>>
    BY <1>13 DEF StopApi, WorkerOutage
  <2>2. /\ current = pc /\ todo[current] > 0 /\ current \in Kinds /\ args' = args
        /\ todo' = [todo EXCEPT ![current] = @ - 1]
    BY <1>1, <2>1 DEF Hold, Reserve, Kinds
  <2>3. Operations' = Operations - 1 /\ Operations' \in Nat
    BY <1>1, <2>2, OneOperationLess
  <2>4. replays' = replays
    BY <1>1, <2>1, <2>2 DEF Numbered
  <2>5. ~Underway /\ Underway' /\ pc # "replay" /\ pc' # "replay"
    BY <2>1 DEF Underway
  <2> QED
    BY <1>1, <1>2, <1>3, <2>1, <2>2, <2>3, <2>4, <2>5 DEF Counted
<1>14. ASSUME Probe PROVE Counted'
  <2>1. ~Answering /\ current # "none"
    BY <1>1, <1>14 DEF Probe, Healthy, Answering, Emptied
  <2> QED
    BY <1>4, <1>14, <2>1 DEF Probe, ProbeFails, Underway
<1>15. ASSUME DrainOver PROVE Counted'
  <2>1. pc = "drain" /\ current \in Kinds /\ current # "none" /\ UNCHANGED <<args, todo, replayed>>
    BY <1>1, <1>15 DEF DrainOver, Exhausted, Kinds
  <2>2. CASE current = "api_outage"
    <3>1. pc' = "plan" /\ recovered' = recovered + 1
      BY <1>15, <2>2 DEF DrainOver
    <3>2. Operations' = Operations /\ Underway /\ ~Underway'
      BY <2>1, <3>1 DEF Operations, Underway
    <3> QED
      BY <1>1, <1>2, <1>3, <2>1, <3>1, <3>2 DEF Counted
  <2>3. CASE current # "api_outage"
    BY <1>4, <1>15, <2>1, <2>3 DEF DrainOver, Underway
  <2> QED
    BY <2>2, <2>3
<1>16. ASSUME AwaitOutbox PROVE Counted'
  <2>1. pc = "awaitOutbox" /\ UNCHANGED <<args, todo, replayed, current>> /\ Drained
    BY <1>16 DEF AwaitOutbox
  <2>2. CASE current = "none"
    BY <1>4, <1>16, <2>1, <2>2 DEF AwaitOutbox, Underway
  <2>3. CASE current # "none"
    <3>1. pc' = "plan" /\ recovered' = recovered + 1
      BY <1>16, <2>1, <2>3 DEF AwaitOutbox
    <3>2. Operations' = Operations /\ Underway /\ ~Underway'
      BY <2>1, <2>3, <3>1 DEF Operations, Underway
    <3> QED
      BY <1>1, <1>2, <1>3, <2>1, <3>1, <3>2 DEF Counted
  <2> QED
    BY <2>2, <2>3
<1>17. ASSUME AssertRunning \/ StopWorkerFinally \/ StopApiFinally \/ Judge PROVE Counted'
  BY <1>4, <1>17 DEF AssertRunning, StopWorkerFinally, StopApiFinally, Judge, Underway
<1>18. ASSUME ApiBoots \/ Work PROVE Counted'
  BY <1>4, <1>18 DEF ApiBoots, Work, Claim, Settle, Underway
<1>19. ASSUME UNCHANGED vars PROVE Counted'
  BY <1>4, <1>19 DEF vars, Underway
<1> QED
  BY <1>5, <1>6, <1>7, <1>8, <1>9, <1>10, <1>11, <1>12, <1>13, <1>14, <1>15, <1>16, <1>17,
     <1>18, <1>19 DEF Next, Trial

LEMMA SoundInit == Init => SoundInv
<1> SUFFICES ASSUME Init PROVE SoundInv
  OBVIOUS
<1>1. Numbered /\ BatchCount \in Nat
  BY ReserveInit, BatchCountIsNat DEF ReserveInv
<1>2. Sent = 0
  BY <1>1 DEF Init, Sent
<1>3. Recorded
  BY <1>1, <1>2, CoveredEnds DEF Init, Recorded
<1>4. Healthy /\ Emptied
  BY DEF Init, Healthy, Emptied, Body, Sending, After
<1>5. Counted
  <2>1. Operations = PlannedOperations /\ ~Underway /\ Operations \in Nat
    BY <1>1, ReservedIsNat DEF Init, Operations, PlannedOperations, Underway
  <2>2. todo["acknowledgement_replay"] \in Nat
    BY <1>1 DEF Numbered, Kinds
  <2> QED
    BY <2>1, <2>2 DEF Init, Counted
<1> QED
  BY <1>3, <1>4, <1>5 DEF SoundInv

\* On a clean database and a free port, and not disturbed, no trial is aborted
\* and no check fails, whatever the plan, the batch size, and the moments at
\* which the API boots and the worker claims and publishes.
THEOREM TrialRaisesNoFalseAlarm == Spec => []NoFalseAlarm
<1>1. Init => AlarmInv
  BY SoundInit, VerdictInit, EvidenceInit, TrialAssumption DEF Init, AlarmInv, TallyOK
<1>2. AlarmInv /\ [Next]_vars => AlarmInv'
  <2> SUFFICES ASSUME AlarmInv, [Next]_vars PROVE AlarmInv'
    OBVIOUS
  <2>1. VerdictInv' /\ EvidenceInv' /\ TallyOK'
    BY ReserveStep, DatabaseStep, NumberingStep, QuietStep, ExhaustedStep, StuckStep, TallyStep
       DEF AlarmInv, VerdictInv, EvidenceInv
  <2>2. SoundInv'
    <3> SUFFICES ASSUME Undisturbed' PROVE (Healthy /\ Recorded /\ Counted /\ Emptied)'
      BY DEF SoundInv
    <3>1. Undisturbed /\ ~Fault
      BY UndisturbedBefore DEF AlarmInv, TallyOK
    <3> QED
      BY <3>1, HealthyStep, RecordedStep, CountedStep, EmptiedStep
  <2> QED
    BY <2>1, <2>2 DEF AlarmInv
<1>3. AlarmInv => NoFalseAlarm
  BY DEF AlarmInv, SoundInv, Healthy, NoFalseAlarm
<1> QED
  BY <1>1, <1>2, <1>3, PTL DEF Spec
=============================================================================
