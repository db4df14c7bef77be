---------------------------- MODULE OutboxProofs ----------------------------
(***************************************************************************)
(* Theorems about Outbox for every set of events and workers and every     *)
(* batch size, timeout, attempt limit and clock error.                     *)
(***************************************************************************)
EXTENDS Outbox, FiniteSetTheorems, TLAPS

(***************************************************************************)
(* The inductive invariant behind the handoff properties.                  *)
(***************************************************************************)

\* A worker between two batches has no publish result in hand.
IdleHasNoOutcome == \A w \in Workers : batch[w] = {} => outcome[w] = "none"

\* A claimed event whose lock was never taken over is still its claimer's.
UnexcusedIsOwned ==
  \A e \in Events, w \in Workers : e \in batch[w] => e \in excused \/ Owns(w, e)

\* A worker about to call mark_published has delivered the event.
ReturnedWasDelivered ==
  \A w \in Workers, e \in Events : PublishReturned(w, e) => delivered[e] > 0

\* A delivered event without an excuse is published, or its only claimer is
\* about to mark it, or that claimer crashed and the lock remains.
UnexcusedDelivery ==
  \A e \in Events : e \in excused \/
    /\ delivered[e] <= 1
    /\ delivered[e] = 1 =>
         \/ status[e] = "published"
         \/ /\ status[e] = "processing"
            /\ \A w \in Workers : e \in batch[w] => PublishReturned(w, e)

\* An event that is not dead has an attempt left, counting one per replay.
AttemptLeft ==
  \A e \in Events : /\ attempts[e] <= MaxAttempts + replays[e]
                    /\ status[e] # "dead" => attempts[e] < MaxAttempts + replays[e]
                    /\ status[e] = "dead" => attempts[e] >= MaxAttempts

HandoffInv ==
  /\ TypeOK
  /\ IdleHasNoOutcome
  /\ UnexcusedIsOwned
  /\ ReturnedWasDelivered
  /\ UnexcusedDelivery
  /\ PublishedWasDelivered

-----------------------------------------------------------------------------
USE EventsAssumption, WorkersAssumption, BoundsAssumption

\* Backoff is a number of seconds.
LEMMA BackoffType == \A n \in Nat : Backoff(n) \in Int
  BY DEF Backoff, Smaller

LEMMA LaterType == \A t, floor \in Int : Later(t, floor) \in Int
  BY DEF Later

LEMMA DeliveredType ==
  delivered \in [Events -> 0..2] =>
    \A e \in Events : Delivered(e) \in [Events -> 0..2]
  BY DEF Delivered, Smaller

LEMMA TypeInit == Init => TypeOK
  BY DEF Init, TypeOK

LEMMA TypeStep == TypeOK /\ [Next]_vars => TypeOK'
<1> SUFFICES ASSUME TypeOK, [Next]_vars PROVE TypeOK'
  OBVIOUS
<1> USE DEF TypeOK
<1>1. ASSUME NEW e \in Events, Insert(e) PROVE TypeOK'
  BY <1>1 DEF Insert, worker
<1>2. ASSUME NEW e \in Events, ReplayEvent(e) PROVE TypeOK'
  BY <1>2 DEF ReplayEvent, Unlock, worker
<1>3. ASSUME NEW w \in Workers, Claim(w) PROVE TypeOK'
  <2>1. PICK now \in Skew, skipped \in SUBSET Skippable(w), claimed \in SUBSET Events :
          Claim(w)!(now, skipped, claimed)
    BY <1>3 DEF Claim
  <2>2. now \in Int
    BY DEF Skew
  <2>3. /\ status' \in [Events -> {"absent", "pending", "processing", "published", "dead"}]
        /\ lockedAt' \in [Events -> Int \cup {None}]
        /\ lockedBy' \in [Events -> Workers \cup {None}]
    BY <2>1, <2>2
  <2>4. /\ batch' \in [Workers -> SUBSET Events]
        /\ elapsed' \in [Workers -> Nat]
        /\ excused' \subseteq Events
    BY <2>1
  <2> QED
    BY <2>1, <2>3, <2>4
<1>4. ASSUME NEW w \in Workers, NEW e \in Events, PublishOk(w, e) PROVE TypeOK'
  <2>1. delivered' \in [Events -> 0..2] /\ outcome' \in [Workers -> {"none", "ok", "error"}]
    BY <1>4, DeliveredType DEF PublishOk
  <2> QED
    BY <2>1, <1>4 DEF PublishOk, row
<1>5. ASSUME NEW w \in Workers, NEW e \in Events, PublishError(w, e) PROVE TypeOK'
  <2>0. \/ delivered' = delivered /\ excused' = excused
        \/ delivered' = Delivered(e) /\ excused' = excused \cup {e}
    BY <1>5 DEF PublishError
  <2>1. delivered' \in [Events -> 0..2] /\ excused' \subseteq Events
    <3>1. Delivered(e) \in [Events -> 0..2]
      BY DeliveredType
    <3> QED
      BY <2>0, <3>1
  <2>2. outcome' \in [Workers -> {"none", "ok", "error"}]
    BY <1>5 DEF PublishError
  <2> QED
    BY <2>1, <2>2, <1>5 DEF PublishError, row
<1>6. ASSUME NEW w \in Workers, NEW e \in Events, MarkPublished(w, e) PROVE TypeOK'
  BY <1>6 DEF MarkPublished, Unlock, NextOfBatch
<1>7. ASSUME NEW w \in Workers, NEW e \in Events, MarkFailed(w, e) PROVE TypeOK'
  <2>1. availableAt' \in [Events -> Int]
    BY <1>7, BackoffType DEF MarkFailed, Skew
  <2> QED
    BY <2>1, <1>7 DEF MarkFailed, Unlock, NextOfBatch, AfterFailure
<1>8. ASSUME NEW w \in Workers, NEW e \in Events, MarkRefused(w, e) PROVE TypeOK'
  BY <1>8 DEF MarkRefused, NextOfBatch, row
<1>9. ASSUME NEW w \in Workers, Crash(w) PROVE TypeOK'
  BY <1>9 DEF Crash, row
<1>10. ASSUME NEW w \in Workers, RequestStop(w) PROVE TypeOK'
  BY <1>10 DEF RequestStop, row
<1>11. ASSUME NEW w \in Workers, Stop(w) PROVE TypeOK'
  BY <1>11 DEF Stop, row
<1>12. ASSUME NEW w \in Workers, Start(w) PROVE TypeOK'
  BY <1>12 DEF Start, row
<1>13. ASSUME Tick PROVE TypeOK'
  <2>1. availableAt' \in [Events -> Int]
    BY <1>13, LaterType DEF Tick
  <2>2. lockedAt' \in [Events -> Int \cup {None}]
    BY <1>13, LaterType DEF Tick
  <2>3. elapsed' \in [Workers -> Nat]
    BY <1>13 DEF Tick
  <2> QED
    BY <2>1, <2>2, <2>3, <1>13 DEF Tick
<1>14. ASSUME UNCHANGED vars PROVE TypeOK'
  BY <1>14 DEF vars, row, worker
<1> QED
  BY <1>1, <1>2, <1>3, <1>4, <1>5, <1>6, <1>7, <1>8, <1>9, <1>10, <1>11, <1>12,
     <1>13, <1>14 DEF Next, Handle

\* The columns and the workers' memory keep their types.
THEOREM TypeCorrect == Spec => []TypeOK
  BY TypeInit, TypeStep, PTL DEF Spec

-----------------------------------------------------------------------------
LEMMA HandoffInit == Init => HandoffInv
  BY TypeInit DEF Init, HandoffInv, IdleHasNoOutcome, UnexcusedIsOwned,
     ReturnedWasDelivered, UnexcusedDelivery, PublishedWasDelivered, PublishReturned, Current

LEMMA HandoffStep == HandoffInv /\ [Next]_vars => HandoffInv'
<1> SUFFICES ASSUME HandoffInv, [Next]_vars PROVE HandoffInv'
  OBVIOUS
<1> USE DEF HandoffInv, Owns, PublishReturned, Current
<1> DEFINE Safe == /\ IdleHasNoOutcome /\ UnexcusedIsOwned /\ ReturnedWasDelivered
                   /\ UnexcusedDelivery /\ PublishedWasDelivered
<1> HIDE DEF Safe
<1>0. TypeOK /\ TypeOK'
  BY TypeStep
<1>1. ASSUME NEW e \in Events, Insert(e) PROVE Safe'
  <2>1. IdleHasNoOutcome'
    BY <1>0, <1>1 DEF TypeOK, Insert, worker, IdleHasNoOutcome
  <2>2. UnexcusedIsOwned'
    BY <1>0, <1>1 DEF TypeOK, Insert, worker, UnexcusedIsOwned
  <2>3. ReturnedWasDelivered'
    BY <1>0, <1>1 DEF TypeOK, Insert, worker, ReturnedWasDelivered
  <2>4. UnexcusedDelivery'
    BY <1>0, <1>1 DEF TypeOK, Insert, worker, UnexcusedDelivery
  <2>5. PublishedWasDelivered'
    BY <1>0, <1>1 DEF TypeOK, Insert, worker, PublishedWasDelivered
  <2> QED
    BY <2>1, <2>2, <2>3, <2>4, <2>5 DEF Safe
<1>2. ASSUME NEW e \in Events, ReplayEvent(e) PROVE Safe'
  <2>1. IdleHasNoOutcome'
    BY <1>0, <1>2 DEF TypeOK, ReplayEvent, Unlock, worker, IdleHasNoOutcome
  <2>2. UnexcusedIsOwned'
    BY <1>0, <1>2 DEF TypeOK, ReplayEvent, Unlock, worker, UnexcusedIsOwned
  <2>3. ReturnedWasDelivered'
    BY <1>0, <1>2 DEF TypeOK, ReplayEvent, Unlock, worker, ReturnedWasDelivered
  <2>4. UnexcusedDelivery'
    BY <1>0, <1>2 DEF TypeOK, ReplayEvent, Unlock, worker, UnexcusedDelivery
  <2>5. PublishedWasDelivered'
    BY <1>0, <1>2 DEF TypeOK, ReplayEvent, Unlock, worker, PublishedWasDelivered
  <2> QED
    BY <2>1, <2>2, <2>3, <2>4, <2>5 DEF Safe
<1>3. ASSUME NEW w \in Workers, Claim(w) PROVE Safe'
  <2>1. IdleHasNoOutcome'
    BY <1>0, <1>3 DEF TypeOK, Claim, IdleHasNoOutcome
  <2>2. UnexcusedIsOwned'
    BY <1>0, <1>3 DEF TypeOK, Claim, UnexcusedIsOwned
  <2> PICK claimed \in SUBSET Events :
        /\ batch[w] = {}
        /\ status' = [e \in Events |-> IF e \in claimed THEN "processing" ELSE status[e]]
        /\ batch' = [batch EXCEPT ![w] = claimed]
        /\ excused' = excused \cup {e \in claimed : status[e] = "processing"}
        /\ \A e \in claimed : status[e] \in {"pending", "processing"}
        /\ UNCHANGED <<outcome, delivered>>
    BY <1>3 DEF Claim, Oldest, Claimable
  <2>6. outcome[w] = "none" /\ batch' \in [Workers -> SUBSET Events]
    BY <1>0 DEF TypeOK, IdleHasNoOutcome
  <2>7. \A v \in Workers : batch'[v] # batch[v] => v = w
    BY <1>0 DEF TypeOK
  <2>3. ReturnedWasDelivered'
    BY <2>6, <2>7 DEF ReturnedWasDelivered
  <2>4. UnexcusedDelivery'
    <3> SUFFICES ASSUME NEW e \in Events, e \notin excused'
                 PROVE  UnexcusedDelivery!(e)'
      BY DEF UnexcusedDelivery
    <3>1. CASE e \in claimed
      BY <3>1, <1>0 DEF TypeOK, UnexcusedDelivery
    <3>2. CASE e \notin claimed
      BY <3>2, <2>6, <2>7, <1>0 DEF TypeOK, UnexcusedDelivery
    <3> QED
      BY <3>1, <3>2
  <2>5. PublishedWasDelivered'
    BY <1>0, <1>3 DEF TypeOK, Claim, PublishedWasDelivered
  <2> QED
    BY <2>1, <2>2, <2>3, <2>4, <2>5 DEF Safe
<1>4. ASSUME NEW w \in Workers, NEW e \in Events, PublishOk(w, e) PROVE Safe'
  <2>1. IdleHasNoOutcome'
    BY <1>0, <1>4 DEF TypeOK, PublishOk, Delivered, Smaller, row, IdleHasNoOutcome
  <2>2. UnexcusedIsOwned'
    BY <1>0, <1>4 DEF TypeOK, PublishOk, Delivered, Smaller, row, UnexcusedIsOwned
  <2>3. ReturnedWasDelivered'
    BY <1>0, <1>4 DEF TypeOK, PublishOk, Delivered, Smaller, row, ReturnedWasDelivered
  <2>4. UnexcusedDelivery'
    <3> SUFFICES ASSUME NEW f \in Events, f \notin excused'
                 PROVE  UnexcusedDelivery!(f)'
      BY DEF UnexcusedDelivery
    <3>1. CASE f = e
      <4>1. Owns(w, e) /\ delivered[e] = 0
        BY <3>1, <1>0, <1>4 DEF TypeOK, PublishOk, UnexcusedIsOwned, UnexcusedDelivery
      <4>2. \A v \in Workers : e \in batch[v] => v = w
        BY <3>1, <4>1, <1>4 DEF PublishOk, UnexcusedIsOwned
      <4> QED
        BY <3>1, <4>1, <4>2, <1>0, <1>4 DEF TypeOK, PublishOk, Delivered, Smaller, row
    <3>2. CASE f # e
      BY <3>2, <1>0, <1>4 DEF TypeOK, PublishOk, Delivered, row, UnexcusedDelivery
    <3> QED
      BY <3>1, <3>2
  <2>5. PublishedWasDelivered'
    BY <1>0, <1>4 DEF TypeOK, PublishOk, Delivered, Smaller, row, PublishedWasDelivered
  <2> QED
    BY <2>1, <2>2, <2>3, <2>4, <2>5 DEF Safe
<1>5. ASSUME NEW w \in Workers, NEW e \in Events, PublishError(w, e) PROVE Safe'
  <2>1. IdleHasNoOutcome'
    BY <1>0, <1>5 DEF TypeOK, PublishError, Delivered, Smaller, PublishRaised, row, IdleHasNoOutcome
  <2>2. UnexcusedIsOwned'
    BY <1>0, <1>5 DEF TypeOK, PublishError, Delivered, Smaller, PublishRaised, row, UnexcusedIsOwned
  <2>3. ReturnedWasDelivered'
    BY <1>0, <1>5 DEF TypeOK, PublishError, Delivered, Smaller, PublishRaised, row, ReturnedWasDelivered
  <2>4. UnexcusedDelivery'
    BY <1>0, <1>5 DEF TypeOK, PublishError, Delivered, Smaller, PublishRaised, row, UnexcusedDelivery
  <2>5. PublishedWasDelivered'
    BY <1>0, <1>5 DEF TypeOK, PublishError, Delivered, Smaller, PublishRaised, row, PublishedWasDelivered
  <2> QED
    BY <2>1, <2>2, <2>3, <2>4, <2>5 DEF Safe
<1>6. ASSUME NEW w \in Workers, NEW e \in Events, MarkPublished(w, e) PROVE Safe'
  <2>1. IdleHasNoOutcome'
    BY <1>0, <1>6 DEF TypeOK, MarkPublished, Unlock, NextOfBatch, IdleHasNoOutcome
  <2>2. UnexcusedIsOwned'
    BY <1>0, <1>6 DEF TypeOK, MarkPublished, Unlock, NextOfBatch, UnexcusedIsOwned
  <2>3. ReturnedWasDelivered'
    BY <1>0, <1>6 DEF TypeOK, MarkPublished, Unlock, NextOfBatch, ReturnedWasDelivered
  <2>4. UnexcusedDelivery'
    BY <1>0, <1>6 DEF TypeOK, MarkPublished, Unlock, NextOfBatch, UnexcusedDelivery
  <2>5. PublishedWasDelivered'
    <3>1. delivered[e] > 0
      BY <1>6 DEF MarkPublished, ReturnedWasDelivered
    <3> QED
      BY <3>1, <1>0, <1>6 DEF TypeOK, MarkPublished, NextOfBatch, PublishedWasDelivered
  <2> QED
    BY <2>1, <2>2, <2>3, <2>4, <2>5 DEF Safe
<1>7. ASSUME NEW w \in Workers, NEW e \in Events, MarkFailed(w, e) PROVE Safe'
  <2>1. IdleHasNoOutcome'
    BY <1>0, <1>7 DEF TypeOK, MarkFailed, Unlock, NextOfBatch, PublishRaised, AfterFailure, IdleHasNoOutcome
  <2>2. UnexcusedIsOwned'
    BY <1>0, <1>7 DEF TypeOK, MarkFailed, Unlock, NextOfBatch, PublishRaised, AfterFailure, UnexcusedIsOwned
  <2>3. ReturnedWasDelivered'
    BY <1>0, <1>7 DEF TypeOK, MarkFailed, Unlock, NextOfBatch, PublishRaised, AfterFailure, ReturnedWasDelivered
  <2>4. UnexcusedDelivery'
    BY <1>0, <1>7 DEF TypeOK, MarkFailed, Unlock, NextOfBatch, PublishRaised, AfterFailure, UnexcusedDelivery
  <2>5. PublishedWasDelivered'
    BY <1>0, <1>7 DEF TypeOK, MarkFailed, Unlock, NextOfBatch, PublishRaised, AfterFailure, PublishedWasDelivered
  <2> QED
    BY <2>1, <2>2, <2>3, <2>4, <2>5 DEF Safe
<1>8. ASSUME NEW w \in Workers, NEW e \in Events, MarkRefused(w, e) PROVE Safe'
  <2>1. IdleHasNoOutcome'
    BY <1>0, <1>8 DEF TypeOK, MarkRefused, NextOfBatch, row, IdleHasNoOutcome
  <2>2. UnexcusedIsOwned'
    BY <1>0, <1>8 DEF TypeOK, MarkRefused, NextOfBatch, row, UnexcusedIsOwned
  <2>3. ReturnedWasDelivered'
    BY <1>0, <1>8 DEF TypeOK, MarkRefused, NextOfBatch, row, ReturnedWasDelivered
  <2>4. UnexcusedDelivery'
    BY <1>0, <1>8 DEF TypeOK, MarkRefused, NextOfBatch, row, UnexcusedDelivery
  <2>5. PublishedWasDelivered'
    BY <1>0, <1>8 DEF TypeOK, MarkRefused, NextOfBatch, row, PublishedWasDelivered
  <2> QED
    BY <2>1, <2>2, <2>3, <2>4, <2>5 DEF Safe
<1>9. ASSUME NEW w \in Workers, Crash(w) PROVE Safe'
  <2>1. IdleHasNoOutcome'
    BY <1>0, <1>9 DEF TypeOK, Crash, row, IdleHasNoOutcome
  <2>2. UnexcusedIsOwned'
    BY <1>0, <1>9 DEF TypeOK, Crash, row, UnexcusedIsOwned
  <2>3. ReturnedWasDelivered'
    BY <1>0, <1>9 DEF TypeOK, Crash, row, ReturnedWasDelivered
  <2>4. UnexcusedDelivery'
    BY <1>0, <1>9 DEF TypeOK, Crash, row, UnexcusedDelivery
  <2>5. PublishedWasDelivered'
    BY <1>0, <1>9 DEF TypeOK, Crash, row, PublishedWasDelivered
  <2> QED
    BY <2>1, <2>2, <2>3, <2>4, <2>5 DEF Safe
<1>10. ASSUME NEW w \in Workers, RequestStop(w) PROVE Safe'
  <2>1. IdleHasNoOutcome'
    BY <1>0, <1>10 DEF TypeOK, RequestStop, row, IdleHasNoOutcome
  <2>2. UnexcusedIsOwned'
    BY <1>0, <1>10 DEF TypeOK, RequestStop, row, UnexcusedIsOwned
  <2>3. ReturnedWasDelivered'
    BY <1>0, <1>10 DEF TypeOK, RequestStop, row, ReturnedWasDelivered
  <2>4. UnexcusedDelivery'
    BY <1>0, <1>10 DEF TypeOK, RequestStop, row, UnexcusedDelivery
  <2>5. PublishedWasDelivered'
    BY <1>0, <1>10 DEF TypeOK, RequestStop, row, PublishedWasDelivered
  <2> QED
    BY <2>1, <2>2, <2>3, <2>4, <2>5 DEF Safe
<1>11. ASSUME NEW w \in Workers, Stop(w) PROVE Safe'
  <2>1. IdleHasNoOutcome'
    BY <1>0, <1>11 DEF TypeOK, Stop, row, IdleHasNoOutcome
  <2>2. UnexcusedIsOwned'
    BY <1>0, <1>11 DEF TypeOK, Stop, row, UnexcusedIsOwned
  <2>3. ReturnedWasDelivered'
    BY <1>0, <1>11 DEF TypeOK, Stop, row, ReturnedWasDelivered
  <2>4. UnexcusedDelivery'
    BY <1>0, <1>11 DEF TypeOK, Stop, row, UnexcusedDelivery
  <2>5. PublishedWasDelivered'
    BY <1>0, <1>11 DEF TypeOK, Stop, row, PublishedWasDelivered
  <2> QED
    BY <2>1, <2>2, <2>3, <2>4, <2>5 DEF Safe
<1>12. ASSUME NEW w \in Workers, Start(w) PROVE Safe'
  <2>1. IdleHasNoOutcome'
    BY <1>0, <1>12 DEF TypeOK, Start, row, IdleHasNoOutcome
  <2>2. UnexcusedIsOwned'
    BY <1>0, <1>12 DEF TypeOK, Start, row, UnexcusedIsOwned
  <2>3. ReturnedWasDelivered'
    BY <1>0, <1>12 DEF TypeOK, Start, row, ReturnedWasDelivered
  <2>4. UnexcusedDelivery'
    BY <1>0, <1>12 DEF TypeOK, Start, row, UnexcusedDelivery
  <2>5. PublishedWasDelivered'
    BY <1>0, <1>12 DEF TypeOK, Start, row, PublishedWasDelivered
  <2> QED
    BY <2>1, <2>2, <2>3, <2>4, <2>5 DEF Safe
<1>13. ASSUME Tick PROVE Safe'
  <2>1. IdleHasNoOutcome'
    BY <1>0, <1>13 DEF TypeOK, Tick, IdleHasNoOutcome
  <2>2. UnexcusedIsOwned'
    BY <1>0, <1>13 DEF TypeOK, Tick, UnexcusedIsOwned
  <2>3. ReturnedWasDelivered'
    BY <1>0, <1>13 DEF TypeOK, Tick, ReturnedWasDelivered
  <2>4. UnexcusedDelivery'
    BY <1>0, <1>13 DEF TypeOK, Tick, UnexcusedDelivery
  <2>5. PublishedWasDelivered'
    BY <1>0, <1>13 DEF TypeOK, Tick, PublishedWasDelivered
  <2> QED
    BY <2>1, <2>2, <2>3, <2>4, <2>5 DEF Safe
<1>14. ASSUME UNCHANGED vars PROVE Safe'
  BY <1>14 DEF vars, row, worker, Safe, IdleHasNoOutcome, UnexcusedIsOwned,
     ReturnedWasDelivered, UnexcusedDelivery, PublishedWasDelivered
<1> QED
  BY <1>0, <1>1, <1>2, <1>3, <1>4, <1>5, <1>6, <1>7, <1>8, <1>9, <1>10, <1>11, <1>12, <1>13, <1>14 DEF Next, Handle, Safe

-----------------------------------------------------------------------------
\* The attempt count against the limit.
LEMMA AttemptStep == TypeOK /\ AttemptLeft /\ [Next]_vars => AttemptLeft'
<1> SUFFICES ASSUME TypeOK, AttemptLeft, [Next]_vars PROVE AttemptLeft'
  OBVIOUS
<1> USE DEF TypeOK, AttemptLeft
<1>1. ASSUME NEW e \in Events, Insert(e) PROVE AttemptLeft'
  BY <1>1 DEF Insert, worker
<1>2. ASSUME NEW e \in Events, ReplayEvent(e) PROVE AttemptLeft'
  BY <1>2 DEF ReplayEvent, Unlock, worker
<1>3. ASSUME NEW w \in Workers, Claim(w) PROVE AttemptLeft'
  BY <1>3 DEF Claim, Oldest, Claimable
<1>4. ASSUME NEW w \in Workers, NEW e \in Events, PublishOk(w, e) PROVE AttemptLeft'
  BY <1>4 DEF PublishOk, row
<1>5. ASSUME NEW w \in Workers, NEW e \in Events, PublishError(w, e) PROVE AttemptLeft'
  BY <1>5 DEF PublishError, row
<1>6. ASSUME NEW w \in Workers, NEW e \in Events, MarkPublished(w, e) PROVE AttemptLeft'
  <2>1. UNCHANGED <<attempts, replays>> /\ status[e] = "processing"
    BY <1>6 DEF MarkPublished, NextOfBatch, Owns
  <2>2. status' = [status EXCEPT ![e] = "published"]
    BY <1>6 DEF MarkPublished
  <2> QED
    BY <2>1, <2>2
<1>7. ASSUME NEW w \in Workers, NEW e \in Events, MarkFailed(w, e) PROVE AttemptLeft'
  <2>1. attempts' = [attempts EXCEPT ![e] = attempts[e] + 1] /\ UNCHANGED replays
    BY <1>7 DEF MarkFailed, NextOfBatch
  <2>2. status' = [status EXCEPT ![e] = AfterFailure(attempts[e] + 1)]
    BY <1>7 DEF MarkFailed
  <2>3. status[e] = "processing"
    BY <1>7 DEF MarkFailed, Owns
  <2> SUFFICES ASSUME NEW f \in Events PROVE AttemptLeft!(f)'
    OBVIOUS
  <2>4. CASE f = e
    BY <2>1, <2>2, <2>3, <2>4 DEF AfterFailure
  <2>5. CASE f # e
    BY <2>1, <2>2, <2>5
  <2> QED
    BY <2>4, <2>5
<1>8. ASSUME NEW w \in Workers, NEW e \in Events, MarkRefused(w, e) PROVE AttemptLeft'
  BY <1>8 DEF MarkRefused, NextOfBatch, row
<1>9. ASSUME NEW w \in Workers, Crash(w) PROVE AttemptLeft'
  BY <1>9 DEF Crash, row
<1>10. ASSUME NEW w \in Workers, RequestStop(w) PROVE AttemptLeft'
  BY <1>10 DEF RequestStop, row
<1>11. ASSUME NEW w \in Workers, Stop(w) PROVE AttemptLeft'
  BY <1>11 DEF Stop, row
<1>12. ASSUME NEW w \in Workers, Start(w) PROVE AttemptLeft'
  BY <1>12 DEF Start, row
<1>13. ASSUME Tick PROVE AttemptLeft'
  BY <1>13 DEF Tick
<1>14. ASSUME UNCHANGED vars PROVE AttemptLeft'
  BY <1>14 DEF vars, row, worker
<1> QED
  BY <1>1, <1>2, <1>3, <1>4, <1>5, <1>6, <1>7, <1>8, <1>9, <1>10, <1>11, <1>12, <1>13, <1>14 DEF Next, Handle

\* The lock columns.
LEMMA LockStep == TypeOK /\ LockColumnsAgree /\ [Next]_vars => LockColumnsAgree'
<1> SUFFICES ASSUME TypeOK, LockColumnsAgree, [Next]_vars PROVE LockColumnsAgree'
  OBVIOUS
<1> USE DEF TypeOK, LockColumnsAgree
<1>1. ASSUME NEW e \in Events, Insert(e) PROVE LockColumnsAgree'
  BY <1>1 DEF Insert, worker
<1>2. ASSUME NEW e \in Events, ReplayEvent(e) PROVE LockColumnsAgree'
  BY <1>2 DEF ReplayEvent, Unlock, worker
<1>3. ASSUME NEW w \in Workers, Claim(w) PROVE LockColumnsAgree'
  BY <1>3 DEF Claim, Oldest, Claimable, Skew
<1>4. ASSUME NEW w \in Workers, NEW e \in Events, PublishOk(w, e) PROVE LockColumnsAgree'
  BY <1>4 DEF PublishOk, row
<1>5. ASSUME NEW w \in Workers, NEW e \in Events, PublishError(w, e) PROVE LockColumnsAgree'
  BY <1>5 DEF PublishError, row
<1>6. ASSUME NEW w \in Workers, NEW e \in Events, MarkPublished(w, e) PROVE LockColumnsAgree'
  BY <1>6 DEF MarkPublished, Unlock, NextOfBatch
<1>7. ASSUME NEW w \in Workers, NEW e \in Events, MarkFailed(w, e) PROVE LockColumnsAgree'
  BY <1>7 DEF MarkFailed, Unlock, NextOfBatch, AfterFailure
<1>8. ASSUME NEW w \in Workers, NEW e \in Events, MarkRefused(w, e) PROVE LockColumnsAgree'
  BY <1>8 DEF MarkRefused, NextOfBatch, row
<1>9. ASSUME NEW w \in Workers, Crash(w) PROVE LockColumnsAgree'
  BY <1>9 DEF Crash, row
<1>10. ASSUME NEW w \in Workers, RequestStop(w) PROVE LockColumnsAgree'
  BY <1>10 DEF RequestStop, row
<1>11. ASSUME NEW w \in Workers, Stop(w) PROVE LockColumnsAgree'
  BY <1>11 DEF Stop, row
<1>12. ASSUME NEW w \in Workers, Start(w) PROVE LockColumnsAgree'
  BY <1>12 DEF Start, row
<1>13. ASSUME Tick PROVE LockColumnsAgree'
  <2>1. \A e \in Events : lockedAt'[e] = None <=> lockedAt[e] = None
    BY <1>13, LaterType DEF Tick
  <2> QED
    BY <2>1, <1>13 DEF Tick
<1>14. ASSUME UNCHANGED vars PROVE LockColumnsAgree'
  BY <1>14 DEF vars, row, worker
<1> QED
  BY <1>1, <1>2, <1>3, <1>4, <1>5, <1>6, <1>7, <1>8, <1>9, <1>10, <1>11, <1>12, <1>13, <1>14 DEF Next, Handle

\* Locks and the memory of the workers.
LEMMA OrphanStep == TypeOK /\ NoOrphanLock /\ [Next]_vars => NoOrphanLock'
<1> SUFFICES ASSUME TypeOK, NoOrphanLock, [Next]_vars PROVE NoOrphanLock'
  OBVIOUS
<1> USE DEF TypeOK, NoOrphanLock
<1>1. ASSUME NEW e \in Events, Insert(e) PROVE NoOrphanLock'
  BY <1>1 DEF Insert, worker
<1>2. ASSUME NEW e \in Events, ReplayEvent(e) PROVE NoOrphanLock'
  BY <1>2 DEF ReplayEvent, Unlock, worker
<1>3. ASSUME NEW w \in Workers, Claim(w) PROVE NoOrphanLock'
  BY <1>3 DEF Claim, Oldest, Claimable
<1>4. ASSUME NEW w \in Workers, NEW e \in Events, PublishOk(w, e) PROVE NoOrphanLock'
  BY <1>4 DEF PublishOk, row
<1>5. ASSUME NEW w \in Workers, NEW e \in Events, PublishError(w, e) PROVE NoOrphanLock'
  BY <1>5 DEF PublishError, row
<1>6. ASSUME NEW w \in Workers, NEW e \in Events, MarkPublished(w, e) PROVE NoOrphanLock'
  BY <1>6 DEF MarkPublished, Unlock, NextOfBatch, Owns
<1>7. ASSUME NEW w \in Workers, NEW e \in Events, MarkFailed(w, e) PROVE NoOrphanLock'
  BY <1>7 DEF MarkFailed, Unlock, NextOfBatch, AfterFailure, Owns
<1>8. ASSUME NEW w \in Workers, NEW e \in Events, MarkRefused(w, e) PROVE NoOrphanLock'
  <2>1. UNCHANGED <<status, lockedBy, stops>> /\ ~Owns(w, e)
    BY <1>8 DEF MarkRefused, NextOfBatch, row
  <2>2. batch' = [batch EXCEPT ![w] = batch[w] \ {e}]
    BY <1>8 DEF MarkRefused, NextOfBatch
  <2> QED
    BY <2>1, <2>2 DEF Owns
<1>9. ASSUME NEW w \in Workers, Crash(w) PROVE NoOrphanLock'
  BY <1>9 DEF Crash, row
<1>10. ASSUME NEW w \in Workers, RequestStop(w) PROVE NoOrphanLock'
  BY <1>10 DEF RequestStop, row
<1>11. ASSUME NEW w \in Workers, Stop(w) PROVE NoOrphanLock'
  BY <1>11 DEF Stop, row
<1>12. ASSUME NEW w \in Workers, Start(w) PROVE NoOrphanLock'
  BY <1>12 DEF Start, row
<1>13. ASSUME Tick PROVE NoOrphanLock'
  BY <1>13 DEF Tick
<1>14. ASSUME UNCHANGED vars PROVE NoOrphanLock'
  BY <1>14 DEF vars, row, worker
<1> QED
  BY <1>1, <1>2, <1>3, <1>4, <1>5, <1>6, <1>7, <1>8, <1>9, <1>10, <1>11, <1>12, <1>13, <1>14 DEF Next, Handle

\* What a step does to a row that a worker has locked, or that is published.
Released == \A e \in Events : status[e] = "processing" /\ status'[e] # "processing" =>
              \E w \in Workers : lockedBy[e] = w /\ e \in batch[w] /\ e \notin batch'[w]
StaysPublished == \A e \in Events : status[e] = "published" => status'[e] = "published"

LEMMA RowStep == TypeOK /\ [Next]_vars => Released /\ StaysPublished
<1> SUFFICES ASSUME TypeOK, [Next]_vars PROVE Released /\ StaysPublished
  OBVIOUS
<1> USE DEF TypeOK, Released, StaysPublished
<1>1. ASSUME NEW e \in Events, Insert(e) PROVE Released /\ StaysPublished
  BY <1>1 DEF Insert, worker
<1>2. ASSUME NEW e \in Events, ReplayEvent(e) PROVE Released /\ StaysPublished
  BY <1>2 DEF ReplayEvent, Unlock, worker
<1>3. ASSUME NEW w \in Workers, Claim(w) PROVE Released /\ StaysPublished
  BY <1>3 DEF Claim, Oldest, Claimable
<1>4. ASSUME NEW w \in Workers, NEW e \in Events, PublishOk(w, e) PROVE Released /\ StaysPublished
  BY <1>4 DEF PublishOk, row
<1>5. ASSUME NEW w \in Workers, NEW e \in Events, PublishError(w, e) PROVE Released /\ StaysPublished
  BY <1>5 DEF PublishError, row
<1>6. ASSUME NEW w \in Workers, NEW e \in Events, MarkPublished(w, e) PROVE Released /\ StaysPublished
  <2>1. status[e] = "processing" /\ lockedBy[e] = w /\ e \in batch[w]
    BY <1>6 DEF MarkPublished, PublishReturned, Owns, Current
  <2>2. batch' = [batch EXCEPT ![w] = batch[w] \ {e}]
    BY <1>6 DEF MarkPublished, NextOfBatch
  <2>3. \A f \in Events : status'[f] # status[f] => f = e
    BY <1>6 DEF MarkPublished
  <2> QED
    BY <2>1, <2>2, <2>3
<1>7. ASSUME NEW w \in Workers, NEW e \in Events, MarkFailed(w, e) PROVE Released /\ StaysPublished
  <2>1. status[e] = "processing" /\ lockedBy[e] = w /\ e \in batch[w]
    BY <1>7 DEF MarkFailed, PublishRaised, Owns, Current
  <2>2. batch' = [batch EXCEPT ![w] = batch[w] \ {e}]
    BY <1>7 DEF MarkFailed, NextOfBatch
  <2>3. \A f \in Events : status'[f] # status[f] => f = e
    BY <1>7 DEF MarkFailed
  <2> QED
    BY <2>1, <2>2, <2>3
<1>8. ASSUME NEW w \in Workers, NEW e \in Events, MarkRefused(w, e) PROVE Released /\ StaysPublished
  BY <1>8 DEF MarkRefused, NextOfBatch, row
<1>9. ASSUME NEW w \in Workers, Crash(w) PROVE Released /\ StaysPublished
  BY <1>9 DEF Crash, row
<1>10. ASSUME NEW w \in Workers, RequestStop(w) PROVE Released /\ StaysPublished
  BY <1>10 DEF RequestStop, row
<1>11. ASSUME NEW w \in Workers, Stop(w) PROVE Released /\ StaysPublished
  BY <1>11 DEF Stop, row
<1>12. ASSUME NEW w \in Workers, Start(w) PROVE Released /\ StaysPublished
  BY <1>12 DEF Start, row
<1>13. ASSUME Tick PROVE Released /\ StaysPublished
  BY <1>13 DEF Tick
<1>14. ASSUME UNCHANGED vars PROVE Released /\ StaysPublished
  BY <1>14 DEF vars, row, worker
<1> QED
  BY <1>1, <1>2, <1>3, <1>4, <1>5, <1>6, <1>7, <1>8, <1>9, <1>10, <1>11, <1>12, <1>13, <1>14 DEF Next, Handle

-----------------------------------------------------------------------------
\* An event recorded as published reached the broker.
THEOREM PublishedReachedBroker == Spec => []PublishedWasDelivered
<1>1. HandoffInv => PublishedWasDelivered
  BY DEF HandoffInv
<1> QED
  BY <1>1, HandoffInit, HandoffStep, PTL DEF Spec

\* Without a takeover or an ambiguous publish error, nothing is handed off twice.
THEOREM DuplicatesExcused == Spec => []DuplicateIsExcused
<1>1. HandoffInv => DuplicateIsExcused
  BY DEF HandoffInv, UnexcusedDelivery, DuplicateIsExcused, TypeOK
<1> QED
  BY <1>1, HandoffInit, HandoffStep, PTL DEF Spec

\* Retries are bounded by the attempt limit and the operator's replays.
THEOREM RetryBounded == Spec => []BoundedRetry
<1>1. Init => AttemptLeft
  BY DEF Init, AttemptLeft
<1>2. TypeOK /\ AttemptLeft => BoundedRetry
  BY DEF TypeOK, AttemptLeft, BoundedRetry
<1> QED
  BY <1>1, <1>2, AttemptStep, TypeCorrect, PTL DEF Spec

\* The status and lock columns of a row agree.
THEOREM LocksAgree == Spec => []LockColumnsAgree
<1>1. Init => LockColumnsAgree
  BY DEF Init, LockColumnsAgree
<1> QED
  BY <1>1, LockStep, TypeCorrect, PTL DEF Spec

\* Only a crash leaves a lock that no worker is going to release.
THEOREM LocksHaveHolders == Spec => []NoOrphanLock
<1>1. Init => NoOrphanLock
  BY DEF Init, NoOrphanLock
<1> QED
  BY <1>1, OrphanStep, TypeCorrect, PTL DEF Spec

\* A lock is released by its owner only.
THEOREM OwnerReleases == Spec => OnlyOwnerReleases
<1>1. TypeOK /\ [Next]_vars => [Released]_vars
  BY RowStep
<1> QED
  BY <1>1, TypeCorrect, PTL DEF Spec, OnlyOwnerReleases, Released

\* A published event stays published.
THEOREM PublishedStays == Spec => PublishedIsFinal
<1>1. TypeOK /\ [Next]_vars => [StaysPublished]_vars
  BY RowStep
<1> QED
  BY <1>1, TypeCorrect, PTL DEF Spec, PublishedIsFinal, StaysPublished

-----------------------------------------------------------------------------
(***************************************************************************)
(* Exclusive claims.  The age of a lock is at most the time its holder has *)
(* spent on the events it has finished, plus the time on the current one,  *)
(* plus a clock error.                                                     *)
(***************************************************************************)
Spent(w) == (BatchSize - Cardinality(batch[w])) * PublishTime

ClaimInv ==
  \A w \in Workers :
    /\ Cardinality(batch[w]) <= BatchSize
    /\ batch[w] # {} => elapsed[w] <= PublishTime
    /\ \A e \in batch[w] :
         /\ Owns(w, e)
         /\ lockedAt[e] \in Int
         /\ lockedAt[e] + ClockSkew + Spent(w) + elapsed[w] >= 0

LEMMA BatchCardinality ==
  ASSUME NEW S \in SUBSET Events
  PROVE  /\ Cardinality(S) \in Nat
         /\ S # {} => Cardinality(S) >= 1
         /\ \A e \in S : Cardinality(S \ {e}) = Cardinality(S) - 1
<1>1. IsFiniteSet(S)
  BY FS_Subset
<1> QED
  BY <1>1, FS_CardinalityType, FS_EmptySet, FS_RemoveElement

LEMMA SpentArithmetic ==
  \A b, c, p \in Nat : c <= b =>
    /\ (b - c) * p \in Nat
    /\ c >= 1 => (b - c) * p + p = (b - (c - 1)) * p /\ (b - c) * p + p <= b * p
  BY SMTT(30)

\* The bounds of Spent, for a worker with events to handle.
LEMMA SpentBounds ==
  ASSUME TypeOK, ClaimInv, NEW w \in Workers
  PROVE  /\ Spent(w) \in Nat
         /\ batch[w] # {} => Spent(w) + PublishTime <= BatchSize * PublishTime
<1>1. /\ Cardinality(batch[w]) \in Nat /\ Cardinality(batch[w]) <= BatchSize
      /\ batch[w] # {} => Cardinality(batch[w]) >= 1
  BY BatchCardinality DEF TypeOK, ClaimInv
<1> QED
  BY <1>1, SpentArithmetic DEF Spent

\* A step that leaves the locks of a worker's batch alone keeps its part.
LEMMA ClaimFrame ==
  ASSUME ClaimInv, NEW w \in Workers, UNCHANGED <<batch[w], elapsed[w]>>,
         \A e \in batch[w] : UNCHANGED <<status[e], lockedAt[e], lockedBy[e]>>
  PROVE  ClaimInv!(w)'
  BY DEF ClaimInv, Spent, Owns

\* An event of a live batch is never old enough to be taken over.
LEMMA NoTakeover ==
  ASSUME BatchFitsLock, TypeOK, ClaimInv, NEW w \in Workers, NEW e \in batch[w],
         NEW now \in Skew
  PROVE  ~Claimable(e, now)
<1>1. /\ Owns(w, e) /\ lockedAt[e] \in Int /\ elapsed[w] <= PublishTime
      /\ lockedAt[e] + ClockSkew + Spent(w) + elapsed[w] >= 0
  BY DEF ClaimInv
<1>2. Spent(w) \in Nat /\ Spent(w) + PublishTime <= BatchSize * PublishTime
  BY SpentBounds
<1>3. now \in Int /\ now <= ClockSkew /\ elapsed[w] \in Nat
  BY DEF Skew, TypeOK
<1>4. BatchSize * PublishTime \in Nat
  OBVIOUS
<1>5. ~(lockedAt[e] <= now - LockTimeout)
  BY <1>1, <1>2, <1>3, <1>4 DEF BatchFitsLock
<1> QED
  BY <1>1, <1>5 DEF Claimable, Owns

\* The holder finishes an event: its time is spent, the clock of the next starts.
LEMMA ClaimNextOfBatch ==
  ASSUME TypeOK, ClaimInv, NEW w \in Workers, NEW e \in batch[w], NextOfBatch(w, e),
         \A f \in Events \ {e} : UNCHANGED <<status[f], lockedAt[f], lockedBy[f]>>
  PROVE  ClaimInv'
<1>1. /\ batch' = [batch EXCEPT ![w] = batch[w] \ {e}]
      /\ elapsed' = [elapsed EXCEPT ![w] = 0]
  BY DEF NextOfBatch
<1>2. \A v \in Workers : batch[v] \subseteq Events
  BY DEF TypeOK
<1>3. ASSUME NEW v \in Workers, v # w PROVE ClaimInv!(v)'
  <2>1. e \notin batch[v]
    BY <1>3 DEF ClaimInv, Owns
  <2> QED
    BY <1>1, <1>2, <1>3, <2>1, ClaimFrame DEF TypeOK
<1>4. ClaimInv!(w)'
  <2>1. batch'[w] = batch[w] \ {e} /\ elapsed'[w] = 0
    BY <1>1 DEF TypeOK
  <2>2. /\ Cardinality(batch[w]) \in Nat /\ Cardinality(batch[w]) >= 1
        /\ Cardinality(batch'[w]) = Cardinality(batch[w]) - 1
    BY <2>1, <1>2, BatchCardinality
  <2>3. Cardinality(batch[w]) <= BatchSize /\ elapsed[w] <= PublishTime
    BY DEF ClaimInv
  <2>4. Spent(w)' = Spent(w) + PublishTime /\ Spent(w) \in Nat
    BY <2>2, <2>3, SpentArithmetic DEF Spent
  <2>5. ASSUME NEW f \in batch'[w]
        PROVE  /\ Owns(w, f)' /\ lockedAt'[f] \in Int
               /\ lockedAt'[f] + ClockSkew + Spent(w)' + elapsed'[w] >= 0
    <3>1. /\ Owns(w, f) /\ lockedAt[f] \in Int /\ UNCHANGED <<status[f], lockedAt[f], lockedBy[f]>>
          /\ lockedAt[f] + ClockSkew + Spent(w) + elapsed[w] >= 0
      BY <2>1, <1>2 DEF ClaimInv
    <3>2. elapsed[w] \in Nat
      BY DEF TypeOK
    <3> QED
      BY <3>1, <3>2, <2>1, <2>3, <2>4 DEF Owns
  <2> QED
    BY <2>1, <2>2, <2>3, <2>5
<1> QED
  BY <1>3, <1>4 DEF ClaimInv

LEMMA ClaimStep == BatchFitsLock /\ TypeOK /\ ClaimInv /\ [Next]_vars => ClaimInv'
<1> SUFFICES ASSUME BatchFitsLock, TypeOK, ClaimInv, [Next]_vars PROVE ClaimInv'
  OBVIOUS
<1>0. \A w \in Workers : \A e \in batch[w] : e \in Events /\ status[e] = "processing" /\ lockedBy[e] = w
  BY DEF ClaimInv, Owns, TypeOK
<1>1. ASSUME NEW e \in Events, Insert(e) PROVE ClaimInv'
  <2>1. /\ status[e] = "absent" /\ status' = [status EXCEPT ![e] = "pending"]
        /\ UNCHANGED <<lockedAt, lockedBy, batch, elapsed>>
    BY <1>1 DEF Insert, worker
  <2>2. ASSUME NEW w \in Workers PROVE ClaimInv!(w)'
    <3>1. \A f \in batch[w] : f # e /\ UNCHANGED <<status[f], lockedAt[f], lockedBy[f]>>
      BY <1>0, <2>1 DEF TypeOK
    <3> QED
      BY <2>1, <3>1, ClaimFrame
  <2> QED
    BY <2>2 DEF ClaimInv
<1>2. ASSUME NEW e \in Events, ReplayEvent(e) PROVE ClaimInv'
  BY <1>0, <1>2, ClaimFrame DEF ReplayEvent, Unlock, worker, TypeOK, ClaimInv
<1>3. ASSUME NEW w \in Workers, Claim(w) PROVE ClaimInv'
  <2>1. PICK now \in Skew, skipped \in SUBSET Skippable(w), claimed \in SUBSET Events :
          Claim(w)!(now, skipped, claimed)
    BY <1>3 DEF Claim
  <2>2. \A e \in claimed : Claimable(e, now)
    BY <2>1 DEF Oldest
  <2>3. ASSUME NEW v \in Workers, v # w PROVE ClaimInv!(v)'
    <3>1. \A e \in batch[v] : e \in Events /\ e \notin claimed
      BY <2>2, <1>0, NoTakeover
    <3> QED
      BY <2>1, <2>3, <3>1, ClaimFrame DEF TypeOK
  <2>4. ClaimInv!(w)'
    <3>1. batch'[w] = claimed /\ elapsed'[w] = 0
      BY <2>1 DEF TypeOK
    <3>2. Cardinality(claimed) \in Nat /\ Cardinality(claimed) <= BatchSize
      BY <2>1, BatchCardinality DEF Oldest
    <3>3. Spent(w)' \in Nat
      BY <3>1, <3>2, SpentArithmetic DEF Spent
    <3>4. \A e \in claimed : Owns(w, e)' /\ lockedAt'[e] = now
      BY <2>1 DEF Owns
    <3>5. now \in Int /\ now + ClockSkew >= 0
      BY DEF Skew
    <3>6. \A e \in batch'[w] : /\ Owns(w, e)' /\ lockedAt'[e] \in Int
                              /\ lockedAt'[e] + ClockSkew + Spent(w)' + elapsed'[w] >= 0
      <4> SUFFICES ASSUME NEW e \in batch'[w]
                   PROVE  /\ Owns(w, e)' /\ lockedAt'[e] \in Int
                          /\ lockedAt'[e] + ClockSkew + Spent(w)' + elapsed'[w] >= 0
        OBVIOUS
      <4>1. Owns(w, e)' /\ lockedAt'[e] = now
        BY <3>1, <3>4
      <4> QED
        BY <4>1, <3>1, <3>3, <3>5
    <3>7. Cardinality(batch[w])' <= BatchSize /\ elapsed'[w] <= PublishTime
      BY <3>1, <3>2
    <3> QED
      BY <3>6, <3>7
  <2> QED
    BY <2>3, <2>4 DEF ClaimInv
<1>4. ASSUME NEW w \in Workers, NEW e \in Events, PublishOk(w, e) PROVE ClaimInv'
  BY <1>4, ClaimFrame DEF PublishOk, row, ClaimInv
<1>5. ASSUME NEW w \in Workers, NEW e \in Events, PublishError(w, e) PROVE ClaimInv'
  BY <1>5, ClaimFrame DEF PublishError, row, ClaimInv
<1>6. ASSUME NEW w \in Workers, NEW e \in Events, MarkPublished(w, e) PROVE ClaimInv'
  <2>1. \A f \in Events \ {e} : UNCHANGED <<status[f], lockedAt[f], lockedBy[f]>>
    BY <1>6 DEF MarkPublished, Unlock, TypeOK
  <2> QED
    BY <1>6, <2>1, ClaimNextOfBatch DEF MarkPublished, PublishReturned, Current
<1>7. ASSUME NEW w \in Workers, NEW e \in Events, MarkFailed(w, e) PROVE ClaimInv'
  <2>1. \A f \in Events \ {e} : UNCHANGED <<status[f], lockedAt[f], lockedBy[f]>>
    BY <1>7 DEF MarkFailed, Unlock, TypeOK
  <2> QED
    BY <1>7, <2>1, ClaimNextOfBatch DEF MarkFailed, PublishRaised, Current
<1>8. ASSUME NEW w \in Workers, NEW e \in Events, MarkRefused(w, e) PROVE ClaimInv'
  BY <1>8, ClaimNextOfBatch DEF MarkRefused, Current, row
<1>9. ASSUME NEW w \in Workers, Crash(w) PROVE ClaimInv'
  <2>1. ASSUME NEW v \in Workers, v # w PROVE ClaimInv!(v)'
    BY <1>9, <2>1, ClaimFrame DEF Crash, row, TypeOK
  <2>2. batch'[w] = {}
    BY <1>9 DEF Crash, TypeOK
  <2>3. ClaimInv!(w)'
    BY <2>2, FS_EmptySet
  <2> QED
    BY <2>1, <2>3 DEF ClaimInv
<1>10. ASSUME NEW w \in Workers, RequestStop(w) PROVE ClaimInv'
  BY <1>10, ClaimFrame DEF RequestStop, row, ClaimInv
<1>11. ASSUME NEW w \in Workers, Stop(w) PROVE ClaimInv'
  BY <1>11, ClaimFrame DEF Stop, row, ClaimInv
<1>12. ASSUME NEW w \in Workers, Start(w) PROVE ClaimInv'
  BY <1>12, ClaimFrame DEF Start, row, ClaimInv
<1>13. ASSUME Tick PROVE ClaimInv'
  <2> SUFFICES ASSUME NEW w \in Workers PROVE ClaimInv!(w)'
    BY DEF ClaimInv
  <2>1. UNCHANGED <<batch, status, lockedBy, Spent(w)>>
    BY <1>13 DEF Tick, Spent
  <2>2. CASE batch[w] = {}
    BY <2>1, <2>2 DEF ClaimInv
  <2>3. CASE batch[w] # {}
    <3>1. elapsed'[w] = elapsed[w] + 1 /\ elapsed'[w] <= PublishTime /\ elapsed[w] \in Nat
      BY <1>13, <2>3 DEF Tick, TypeOK
    <3>2. ASSUME NEW e \in batch[w]
          PROVE  lockedAt'[e] \in Int /\ lockedAt'[e] >= lockedAt[e] - 1 /\ lockedAt[e] \in Int
      <4>1. lockedAt[e] \in Int /\ e \in Events
        BY <1>0 DEF ClaimInv
      <4> QED
        BY <4>1, <1>13 DEF Tick, Later
    <3>3. Spent(w) \in Nat
      BY SpentBounds
    <3>4. ASSUME NEW e \in batch'[w]
          PROVE  Owns(w, e)' /\ lockedAt'[e] + ClockSkew + Spent(w)' + elapsed'[w] >= 0
      <4>1. lockedAt[e] + ClockSkew + Spent(w) + elapsed[w] >= 0 /\ Owns(w, e) /\ e \in batch[w]
        BY <2>1 DEF ClaimInv
      <4> QED
        BY <4>1, <3>1, <3>2, <3>3, <2>1 DEF Owns
    <3> QED
      BY <2>1, <3>1, <3>2, <3>4 DEF ClaimInv
  <2> QED
    BY <2>2, <2>3
<1>14. ASSUME UNCHANGED vars PROVE ClaimInv'
  BY <1>14, ClaimFrame DEF vars, row, worker, ClaimInv
<1> QED
  BY <1>1, <1>2, <1>3, <1>4, <1>5, <1>6, <1>7, <1>8, <1>9, <1>10, <1>11, <1>12,
     <1>13, <1>14 DEF Next, Handle

\* If a whole batch fits in the lock timeout, no event is ever claimed by two
\* workers at a time: the condition the claims of process_once rest on.
THEOREM ClaimsAreExclusive == BatchFitsLock => (Spec => []ExclusiveClaims)
<1> SUFFICES ASSUME BatchFitsLock PROVE Spec => []ExclusiveClaims
  OBVIOUS
<1>1. Init => ClaimInv
  BY FS_EmptySet DEF Init, ClaimInv
<1>2. TypeOK /\ ClaimInv /\ [Next]_vars => ClaimInv'
  BY ClaimStep
<1>3. ClaimInv => ExclusiveClaims
  BY DEF ClaimInv, Owns, ExclusiveClaims
<1> QED
  BY <1>1, <1>2, <1>3, TypeCorrect, PTL DEF Spec

-----------------------------------------------------------------------------
(***************************************************************************)
(* The refinement: each step of a worker, an operator or the API is one    *)
(* step of EventHandoff or leaves its variables alone.                     *)
(***************************************************************************)
HandoffPhase == [e \in Events |-> Phase(status[e])]

\* A step that leaves all statuses alone leaves all phases alone.
LEMMA PhaseFrame == UNCHANGED status => UNCHANGED HandoffPhase
  BY DEF HandoffPhase

LEMMA PhaseAt == \A e \in Events : HandoffPhase[e] = Phase(status[e])
  BY DEF HandoffPhase

\* A step that changes one status changes one phase.
LEMMA PhaseChange ==
  ASSUME status \in [Events -> {"absent", "pending", "processing", "published", "dead"}],
         NEW e \in Events, NEW s, status' = [status EXCEPT ![e] = s]
  PROVE  HandoffPhase' = [HandoffPhase EXCEPT ![e] = Phase(s)]
<1>1. \A f \in Events : Phase(status[f])' = IF f = e THEN Phase(s) ELSE Phase(status[f])
  BY DEF Phase
<1> QED
  BY <1>1 DEF HandoffPhase

LEMMA HandoffRefinesInit == Init => Handoff!Init
<1> SUFFICES ASSUME Init PROVE Handoff!Init
  OBVIOUS
<1>1. \A e \in Events : Phase(status[e]) = "none"
  BY DEF Init, Phase
<1> QED
  BY <1>1 DEF Init, Handoff!Init

\* The broker's count, for a first and for a further handoff.
LEMMA DeliverOnce ==
  ASSUME delivered \in [Events -> 0..2], NEW e \in Events, delivered[e] = 0
  PROVE  Delivered(e) = [delivered EXCEPT ![e] = 1]
  BY DEF Delivered, Smaller

LEMMA DeliverTwice ==
  ASSUME delivered \in [Events -> 0..2], NEW e \in Events
  PROVE  Delivered(e) = [delivered EXCEPT ![e] = IF @ = 0 THEN 1 ELSE 2]
<1>1. Smaller(2, delivered[e] + 1) = IF delivered[e] = 0 THEN 1 ELSE 2
  BY DEF Smaller
<1> QED
  BY <1>1 DEF Delivered

\* A worker that is about to hand off an event with no excuse holds its lock,
\* and the broker does not have the event.
LEMMA UnexcusedHandoff ==
  ASSUME HandoffInv, NEW w \in Workers, NEW e \in Events,
         Current(w, e), outcome[w] = "none", e \notin excused
  PROVE  HandoffPhase[e] = "open" /\ delivered[e] = 0
<1>1. status[e] = "processing"
  BY DEF HandoffInv, UnexcusedIsOwned, Current, Owns
<1>2. delivered[e] = 0
  BY <1>1 DEF HandoffInv, UnexcusedDelivery, TypeOK, Current, PublishReturned
<1> QED
  BY <1>1, <1>2, PhaseAt DEF Phase

LEMMA HandoffRefinesStep == HandoffInv /\ [Next]_vars => [Handoff!Next]_Handoff!vars
<1> SUFFICES ASSUME HandoffInv, [Next]_vars PROVE [Handoff!Next]_Handoff!vars
  OBVIOUS
<1>0. TypeOK
  BY DEF HandoffInv
<1> DEFINE AbstractStep == [Handoff!Next]_Handoff!vars
<1>a. HandoffPhase = [e \in Events |-> Phase(status[e])]
  BY DEF HandoffPhase
<1>s. UNCHANGED <<status, attempts, replays, delivered, excused>> => AbstractStep
  BY DEF Handoff!vars
<1>1. ASSUME NEW e \in Events, Insert(e) PROVE AbstractStep
  <2>1. Handoff!Commit(e)
    <3>1. HandoffPhase[e] = "none"
      BY <1>1, PhaseAt DEF Insert, Phase
    <3>2. HandoffPhase' = [HandoffPhase EXCEPT ![e] = "open"]
      <4>1. Phase("pending") = "open"
        BY DEF Phase
      <4> QED
        BY <4>1, <1>0, <1>1, PhaseChange DEF Insert, TypeOK
    <3> QED
      BY <3>1, <3>2, <1>1 DEF Insert, HandoffPhase, Handoff!Commit, Handoff!To
  <2> QED
    BY <2>1 DEF Handoff!Next
<1>2. ASSUME NEW e \in Events, ReplayEvent(e) PROVE AbstractStep
  <2>1. Handoff!Replay(e)
    <3>1. HandoffPhase[e] = "dead"
      BY <1>2, PhaseAt DEF ReplayEvent, Phase
    <3>2. HandoffPhase' = [HandoffPhase EXCEPT ![e] = "open"]
      <4>1. Phase("pending") = "open"
        BY DEF Phase
      <4> QED
        BY <4>1, <1>0, <1>2, PhaseChange DEF ReplayEvent, TypeOK
    <3> QED
      BY <3>1, <3>2, <1>2 DEF ReplayEvent, HandoffPhase, Handoff!Replay, Handoff!To
  <2> QED
    BY <2>1 DEF Handoff!Next
<1>3. ASSUME NEW w \in Workers, Claim(w) PROVE AbstractStep
  <2>1. PICK now \in Skew, skipped \in SUBSET Skippable(w), claimed \in SUBSET Events :
          Claim(w)!(now, skipped, claimed)
    BY <1>3 DEF Claim
  <2> DEFINE interrupted == {e \in claimed : status[e] = "processing"}
  <2>2. \A e \in claimed : status[e] \in {"pending", "processing"}
    BY <2>1 DEF Oldest, Claimable
  <2>3. \A e \in Events : Phase(status[e])' = Phase(status[e])
    BY <2>1, <2>2 DEF Phase
  <2>4. HandoffPhase' = HandoffPhase
    BY <2>3 DEF HandoffPhase
  <2>5. interrupted \subseteq {e \in Events : HandoffPhase[e] = "open"}
    BY <2>2, PhaseAt DEF Phase
  <2>6. Handoff!Excuse(interrupted)
    BY <2>1, <2>4, <2>5 DEF HandoffPhase, Handoff!Excuse
  <2> QED
    BY <2>6 DEF Handoff!Next
<1>4. ASSUME NEW w \in Workers, NEW e \in Events, PublishOk(w, e) PROVE AbstractStep
  <2>1. CASE e \in excused
    <3>1. Handoff!Redeliver(e)
      BY <2>1, <1>4, DeliverTwice, <1>0 DEF PublishOk, row, Handoff!Redeliver, TypeOK
    <3> QED
      BY <3>1 DEF Handoff!Next
  <2>2. CASE e \notin excused
    <3>1. HandoffPhase[e] = "open" /\ delivered[e] = 0
      BY <2>2, <1>4, UnexcusedHandoff DEF PublishOk
    <3>2. Handoff!Deliver(e)
      BY <3>1, <1>4, DeliverOnce, <1>0 DEF PublishOk, row, HandoffPhase, Handoff!Deliver, TypeOK
    <3> QED
      BY <3>2 DEF Handoff!Next
  <2> QED
    BY <2>1, <2>2
<1>5. ASSUME NEW w \in Workers, NEW e \in Events, PublishError(w, e) PROVE AbstractStep
  <2>1. UNCHANGED <<status, attempts, replays>>
    BY <1>5 DEF PublishError, row
  <2>2. CASE UNCHANGED <<delivered, excused>>
    BY <2>1, <2>2, <1>s
  <2>3. CASE delivered' = Delivered(e) /\ excused' = excused \cup {e} /\ e \in excused
    <3>1. Handoff!Redeliver(e)
      BY <2>1, <2>3, DeliverTwice, <1>0 DEF Handoff!Redeliver, TypeOK
    <3> QED
      BY <3>1 DEF Handoff!Next
  <2>4. CASE delivered' = Delivered(e) /\ excused' = excused \cup {e} /\ e \notin excused
    <3>1. HandoffPhase[e] = "open" /\ delivered[e] = 0
      BY <2>4, <1>5, UnexcusedHandoff DEF PublishError
    <3>2. Handoff!Deliver(e)
      BY <3>1, <2>1, <2>4, DeliverOnce, <1>0 DEF HandoffPhase, Handoff!Deliver, TypeOK
    <3> QED
      BY <3>2 DEF Handoff!Next
  <2> QED
    BY <1>5, <2>2, <2>3, <2>4 DEF PublishError
<1>6. ASSUME NEW w \in Workers, NEW e \in Events, MarkPublished(w, e) PROVE AbstractStep
  <2>1. Handoff!Complete(e)
    <3>1. HandoffPhase[e] = "open"
      BY <1>6, PhaseAt DEF MarkPublished, Owns, Phase
    <3>2. delivered[e] > 0
      BY <1>6 DEF MarkPublished, HandoffInv, ReturnedWasDelivered
    <3>3. HandoffPhase' = [HandoffPhase EXCEPT ![e] = "done"]
      BY <1>0, <1>6, PhaseChange DEF MarkPublished, Phase, TypeOK
    <3> QED
      BY <3>1, <3>2, <3>3, <1>6
         DEF MarkPublished, NextOfBatch, HandoffPhase, Handoff!Complete, Handoff!To
  <2> QED
    BY <2>1 DEF Handoff!Next
<1>7. ASSUME NEW w \in Workers, NEW e \in Events, MarkFailed(w, e) PROVE AbstractStep
  <2> DEFINE next == AfterFailure(attempts[e] + 1)
  <2>0. /\ Owns(w, e) /\ PublishRaised(w, e)
        /\ status' = [status EXCEPT ![e] = next]
        /\ attempts' = [attempts EXCEPT ![e] = @ + 1]
        /\ UNCHANGED <<replays, delivered, excused>>
    BY <1>7 DEF MarkFailed, NextOfBatch
  <2>1. HandoffPhase[e] = "open"
    BY <2>0, PhaseAt DEF Owns, Phase
  <2>2. delivered[e] = 0 \/ e \in excused
    BY <2>0, <1>0 DEF HandoffInv, UnexcusedDelivery, PublishRaised, PublishReturned, Current,
                      Owns, TypeOK
  <2>3. HandoffPhase' = [HandoffPhase EXCEPT ![e] = Phase(next)]
    BY <1>0, <2>0, PhaseChange DEF TypeOK
  <2>4. Phase(next) = IF attempts[e] + 1 >= MaxAttempts THEN "dead" ELSE "open"
    BY DEF AfterFailure, Phase
  <2>5. Handoff!Fail(e)
    BY <2>0, <2>1, <2>2, <2>3, <2>4 DEF HandoffPhase, Handoff!Fail, Handoff!To
  <2> QED
    BY <2>5 DEF Handoff!Next
<1>8. ASSUME NEW w \in Workers, NEW e \in Events, MarkRefused(w, e) PROVE AbstractStep
  BY <1>8, <1>s DEF MarkRefused, NextOfBatch, row
<1>9. ASSUME NEW w \in Workers, Crash(w) PROVE AbstractStep
  BY <1>9, <1>s DEF Crash, row
<1>10. ASSUME NEW w \in Workers, RequestStop(w) PROVE AbstractStep
  BY <1>10, <1>s DEF RequestStop, row
<1>11. ASSUME NEW w \in Workers, Stop(w) PROVE AbstractStep
  BY <1>11, <1>s DEF Stop, row
<1>12. ASSUME NEW w \in Workers, Start(w) PROVE AbstractStep
  BY <1>12, <1>s DEF Start, row
<1>13. ASSUME Tick PROVE AbstractStep
  BY <1>13, <1>s DEF Tick
<1>14. ASSUME UNCHANGED vars PROVE AbstractStep
  BY <1>14, <1>s DEF vars, row
<1> QED
  BY <1>1, <1>2, <1>3, <1>4, <1>5, <1>6, <1>7, <1>8, <1>9, <1>10, <1>11, <1>12,
     <1>13, <1>14 DEF Next, Handle

\* Whatever the workers, crashes, stolen locks and replays, the outbox is an
\* at-least-once handoff with bounded retries.
THEOREM WorkersHandOff == Spec => ImplementsHandoff
  BY HandoffInit, HandoffStep, HandoffRefinesInit, HandoffRefinesStep, PTL
     DEF Spec, ImplementsHandoff, Handoff!Spec
=============================================================================
