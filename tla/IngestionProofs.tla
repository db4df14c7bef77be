--------------------------- MODULE IngestionProofs ---------------------------
(***************************************************************************)
(* Theorems about Ingestion, for any requests, keys and bodies: concurrent *)
(* transactions implement a service that takes requests one at a time, and *)
(* an answer 202 is true.                                                  *)
(***************************************************************************)
EXTENDS Ingestion, FiniteSetTheorems, WellFoundedInduction, TLAPS

\* A non-empty finite set of numbers has a greatest element: the one above which
\* there are the fewest (strict inclusion of finite sets is well-founded).
LEMMA Greatest ==
  ASSUME NEW S \in SUBSET Nat, IsFiniteSet(S), S # {}
  PROVE  \E m \in S : \A n \in S : n <= m
<1> DEFINE Above(x) == {y \in S : y > x}
           T == {Above(x) : x \in S}
<1>1. IsWellFoundedOn(StrictSubsetOrdering(S), FiniteSubsetsOf(S))
  BY FS_StrictSubsetOrderingWellFounded
<1>2. T \subseteq FiniteSubsetsOf(S) /\ T # {}
  <2>1. \A B \in SUBSET S : IsFiniteSet(B)
    BY FS_Subset
  <2> QED
    BY <2>1 DEF FiniteSubsetsOf
<1>3. PICK B \in T : \A C \in T : ~(<<C, B>> \in StrictSubsetOrdering(S))
  <2> HIDE DEF T
  <2> QED
    BY <1>1, <1>2, WFMin
<1>4. PICK m \in S : B = Above(m)
  OBVIOUS
<1>5. ASSUME NEW n \in S, n > m PROVE FALSE
  <2>1. m \in Nat /\ n \in Nat /\ \A y \in S : y \in Nat
    OBVIOUS
  <2>2. \A y \in S : y > n => y > m
    BY <1>5, <2>1
  <2>3. Above(n) \subseteq Above(m)
    BY <2>2
  <2>4. n \in Above(m) /\ n \notin Above(n)
    BY <1>5, <2>1
  <2>5. Above(n) \in T /\ Above(n) \in SUBSET S /\ Above(m) \in SUBSET S
    OBVIOUS
  <2> HIDE DEF Above, T
  <2>6. <<Above(n), B>> \in StrictSubsetOrdering(S)
    BY <1>4, <2>3, <2>4, <2>5 DEF StrictSubsetOrdering
  <2> QED
    BY <1>3, <2>5, <2>6
<1> QED
  <2>1. \A n \in S : n \in Nat /\ m \in Nat /\ ~(n > m)
    BY <1>5
  <2> QED
    BY <2>1

Records == [body : {Body[r] : r \in Requests}, accepted : SUBSET SequenceSet]

\* TypeOK without the last sequence number, which the service does not have.
TablesOK ==
  /\ keys \in [KeySet -> Records \cup {None}]
  /\ rows \in [SequenceSet -> ValueSet \cup {None}]
  /\ events \subseteq KeySet
  /\ pc \in [Requests -> {"sent", "begun", "inserting", "committing", "done"}]
  /\ replayed \in [Requests -> BOOLEAN]
  /\ index \in [Requests -> Nat \ {0}]
  /\ mine \in [Requests -> SUBSET SequenceSet]
  /\ status \in [Requests -> {"none", "202", "conflict", "in_progress", "error"}]
  /\ accepted \in [Requests -> SUBSET SequenceSet]

\* Transactions that have inserted their key and not ended.
Open(r) == pc[r] \in {"inserting", "committing"} /\ ~replayed[r]

\* An answer ends the transaction; before its key it has inserted nothing.
Progress ==
  \A r \in Requests :
    /\ pc[r] = "done" <=> status[r] # "none"
    /\ pc[r] \in {"sent", "begun"} => index[r] = 1 /\ mine[r] = {} /\ ~replayed[r]
    /\ pc[r] = "inserting" => ~replayed[r]

\* The unique constraint on keys: one open transaction for a key that is free.
KeyReserved ==
  \A r \in Requests : Open(r) =>
    /\ keys[Key[r]] = None
    /\ \A q \in Requests \ {r} : Open(q) => Key[q] # Key[r]

\* The unique constraint on readings: what an open transaction has inserted is
\* in no other one and not stored; what it has skipped is stored.
RowsReserved ==
  \A r \in Requests : Open(r) =>
    /\ \A s \in mine[r] : rows[s] = None
    /\ mine[r] \subseteq SequencesOf(Body[r])
    /\ \A i \in 1..Len(Body[r]) : i < index[r] =>
         Body[r][i].sequence \in mine[r] \/ rows[Body[r][i].sequence] # None
    /\ pc[r] = "committing" => Len(Body[r]) < index[r]
    /\ \A q \in Requests \ {r} : Open(q) => mine[q] \cap mine[r] = {}

\* A replay gives the recorded answer of the same body.
ReplayRecorded ==
  \A r \in Requests : pc[r] = "committing" /\ replayed[r] =>
    keys[Key[r]] = [body |-> Body[r], accepted |-> mine[r]]

\* A recorded request has its event, and its readings are stored.
RecordedIsStored ==
  \A k \in KeySet : keys[k] # None =>
    k \in events /\ \A s \in SequencesOf(keys[k].body) : rows[s] # None

SerialInv ==
  /\ TablesOK /\ Progress /\ KeyReserved /\ RowsReserved
  /\ ReplayRecorded /\ RecordedIsStored /\ AcknowledgedIsStored

-----------------------------------------------------------------------------
LEMMA BodyReading ==
  ASSUME NEW r \in Requests, NEW i \in 1..Len(Body[r])
  PROVE  Body[r][i].sequence \in SequenceSet /\ Body[r][i].value \in ValueSet
BY BodiesAssumption DEF SequenceSet, SequencesOf, ValueSet

LEMMA BodySequences ==
  ASSUME NEW r \in Requests
  PROVE  SequencesOf(Body[r]) \subseteq SequenceSet
BY DEF SequenceSet

LEMMA ValueTyped ==
  ASSUME NEW r \in Requests, NEW s \in SequencesOf(Body[r])
  PROVE  ValueIn(Body[r], s) \in ValueSet /\ ValueIn(Body[r], s) # None
<1> DEFINE i == CHOOSE i \in 1..Len(Body[r]) : Body[r][i].sequence = s
<1>1. \E j \in 1..Len(Body[r]) : Body[r][j].sequence = s
  BY DEF SequencesOf
<1>2. i \in 1..Len(Body[r])
  BY <1>1
<1>3. ValueIn(Body[r], s) = Body[r][i].value
  BY DEF ValueIn
<1> HIDE DEF i
<1>4. Body[r][i].value \in ValueSet
  BY <1>2, BodyReading
<1> QED
  BY <1>3, <1>4, NoneAssumption

LEMMA SerialInit == Init => SerialInv
<1> SUFFICES ASSUME Init PROVE SerialInv
  OBVIOUS
<1> USE DEF Init
<1>1. TablesOK
  BY DEF TablesOK
<1>2. Progress /\ KeyReserved /\ RowsReserved /\ ReplayRecorded
  BY DEF Progress, KeyReserved, RowsReserved, ReplayRecorded, Open
<1>3. RecordedIsStored /\ AcknowledgedIsStored
  BY DEF RecordedIsStored, AcknowledgedIsStored, KeySet
<1> QED
  BY <1>1, <1>2, <1>3 DEF SerialInv

-----------------------------------------------------------------------------
\* A transaction that ends without effect takes nothing from the others.
LEMMA EndKeeps ==
  ASSUME SerialInv, NEW r \in Requests, NEW code \in {"conflict", "in_progress", "error"},
         End(r, code, {}), UNCHANGED table
  PROVE  SerialInv'
<1> USE DEF SerialInv, End, table
<1>1. TablesOK'
  BY DEF TablesOK
<1>2. Progress'
  BY DEF TablesOK, Progress
<1>3. \A q \in Requests : Open(q)' => q # r /\ Open(q) /\ mine'[q] = mine[q] /\ index'[q] = index[q]
  BY DEF TablesOK, Open
<1>4. KeyReserved'
  BY <1>3 DEF KeyReserved, Open
<1>5. RowsReserved'
  BY <1>3 DEF RowsReserved, TablesOK
<1>6. ReplayRecorded'
  BY DEF ReplayRecorded, TablesOK
<1>7. RecordedIsStored' /\ AcknowledgedIsStored'
  BY DEF RecordedIsStored, AcknowledgedIsStored, TablesOK
<1> QED
  BY <1>1, <1>2, <1>4, <1>5, <1>6, <1>7

LEMMA ReadDeviceKeeps ==
  ASSUME SerialInv, NEW r \in Requests, ReadDevice(r)
  PROVE  SerialInv'
<1> USE DEF SerialInv, ReadDevice, table, answer
<1>1. TablesOK'
  BY DEF TablesOK
<1>2. Progress'
  BY DEF TablesOK, Progress
<1>3. \A q \in Requests : Open(q)' <=> Open(q)
  BY DEF TablesOK, Open
<1>4. KeyReserved' /\ ReplayRecorded'
  BY <1>3 DEF KeyReserved, ReplayRecorded, TablesOK
<1>5. RowsReserved'
  BY <1>3 DEF RowsReserved, TablesOK, Open
<1>6. RecordedIsStored' /\ AcknowledgedIsStored'
  BY DEF RecordedIsStored, AcknowledgedIsStored
<1> QED
  BY <1>1, <1>2, <1>4, <1>5, <1>6

\* The three outcomes of the reservation: the key is free, refused, replayed.
LEMMA ReserveKeyKeeps ==
  ASSUME SerialInv, NEW r \in Requests, ReserveKey(r)
  PROVE  SerialInv'
<1> DEFINE found == keys[Key[r]]
<1>0. UNCHANGED table /\ pc[r] = "begun" /\ (\A q \in Requests \ {r} : ~HoldsKey(q, Key[r]))
  BY DEF ReserveKey
<1>1. CASE found = None /\ pc' = [pc EXCEPT ![r] = "inserting"]
           /\ UNCHANGED <<seen, replayed, index, mine, answer>>
  <2> USE <1>0, <1>1 DEF SerialInv, table, answer
  <2>1. TablesOK'
    BY DEF TablesOK
  <2>2. Progress'
    BY DEF TablesOK, Progress
  <2>3. \A q \in Requests \ {r} : Open(q)' <=> Open(q)
    BY DEF TablesOK, Open
  <2>4. \A q \in Requests \ {r} : Open(q) => Key[q] # Key[r]
    BY DEF HoldsKey, Open
  <2>5. KeyReserved'
    BY <2>3, <2>4 DEF KeyReserved
  <2>6. RowsReserved'
    BY <2>3 DEF RowsReserved, TablesOK, Progress
  <2>7. ReplayRecorded' /\ RecordedIsStored' /\ AcknowledgedIsStored'
    BY DEF ReplayRecorded, RecordedIsStored, AcknowledgedIsStored, TablesOK
  <2> QED
    BY <2>1, <2>2, <2>5, <2>6, <2>7
<1>2. CASE Refusal(r, found) # "none" /\ End(r, Refusal(r, found), {})
  <2>1. Refusal(r, found) \in {"conflict", "in_progress", "error"}
    BY <1>2 DEF Refusal
  <2> QED
    BY <1>0, <1>2, <2>1, EndKeeps
<1>3. CASE /\ found # None /\ Refusal(r, found) = "none"
           /\ pc' = [pc EXCEPT ![r] = "committing"]
           /\ replayed' = [replayed EXCEPT ![r] = TRUE]
           /\ mine' = [mine EXCEPT ![r] = found.accepted]
           /\ UNCHANGED <<seen, index, answer>>
  <2> USE <1>0, <1>3 DEF SerialInv, table, answer
  <2>1. found \in Records /\ found.body = Body[r]
    BY DEF TablesOK, Refusal, KeySet
  <2>2. TablesOK'
    BY <2>1 DEF TablesOK, Records
  <2>3. Progress'
    BY DEF TablesOK, Progress
  <2>4. \A q \in Requests : Open(q)' => q # r /\ Open(q) /\ mine'[q] = mine[q] /\ index'[q] = index[q]
    BY DEF TablesOK, Open
  <2>5. KeyReserved'
    BY <2>4 DEF KeyReserved
  <2>6. RowsReserved'
    BY <2>4 DEF RowsReserved, TablesOK
  <2>7. ReplayRecorded'
    BY <2>1 DEF ReplayRecorded, TablesOK, Records
  <2>8. RecordedIsStored' /\ AcknowledgedIsStored'
    BY DEF RecordedIsStored, AcknowledgedIsStored
  <2> QED
    BY <2>2, <2>3, <2>5, <2>6, <2>7, <2>8
<1> QED
  BY <1>1, <1>2, <1>3 DEF ReserveKey

\* A reading is inserted only if no open transaction has it and it is not stored.
LEMMA InsertReadingKeeps ==
  ASSUME SerialInv, NEW r \in Requests, InsertReading(r)
  PROVE  SerialInv'
<1> DEFINE s == Current(r)
<1> USE DEF Current
<1>0. /\ pc[r] = "inserting" /\ ~replayed[r] /\ index[r] \in 1..Len(Body[r])
      /\ mine' = IF rows[s] = None THEN [mine EXCEPT ![r] = @ \cup {s}] ELSE mine
      /\ index' = [index EXCEPT ![r] = @ + 1]
      /\ UNCHANGED <<keys, rows, events, pc, replayed, status, accepted>>
      /\ \A q \in Requests \ {r} : ~HoldsSequence(q, s)
  BY BodiesAssumption DEF InsertReading, SerialInv, TablesOK, Progress, table, answer
<1>1. s \in SequenceSet /\ s \in SequencesOf(Body[r])
  BY <1>0, BodyReading DEF SequencesOf
<1> HIDE DEF s
<1>2. \A q \in Requests : Open(q)' <=> Open(q)
  BY <1>0 DEF Open
<1>3. \A q \in Requests \ {r} : Open(q) => s \notin mine[q]
  BY <1>0 DEF HoldsSequence, HoldsKey, Open
<1>4. /\ \A q \in Requests \ {r} : mine'[q] = mine[q] /\ index'[q] = index[q]
      /\ mine'[r] = (IF rows[s] = None THEN mine[r] \cup {s} ELSE mine[r])
      /\ index'[r] = index[r] + 1
  BY <1>0 DEF SerialInv, TablesOK
<1>5. TablesOK'
  BY <1>0, <1>1 DEF SerialInv, TablesOK
<1>6. Progress'
  BY <1>0, <1>4 DEF SerialInv, Progress
<1>7. KeyReserved' /\ ReplayRecorded'
  BY <1>0, <1>2, <1>4 DEF SerialInv, KeyReserved, ReplayRecorded
<1>8. RowsReserved'
  <2>1. \A p \in Requests : Open(p) =>
          /\ \A t \in mine'[p] : rows[t] = None
          /\ mine'[p] \subseteq SequencesOf(Body[p])
    BY <1>1, <1>4 DEF SerialInv, RowsReserved
  <2>2. \A p \in Requests : Open(p) => \A i \in 1..Len(Body[p]) : i < index'[p] =>
          Body[p][i].sequence \in mine'[p] \/ rows[Body[p][i].sequence] # None
    <3> SUFFICES ASSUME NEW p \in Requests, Open(p), NEW i \in 1..Len(Body[p]), i < index'[p]
                 PROVE  Body[p][i].sequence \in mine'[p] \/ rows[Body[p][i].sequence] # None
      OBVIOUS
    <3>1. CASE p = r /\ i = index[r]
      BY <3>1, <1>4 DEF s
    <3>2. CASE ~(p = r /\ i = index[r])
      <4>1. i < index[p]
        BY <3>2, <1>4, <1>0
      <4> QED
        BY <4>1, <1>4 DEF SerialInv, RowsReserved
    <3> QED
      BY <3>1, <3>2
  <2>3. \A p \in Requests : Open(p) /\ pc[p] = "committing" => Len(Body[p]) < index'[p]
    BY <1>0, <1>4 DEF SerialInv, RowsReserved
  <2>4. \A p \in Requests : Open(p) =>
          \A q \in Requests \ {p} : Open(q) => mine'[q] \cap mine'[p] = {}
    BY <1>3, <1>4 DEF SerialInv, RowsReserved
  <2> QED
    BY <1>0, <1>2, <2>1, <2>2, <2>3, <2>4 DEF RowsReserved
<1>9. RecordedIsStored' /\ AcknowledgedIsStored'
  BY <1>0 DEF SerialInv, RecordedIsStored, AcknowledgedIsStored
<1> QED
  BY <1>5, <1>6, <1>7, <1>8, <1>9 DEF SerialInv

LEMMA RespondKeeps ==
  ASSUME SerialInv, NEW r \in Requests, Respond(r)
  PROVE  SerialInv'
<1> USE DEF SerialInv, Respond, table, answer
<1>1. TablesOK'
  BY DEF TablesOK
<1>2. Progress'
  BY DEF TablesOK, Progress
<1>3. \A q \in Requests : Open(q)' <=> Open(q)
  BY DEF TablesOK, Open
<1>4. KeyReserved' /\ ReplayRecorded'
  BY <1>3 DEF KeyReserved, ReplayRecorded, TablesOK, Progress
<1>5. RowsReserved'
  BY <1>3, BodiesAssumption DEF RowsReserved, TablesOK, Open
<1>6. RecordedIsStored' /\ AcknowledgedIsStored'
  BY DEF RecordedIsStored, AcknowledgedIsStored
<1> QED
  BY <1>1, <1>2, <1>4, <1>5, <1>6

LEMMA Recorded ==
  ASSUME SerialInv, NEW r \in Requests
  PROVE  /\ Key[r] \in KeySet
         /\ [body |-> Body[r], accepted |-> mine[r]] \in Records
         /\ [body |-> Body[r], accepted |-> mine[r]] # None
BY NoneAssumption DEF SerialInv, TablesOK, Records, KeySet

\* An open transaction that is to commit has accounted for every reading.
LEMMA AllAccounted ==
  ASSUME SerialInv, NEW r \in Requests, pc[r] = "committing", ~replayed[r]
  PROVE  /\ keys[Key[r]] = None
         /\ mine[r] \subseteq SequencesOf(Body[r])
         /\ \A s \in SequencesOf(Body[r]) : s \in mine[r] <=> rows[s] = None
<1>1. Open(r)
  BY DEF Open
<1>2. \A i \in 1..Len(Body[r]) :
        Body[r][i].sequence \in mine[r] \/ rows[Body[r][i].sequence] # None
  <2> TAKE i \in 1..Len(Body[r])
  <2>1. i < index[r]
    BY <1>1, BodiesAssumption DEF SerialInv, RowsReserved, TablesOK
  <2> QED
    BY <1>1, <2>1 DEF SerialInv, RowsReserved
<1> QED
  BY <1>1, <1>2 DEF SerialInv, KeyReserved, RowsReserved, SequencesOf

\* What the commit of an open transaction changes.
LEMMA WriteEffect ==
  ASSUME SerialInv, NEW r \in Requests, pc[r] = "committing", ~replayed[r], Write(r)
  PROVE  /\ keys' = [keys EXCEPT ![Key[r]] = [body |-> Body[r], accepted |-> mine[r]]]
         /\ rows' \in [SequenceSet -> ValueSet \cup {None}]
         /\ events' = events \cup {Key[r]}
         /\ \A s \in SequenceSet : s \notin mine[r] => rows'[s] = rows[s]
         /\ \A s \in SequenceSet : rows[s] # None => rows'[s] # None
         /\ \A s \in SequencesOf(Body[r]) : rows'[s] # None
<1>1. /\ keys' = [keys EXCEPT ![Key[r]] = [body |-> Body[r], accepted |-> mine[r]]]
      /\ rows' = [s \in SequenceSet |-> IF s \in mine[r] THEN ValueIn(Body[r], s) ELSE rows[s]]
      /\ events' = events \cup {Key[r]}
  BY DEF Write
<1>2. rows \in [SequenceSet -> ValueSet \cup {None}]
  BY DEF SerialInv, TablesOK
<1>3. \A s \in mine[r] : ValueIn(Body[r], s) \in ValueSet /\ ValueIn(Body[r], s) # None
  BY AllAccounted, ValueTyped
<1>4. rows' \in [SequenceSet -> ValueSet \cup {None}]
  BY <1>1, <1>2, <1>3
<1>5. \A s \in SequenceSet : rows[s] # None => rows'[s] # None
  BY <1>1, <1>3
<1>6. \A s \in SequencesOf(Body[r]) : rows'[s] # None
  BY <1>1, <1>3, AllAccounted, BodySequences
<1> QED
  BY <1>1, <1>4, <1>5, <1>6

\* A commit stores its readings and its key, which no one else has inserted.
LEMMA WriteKeeps ==
  ASSUME SerialInv, NEW r \in Requests, pc[r] = "committing", Write(r),
         NEW code \in {"202", "error"}, NEW counted \in SUBSET SequenceSet,
         End(r, code, counted)
  PROVE  SerialInv'
<1>1. \A q \in Requests \ {r} :
        pc'[q] = pc[q] /\ mine'[q] = mine[q] /\ status'[q] = status[q]
  BY DEF End, SerialInv, TablesOK
<1>2. pc'[r] = "done" /\ status'[r] = code /\ UNCHANGED <<replayed, index>>
  BY DEF End, SerialInv, TablesOK
<1>3. Progress'
  BY <1>1, <1>2 DEF SerialInv, Progress
<1>4. \A q \in Requests : Open(q)' => q # r /\ Open(q)
  BY <1>1, <1>2 DEF Open
<1>5. CASE replayed[r]
  <2>1. UNCHANGED <<keys, rows, events>>
    BY <1>5 DEF Write
  <2>2. TablesOK'
    BY <2>1 DEF SerialInv, TablesOK, End
  <2>3. KeyReserved' /\ ReplayRecorded' /\ RecordedIsStored'
    BY <1>1, <1>2, <1>4, <2>1 DEF SerialInv, KeyReserved, ReplayRecorded, RecordedIsStored
  <2>4. RowsReserved'
    BY <1>1, <1>2, <1>4, <2>1 DEF SerialInv, RowsReserved
  <2>5. keys[Key[r]] = [body |-> Body[r], accepted |-> mine[r]]
    BY <1>5 DEF SerialInv, ReplayRecorded
  <2>6. Key[r] \in events /\ \A s \in SequencesOf(Body[r]) : rows[s] # None
    BY <2>5, Recorded DEF SerialInv, RecordedIsStored
  <2>7. AcknowledgedIsStored'
    BY <1>1, <2>1, <2>5, <2>6, Recorded DEF SerialInv, AcknowledgedIsStored
  <2> QED
    BY <1>3, <2>2, <2>3, <2>4, <2>7 DEF SerialInv
<1>6. CASE ~replayed[r]
  <2> DEFINE answerOf == [body |-> Body[r], accepted |-> mine[r]]
  <2>1. /\ keys' = [keys EXCEPT ![Key[r]] = answerOf]
        /\ rows' \in [SequenceSet -> ValueSet \cup {None}]
        /\ events' = events \cup {Key[r]}
        /\ \A s \in SequenceSet : s \notin mine[r] => rows'[s] = rows[s]
        /\ \A s \in SequenceSet : rows[s] # None => rows'[s] # None
        /\ \A s \in SequencesOf(Body[r]) : rows'[s] # None
    BY <1>6, WriteEffect
  <2>2. Key[r] \in KeySet /\ answerOf \in Records /\ answerOf # None
    BY Recorded
  <2>3. answerOf.body = Body[r] /\ keys[Key[r]] = None /\ Open(r)
    BY <1>6, AllAccounted DEF Open
  <2> HIDE DEF answerOf
  <2>4. /\ keys'[Key[r]] = answerOf
        /\ \A k \in KeySet : k # Key[r] => keys'[k] = keys[k]
    BY <2>1, <2>2 DEF SerialInv, TablesOK
  <2>5. TablesOK'
    BY <2>1, <2>2 DEF SerialInv, TablesOK, End
  <2>6. KeyReserved'
    BY <1>1, <1>2, <1>4, <2>3, <2>4 DEF SerialInv, KeyReserved, KeySet
  <2>7. RowsReserved'
    <3> SUFFICES ASSUME NEW p \in Requests, p # r, Open(p), Open(p)'
                 PROVE  /\ \A s \in mine'[p] : rows'[s] = None
                        /\ mine'[p] \subseteq SequencesOf(Body[p])
                        /\ \A i \in 1..Len(Body[p]) : i < index'[p] =>
                             Body[p][i].sequence \in mine'[p] \/ rows'[Body[p][i].sequence] # None
                        /\ pc'[p] = "committing" => Len(Body[p]) < index'[p]
                        /\ \A q \in Requests \ {p} : Open(q)' => mine'[q] \cap mine'[p] = {}
      BY <1>4 DEF RowsReserved
    <3>1. mine[p] \subseteq SequenceSet /\ mine[p] \cap mine[r] = {} /\ \A s \in mine[p] : rows[s] = None
      BY <2>3 DEF SerialInv, RowsReserved, TablesOK
    <3>2. \A s \in mine'[p] : rows'[s] = None
      BY <1>1, <2>1, <3>1
    <3>3. \A i \in 1..Len(Body[p]) : i < index'[p] =>
            Body[p][i].sequence \in mine'[p] \/ rows'[Body[p][i].sequence] # None
      BY <1>1, <1>2, <2>1, BodyReading DEF SerialInv, RowsReserved
    <3>4. \A q \in Requests \ {p} : Open(q)' => mine'[q] \cap mine'[p] = {}
      BY <1>1, <1>4 DEF SerialInv, RowsReserved
    <3>5. mine'[p] \subseteq SequencesOf(Body[p]) /\ (pc'[p] = "committing" => Len(Body[p]) < index'[p])
      BY <1>1, <1>2 DEF SerialInv, RowsReserved
    <3> QED
      BY <3>2, <3>3, <3>4, <3>5
  <2>8. ReplayRecorded'
    <3> SUFFICES ASSUME NEW q \in Requests, pc'[q] = "committing", replayed'[q]
                 PROVE  keys'[Key[q]] = [body |-> Body[q], accepted |-> mine'[q]]
      BY DEF ReplayRecorded
    <3>1. q # r /\ keys[Key[q]] = [body |-> Body[q], accepted |-> mine[q]]
      BY <1>1, <1>2 DEF SerialInv, ReplayRecorded
    <3>2. Key[q] # Key[r] /\ Key[q] \in KeySet
      BY <2>3, <3>1, Recorded
    <3> QED
      BY <1>1, <2>4, <3>1, <3>2
  <2>9. RecordedIsStored'
    <3> SUFFICES ASSUME NEW k \in KeySet, keys'[k] # None
                 PROVE  k \in events' /\ \A s \in SequencesOf(keys'[k].body) : rows'[s] # None
      BY DEF RecordedIsStored
    <3>1. CASE k = Key[r]
      BY <2>1, <2>3, <2>4, <3>1
    <3>2. CASE k # Key[r]
      <4>1. k \in events /\ keys'[k] = keys[k] /\ \A s \in SequencesOf(keys[k].body) : rows[s] # None
        BY <2>4, <3>2 DEF SerialInv, RecordedIsStored
      <4>2. PICK q \in Requests : keys[k].body = Body[q]
        BY <2>4, <3>2 DEF SerialInv, TablesOK, Records
      <4> QED
        BY <2>1, <4>1, <4>2, BodySequences
    <3> QED
      BY <3>1, <3>2
  <2>10. AcknowledgedIsStored'
    <3> SUFFICES ASSUME NEW q \in Requests, status'[q] = "202"
                 PROVE  /\ \A s \in SequencesOf(Body[q]) : rows'[s] # None
                        /\ keys'[Key[q]] # None /\ Key[q] \in events'
      BY DEF AcknowledgedIsStored
    <3>1. CASE q = r
      BY <2>1, <2>2, <2>4, <3>1
    <3>2. CASE q # r
      BY <1>1, <2>1, <2>2, <2>4, <3>2, BodySequences, Recorded DEF SerialInv, AcknowledgedIsStored
    <3> QED
      BY <3>1, <3>2
  <2> QED
    BY <1>3, <2>5, <2>6, <2>7, <2>8, <2>9, <2>10 DEF SerialInv
<1> QED
  BY <1>5, <1>6

LEMMA SerialStep == SerialInv /\ [Next]_vars => SerialInv'
<1> SUFFICES ASSUME SerialInv, [Next]_vars PROVE SerialInv'
  OBVIOUS
<1>1. CASE UNCHANGED vars
  <2>1. UNCHANGED <<keys, rows, events, pc, replayed, index, mine, status, accepted>>
    BY <1>1 DEF vars, table, request, answer
  <2>2. TablesOK' /\ Progress'
    BY <2>1 DEF SerialInv, TablesOK, Progress
  <2>3. KeyReserved'
    BY <2>1 DEF SerialInv, KeyReserved, Open
  <2>4. RowsReserved'
    BY <2>1 DEF SerialInv, RowsReserved, Open
  <2>5. ReplayRecorded' /\ RecordedIsStored'
    BY <2>1 DEF SerialInv, ReplayRecorded, RecordedIsStored
  <2>6. AcknowledgedIsStored'
    BY <2>1 DEF SerialInv, AcknowledgedIsStored
  <2> QED
    BY <2>2, <2>3, <2>4, <2>5, <2>6 DEF SerialInv
<1>2. ASSUME NEW r \in Requests, Reject(r) PROVE SerialInv'
  BY <1>2, EndKeeps DEF Reject
<1>3. ASSUME NEW r \in Requests, Proceed(r) PROVE SerialInv'
  <2>1. CASE ReserveKey(r)
    BY <2>1, ReserveKeyKeeps
  <2>2. CASE InsertReading(r)
    BY <2>2, InsertReadingKeeps
  <2>3. CASE Respond(r)
    BY <2>3, RespondKeeps
  <2>4. CASE Commit(r)
    <3>1. mine[r] \in SUBSET SequenceSet
      BY DEF SerialInv, TablesOK
    <3> QED
      BY <2>4, <3>1, WriteKeeps DEF Commit
  <2> QED
    BY <1>3, <2>1, <2>2, <2>3, <2>4 DEF Proceed
<1>4. ASSUME NEW r \in Requests, CommitUnanswered(r) PROVE SerialInv'
  <2>1. {} \in SUBSET SequenceSet
    OBVIOUS
  <2> QED
    BY <1>4, <2>1, WriteKeeps DEF CommitUnanswered
<1>5. ASSUME NEW r \in Requests, Abort(r) PROVE SerialInv'
  BY <1>5, EndKeeps DEF Abort
<1> QED
  BY <1>1, <1>2, <1>3, <1>4, <1>5, ReadDeviceKeeps DEF Next

LEMMA SerialInvariant == Spec => []SerialInv
BY SerialInit, SerialStep, PTL DEF Spec

\* A 202 is true: every reading of the batch is stored, its key is recorded and
\* its event will be published (ingest_measurements, ingestion.py).
THEOREM AcknowledgedBatchesAreStored == Spec => []AcknowledgedIsStored
<1>1. SerialInv => AcknowledgedIsStored
  BY DEF SerialInv
<1> QED
  BY <1>1, SerialInvariant, PTL

-----------------------------------------------------------------------------
\* The service sees the committed tables and the answers.
LEMMA ServiceInit == Init => Service!Init
BY DEF Init, Service!Init, KeySet, SequenceSet, SequencesOf, Service!SequencesOf

LEMMA ServiceAnswer ==
  ASSUME SerialInv, NEW r \in Requests, pc[r] # "done", NEW code, NEW counted, End(r, code, counted)
  PROVE  Service!Answer(r, code, counted)
BY DEF SerialInv, Progress, TablesOK, End, Service!Answer

\* A request that ends without effect has failed, for the service.
LEMMA ServiceFail ==
  ASSUME SerialInv, NEW r \in Requests, pc[r] # "done", End(r, "error", {}), UNCHANGED table
  PROVE  Service!Next
<1>1. Service!Fail(r)
  BY ServiceAnswer DEF Service!Fail, table
<1> QED
  BY <1>1 DEF Service!Next

\* The refusal of a key in use; "in progress" cannot be met (the key and its
\* response are committed together).
LEMMA ServiceReserve ==
  ASSUME SerialInv, NEW r \in Requests, ReserveKey(r)
  PROVE  Service!Next \/ UNCHANGED Service!vars
<1> DEFINE found == keys[Key[r]]
<1>0. pc[r] = "begun" /\ UNCHANGED table
  BY DEF ReserveKey
<1>1. CASE found # None /\ Refusal(r, found) # "none" /\ End(r, Refusal(r, found), {})
  <2>1. found \in Records
    BY <1>1 DEF SerialInv, TablesOK, KeySet
  <2>2. found.body # Body[r] /\ Refusal(r, found) = "conflict"
    BY <1>1, <2>1, NoneAssumption DEF Refusal, Records
  <2>3. Service!Conflict(r)
    BY <1>0, <1>1, <2>2, ServiceAnswer DEF Service!Conflict, table
  <2> QED
    BY <2>3 DEF Service!Next
<1>2. CASE UNCHANGED answer
  BY <1>0, <1>2 DEF table, answer, Service!vars
<1> QED
  BY <1>1, <1>2 DEF ReserveKey

\* A commit is the moment a request takes effect.
LEMMA ServiceCommit ==
  ASSUME SerialInv, NEW r \in Requests, pc[r] = "committing", Write(r),
         \/ End(r, "202", mine[r])
         \/ End(r, "error", {})
  PROVE  Service!Next
<1>1. CASE ~replayed[r]
  <2>1. Service!NewOf(r) = mine[r]
    BY <1>1, AllAccounted DEF Service!NewOf, SequencesOf, Service!SequencesOf
  <2>2. DOMAIN rows = SequenceSet
    BY DEF SerialInv, TablesOK
  <2>3. \A s : Service!ValueIn(Body[r], s) = ValueIn(Body[r], s)
    BY DEF ValueIn, Service!ValueIn
  <2>4. Service!Answer(r, "202", mine[r]) \/ Service!Answer(r, "error", {})
    BY ServiceAnswer
  <2>5. Service!Accept(r)
    BY <1>1, <2>1, <2>2, <2>3, <2>4, AllAccounted DEF Service!Accept, Write
  <2> QED
    BY <2>5 DEF Service!Next
<1>2. CASE replayed[r]
  <2>1. UNCHANGED <<keys, rows, events>>
    BY <1>2 DEF Write
  <2>2. keys[Key[r]] = [body |-> Body[r], accepted |-> mine[r]] /\ keys[Key[r]] # None
    BY <1>2, Recorded DEF SerialInv, ReplayRecorded
  <2>3. CASE End(r, "202", mine[r])
    <3>1. Service!Answer(r, "202", mine[r])
      BY <2>3, ServiceAnswer
    <3>2. Service!Replay(r)
      BY <2>1, <2>2, <3>1 DEF Service!Replay
    <3> QED
      BY <3>2 DEF Service!Next
  <2>4. CASE End(r, "error", {})
    <3>1. Service!Fail(r)
      BY <2>1, <2>4, ServiceAnswer DEF Service!Fail
    <3> QED
      BY <3>1 DEF Service!Next
  <2> QED
    BY <2>3, <2>4
<1> QED
  BY <1>1, <1>2

LEMMA ServiceStep == SerialInv /\ [Next]_vars => [Service!Next]_(Service!vars)
<1> SUFFICES ASSUME SerialInv, [Next]_vars PROVE Service!Next \/ UNCHANGED Service!vars
  OBVIOUS
<1>1. CASE UNCHANGED vars
  BY <1>1 DEF vars, table, answer, Service!vars
<1>2. ASSUME NEW r \in Requests, ReadDevice(r) \/ InsertReading(r) \/ Respond(r)
      PROVE  UNCHANGED Service!vars
  BY <1>2 DEF ReadDevice, InsertReading, Respond, table, answer, Service!vars
<1>3. ASSUME NEW r \in Requests, Reject(r) PROVE Service!Next
  BY <1>3, ServiceFail DEF Reject
<1>4. ASSUME NEW r \in Requests, Abort(r) PROVE Service!Next
  BY <1>4, ServiceFail DEF Abort, InFlight
<1>5. ASSUME NEW r \in Requests, Commit(r) \/ CommitUnanswered(r) PROVE Service!Next
  BY <1>5, ServiceCommit DEF Commit, CommitUnanswered
<1> QED
  BY <1>1, <1>2, <1>3, <1>4, <1>5, ServiceReserve DEF Next, Proceed

\* Concurrent transactions on the tables of the API are, for their callers, a
\* service that takes requests one at a time and each key at most once.
THEOREM TransactionsAreSerial == Spec => ImplementsIngestService
BY SerialInvariant, ServiceInit, ServiceStep, PTL DEF Spec, ImplementsIngestService, Service!Spec

-----------------------------------------------------------------------------
(***************************************************************************)
(* Types.  What a request reports is its own highest number, or the one it *)
(* has read.                                                               *)
(***************************************************************************)
LEMMA BodyFinite ==
  ASSUME NEW r \in Requests
  PROVE  /\ SequencesOf(Body[r]) \in SUBSET Nat /\ SequencesOf(Body[r]) # {}
         /\ IsFiniteSet(SequencesOf(Body[r]))
<1> DEFINE n == Len(Body[r])  f == [i \in 1..n |-> Body[r][i].sequence]
<1>1. n \in Nat /\ n # 0 /\ \A i \in 1..n : Body[r][i].sequence \in Nat
  <2>1. Body[r] \in Seq([sequence : Nat, value : ValueSet]) /\ Body[r] # <<>>
    BY BodiesAssumption
  <2>2. n \in Nat /\ n # 0
    BY <2>1
  <2> DEFINE Readings == [sequence : Nat, value : ValueSet]
  <2>3. \A x \in Readings : x.sequence \in Nat
    OBVIOUS
  <2>4. Body[r] \in Seq(Readings)
    BY <2>1
  <2> HIDE DEF Readings
  <2>5. \A i \in 1..Len(Body[r]) : Body[r][i] \in Readings
    BY <2>4
  <2> QED
    BY <2>2, <2>3, <2>5
<1>2. SequencesOf(Body[r]) = {f[i] : i \in 1..n}
  BY DEF SequencesOf
<1>3. f[1] \in SequencesOf(Body[r]) /\ SequencesOf(Body[r]) \in SUBSET Nat
  <2>1. 1 \in 1..n
    BY <1>1
  <2> QED
    BY <1>1, <1>2, <2>1
<1>4. IsFiniteSet(1..n)
  BY <1>1, FS_Interval
<1>5. f \in Surjection(1..n, SequencesOf(Body[r]))
  BY <1>2 DEF Surjection
<1>6. IsFiniteSet(SequencesOf(Body[r]))
  BY <1>4, <1>5, FS_Surjection
<1> QED
  BY <1>3, <1>6

LEMMA SequencesAreNat == \A s \in SequenceSet \cup {0} : s \in Nat
BY BodyFinite DEF SequenceSet

LEMMA ReportedIsHighest ==
  ASSUME NEW r \in Requests, seen[r] \in Nat
  PROVE  /\ Reported(r) \in SequencesOf(Body[r]) \cup {seen[r]}
         /\ Reported(r) \in Nat /\ seen[r] <= Reported(r)
         /\ \A s \in SequencesOf(Body[r]) : s <= Reported(r)
<1> DEFINE S == SequencesOf(Body[r]) \cup {seen[r]}
<1>1. S \in SUBSET Nat /\ S # {} /\ IsFiniteSet(S)
  BY BodyFinite, FS_AddElement
<1>2. \E m \in S : \A n \in S : n <= m
  BY <1>1, Greatest
<1>3. Reported(r) \in S /\ \A n \in S : n <= Reported(r)
  BY <1>2 DEF Reported, Highest
<1> QED
  BY <1>1, <1>3

ReportTypes ==
  /\ lastSequence \in SequenceSet \cup {0}
  /\ seen \in [Requests -> SequenceSet \cup {0}]
  /\ faults \in 0..MaxFaults

LEMMA ReportTypesStep == SerialInv /\ ReportTypes /\ [Next]_vars => ReportTypes'
<1> SUFFICES ASSUME SerialInv, ReportTypes, [Next]_vars PROVE ReportTypes'
  OBVIOUS
<1> USE DEF ReportTypes, table, request, answer, End
<1>1. ASSUME NEW r \in Requests, Write(r) PROVE lastSequence' \in SequenceSet \cup {0}
  <2>1. seen[r] \in Nat
    BY SequencesAreNat
  <2>2. Reported(r) \in SequenceSet \cup {0}
    BY <2>1, ReportedIsHighest, BodySequences
  <2> QED
    BY <1>1, <2>2 DEF Write
<1>2. ASSUME faults < MaxFaults, faults' = faults + 1 PROVE faults' \in 0..MaxFaults
  BY <1>2, BodiesAssumption
<1>3. ASSUME NEW r \in Requests, ReadDevice(r) PROVE ReportTypes'
  BY <1>3 DEF ReadDevice
<1>4. ASSUME NEW r \in Requests, Reject(r) \/ ReserveKey(r) PROVE ReportTypes'
  BY <1>4 DEF Reject, ReserveKey
<1>5. ASSUME NEW r \in Requests, InsertReading(r) \/ Respond(r) PROVE ReportTypes'
  BY <1>5 DEF InsertReading, Respond
<1>6. ASSUME NEW r \in Requests, Commit(r) PROVE ReportTypes'
  BY <1>1, <1>6 DEF Commit
<1>7. ASSUME NEW r \in Requests, CommitUnanswered(r) PROVE ReportTypes'
  BY <1>1, <1>2, <1>7 DEF CommitUnanswered
<1>8. ASSUME NEW r \in Requests, Abort(r) PROVE ReportTypes'
  BY <1>2, <1>8 DEF Abort
<1>9. CASE UNCHANGED vars
  BY <1>9 DEF vars
<1> QED
  BY <1>3, <1>4, <1>5, <1>6, <1>7, <1>8, <1>9 DEF Next, Proceed

LEMMA ReportTypesInvariant == Spec => []ReportTypes
<1>1. Init => ReportTypes
  BY BodiesAssumption DEF Init, ReportTypes
<1> QED
  BY <1>1, ReportTypesStep, SerialInvariant, PTL DEF Spec

\* The tables and the transactions have their types; device.last_sequence is 0
\* or a number that some request carried.
THEOREM TypeCorrect == Spec => []TypeOK
<1>1. SerialInv /\ ReportTypes => TypeOK
  BY DEF SerialInv, TablesOK, ReportTypes, TypeOK, Records
<1> QED
  BY <1>1, SerialInvariant, ReportTypesInvariant, PTL

-----------------------------------------------------------------------------
(***************************************************************************)
(* Waiting.  A transaction that holds what another one waits for has come  *)
(* further in the order of sequence numbers, so the one that has come      *)
(* furthest waits for nothing.                                             *)
(***************************************************************************)
\* The batches of a device, taken from the front of its queue, are ascending.
Ascending ==
  \A r \in Requests : \A i, j \in 1..Len(Body[r]) :
    i < j => Body[r][i].sequence < Body[r][j].sequence

\* What a transaction has inserted comes before the reading it has come to.
InsertedBefore ==
  \A r \in Requests : pc[r] = "inserting" =>
    \A s \in mine[r] : \E i \in 1..Len(Body[r]) : i < index[r] /\ s = Body[r][i].sequence

WaitInv == IsFiniteSet(InFlight) /\ InsertedBefore

\* Which requests are under way, and which insert readings, after a step.
LEMMA FlightStep ==
  ASSUME SerialInv, [Next]_vars
  PROVE  \/ \E r \in Requests : ReadDevice(r) /\ InFlight' = InFlight \cup {r}
         \/ \E r \in InFlight : InFlight' = InFlight \ {r} /\ pc' = [pc EXCEPT ![r] = "done"]
         \/ InFlight' = InFlight
<1> USE DEF SerialInv, TablesOK, table, request, answer, InFlight
<1>1. ASSUME NEW r \in Requests, ReadDevice(r) PROVE InFlight' = InFlight \cup {r}
  BY <1>1 DEF ReadDevice
<1>2. ASSUME NEW r \in InFlight, NEW code, NEW counted, End(r, code, counted)
      PROVE  InFlight' = InFlight \ {r} /\ pc' = [pc EXCEPT ![r] = "done"]
  BY <1>2 DEF End
<1>3. ASSUME NEW r \in Requests, ReserveKey(r)
      PROVE  r \in InFlight /\ (InFlight' = InFlight \/ End(r, Refusal(r, keys[Key[r]]), {}))
  BY <1>3 DEF ReserveKey
<1>4. ASSUME NEW r \in Requests, InsertReading(r) \/ Respond(r) PROVE InFlight' = InFlight
  BY <1>4 DEF InsertReading, Respond
<1>5. ASSUME NEW r \in Requests, Reject(r) \/ Commit(r) \/ CommitUnanswered(r) \/ Abort(r)
      PROVE  r \in InFlight /\ \E code, counted : End(r, code, counted)
  <2>1. CASE Reject(r)
    BY <2>1 DEF Reject
  <2>2. CASE Commit(r)
    BY <2>2 DEF Commit
  <2>3. CASE CommitUnanswered(r)
    BY <2>3 DEF CommitUnanswered
  <2>4. CASE Abort(r)
    BY <2>4 DEF Abort
  <2> QED
    BY <1>5, <2>1, <2>2, <2>3, <2>4
<1>6. CASE UNCHANGED vars
  BY <1>6 DEF vars
<1> HIDE DEF SerialInv, TablesOK, InFlight
<1>7. ASSUME NEW r \in Requests,
             ReadDevice(r) \/ Reject(r) \/ Proceed(r) \/ CommitUnanswered(r) \/ Abort(r)
      PROVE  \/ ReadDevice(r) /\ InFlight' = InFlight \cup {r}
             \/ r \in InFlight /\ InFlight' = InFlight \ {r} /\ pc' = [pc EXCEPT ![r] = "done"]
             \/ InFlight' = InFlight
  BY <1>1, <1>2, <1>3, <1>4, <1>5, <1>7 DEF Proceed
<1> QED
  BY <1>6, <1>7 DEF Next

LEMMA WaitStep == SerialInv /\ WaitInv /\ [Next]_vars => WaitInv'
<1> SUFFICES ASSUME SerialInv, WaitInv, [Next]_vars PROVE WaitInv'
  OBVIOUS
<1>1. IsFiniteSet(InFlight')
  BY FlightStep, FS_AddElement, FS_RemoveElement DEF WaitInv
<1>2. InsertedBefore'
  <2> SUFFICES ASSUME NEW r \in Requests, pc'[r] = "inserting", NEW s \in mine'[r]
               PROVE  \E i \in 1..Len(Body[r]) : i < index'[r] /\ s = Body[r][i].sequence
    BY DEF InsertedBefore
  <2>1. ASSUME pc[r] = "inserting", mine'[r] = mine[r], index'[r] = index[r]
        PROVE  \E i \in 1..Len(Body[r]) : i < index'[r] /\ s = Body[r][i].sequence
    BY <2>1 DEF WaitInv, InsertedBefore
  <2> USE DEF SerialInv, TablesOK, table, request, answer
  <2>2. CASE UNCHANGED vars
    BY <2>1, <2>2 DEF vars
  <2>3. ASSUME NEW q \in Requests, NEW code, NEW counted, End(q, code, counted)
        PROVE  pc[r] = "inserting" /\ mine'[r] = mine[r] /\ index'[r] = index[r]
    BY <2>3 DEF End
  <2>4. ASSUME NEW q \in Requests, ReadDevice(q) \/ Respond(q)
        PROVE  pc[r] = "inserting" /\ mine'[r] = mine[r] /\ index'[r] = index[r]
    BY <2>4 DEF ReadDevice, Respond
  <2>5. ASSUME NEW q \in Requests, ReserveKey(q)
        PROVE  pc[r] = "inserting" /\ mine'[r] = mine[r] /\ index'[r] = index[r]
    <3>1. \/ pc' = [pc EXCEPT ![q] = "inserting"] /\ UNCHANGED <<index, mine>>
          \/ End(q, Refusal(q, keys[Key[q]]), {})
          \/ /\ pc' = [pc EXCEPT ![q] = "committing"] /\ UNCHANGED index
             /\ mine' = [mine EXCEPT ![q] = keys[Key[q]].accepted]
      BY <2>5 DEF ReserveKey
    <3>2. mine[q] = {}
      BY <2>5 DEF ReserveKey, Progress
    <3>3. CASE q = r
      <4>1. mine'[r] = {}
        BY <3>1, <3>2, <3>3 DEF End
      <4> QED
        BY <4>1
    <3>4. CASE q # r
      BY <2>3, <3>1, <3>4
    <3> QED
      BY <3>3, <3>4
  <2>6. ASSUME NEW q \in Requests, InsertReading(q)
        PROVE  \E i \in 1..Len(Body[r]) : i < index'[r] /\ s = Body[r][i].sequence
    <3>1. CASE q # r
      <4>1. pc[r] = "inserting" /\ mine'[r] = mine[r] /\ index'[r] = index[r]
        BY <2>6, <3>1 DEF InsertReading
      <4> QED
        BY <2>1, <4>1
    <3>2. CASE q = r
      <4>1. /\ pc[r] = "inserting" /\ index[r] \in 1..Len(Body[r])
            /\ index'[r] = index[r] + 1 /\ mine'[r] \subseteq mine[r] \cup {Current(r)}
        BY <2>6, <3>2, BodiesAssumption DEF InsertReading
      <4>2. CASE s \in mine[r]
        <5>1. PICK i \in 1..Len(Body[r]) : i < index[r] /\ s = Body[r][i].sequence
          BY <4>1, <4>2 DEF WaitInv, InsertedBefore
        <5> QED
          BY <4>1, <5>1
      <4>3. CASE s = Current(r)
        <5>1. index[r] < index'[r] /\ s = Body[r][index[r]].sequence
          BY <4>1, <4>3 DEF Current
        <5> QED
          BY <4>1, <5>1
      <4> QED
        BY <4>1, <4>2, <4>3
    <3> QED
      BY <3>1, <3>2
  <2> HIDE DEF SerialInv, TablesOK, table, request, answer
  <2>7. ASSUME NEW q \in Requests,
               Reject(q) \/ Commit(q) \/ CommitUnanswered(q) \/ Abort(q)
        PROVE  pc[r] = "inserting" /\ mine'[r] = mine[r] /\ index'[r] = index[r]
    <3>1. \E code, counted : End(q, code, counted)
      BY <2>7 DEF Reject, Commit, CommitUnanswered, Abort
    <3> QED
      BY <2>3, <3>1
  <2> QED
    BY <2>1, <2>2, <2>4, <2>5, <2>6, <2>7 DEF Next, Proceed
<1> QED
  BY <1>1, <1>2 DEF WaitInv

\* The holder of the reading that a transaction waits for is inserting as well
\* and has come to a higher one, or it does not wait.
LEMMA HolderIsFurther ==
  ASSUME SerialInv, WaitInv, Ascending,
         NEW r \in Requests, NEW q \in Requests, HoldsSequence(q, Current(r)), Waiting(q)
  PROVE  /\ pc[q] = "inserting" /\ index[q] \in 1..Len(Body[q])
         /\ Current(r) < Current(q)
<1>1. pc[q] = "inserting" /\ index[q] \in 1..Len(Body[q])
  <2>1. pc[q] \in {"inserting", "committing"} /\ index[q] \in Nat \ {0}
    BY DEF HoldsSequence, HoldsKey, SerialInv, TablesOK
  <2>2. pc[q] = "inserting" /\ index[q] <= Len(Body[q])
    BY <2>1 DEF Waiting
  <2> QED
    BY <2>1, <2>2, BodiesAssumption
<1>2. PICK i \in 1..Len(Body[q]) : i < index[q] /\ Current(r) = Body[q][i].sequence
  BY <1>1 DEF HoldsSequence, WaitInv, InsertedBefore
<1> QED
  BY <1>1, <1>2 DEF Ascending, Current

LEMMA FurthestProceeds ==
  ASSUME SerialInv, WaitInv, Ascending
  PROVE  SomeoneProceeds
<1> SUFFICES ASSUME InFlight # {}, \A r \in InFlight : Waiting(r) PROVE FALSE
  BY DEF SomeoneProceeds
<1> DEFINE Inserting == {r \in InFlight : pc[r] = "inserting"}
           f == [r \in Inserting |-> Current(r)]
           S == {f[r] : r \in Inserting}
<1>1. \A r \in InFlight : pc[r] \in {"begun", "inserting"}
  BY DEF Waiting
<1>2. \A k : \A q \in Requests : HoldsKey(q, k) => q \in Inserting
  BY <1>1 DEF HoldsKey, InFlight
<1>3. Inserting # {}
  <2>1. PICK r \in InFlight : TRUE
    OBVIOUS
  <2>2. pc[r] = "begun" => \E q \in Requests : HoldsKey(q, Key[r])
    BY DEF Waiting
  <2> QED
    BY <1>1, <1>2, <2>1, <2>2
<1>4. ASSUME NEW r \in Inserting
      PROVE  f[r] \in Nat /\ \E q \in Inserting : f[q] > f[r]
  <2>1. r \in Requests /\ pc[r] = "inserting" /\ index[r] \in 1..Len(Body[r]) /\ Waiting(r)
    <3>1. index[r] \in Nat \ {0} /\ r \in Requests
      BY DEF SerialInv, TablesOK, InFlight
    <3>2. index[r] <= Len(Body[r])
      BY DEF Waiting
    <3> QED
      BY <3>1, <3>2, BodiesAssumption
  <2>2. PICK q \in Requests : HoldsSequence(q, Current(r))
    BY <2>1 DEF Waiting
  <2>3. q \in Inserting /\ Waiting(q)
    BY <1>2, <2>2 DEF HoldsSequence
  <2>4. pc[q] = "inserting" /\ index[q] \in 1..Len(Body[q]) /\ Current(r) < Current(q)
    BY <2>1, <2>2, <2>3, HolderIsFurther
  <2>5. Current(r) \in Nat /\ Current(q) \in Nat
    BY <2>1, <2>4, BodyReading, SequencesAreNat DEF Current
  <2> QED
    BY <2>3, <2>4, <2>5
<1>5. IsFiniteSet(S)
  <2>1. IsFiniteSet(Inserting)
    BY FS_Subset DEF WaitInv
  <2>2. f \in Surjection(Inserting, S)
    BY DEF Surjection
  <2> QED
    BY <2>1, <2>2, FS_Surjection
<1>6. S \in SUBSET Nat /\ S # {}
  BY <1>3, <1>4
<1> HIDE DEF S
<1>7. PICK m \in S : \A n \in S : n <= m
  BY <1>5, <1>6, Greatest
<1>8. PICK r \in Inserting : m = f[r]
  BY DEF S
<1>9. PICK q \in Inserting : f[q] > f[r]
  BY <1>4
<1>10. f[q] \in S /\ f[q] \in Nat /\ f[r] \in Nat
  BY <1>4 DEF S
<1> QED
  BY <1>7, <1>8, <1>9, <1>10

\* However many requests of a device are handled at the same time, and whatever
\* they share: if the batches are ascending, the transactions never wait for each
\* other in a circle.
THEOREM TransactionsNeverDeadlock == Ascending => (Spec => []SomeoneProceeds)
<1> SUFFICES ASSUME Ascending PROVE Spec => []SomeoneProceeds
  OBVIOUS
<1>1. Init => WaitInv
  <2> SUFFICES ASSUME Init PROVE WaitInv
    OBVIOUS
  <2>1. InFlight = {}
    BY DEF Init, InFlight
  <2> QED
    BY <2>1, FS_EmptySet DEF Init, WaitInv, InsertedBefore
<1>2. SerialInv /\ WaitInv => SomeoneProceeds
  BY FurthestProceeds
<1> QED
  BY <1>1, <1>2, WaitStep, SerialInvariant, PTL DEF Spec

-----------------------------------------------------------------------------
(***************************************************************************)
(* One request at a time.  Then what a request read of the device row is   *)
(* still there when it writes it.                                          *)
(***************************************************************************)
OneAtATime ==
  /\ \A p, q \in InFlight : p = q
  /\ \A r \in InFlight : seen[r] = lastSequence
  /\ HighestReported

LEMMA OneAtATimeStep ==
  ASSUME MaxInFlight = 1, SerialInv, ReportTypes, OneAtATime, [Next]_vars
  PROVE  OneAtATime'
<1> USE DEF table, request, answer
<1>1. ASSUME NEW r \in Requests, ReadDevice(r) PROVE OneAtATime'
  <2>1. InFlight = {}
    <3> SUFFICES ASSUME NEW q \in InFlight PROVE FALSE
      OBVIOUS
    <3>1. InFlight = {q}
      BY DEF OneAtATime
    <3>2. Cardinality(InFlight) = 1
      BY <3>1, FS_Singleton
    <3> QED
      BY <1>1, <3>2 DEF ReadDevice
  <2>2. InFlight' = {r}
    BY <1>1, <2>1 DEF ReadDevice, InFlight, SerialInv, TablesOK
  <2>3. seen'[r] = lastSequence'
    BY <1>1 DEF ReadDevice, ReportTypes
  <2> QED
    BY <1>1, <2>2, <2>3 DEF OneAtATime, HighestReported, ReadDevice
<1>2. ASSUME UNCHANGED <<rows, lastSequence, seen>>, InFlight' \subseteq InFlight PROVE OneAtATime'
  BY <1>2 DEF OneAtATime, HighestReported
<1>3. ASSUME NEW r \in Requests, NEW code, NEW counted, End(r, code, counted)
      PROVE  InFlight' \subseteq InFlight \ {r} /\ UNCHANGED seen
  BY <1>3 DEF End, InFlight, SerialInv, TablesOK
<1>4. ASSUME NEW r \in Requests, Reject(r) \/ Abort(r) PROVE OneAtATime'
  BY <1>2, <1>3, <1>4 DEF Reject, Abort
<1>5. ASSUME NEW r \in Requests, ReserveKey(r) PROVE OneAtATime'
  <2>1. UNCHANGED <<rows, lastSequence, seen>>
    BY <1>3, <1>5 DEF ReserveKey
  <2>2. InFlight' \subseteq InFlight
    <3>1. CASE End(r, Refusal(r, keys[Key[r]]), {})
      BY <1>3, <3>1
    <3>2. CASE pc' = [pc EXCEPT ![r] = "inserting"] \/ pc' = [pc EXCEPT ![r] = "committing"]
      BY <1>5, <3>2 DEF ReserveKey, InFlight, SerialInv, TablesOK
    <3> QED
      BY <1>5, <3>1, <3>2 DEF ReserveKey
  <2> QED
    BY <1>2, <2>1, <2>2
<1>6. ASSUME NEW r \in Requests, InsertReading(r) \/ Respond(r) PROVE OneAtATime'
  <2>1. InFlight' \subseteq InFlight /\ UNCHANGED <<rows, lastSequence, seen>>
    BY <1>6 DEF InsertReading, Respond, InFlight, SerialInv, TablesOK
  <2> QED
    BY <1>2, <2>1
<1>7. ASSUME NEW r \in Requests, NEW code, NEW counted,
             pc[r] = "committing", Write(r), End(r, code, counted)
      PROVE  OneAtATime'
  <2>1. InFlight = {r} /\ InFlight' = {}
    <3>1. r \in InFlight
      BY <1>7 DEF InFlight
    <3> QED
      BY <1>3, <1>7, <3>1 DEF OneAtATime
  <2>2. seen[r] = lastSequence
    BY <2>1 DEF OneAtATime
  <2>3. seen[r] \in Nat
    BY SequencesAreNat DEF ReportTypes
  <2>4. lastSequence' = Reported(r)
    BY <1>7, <2>2 DEF Write
  <2>5. /\ Reported(r) \in Nat /\ lastSequence <= Reported(r)
        /\ \A s \in SequencesOf(Body[r]) : s <= Reported(r)
    BY <2>2, <2>3, ReportedIsHighest
  <2>6. ASSUME NEW s \in SequenceSet, rows'[s] # None, rows[s] = None
        PROVE  s \in SequencesOf(Body[r])
    <3>1. ~replayed[r] /\ s \in mine[r]
      BY <1>7, <2>6 DEF Write
    <3> QED
      BY <1>7, <3>1 DEF SerialInv, RowsReserved, Open
  <2>7. HighestReported'
    <3> SUFFICES ASSUME NEW s \in SequenceSet, rows'[s] # None PROVE s <= Reported(r)
      BY <2>4 DEF HighestReported
    <3>1. CASE rows[s] = None
      BY <2>5, <2>6, <3>1
    <3>2. CASE rows[s] # None
      <4>1. s <= lastSequence
        BY <3>2 DEF OneAtATime, HighestReported
      <4>2. s \in Nat /\ lastSequence \in Nat
        BY <2>2, <2>3, SequencesAreNat
      <4> QED
        BY <2>5, <4>1, <4>2
    <3> QED
      BY <3>1, <3>2
  <2> QED
    BY <2>1, <2>7 DEF OneAtATime
<1>8. ASSUME NEW r \in Requests, Commit(r) \/ CommitUnanswered(r) PROVE OneAtATime'
  BY <1>7, <1>8 DEF Commit, CommitUnanswered
<1>9. CASE UNCHANGED vars
  BY <1>2, <1>9 DEF vars, InFlight
<1> QED
  BY <1>1, <1>4, <1>5, <1>6, <1>8, <1>9 DEF Next, Proceed

\* As long as the API handles one request of a device at a time,
\* devices.last_sequence is not below any stored reading.  (Two at a time can
\* lower it: each compares with the value that it has read itself.)
THEOREM HighestIsReported == MaxInFlight = 1 => (Spec => []HighestReported)
<1> SUFFICES ASSUME MaxInFlight = 1 PROVE Spec => []HighestReported
  OBVIOUS
<1>1. Init => OneAtATime
  BY DEF Init, OneAtATime, InFlight, HighestReported
<1>2. SerialInv /\ ReportTypes /\ OneAtATime /\ [Next]_vars => OneAtATime'
  BY OneAtATimeStep
<1>3. OneAtATime => HighestReported
  BY DEF OneAtATime
<1> QED
  BY <1>1, <1>2, <1>3, SerialInvariant, ReportTypesInvariant, PTL DEF Spec
=============================================================================
