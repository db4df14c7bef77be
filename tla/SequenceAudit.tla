---------------------------- MODULE SequenceAudit ----------------------------
(***************************************************************************)
(* The audit of stored sequence numbers (admin.py), which both reliability *)
(* trials take for evidence.  `stored` is the set of sequence numbers of a *)
(* device's measurements at the one SELECT of the audit.                   *)
(***************************************************************************)
EXTENDS Integers, FiniteSets

\* The numbers that the query returns: BETWEEN start AND end.
Received(stored, start, end) == stored \cap (start..end)

\* `expected` when the loop of _missing_ranges comes to number n.
Expected(received, start, n) ==
  IF \E m \in received : m < n
    THEN 1 + CHOOSE m \in received : m < n /\ \A k \in received : k < n => k <= m
    ELSE start

\* Mutant of MissingRanges: expected is set to the number, not to the next one.
MissingRanges_SameNumber(received, start, end) ==
  {<<Expected(received, start, n) - 1, n - 1>> :
     n \in {m \in received \cup {end + 1} : Expected(received, start, m) - 1 < m}}

\* _missing_ranges: before each number, and after the last one, the numbers
\* from `expected` on are missing.
MissingRanges(received, start, end) ==
  {<<Expected(received, start, n), n - 1>> :
     n \in {m \in received \cup {end + 1} : Expected(received, start, m) < m}}

Missing(stored, start, end) ==
  end - start + 1 - Cardinality(Received(stored, start, end))

\* verify_sequence_range: `complete`.
Complete(stored, start, end) ==
  MissingRanges(Received(stored, start, end), start, end) = {}
=============================================================================
