------------------------------ MODULE MCOutbox ------------------------------
(* Small instances of Outbox for TLC: workers are interchangeable. *)
EXTENDS Outbox, TLC

WorkerSymmetry == Permutations(Workers)
=============================================================================
