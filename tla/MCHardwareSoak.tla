---------------------------- MODULE MCHardwareSoak ----------------------------
(* Small instances of HardwareSoak for TLC. *)
EXTENDS HardwareSoak, TLC

\* The last checkpoint is after the end of a shortened run.
CheckpointsConst == <<0, 1, 3>>

VersionsAlike == Permutations(Versions)
=============================================================================
