-------------------------- MODULE MCJsonStateStore --------------------------
(* Small instances of JsonStateStore for TLC. *)
EXTENDS JsonStateStore
=============================================================================
