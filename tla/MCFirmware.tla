------------------------------ MODULE MCFirmware ------------------------------
(* Small instances of Firmware for TLC. *)
EXTENDS Firmware

AnyBackup == Config \cup {Missing}
=============================================================================
