-------------------------- MODULE CrashAtomicStore --------------------------
(***************************************************************************)
(* What the firmware expects of its state store: one durable value.  A     *)
(* save replaces it at one instant; a power loss leaves the value of before*)
(* or after that instant; a boot always gets the value back.               *)
(***************************************************************************)
CONSTANTS States,   \* states the client may save
          Default   \* the state of a device that never saved one

VARIABLES value,    \* the durable value
          phase,    \* "off", "idle" or "saving"
          new,      \* the argument of the save in progress
          loaded    \* what the last boot read

vars == <<value, phase, new, loaded>>

Init ==
  /\ value \in States \cup {Default}
  /\ phase = "off"
  /\ new = Default
  /\ loaded = Default

Boot == phase = "off" /\ phase' = "idle" /\ loaded' = value /\ UNCHANGED <<value, new>>

Save(s) == phase = "idle" /\ phase' = "saving" /\ new' = s /\ UNCHANGED <<value, loaded>>

Commit == phase = "saving" /\ value' = new /\ UNCHANGED <<phase, new, loaded>>

\* A save may only return normally once its value is durable ...
Return == phase = "saving" /\ value' = new /\ phase' = "idle" /\ UNCHANGED <<new, loaded>>

\* ... and one that raises does nothing more to the value.
Raise == phase = "saving" /\ phase' = "idle" /\ UNCHANGED <<value, new, loaded>>

PowerLoss == phase # "off" /\ phase' = "off" /\ UNCHANGED <<value, new, loaded>>

Next == Boot \/ (\E s \in States : Save(s)) \/ Commit \/ Return \/ Raise \/ PowerLoss

Spec == Init /\ [][Next]_vars
=============================================================================
