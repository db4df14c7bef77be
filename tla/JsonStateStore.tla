--------------------------- MODULE JsonStateStore ---------------------------
(***************************************************************************)
(* JsonStateStore of myaqi_client.py: the primary, backup and temporary    *)
(* file of the upload queue, under power losses and file system errors.    *)
(*                                                                         *)
(* save is taken call by call; each call of the os module is one step, and *)
(* power may be lost between any two.  The file system is external: what a *)
(* call has done is durable (the code syncs after writing), a rename takes *)
(* place or does not, and a file that was opened for writing and not       *)
(* completed is Torn: _read rejects it.                                    *)
(***************************************************************************)
EXTENDS Naturals

CONSTANTS
  States,            \* states the client may save
  Default,           \* DEFAULT_STATE
  Absent, Torn,      \* a file that is not there, one that _read rejects
  Provisioned,       \* has the device completed a save before?
  RenameOverwrites,  \* does os.rename replace its target (POSIX) or fail (FAT)?
  IOErrors,          \* may file system calls of save fail with OSError?
  ReadErrors,        \* may load fail to read a complete file?
  StatErrors,        \* may os.stat fail on a file that is there?
  MaxUnfinished      \* bound: consecutive saves that are cut short

\* The client never saves DEFAULT_STATE: enqueue increments next_sequence first.
ASSUME StatesAssumption == Absent # Torn /\ Default \notin {Absent, Torn}
                           /\ \A s \in States : s \notin {Default, Absent, Torn}
ASSUME FlagsAssumption ==
  /\ Provisioned \in BOOLEAN /\ RenameOverwrites \in BOOLEAN
  /\ IOErrors \in BOOLEAN /\ ReadErrors \in BOOLEAN /\ StatErrors \in BOOLEAN
  /\ MaxUnfinished \in Nat

VARIABLES
  primary, backup, temporary,  \* the files
  pc,          \* off: no power; closed: load raised, no client; idle; else the
               \* call that save makes next
  new,         \* the argument of save
  loaded,      \* what the last load returned
  blind,       \* history: the last load took every file there was for absent
  unfinished   \* history: saves cut short since the last one that returned

files == <<primary, backup, temporary>>
vars  == <<files, pc, new, loaded, blind, unfinished>>

Contents == States \cup {Absent, Torn}
Saving   == {"write", "remove", "demote", "promote", "restore"}

TypeOK ==
  /\ primary \in Contents /\ backup \in Contents /\ temporary \in Contents
  /\ pc \in {"off", "closed", "idle"} \cup Saving
  /\ new \in States \cup {Default}
  /\ loaded \in States \cup {Default}
  /\ blind \in BOOLEAN
  /\ unfinished \in Nat

Init ==
  /\ IF Provisioned
       THEN primary \in States /\ backup \in States \cup {Absent}
       ELSE primary = Absent /\ backup = Absent
  /\ temporary = Absent
  /\ pc = "off"
  /\ new = Default /\ loaded = Default /\ blind = FALSE
  /\ unfinished = 0

-----------------------------------------------------------------------------
\* Mutants of load: the temporary file is not looked at; DEFAULT_STATE replaces
\* a state that cannot be read; a missing primary file is returned as nothing.
FirstComplete_NoTemporary(p, b, t) ==
  IF p \in States THEN p ELSE IF b \in States THEN b
  ELSE IF {p, b, t} = {Absent} THEN Default ELSE Torn
FirstComplete_Resets(p, b, t) ==
  IF p \in States THEN p ELSE IF b \in States THEN b
  ELSE IF t \in States THEN t ELSE Default
FirstComplete_Nothing(p, b, t) ==
  IF p # Torn THEN p ELSE IF b \in States THEN b ELSE t

\* load: the first complete file of primary, backup, temporary; DEFAULT_STATE
\* if there is no file at all; ValueError (Torn) if none of them is complete.
FirstComplete(p, b, t) ==
  IF p \in States THEN p
  ELSE IF b \in States THEN b
  ELSE IF t \in States THEN t
  ELSE IF {p, b, t} = {Absent} THEN Default
  ELSE Torn

\* What a boot finds if every file can be read.
Loaded == FirstComplete(primary, backup, temporary)

\* A file that cannot be read is skipped like a malformed one; one whose os.stat
\* fails, for whatever reason, counts as absent.
ReadAs(file) ==
  {file} \cup (IF ReadErrors /\ file # Absent THEN {Torn} ELSE {})
         \cup (IF StatErrors THEN {Absent} ELSE {})

\* setupIngestionClient constructs the client, which calls load; when load
\* raises, ingestion_client stays None and nothing is saved until a reset.
Boot ==
  /\ pc = "off"
  /\ \E p \in ReadAs(primary), b \in ReadAs(backup), t \in ReadAs(temporary) :
       IF FirstComplete(p, b, t) = Torn
         THEN pc' = "closed" /\ UNCHANGED <<loaded, blind>>
         ELSE /\ pc' = "idle"
              /\ loaded' = FirstComplete(p, b, t)
              /\ blind' = ({p, b, t} = {Absent} /\ {primary, backup, temporary} # {Absent})
  /\ UNCHANGED <<files, new, unfinished>>

\* A fault happens only while the bound allows one more unfinished save.
MayFault == unfinished < MaxUnfinished
MayFail  == IOErrors /\ MayFault

CutShort == unfinished' = unfinished + 1

\* open(temporary_path, "w") truncates.  (If it fails nothing has changed.)
Save(s) ==
  /\ pc = "idle"
  /\ temporary' = Torn
  /\ new' = s
  /\ pc' = "write"
  /\ UNCHANGED <<primary, backup, loaded, blind, unfinished>>

\* Mutant of Write: no sync, so the contents may still be lost.
Write_NoSync ==
  /\ pc = "write"
  /\ temporary' \in {new, Torn} /\ pc' = "remove"
  /\ UNCHANGED <<primary, backup, new, loaded, blind, unfinished>>

\* json.dump, close and sync.
Write ==
  /\ pc = "write"
  /\ \/ temporary' = new /\ pc' = "remove" /\ UNCHANGED unfinished
     \/ MayFail /\ pc' = "idle" /\ CutShort /\ UNCHANGED temporary
  /\ UNCHANGED <<primary, backup, new, loaded, blind>>

\* _remove_if_present(backup_path) swallows every OSError.
RemoveBackup ==
  /\ pc = "remove"
  /\ backup' = Absent \/ (MayFail /\ UNCHANGED backup)
  /\ pc' = "demote"
  /\ UNCHANGED <<primary, temporary, new, loaded, blind, unfinished>>

CanRename(from, to) == from # Absent /\ (RenameOverwrites \/ to = Absent)

\* rename(path, backup_path), errors swallowed.
Demote ==
  /\ pc = "demote"
  /\ \/ CanRename(primary, backup) /\ backup' = primary /\ primary' = Absent
     \/ (MayFail \/ ~CanRename(primary, backup)) /\ UNCHANGED <<primary, backup>>
  /\ pc' = "promote"
  /\ UNCHANGED <<temporary, new, loaded, blind, unfinished>>

\* rename(temporary_path, path): save returns, or goes on to restore.
Promote ==
  /\ pc = "promote"
  /\ \/ /\ CanRename(temporary, primary)
        /\ primary' = temporary /\ temporary' = Absent
        /\ pc' = "idle" /\ unfinished' = 0
     \/ /\ MayFail \/ ~CanRename(temporary, primary)
        /\ pc' = "restore"
        /\ UNCHANGED <<primary, temporary, unfinished>>
  /\ UNCHANGED <<backup, new, loaded, blind>>

\* rename(backup_path, path), errors swallowed; then save raises.
Restore ==
  /\ pc = "restore"
  /\ \/ CanRename(backup, primary) /\ primary' = backup /\ backup' = Absent
     \/ (MayFail \/ ~CanRename(backup, primary)) /\ UNCHANGED <<primary, backup>>
  /\ pc' = "idle"
  /\ CutShort
  /\ UNCHANGED <<temporary, new, loaded, blind>>

\* Power loss or reset; the client's memory is gone.
PowerLoss ==
  /\ pc # "off"
  /\ IF pc \in Saving THEN MayFault /\ CutShort ELSE UNCHANGED unfinished
  /\ pc' = "off"
  /\ UNCHANGED <<files, new, loaded, blind>>

Next ==
  \/ Boot \/ (\E s \in States : Save(s)) \/ Write \/ RemoveBackup
  \/ Demote \/ Promote \/ Restore \/ PowerLoss

Spec == Init /\ [][Next]_vars

-----------------------------------------------------------------------------
\* Two saves in a row may be cut short, at any of their calls, and a boot still
\* finds a complete file: load does not fail closed (save's order of removal and
\* renames, load's order of files).
NeverFailsClosed == pc \notin Saving /\ unfinished <= 2 => Loaded # Torn

\* A device that has saved a state starts again from DEFAULT_STATE, which uses its
\* sequence numbers a second time, only if os.stat failed on every file it has:
\* never because a save was interrupted or the files cannot be read (load).
ResetsOnlyIfBlind ==
  Provisioned /\ pc \in {"idle"} \cup Saving /\ loaded = Default => blind

\* The document's sentence: ingestion fails closed instead of resetting the sequence
\* (docs/architecture.md:27; load).
NeverResets == Provisioned /\ pc \in {"idle"} \cup Saving => loaded # Default

\* The store implements one durable value: an interrupted save leaves the value
\* of before or of after, and a save that returns has stored its argument
\* (save, load).  The durable value is what a boot would load.
Abstract == INSTANCE CrashAtomicStore WITH
  value <- Loaded,
  phase <- IF pc \in Saving THEN "saving" ELSE IF pc = "closed" THEN "idle" ELSE pc

ImplementsAtomicStore == Abstract!Spec
=============================================================================
