------------------------ MODULE JsonStateStoreProofs ------------------------
(***************************************************************************)
(* Theorems about JsonStateStore: it goes back to the default state only   *)
(* when os.stat fails on every file, and with at most one save in a row    *)
(* cut short it implements a durable atomic value.                         *)
(***************************************************************************)
EXTENDS JsonStateStore, TLAPS

USE StatesAssumption, FlagsAssumption

\* A provisioned device always has a file, and from the sync to the promotion
\* the temporary file is complete.
SomeFile ==
  /\ TypeOK
  /\ pc \in {"remove", "demote", "promote", "restore"} => temporary \in States
  /\ pc = "write" => temporary # Absent
  /\ pc \in Saving => new \in States
  /\ Provisioned => {primary, backup, temporary} # {Absent}
  /\ ResetsOnlyIfBlind
  /\ blind => StatErrors

LEMMA FilesInit == Init => SomeFile
<1> SUFFICES ASSUME Init PROVE SomeFile
  OBVIOUS
<1>1. blind \in BOOLEAN /\ ~blind
  BY Zenon DEF Init
<1>2. TypeOK
  BY <1>1 DEF Init, TypeOK, Contents
<1>3. {primary, backup, temporary} # {Absent} \/ ~Provisioned
  BY DEF Init
<1> QED
  BY <1>1, <1>2, <1>3 DEF Init, SomeFile, ResetsOnlyIfBlind, Saving

LEMMA FilesStep == SomeFile /\ [Next]_vars => SomeFile'
<1> SUFFICES ASSUME SomeFile, [Next]_vars PROVE SomeFile'
  OBVIOUS
<1> USE DEF SomeFile, TypeOK, Contents, Saving, ResetsOnlyIfBlind
<1>1. CASE Boot
  <2>1. PICK p \in ReadAs(primary), b \in ReadAs(backup), t \in ReadAs(temporary) :
          IF FirstComplete(p, b, t) = Torn
            THEN pc' = "closed" /\ UNCHANGED <<loaded, blind>>
            ELSE /\ pc' = "idle"
                 /\ loaded' = FirstComplete(p, b, t)
                 /\ blind' = ({p, b, t} = {Absent} /\ {primary, backup, temporary} # {Absent})
    BY <1>1 DEF Boot
  <2>2. p \in Contents /\ b \in Contents /\ t \in Contents
    BY DEF ReadAs
  <2>3. ~StatErrors /\ {p, b, t} = {Absent} => {primary, backup, temporary} = {Absent}
    BY DEF ReadAs
  <2>4. FirstComplete(p, b, t) \in States \cup {Default, Torn}
    BY DEF FirstComplete
  <2>5. FirstComplete(p, b, t) = Default => {p, b, t} = {Absent}
    BY <2>2 DEF FirstComplete
  <2>6. UNCHANGED <<primary, backup, temporary, new, unfinished>>
    BY <1>1 DEF Boot, files
  <2>7. CASE FirstComplete(p, b, t) = Torn
    BY <2>1, <2>6, <2>7
  <2>8. CASE FirstComplete(p, b, t) # Torn
    BY <2>1, <2>3, <2>4, <2>5, <2>6, <2>8
  <2> QED
    BY <2>7, <2>8
<1>2. ASSUME NEW s \in States, Save(s) PROVE SomeFile'
  BY <1>2 DEF Save
<1>3. CASE Write
  BY <1>3 DEF Write, CutShort, MayFail, MayFault
<1>4. CASE RemoveBackup
  BY <1>4 DEF RemoveBackup
<1>5. CASE Demote
  BY <1>5 DEF Demote, CanRename
<1>6. CASE Promote
  BY <1>6 DEF Promote, CanRename
<1>7. CASE Restore
  BY <1>7 DEF Restore, CanRename, CutShort
<1>8. CASE PowerLoss
  BY <1>8 DEF PowerLoss, CutShort, files
<1>9. CASE UNCHANGED vars
  BY <1>9 DEF vars, files
<1> QED
  BY <1>1, <1>2, <1>3, <1>4, <1>5, <1>6, <1>7, <1>8, <1>9 DEF Next

LEMMA FilesInvariant == Spec => []SomeFile
BY FilesInit, FilesStep, PTL DEF Spec

\* The variables of the store have their types.
THEOREM TypeCorrect == Spec => []TypeOK
<1>1. SomeFile => TypeOK
  BY DEF SomeFile
<1> QED
  BY <1>1, FilesInvariant, PTL

\* Whatever is interrupted, fails or cannot be read, a device that has saved a
\* state is given DEFAULT_STATE again only by a load whose os.stat failed on every
\* file there was.
THEOREM StateIsResetOnlyIfBlind == Spec => []ResetsOnlyIfBlind
<1>1. SomeFile => ResetsOnlyIfBlind
  BY DEF SomeFile
<1> QED
  BY <1>1, FilesInvariant, PTL

\* So if os.stat fails only for files that are not there, ingestion fails closed
\* instead of resetting.
THEOREM StateIsNeverReset == ~StatErrors => (Spec => []NeverResets)
<1> SUFFICES ASSUME ~StatErrors PROVE Spec => []NeverResets
  OBVIOUS
<1>1. SomeFile => NeverResets
  BY DEF SomeFile, ResetsOnlyIfBlind, NeverResets
<1> QED
  BY <1>1, FilesInvariant, PTL

-----------------------------------------------------------------------------
(***************************************************************************)
(* Which files are complete, by the number of saves cut short in a row.    *)
(* The first one leaves the primary file or the backup, the second one, if *)
(* it has removed the backup, the temporary file.  Only a complete file is *)
(* promoted, so neither primary nor backup is ever torn.                   *)
(***************************************************************************)
Complete(file) == file \in States
Resting == {"off", "closed", "idle"}

CompleteInv ==
  /\ SomeFile
  /\ primary # Torn /\ backup # Torn
  /\ unfinished = 0 /\ pc \in Resting \cup {"write", "remove", "demote"} => Complete(primary)
  /\ unfinished = 0 => Complete(primary) \/ Complete(backup)
  /\ unfinished = 1 /\ pc \in Resting \cup {"write"} => Complete(primary) \/ Complete(backup)
  /\ unfinished = 2 /\ pc \in Resting =>
       Complete(primary) \/ Complete(backup) \/ Complete(temporary)

LEMMA CompleteInit == Provisioned /\ Init => CompleteInv
<1> SUFFICES ASSUME Provisioned, Init PROVE CompleteInv
  OBVIOUS
<1>1. SomeFile
  BY FilesInit
<1> QED
  BY <1>1 DEF CompleteInv, Complete, Init, Resting

LEMMA CompleteStep == CompleteInv /\ [Next]_vars => CompleteInv'
<1> SUFFICES ASSUME CompleteInv, [Next]_vars PROVE CompleteInv'
  OBVIOUS
<1>1. SomeFile /\ SomeFile'
  BY FilesStep DEF CompleteInv
<1>2. /\ unfinished \in Nat
      /\ pc \in {"remove", "demote", "promote", "restore"} => temporary \in States
  BY <1>1 DEF SomeFile, TypeOK
<1> USE <1>1, <1>2 DEF CompleteInv, Complete, Resting
<1>3. CASE Boot
  BY <1>3 DEF Boot, files
<1>4. ASSUME NEW s \in States, Save(s) PROVE CompleteInv'
  BY <1>4 DEF Save
<1>5. CASE Write
  BY <1>5 DEF Write, CutShort
<1>6. CASE RemoveBackup
  BY <1>6 DEF RemoveBackup
<1>7. CASE Demote
  BY <1>7 DEF Demote, CanRename
<1>8. CASE Promote
  BY <1>8 DEF Promote, CanRename
<1>9. CASE Restore
  <2>1. unfinished' = unfinished + 1 /\ pc' = "idle" /\ temporary' = temporary
    BY <1>9 DEF Restore, CutShort
  <2>2. primary' # Torn /\ backup' # Torn
    BY <1>9 DEF Restore
  <2>3. primary \in States \cup {Absent} /\ backup \in States \cup {Absent}
    BY DEF SomeFile, TypeOK, Contents
  <2>4. Complete(primary) \/ Complete(backup) => Complete(primary') \/ Complete(backup')
    BY <1>9, <2>3 DEF Restore, CanRename
  <2>5. CASE unfinished = 0
    BY <2>1, <2>2, <2>4, <2>5
  <2>6. CASE unfinished = 1
    BY <1>9, <2>1, <2>2, <2>6 DEF Restore
  <2>7. CASE unfinished \notin {0, 1}
    BY <2>1, <2>2, <2>7
  <2> QED
    BY <2>5, <2>6, <2>7
<1>10. CASE PowerLoss
  <2>1. pc' = "off" /\ UNCHANGED <<primary, backup, temporary>>
    BY <1>10 DEF PowerLoss, files
  <2>2. CASE pc \notin Saving
    <3>1. pc \in Resting /\ unfinished' = unfinished
      BY <1>10, <2>2 DEF PowerLoss, SomeFile, TypeOK
    <3> QED
      BY <2>1, <3>1
  <2>3. CASE pc \in Saving
    <3>1. unfinished' = unfinished + 1
      BY <1>10, <2>3 DEF PowerLoss, CutShort
    <3>2. CASE unfinished = 0
      BY <2>1, <3>1, <3>2
    <3>3. CASE unfinished = 1
      BY <2>1, <2>3, <3>1, <3>3 DEF Saving
    <3>4. CASE unfinished \notin {0, 1}
      BY <2>1, <3>1, <3>4
    <3> QED
      BY <3>2, <3>3, <3>4
  <2> QED
    BY <2>2, <2>3
<1>11. CASE UNCHANGED vars
  BY <1>11 DEF vars, files
<1> QED
  BY <1>3, <1>4, <1>5, <1>6, <1>7, <1>8, <1>9, <1>10, <1>11 DEF Next

\* However often power is lost and calls fail, on any file system: after at most
\* two saves in a row that were cut short a device that has saved before still
\* has a complete file, and its next boot finds it.
THEOREM StoreStaysOpen == Provisioned => (Spec => []NeverFailsClosed)
<1> SUFFICES ASSUME Provisioned PROVE Spec => []NeverFailsClosed
  OBVIOUS
<1>1. Init => CompleteInv
  BY CompleteInit
<1>2. CompleteInv /\ [Next]_vars => CompleteInv'
  BY CompleteStep
<1>3. CompleteInv => NeverFailsClosed
  <2> SUFFICES ASSUME CompleteInv, pc \notin Saving, unfinished <= 2 PROVE Loaded # Torn
    BY DEF NeverFailsClosed
  <2>1. unfinished \in {0, 1, 2} /\ pc \in Resting
    BY DEF CompleteInv, SomeFile, TypeOK, Resting
  <2>2. Complete(primary) \/ Complete(backup) \/ Complete(temporary)
    BY <2>1 DEF CompleteInv
  <2> QED
    BY <2>2 DEF Complete, Loaded, FirstComplete
<1> QED
  BY <1>1, <1>2, <1>3, PTL DEF Spec

-----------------------------------------------------------------------------
(***************************************************************************)
(* The files when at most one save in a row is cut short and neither reads *)
(* nor os.stat fail.  On a file system whose rename overwrites, the calls  *)
(* of save do not fail either: there a failed promotion after a failed     *)
(* removal would bring an old backup back.                                 *)
(***************************************************************************)
OneFault ==
  /\ Provisioned /\ MaxUnfinished <= 1 /\ ~ReadErrors /\ ~StatErrors
  /\ RenameOverwrites => ~IOErrors

OneFaultInv ==
  /\ TypeOK
  /\ primary # Torn /\ backup # Torn /\ unfinished <= 1 /\ pc # "closed"
  /\ pc \in Saving => new \in States
  /\ pc \in {"off", "idle", "write", "remove"} =>
       primary \in States \/ (unfinished = 1 /\ backup \in States)
  /\ pc \in {"remove", "demote", "promote", "restore"} => temporary = new
  /\ pc = "demote"  => IF unfinished = 0 THEN primary \in States ELSE backup = Absent
  /\ pc = "promote" => IF unfinished = 0 THEN primary \in States \/ backup \in States
                       ELSE primary = Absent
  /\ pc = "restore" => unfinished = 0 /\ (primary \in States \/ backup \in States)
                       /\ ~RenameOverwrites

LEMMA OneFaultInit == OneFault /\ Init => OneFaultInv
<1> SUFFICES ASSUME OneFault, Init PROVE OneFaultInv
  OBVIOUS
<1>1. TypeOK
  BY FilesInit DEF SomeFile
<1> QED
  BY <1>1 DEF OneFault, Init, OneFaultInv, Saving

\* Under the invariant a boot loads a complete state.
LEMMA LoadsAState == OneFaultInv => Loaded \in States
  BY DEF OneFaultInv, TypeOK, Contents, Saving, Loaded, FirstComplete

LEMMA OneFaultStep == OneFault /\ OneFaultInv /\ [Next]_vars => OneFaultInv'
<1> SUFFICES ASSUME OneFault, OneFaultInv, [Next]_vars PROVE OneFaultInv'
  OBVIOUS
<1> USE DEF OneFaultInv, TypeOK, Contents, Saving, OneFault
<1>1. CASE Boot
  BY <1>1, LoadsAState DEF Boot, ReadAs, Loaded, files
<1>2. ASSUME NEW s \in States, Save(s) PROVE OneFaultInv'
  BY <1>2 DEF Save
<1>3. CASE Write
  BY <1>3 DEF Write, CutShort, MayFail, MayFault
<1>4. CASE RemoveBackup
  BY <1>4 DEF RemoveBackup, MayFail, MayFault
<1>5. CASE Demote
  BY <1>5 DEF Demote, CanRename, MayFail, MayFault
<1>6. CASE Promote
  BY <1>6 DEF Promote, CanRename, MayFail, MayFault
<1>7. CASE Restore
  BY <1>7 DEF Restore, CanRename, CutShort
<1>8. CASE PowerLoss
  BY <1>8 DEF PowerLoss, CutShort, MayFault, files
<1>9. CASE UNCHANGED vars
  BY <1>9 DEF vars, files
<1> QED
  BY <1>1, <1>2, <1>3, <1>4, <1>5, <1>6, <1>7, <1>8, <1>9 DEF Next

\* Each call of save is a step of the atomic store: the value changes when the
\* temporary file is promoted, or, if the primary was missing, when the backup
\* is removed.
LEMMA Simulation ==
  OneFault /\ OneFaultInv /\ [Next]_vars => [Abstract!Next]_Abstract!vars
<1> SUFFICES ASSUME OneFault, OneFaultInv, [Next]_vars
             PROVE  [Abstract!Next]_Abstract!vars
  OBVIOUS
<1> USE DEF Abstract!Next, Abstract!vars, Saving
<1>0. OneFaultInv' /\ Loaded \in States /\ Loaded' \in States
  <2>1. OneFaultInv'
    BY OneFaultStep
  <2> QED
    BY <2>1, LoadsAState DEF OneFaultInv, TypeOK, Contents, Loaded, FirstComplete
<1>1. CASE Boot
  BY <1>1, <1>0 DEF Boot, Abstract!Boot, ReadAs, OneFault, Loaded, files
<1>2. ASSUME NEW s \in States, Save(s) PROVE Abstract!Save(s)
  BY <1>2, <1>0 DEF Save, Abstract!Save, Loaded, FirstComplete, OneFaultInv, TypeOK, Contents
<1>3. CASE Write
  BY <1>3, <1>0 DEF Write, Abstract!Raise, Loaded, FirstComplete, OneFaultInv, TypeOK, Contents
<1>4. CASE RemoveBackup
  BY <1>4, <1>0 DEF RemoveBackup, Abstract!Commit, Loaded, FirstComplete, OneFaultInv, TypeOK, Contents
<1>5. CASE Demote
  BY <1>5, <1>0 DEF Demote, CanRename, Loaded, FirstComplete, OneFaultInv, TypeOK, Contents
<1>6. CASE Promote
  BY <1>6, <1>0 DEF Promote, CanRename, Abstract!Return, Loaded, FirstComplete, OneFaultInv, TypeOK, Contents
<1>7. CASE Restore
  BY <1>7, <1>0 DEF Restore, CanRename, Abstract!Raise, Loaded, FirstComplete, OneFaultInv, TypeOK, Contents
<1>8. CASE PowerLoss
  BY <1>8, <1>0 DEF PowerLoss, Abstract!PowerLoss, Loaded, files, OneFaultInv
<1>9. CASE UNCHANGED vars
  BY <1>9 DEF vars, files, Loaded
<1> QED
  BY <1>1, <1>2, <1>3, <1>4, <1>5, <1>6, <1>7, <1>8, <1>9 DEF Next

\* save and load implement one durable value if no two saves in a row are cut
\* short: an interrupted save leaves the old or the new state, never another
\* and never none.
THEOREM StoreIsAtomic == OneFault => (Spec => ImplementsAtomicStore)
<1> SUFFICES ASSUME OneFault PROVE Spec => ImplementsAtomicStore
  OBVIOUS
<1>1. Init => OneFaultInv
  BY OneFaultInit
<1>2. OneFaultInv /\ [Next]_vars => OneFaultInv'
  BY OneFaultStep
<1>3. Init => Abstract!Init
  BY <1>1, LoadsAState DEF Init, Abstract!Init, Saving
<1>4. OneFaultInv /\ [Next]_vars => [Abstract!Next]_Abstract!vars
  BY Simulation
<1> QED
  BY <1>1, <1>2, <1>3, <1>4, PTL DEF Spec, Abstract!Spec, ImplementsAtomicStore
=============================================================================
