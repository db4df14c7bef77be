---------------------------- MODULE FirmwareProofs ----------------------------
(***************************************************************************)
(* Theorems about Firmware, for any number of power losses and failures of *)
(* files, radio and server.                                                *)
(***************************************************************************)
EXTENDS Firmware, TLAPS

USE FirmwareAssumption

\* CONFIG_DATA lets the board connect and measure.
Usable == data \in Config /\ Connects(data)

\* Only a usable configuration gets past the choice of loadConfigFile; nothing
\* that is submitted is submitted to a board whose LED is green.
ReadyInv ==
  /\ TypeOK
  /\ pc \notin {"off", "boot", "ended"} => data \in Config
  /\ pc \in {"connect", "station"} => Usable
  /\ pc = "station" => radio = "station"
  /\ pc \in {"writing", "written"} /\ after = "submitted" => state # "normal"
  /\ GreenMeansReady

LEMMA ReadyInit == Init => ReadyInv
<1> SUFFICES ASSUME Init PROVE ReadyInv
  OBVIOUS
<1>1. sensor \in BOOLEAN /\ client \in BOOLEAN /\ clock \in BOOLEAN /\ pressed \in BOOLEAN
  BY Zenon DEF Init
<1>2. /\ config \in Config \cup {Torn} /\ bak \in Config \cup {Missing}
      /\ data \in Config \cup {Torn} /\ pc = "off"
      /\ after = "none" /\ state = "normal" /\ radio = "off" /\ faults \in 0..MaxFaults
  BY DEF Init
<1>3. TypeOK
  BY <1>1, <1>2 DEF TypeOK, Stages
<1> QED
  BY <1>2, <1>3 DEF ReadyInv, GreenMeansReady

\* The memory of the program has its type after a write has begun.
LEMMA WriteTyped ==
  ASSUME TypeOK, NEW new \in Config,
         NEW why \in {"failed", "submitted", "saved", "factory"},
         BeginWrite(new, why), UNCHANGED board
  PROVE  /\ TypeOK' /\ pc' \in {"writing", "written"} /\ after' = why
         /\ data' \in Config /\ UNCHANGED state
BY DEF TypeOK, BeginWrite, Fault, board, Stages

LEMMA ReadyStep == ReadyInv /\ [Next]_vars => ReadyInv'
<1> SUFFICES ASSUME ReadyInv, [Next]_vars PROVE ReadyInv'
  OBVIOUS
<1> USE DEF ReadyInv, GreenMeansReady, Usable, Connects
<1>0. TypeOK
  OBVIOUS
<1>1. CASE Start
  BY <1>1 DEF Start, TypeOK, Stages
<1>2. CASE LoadConfig
  BY <1>2 DEF LoadConfig, TypeOK, Stages
<1>3. CASE Connected
  BY <1>3 DEF Connected, Fault, TypeOK, Stages
<1>4. CASE ConnectFails
  <2>1. WithError \in Config
    BY <1>4 DEF ConnectFails, WithError, Config
  <2> QED
    BY <1>4, <2>1, WriteTyped DEF ConnectFails
<1>5. CASE SetupIngestion
  BY <1>5 DEF SetupIngestion, SetupState, TypeOK, Stages
<1>6. CASE StartAP
  BY <1>6 DEF StartAP, Fault, TypeOK, Stages
<1>7. CASE FinishWrite
  BY <1>7 DEF FinishWrite, Fault, TypeOK, Stages, board
<1>8. CASE Restart
  BY <1>8 DEF Restart, Shown, TypeOK, Stages
<1>9. CASE Respond
  <2>1. CASE BeginWrite(data, "saved")
    <3>1. data \in Config /\ UNCHANGED board
      BY <1>9 DEF Respond, TypeOK
    <3> QED
      BY <2>1, <3>1, WriteTyped
  <2>2. CASE Fault /\ pc' = "loop" /\ UNCHANGED <<config, bak, data, after>>
    BY <1>9, <2>2 DEF Respond, Fault, TypeOK, Stages, board
  <2> QED
    BY <1>9, <2>1, <2>2 DEF Respond
<1>10. CASE Reset
  <2>1. CASE bak # Missing /\ BeginWrite(bak, "factory")
    <3>1. bak \in Config /\ UNCHANGED board
      BY <1>10, <2>1 DEF Reset, TypeOK
    <3> QED
      BY <2>1, <3>1, WriteTyped
  <2>2. CASE ~(bak # Missing /\ BeginWrite(bak, "factory"))
    BY <1>10, <2>2 DEF Reset, Fault, TypeOK, Stages, board
  <2> QED
    BY <2>1, <2>2
<1>11. CASE SubmitCredentials
  <2>1. PICK given \in BOOLEAN :
          /\ BeginWrite([data EXCEPT !.creds = given, !.error = "none"], "submitted")
          /\ UNCHANGED board
    BY <1>11 DEF SubmitCredentials
  <2>2. [data EXCEPT !.creds = given, !.error = "none"] \in Config
    BY <1>11 DEF SubmitCredentials, Config
  <2>3. state # "normal"
    BY <1>11 DEF SubmitCredentials
  <2> QED
    BY <2>1, <2>2, <2>3, WriteTyped
<1>12. CASE Press \/ Release
  <2>1. pc = "loop" /\ UNCHANGED <<config, bak, data, pc, after, state, radio, sensor, client, clock, faults>>
    BY <1>12 DEF Press, Release
  <2>2. pressed' \in BOOLEAN
    BY <1>12 DEF Press, Release
  <2>3. TypeOK'
    BY <2>1, <2>2 DEF TypeOK
  <2> QED
    BY <2>1, <2>3
<1>13. CASE LongPress
  BY <1>13 DEF LongPress, TypeOK, Stages, board
<1>14. CASE Measure
  BY <1>14 DEF Measure, TypeOK, Stages
<1>15. CASE PowerLoss
  BY <1>15 DEF PowerLoss, Fault, TypeOK, Stages, board
<1>16. CASE UNCHANGED vars
  BY <1>16 DEF vars, board, TypeOK
<1> QED
  BY <1>1, <1>2, <1>3, <1>4, <1>5, <1>6, <1>7, <1>8, <1>9, <1>10, <1>11, <1>12, <1>13,
     <1>14, <1>15, <1>16 DEF Next, Program

LEMMA ReadyInvariant == Spec => []ReadyInv
BY ReadyInit, ReadyStep, PTL DEF Spec

\* The variables of the program have their types.
THEOREM TypeCorrect == Spec => []TypeOK
<1>1. ReadyInv => TypeOK
  BY DEF ReadyInv
<1> QED
  BY <1>1, ReadyInvariant, PTL

\* A green LED in the main loop is true: the board is connected with a usable
\* configuration and its upload client is set up (code.py).
THEOREM GreenIsAlwaysReady == Spec => []GreenMeansReady
<1>1. ReadyInv => GreenMeansReady
  BY DEF ReadyInv
<1> QED
  BY <1>1, ReadyInvariant, PTL
=============================================================================
