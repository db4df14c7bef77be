------------------------------- MODULE Firmware -------------------------------
(***************************************************************************)
(* The main program of the board (code.py): boot, Wi-Fi connection or      *)
(* access point, set-up of the upload client, main loop, factory reset,    *)
(* and the configuration file they share.  What enqueue and flush do with  *)
(* the queue is in UploadClient; here only how they end.                   *)
(*                                                                         *)
(* config.json is rewritten in place: open truncates it (Torn) and write   *)
(* fills it again, with power losses between.  External: Wi-Fi, NTP, the   *)
(* sensor, the person at the board.                                        *)
(***************************************************************************)
EXTENDS Naturals

CONSTANTS
  Torn,          \* a config.json that json.load rejects; CONFIG_DATA = None
  Missing,       \* no config.bak
  Delivered,     \* what config.json may hold when the board is delivered
  Backups,       \* what config.bak may hold, or Missing
  MaxFaults      \* bound: power losses, failed file and radio operations,
                 \* lost responses

\* Are there Wi-Fi credentials; is an error stored, or are its keys absent; are
\* name and password of the access point there?
Config == [creds : BOOLEAN, error : {"none", "stored", "absent"}, ap : BOOLEAN]

ASSUME FirmwareAssumption ==
  /\ Torn \notin Config /\ Missing \notin Config /\ MaxFaults \in Nat
  /\ Delivered \subseteq Config /\ Backups \subseteq Config \cup {Missing}

VARIABLES
  config,   \* /config.json
  bak,      \* config.bak, which no code writes
  data,     \* CONFIG_DATA
  pc,       \* where the program is; "off": resetting, "ended": by an exception
  after,    \* what the write in progress is for
  state,    \* current_state: "normal" 0, "setup" 1, "error" 2, "resetting" 3
  radio,    \* "off", "station" or "ap" (with the web server)
  sensor,   \* is pm25 defined?
  client,   \* is ingestion_client set?
  clock,    \* clock_synchronized
  pressed,  \* buttonPressed
  faults

board == <<state, radio, sensor, client, clock, pressed>>
vars  == <<config, bak, data, pc, after, board, faults>>

Stages == {"off", "boot", "connect", "station", "access", "loop", "reset",
           "writing", "written", "ended"}

TypeOK ==
  /\ config \in Config \cup {Torn} /\ data \in Config \cup {Torn}
  /\ bak \in Config \cup {Missing}
  /\ pc \in Stages
  /\ after \in {"none", "failed", "submitted", "saved", "factory"}
  /\ state \in {"normal", "setup", "error", "resetting"}
  /\ radio \in {"off", "station", "ap"}
  /\ sensor \in BOOLEAN /\ client \in BOOLEAN /\ clock \in BOOLEAN /\ pressed \in BOOLEAN
  /\ faults \in 0..MaxFaults

Init ==
  /\ config \in Delivered /\ bak \in Backups /\ data = Torn
  /\ pc = "off" /\ after = "none"
  /\ state = "normal" /\ radio = "off"
  /\ sensor = FALSE /\ client = FALSE /\ clock = FALSE /\ pressed = FALSE
  /\ faults = 0

-----------------------------------------------------------------------------
Fault == faults < MaxFaults /\ faults' = faults + 1

\* The start of the program, up to loadConfigFile.  The sensor may be missing.
Start ==
  /\ pc = "off"
  /\ pc' = "boot" /\ after' = "none" /\ data' = Torn
  /\ state' = "normal" /\ radio' = "off"
  /\ sensor' \in BOOLEAN /\ client' = FALSE /\ clock' = FALSE /\ pressed' = FALSE
  /\ UNCHANGED <<config, bak, faults>>

\* checkForWifiCredentials and not checkForErrors.
Connects(c) == c.creds /\ c.error = "none"

\* checkForErrors raises: it is asked only if there are credentials.
Raises(c) == c.creds /\ c.error = "absent"

\* loadConfigFile, and the choice between connection and access point.
LoadConfig ==
  /\ pc = "boot"
  /\ \/ config = Torn /\ pc' = "ended" /\ UNCHANGED <<data, state>>
     \/ /\ config # Torn /\ data' = config
        /\ \/ Raises(config) /\ pc' = "ended" /\ UNCHANGED state
           \/ Connects(config) /\ pc' = "connect" /\ UNCHANGED state
           \/ /\ ~Raises(config) /\ ~Connects(config)
              /\ pc' = "access" /\ state' = "resetting"
  /\ UNCHANGED <<config, bak, after, radio, sensor, client, clock, pressed, faults>>

\* writeConfigToFile up to the write; every exception of it is swallowed.
BeginWrite(new, why) ==
  /\ data' = new
  /\ after' = why
  /\ UNCHANGED bak
  /\ \/ config' = Torn /\ pc' = "writing" /\ UNCHANGED faults
     \/ Fault /\ pc' = "written" /\ UNCHANGED config

FinishWrite ==
  /\ pc = "writing" /\ pc' = "written"
  /\ \/ config' = data /\ UNCHANGED faults
     \/ Fault /\ UNCHANGED config
  /\ UNCHANGED <<bak, data, after, board>>

\* Mutant of Shown: what has happened is taken for a state.
Shown_Cause(why) == why

\* current_state while the program waits before the reset.
Shown(why) == CASE why = "failed" -> "error" [] why = "factory" -> "resetting" [] OTHER -> state

\* microcontroller.reset after a write, except the first of updateCreds.
Restart ==
  /\ pc = "written" /\ after # "submitted"
  /\ pc' = "off"
  /\ state' = Shown(after)
  /\ UNCHANGED <<config, bak, data, after, radio, sensor, client, clock, pressed, faults>>

\* Mutant of WithError: the error is shown, and not stored.
WithError_NotStored == data

\* addError changes CONFIG_DATA.
WithError == [data EXCEPT !.error = "stored"]

\* connectToWifi returns.  syncClock may fail; an exception of setupRequests
\* ends the program.
Connected ==
  /\ pc = "connect"
  /\ radio' = "station"
  /\ \/ pc' = "station" /\ clock' \in BOOLEAN /\ UNCHANGED faults
     \/ Fault /\ pc' = "ended" /\ UNCHANGED clock
  /\ UNCHANGED <<config, bak, data, after, state, sensor, client, pressed>>

\* connectToWifi stores an error; it will show it and reset the board.
ConnectFails ==
  /\ pc = "connect"
  /\ BeginWrite(WithError, "failed")
  /\ UNCHANGED board

\* Mutant of SetupState: the exception is only printed.
SetupState_Normal(ok) == "normal"

\* current_state after setupIngestionClient has returned, or raised.
SetupState(ok) == IF ok THEN state ELSE "error"

\* setupIngestionClient raises if its configuration is missing or the state
\* store fails closed.
SetupIngestion ==
  /\ pc = "station"
  /\ \E ok \in BOOLEAN : client' = ok /\ state' = SetupState(ok)
  /\ pc' = "loop"
  /\ UNCHANGED <<config, bak, data, after, radio, sensor, clock, pressed, faults>>

\* startAP and setupWebServer, or the reset when one of them raises: they
\* always do if the configuration does not name the access point.
StartAP ==
  /\ pc = "access"
  /\ state' = "setup"
  /\ \/ data.ap /\ pc' = "loop" /\ radio' = "ap" /\ UNCHANGED faults
     \/ ~data.ap /\ pc' = "off" /\ UNCHANGED <<radio, faults>>
     \/ data.ap /\ Fault /\ pc' = "off" /\ UNCHANGED radio
  /\ UNCHANGED <<config, bak, data, after, sensor, client, clock, pressed>>

-----------------------------------------------------------------------------
\* POST /updateCredentials, whose fields may be empty: removeError saves them.
SubmitCredentials ==
  /\ pc = "loop" /\ radio = "ap"
  /\ \E given \in BOOLEAN :
       BeginWrite([data EXCEPT !.creds = given, !.error = "none"], "submitted")
  /\ UNCHANGED board

\* Mutant of Respond: no restart after the response.
Respond_NoRestart ==
  /\ pc = "written" /\ after = "submitted"
  /\ pc' = "loop"
  /\ UNCHANGED <<config, bak, data, after, board, faults>>

\* The response and saveConfigFile, before the reset.  If the response raises,
\* server.poll does, and the main loop goes on.
Respond ==
  /\ pc = "written" /\ after = "submitted"
  /\ \/ BeginWrite(data, "saved")
     \/ Fault /\ pc' = "loop" /\ UNCHANGED <<config, bak, data, after>>
  /\ UNCHANGED board

Press == pc = "loop" /\ ~pressed /\ pressed' = TRUE
         /\ UNCHANGED <<config, bak, data, pc, after, state, radio, sensor, client, clock, faults>>
Release == pc = "loop" /\ pressed /\ pressed' = FALSE
         /\ UNCHANGED <<config, bak, data, pc, after, state, radio, sensor, client, clock, faults>>

\* The button has been held for RESET_HOLD_TIME.
LongPress ==
  /\ pc = "loop" /\ pressed
  /\ pc' = "reset"
  /\ UNCHANGED <<config, bak, data, after, board, faults>>

\* Mutant of Reset: the factory configuration is read and not written.
Reset_Unwritten ==
  /\ pc = "reset" /\ bak # Missing /\ data' = bak
  /\ pc' = "written" /\ after' = "factory"
  /\ UNCHANGED <<config, bak, faults, board>>

\* reset.  config.bak is not among the files of the repository; if it is
\* missing, or cannot be read, nothing catches the exception.
Reset ==
  /\ pc = "reset"
  /\ \/ bak # Missing /\ BeginWrite(bak, "factory")
     \/ /\ pc' = "ended" /\ UNCHANGED <<config, bak, data, after>>
        /\ \/ bak = Missing /\ UNCHANGED faults
           \/ bak # Missing /\ Fault
  /\ UNCHANGED board

\* updateAQIInfo, once the clock is synchronized: without a sensor the name
\* pm25 is not defined; enqueue may raise OSError; a 401 makes the program
\* synchronize the clock again.
Measure ==
  /\ pc = "loop" /\ state = "normal"
  /\ \/ ~sensor /\ pc' = "ended" /\ clock' = TRUE /\ UNCHANGED state
     \/ sensor /\ UNCHANGED pc /\ \/ clock' = TRUE /\ state' \in {"normal", "error"}
                                  \/ clock' = FALSE /\ UNCHANGED state
  /\ UNCHANGED <<config, bak, data, after, radio, sensor, client, pressed, faults>>

PowerLoss ==
  /\ pc # "off" /\ Fault
  /\ pc' = "off"
  /\ UNCHANGED <<config, bak, data, after, board>>

Program ==
  \/ Start \/ LoadConfig \/ Connected \/ ConnectFails \/ SetupIngestion \/ StartAP
  \/ FinishWrite \/ Restart \/ Respond \/ Reset

Next == Program \/ SubmitCredentials \/ Press \/ Release \/ LongPress \/ Measure \/ PowerLoss

Spec == Init /\ [][Next]_vars

\* The program runs on, and the board restarts after a reset or a power loss.
\* Nobody has to submit anything or press the button.
FairSpec == Spec /\ WF_vars(Program)

-----------------------------------------------------------------------------
\* While the LED is green in the main loop the board measures and uploads: it
\* is connected with the stored credentials, no error is stored, and the client
\* is set up (updateAQIInfo never finds that it is not configured).
GreenMeansReady ==
  pc = "loop" /\ state = "normal" =>
    client /\ radio = "station" /\ Connects(data)

\* The next boot ends with an exception, or resets the board in startAP.
Unbootable(c) == c = Torn \/ Raises(c) \/ (~Connects(c) /\ ~c.ap)

\* What may have ended the program of a board that can boot: a failed radio or
\* file, a measurement without sensor, a factory reset without config.bak.
MayHaveEnded == faults > 0 \/ ~sensor \/ bak = Missing

\* The board neither resets for ever nor stops: again and again it gets to the
\* main loop, unless config.json no longer lets it, or the program has ended
\* for one of those reasons.  The stored error is what stops a board without
\* Wi-Fi from resetting again and again (connectToWifi, startAP).
AlwaysComesUp ==
  []<>(pc = "loop") \/ <>[](Unbootable(config) \/ (pc = "ended" /\ MayHaveEnded))

\* A long press clears the credentials and brings the board to access point
\* mode (reset, startAP), if config.bak is a configuration without credentials for
\* a board with an access point.  After a fault the board may also go on with the
\* configuration it had, or the program has ended.
LongPressReachesSetup ==
  pc = "reset" /\ bak # Missing /\ ~bak.creds /\ bak.ap ~>
    \/ pc = "loop" /\ radio = "ap"
    \/ faults > 0 /\ pc \in {"connect", "ended"}

\* Submitted credentials are used: the board restarts and tries to connect
\* (updateCreds).  After a fault it may also stay in access point mode, as the
\* response raised or the credentials were not written, or it has lost config.json.
CredentialsAreTried ==
  pc = "written" /\ after = "submitted" /\ data.creds ~>
    \/ pc = "connect"
    \/ faults > 0 /\ pc = "loop" /\ radio = "ap"
    \/ faults > 0 /\ pc = "ended" /\ config = Torn
=============================================================================
