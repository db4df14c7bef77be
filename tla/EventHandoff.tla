---------------------------- MODULE EventHandoff ----------------------------
(***************************************************************************)
(* What the outbox promises for the events committed to it, seen without   *)
(* workers, batches, locks or clocks: at-least-once handoff to the broker  *)
(* with bounded retries.  An event is open until it is done or given up,   *)
(* is done only when the broker has it, is handed off a second time only   *)
(* when an earlier handoff was in doubt, and is given up exactly when its  *)
(* attempts are used up.                                                   *)
(***************************************************************************)
EXTENDS Naturals

CONSTANTS Events, MaxAttempts, MaxReplays

VARIABLES
  phase,      \* "none" before the commit, then "open", "done" or "dead"
  attempts,   \* failures recorded
  replays,    \* times the operator took the event up again
  delivered,  \* times the broker accepted the event, counted to 2
  excused     \* events with a handoff that was interrupted, or whose answer was lost

vars == <<phase, attempts, replays, delivered, excused>>

Init ==
  /\ phase = [e \in Events |-> "none"]
  /\ attempts = [e \in Events |-> 0]
  /\ replays = [e \in Events |-> 0]
  /\ delivered = [e \in Events |-> 0]
  /\ excused = {}

To(e, next) == phase' = [phase EXCEPT ![e] = next]

Commit(e) ==
  /\ phase[e] = "none" /\ To(e, "open")
  /\ UNCHANGED <<attempts, replays, delivered, excused>>

\* The one handoff of an event that needs no excuse; its answer may be lost.
Deliver(e) ==
  /\ phase[e] = "open" /\ delivered[e] = 0
  /\ delivered' = [delivered EXCEPT ![e] = 1]
  /\ excused' \in {excused, excused \cup {e}}
  /\ UNCHANGED <<phase, attempts, replays>>

\* A handoff was interrupted.  Any further one may come at any time, even when
\* the event is done or dead.
Excuse(interrupted) ==
  /\ interrupted \subseteq {e \in Events : phase[e] = "open"}
  /\ excused' = excused \cup interrupted
  /\ UNCHANGED <<phase, attempts, replays, delivered>>

Redeliver(e) ==
  /\ e \in excused
  /\ delivered' = [delivered EXCEPT ![e] = IF @ = 0 THEN 1 ELSE 2]
  /\ UNCHANGED <<phase, attempts, replays, excused>>

Complete(e) ==
  /\ phase[e] = "open" /\ delivered[e] > 0 /\ To(e, "done")
  /\ UNCHANGED <<attempts, replays, delivered, excused>>

\* A failure is recorded only when the broker does not have the event, as far
\* as anyone can know; the last attempt gives the event up.
Fail(e) ==
  /\ phase[e] = "open"
  /\ delivered[e] = 0 \/ e \in excused
  /\ attempts' = [attempts EXCEPT ![e] = @ + 1]
  /\ To(e, IF attempts[e] + 1 >= MaxAttempts THEN "dead" ELSE "open")
  /\ UNCHANGED <<replays, delivered, excused>>

Replay(e) ==
  /\ phase[e] = "dead" /\ replays[e] < MaxReplays
  /\ To(e, "open")
  /\ replays' = [replays EXCEPT ![e] = @ + 1]
  /\ UNCHANGED <<attempts, delivered, excused>>

Next ==
  \/ \E e \in Events : \/ Commit(e) \/ Deliver(e) \/ Redeliver(e)
                       \/ Complete(e) \/ Fail(e) \/ Replay(e)
  \/ \E interrupted \in SUBSET Events : Excuse(interrupted)

Spec == Init /\ [][Next]_vars
=============================================================================
