--------------------------- MODULE MCSoftwareTrial ---------------------------
(* Small instances of SoftwareTrial for TLC. *)
EXTENDS SoftwareTrial

PlanOf(readings, buffer, apiFaults, workerFaults, replays) ==
  [readings |-> readings, buffer |-> buffer,
   operations |-> [k \in Kinds |-> CASE k = "api_outage" -> apiFaults
                                     [] k = "worker_outage" -> workerFaults
                                     [] k = "acknowledgement_replay" -> replays]]

\* Outages and replays alone and together, with batches to spare, with just
\* enough, with none at all, and with one too few.
PlansConst == {PlanOf(3, 1, 0, 0, 0), PlanOf(7, 2, 1, 1, 0), PlanOf(7, 1, 1, 1, 1),
               PlanOf(8, 1, 2, 0, 2), PlanOf(5, 1, 0, 2, 0), PlanOf(5, 2, 1, 0, 2)}
=============================================================================
