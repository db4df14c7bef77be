------------------------------- MODULE Release -------------------------------
(***************************************************************************)
(* The release workflow (deploy.yml): migration, worker, API canary, smoke *)
(* test and rollback, with the ECS services it updates (runtime.tf).       *)
(*                                                                         *)
(* The workflow's concurrency group runs one job at a time.  ECS is        *)
(* external: an updated service settles on its new task definition, or the *)
(* circuit breaker or an alarm returns it to the last one it settled on.   *)
(* A task definition is taken for the revision of its image; each revision *)
(* has one migration, and alembic fails if the schema is newer than it.    *)
(***************************************************************************)
EXTENDS Naturals, FiniteSets

CONSTANTS
  None,         \* an output that is not set
  MaxRevision,  \* bound: revisions after the first release
  MaxJobs,      \* bound: runs of the workflow
  MaxFaults     \* bound: jobs cut short, failed calls

ASSUME ReleaseAssumption ==
  None \notin Nat /\ MaxRevision \in Nat /\ MaxJobs \in Nat /\ MaxFaults \in Nat

Revisions == 0..MaxRevision
Services  == {"api", "worker"}

VARIABLES
  target,      \* services[0].taskDefinition of each service
  stable,      \* what the service settled on last
  rejected,    \* history: services that ECS took back since their last update
  settledOn,   \* history: what each service has ever settled on
  schema,      \* alembic_version of the database
  task,        \* the job's migration task: "none", "running", "ok", "failed"
  orphans,     \* migration tasks of earlier jobs that are still running
  pc,          \* the step the job is at
  revision,    \* steps.revision.outputs.sha
  previous,    \* steps.tasks.outputs.previous_api, previous_worker
  before,      \* history: the targets when the job read them
  jobs, faults,
  abandoned,   \* history: was the job cut off, or has a call of its rollback failed?
  left         \* history: what jobs that did not finish a rollback left in place

ecs   == <<target, stable, rejected, settledOn>>
base  == <<schema, task, orphans>>
plan  == <<revision, previous, before>>
hist  == <<abandoned, left>>
count == <<jobs, faults, hist>>
vars  == <<ecs, base, pc, plan, count>>

Ends  == {"idle", "succeeded", "failed"}
Steps == {"register", "migrate", "migrating", "worker", "workerWait", "api",
          "apiWait", "smoke", "rollbackApi", "rollbackWorker"}

TypeOK ==
  /\ target \in [Services -> Revisions] /\ stable \in [Services -> Revisions]
  /\ rejected \subseteq Services
  /\ settledOn \in [Services -> SUBSET Revisions]
  /\ schema \in Revisions /\ task \in {"none", "running", "ok", "failed"}
  /\ orphans \subseteq Revisions
  /\ pc \in Ends \cup Steps
  /\ revision \in Revisions /\ previous \in [Services -> Revisions \cup {None}]
  /\ before \in [Services -> Revisions]
  /\ jobs \in 0..MaxJobs /\ faults \in 0..MaxFaults
  /\ abandoned \in BOOLEAN /\ left \in [Services -> SUBSET Revisions]

Init ==
  /\ target = [s \in Services |-> 0] /\ stable = target
  /\ rejected = {} /\ settledOn = [s \in Services |-> {0}]
  /\ schema = 0 /\ task = "none" /\ orphans = {}
  /\ pc = "idle" /\ revision = 0 /\ previous = [s \in Services |-> None]
  /\ before = target
  /\ jobs = 0 /\ faults = 0
  /\ abandoned = FALSE /\ left = [s \in Services |-> {}]

-----------------------------------------------------------------------------
\* A job for some revision: a push to main, or an older run started again.
StartJob(r) ==
  /\ pc \in Ends /\ jobs < MaxJobs
  /\ jobs' = jobs + 1
  /\ pc' = "register" /\ revision' = r /\ previous' = [s \in Services |-> None]
  /\ before' = target /\ abandoned' = FALSE
  /\ orphans' = IF task = "running" THEN orphans \cup {revision} ELSE orphans
  /\ task' = "none"
  /\ UNCHANGED <<ecs, schema, faults, left>>

Fault == faults < MaxFaults /\ faults' = faults + 1

\* Build, push or the scan gate fails.  The rollback step is skipped, since
\* previous_api is not set.
StopBeforeRegister ==
  /\ pc = "register" /\ Fault
  /\ pc' = "failed"
  /\ UNCHANGED <<ecs, base, plan, jobs, hist>>

\* The task definitions to go back to, and three new ones.  A describe-services
\* that fails inside echo does not end the step: its output is empty, and the
\* step goes on.  A register that fails ends it.
Register ==
  /\ pc = "register"
  /\ before' = target
  /\ \E lost \in SUBSET Services, ok \in BOOLEAN :
       /\ previous' = [s \in Services |-> IF s \in lost THEN None ELSE target[s]]
       /\ pc' = IF ok THEN "migrate" ELSE "rollbackApi"
       /\ IF lost = {} /\ ok THEN UNCHANGED faults ELSE Fault
  /\ UNCHANGED <<ecs, base, revision, jobs, hist>>

\* ecs run-task.
StartMigration ==
  /\ pc = "migrate"
  /\ \/ task' = "running" /\ pc' = "migrating" /\ UNCHANGED faults
     \/ Fault /\ pc' = "rollbackApi" /\ UNCHANGED task
  /\ UNCHANGED <<ecs, schema, orphans, plan, jobs, hist>>

\* alembic upgrade head of revision r, in one transaction.
Upgrade(r, ok) == IF ok /\ r >= schema THEN schema' = r ELSE UNCHANGED schema

\* The task of the job, or of an earlier one, ends.
MigrationEnds ==
  /\ \E ok \in BOOLEAN :
       \/ /\ task = "running"
          /\ Upgrade(revision, ok)
          /\ task' = IF ok /\ revision >= schema THEN "ok" ELSE "failed"
          /\ UNCHANGED orphans
       \/ \E r \in orphans :
            /\ Upgrade(r, ok)
            /\ orphans' = orphans \ {r}
            /\ UNCHANGED task
  /\ UNCHANGED <<ecs, pc, plan, count>>

\* Mutant of MigrationPassed: the exit code is not tested.
MigrationPassed_Stopped == task \in {"ok", "failed"}

\* exit_code = 0.
MigrationPassed == task = "ok"

\* tasks-stopped returns, or gives up while the task goes on, or a call fails.
AwaitMigration ==
  /\ pc = "migrating"
  /\ \/ MigrationPassed /\ pc' = "worker" /\ UNCHANGED faults
     \/ task = "failed" /\ pc' = "rollbackApi" /\ UNCHANGED faults
     \/ Fault /\ pc' = "rollbackApi"
  /\ UNCHANGED <<ecs, base, plan, jobs, hist>>

\* ecs update-service.
UpdateService(s, r) ==
  /\ target' = [target EXCEPT ![s] = r]
  /\ rejected' = rejected \ {s}
  /\ UNCHANGED <<stable, settledOn>>

\* Mutant of Settled: pending tasks and deployments are not looked at.
Settled_Running(s) == TRUE

\* One deployment, all of its tasks running.
Settled(s) == target[s] = stable[s]

\* update-service for s, or the call fails.
Deploy(s, wait) ==
  /\ pc = s
  /\ \/ UpdateService(s, revision) /\ pc' = wait /\ UNCHANGED faults
     \/ Fault /\ pc' = "rollbackApi" /\ UNCHANGED ecs
  /\ UNCHANGED <<base, plan, jobs, hist>>

\* wait_for_service: the step fails after 80 attempts, or with a call.
Await(s, wait, next) ==
  /\ pc = wait
  /\ \/ Settled(s) /\ pc' = next /\ UNCHANGED faults
     \/ Fault /\ pc' = "rollbackApi"
  /\ UNCHANGED <<ecs, base, plan, jobs, hist>>

\* /health/ready shows the revision of the job.
Ready == stable["api"] = revision

\* The smoke test; an alarm makes it fail as well.
SmokeTest ==
  /\ pc = "smoke"
  /\ \/ Ready /\ pc' = "succeeded"
     \/ pc' = "rollbackApi"
  /\ UNCHANGED <<ecs, base, plan, count>>

\* The job ends with the services as they are.
Leave == left' = [s \in Services |-> left[s] \cup {target[s]}]

\* Mutant of RollBackApi: the step runs whether previous_api is set or not.
RollBackApi_Always ==
  /\ pc = "rollbackApi"
  /\ UpdateService("api", previous["api"]) /\ pc' = "rollbackWorker"
  /\ UNCHANGED <<base, plan, count>>

\* The rollback step: API first.  A failed call ends the step; without
\* previous_api it is skipped.
RollBackApi ==
  /\ pc = "rollbackApi"
  /\ \/ /\ previous["api"] # None
        /\ UpdateService("api", previous["api"]) /\ pc' = "rollbackWorker"
        /\ UNCHANGED <<faults, hist>>
     \/ /\ previous["api"] # None /\ Fault
        /\ pc' = "failed" /\ abandoned' = TRUE /\ Leave /\ UNCHANGED ecs
     \/ /\ previous["api"] = None
        /\ pc' = "failed" /\ Leave /\ UNCHANGED <<ecs, faults, abandoned>>
  /\ UNCHANGED <<base, plan, jobs>>

\* Mutant of RollBackWorker: only the API is rolled back.
RollBackWorker_Skipped ==
  /\ pc = "rollbackWorker" /\ pc' = "failed"
  /\ UNCHANGED <<ecs, base, plan, count>>

\* Then the worker.  With an empty previous_worker the call names no task
\* definition and changes nothing.
RollBackWorker ==
  /\ pc = "rollbackWorker"
  /\ pc' = "failed"
  /\ \/ /\ previous["worker"] # None
        /\ UpdateService("worker", previous["worker"]) /\ UNCHANGED <<faults, hist>>
     \/ Fault /\ abandoned' = TRUE /\ Leave /\ UNCHANGED ecs
     \/ previous["worker"] = None /\ Leave /\ UNCHANGED <<ecs, faults, abandoned>>
  /\ UNCHANGED <<base, plan, jobs>>

\* The job is cancelled, or reaches its 45 minutes: failure() does not hold,
\* and the rollback step is skipped.
Cancel ==
  /\ pc \in Steps /\ Fault
  /\ pc' = "idle" /\ abandoned' = TRUE /\ Leave
  /\ UNCHANGED <<ecs, base, plan, jobs>>

\* ECS completes a deployment ...
Settle(s) ==
  /\ target[s] # stable[s]
  /\ stable' = [stable EXCEPT ![s] = target[s]]
  /\ settledOn' = [settledOn EXCEPT ![s] = @ \cup {target[s]}]
  /\ UNCHANGED <<target, rejected, base, pc, plan, count>>

\* ... or takes it back: circuit breaker of both services, alarms of the API.
TakeBack(s) ==
  /\ target[s] # stable[s]
  /\ target' = [target EXCEPT ![s] = stable[s]]
  /\ rejected' = rejected \cup {s}
  /\ UNCHANGED <<stable, settledOn, base, pc, plan, count>>

Job ==
  \/ StopBeforeRegister \/ Register \/ StartMigration \/ AwaitMigration
  \/ Deploy("worker", "workerWait") \/ Await("worker", "workerWait", "api")
  \/ Deploy("api", "apiWait") \/ Await("api", "apiWait", "smoke")
  \/ SmokeTest \/ RollBackApi \/ RollBackWorker

Next ==
  \/ \E r \in Revisions : StartJob(r)
  \/ Job \/ Cancel \/ MigrationEnds
  \/ \E s \in Services : Settle(s) \/ TakeBack(s)

Spec == Init /\ [][Next]_vars

-----------------------------------------------------------------------------
\* No service is ever put on a revision whose migration the database does not
\* have, whatever is released, rolled back, cancelled or released again, and
\* although migration tasks outlive their jobs (the order of the steps).
SchemaLeadsCode == \A s \in Services : target[s] <= schema /\ stable[s] <= schema

\* After a failed release each service is set back to what it ran before, unless
\* ECS was earlier, a call of the rollback failed, or its task definition was
\* never read: without previous_api neither service is set back, without
\* previous_worker the API alone (Register, rollback step).
FailureRestores ==
  pc = "failed" /\ ~abandoned /\ previous["api"] # None =>
    \A s \in Services : target[s] = before[s] \/ s \in rejected \/ previous[s] = None

\* What a job goes back to has worked on that service, or is what an earlier job
\* that did not finish its rollback had left there: no job deploys again a
\* revision that ECS has taken back (previous is read while ECS may still be busy
\* with an earlier rollback).
RollbackTargetWorked ==
  pc \in {"rollbackApi", "rollbackWorker"} =>
    \A s \in Services : previous[s] \in settledOn[s] \cup left[s] \cup {None}

\* A successful release runs its revision in the API, and in the worker unless
\* ECS has taken the worker back, which wait_for_service does not see.
SuccessReleasesBoth ==
  pc = "succeeded" =>
    \A s \in Services :
      \/ stable[s] = revision /\ target[s] = revision
      \/ s = "worker" /\ s \in rejected
=============================================================================
