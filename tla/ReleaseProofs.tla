---------------------------- MODULE ReleaseProofs ----------------------------
(***************************************************************************)
(* Theorems about Release, for any number of revisions, jobs and faults.   *)
(***************************************************************************)
EXTENDS Release, TLAPS

\* Steps of the job that come after its migration.
Migrated == {"worker", "workerWait", "api", "apiWait", "smoke"}

\* What a job may deploy, its own revision after the migration or the previous
\* ones, the schema has.
PlanHasSchema ==
  /\ task = "ok" \/ pc \in Migrated => revision <= schema
  /\ \A s \in Services : previous[s] = None \/ previous[s] <= schema

\* As much of TypeOK as these comparisons need.
Numbered ==
  /\ target \in [Services -> Revisions] /\ stable \in [Services -> Revisions]
  /\ schema \in Revisions /\ orphans \subseteq Revisions
  /\ revision \in Revisions /\ previous \in [Services -> Revisions \cup {None}]

SchemaInv == Numbered /\ SchemaLeadsCode /\ PlanHasSchema

-----------------------------------------------------------------------------
LEMMA SchemaInit == Init => SchemaInv
<1> SUFFICES ASSUME Init PROVE SchemaInv
  OBVIOUS
<1> USE ReleaseAssumption DEF Init, Revisions, Services, Ends, Steps
<1>1. Numbered
  BY DEF Numbered
<1>2. SchemaLeadsCode
  BY DEF SchemaLeadsCode
<1>3. PlanHasSchema
  BY DEF PlanHasSchema, Migrated
<1> QED
  BY <1>1, <1>2, <1>3 DEF SchemaInv

\* Every step keeps the invariant; the schema never goes back.
LEMMA SchemaStep == SchemaInv /\ [Next]_vars => SchemaInv'
<1> SUFFICES ASSUME SchemaInv, [Next]_vars PROVE SchemaInv'
  OBVIOUS
<1> USE ReleaseAssumption
    DEF SchemaInv, Numbered, SchemaLeadsCode, PlanHasSchema, Migrated, Revisions,
        Services, Ends, Steps, ecs, base, plan, hist, count
<1>1. ASSUME NEW r \in Revisions, StartJob(r) PROVE SchemaInv'
  BY <1>1 DEF StartJob
<1>2. CASE StopBeforeRegister
  BY <1>2 DEF StopBeforeRegister, Fault
<1>3. CASE Register
  BY <1>3 DEF Register, Fault
<1>4. CASE StartMigration
  BY <1>4 DEF StartMigration, Fault
<1>5. CASE MigrationEnds
  <2>1. schema' \in Revisions /\ schema <= schema'
    BY <1>5 DEF MigrationEnds, Upgrade
  <2>2. task' = "ok" => revision' <= schema'
    BY <1>5 DEF MigrationEnds, Upgrade
  <2>3. UNCHANGED <<target, stable, pc, revision, previous>> /\ orphans' \subseteq orphans
    BY <1>5 DEF MigrationEnds
  <2>4. Numbered'
    BY <2>1, <2>3
  <2>5. SchemaLeadsCode'
    BY <2>1, <2>3
  <2>6. PlanHasSchema'
    BY <2>1, <2>2, <2>3
  <2> QED
    BY <2>4, <2>5, <2>6
<1>6. CASE AwaitMigration
  BY <1>6 DEF AwaitMigration, MigrationPassed, Fault
<1>7. CASE Deploy("worker", "workerWait") \/ Deploy("api", "apiWait")
  <2>1. CASE Deploy("worker", "workerWait")
    BY <2>1 DEF Deploy, UpdateService, Fault
  <2>2. CASE Deploy("api", "apiWait")
    BY <2>2 DEF Deploy, UpdateService, Fault
  <2> QED
    BY <1>7, <2>1, <2>2
<1>8. CASE Await("worker", "workerWait", "api") \/ Await("api", "apiWait", "smoke")
  <2>1. CASE Await("worker", "workerWait", "api")
    BY <2>1 DEF Await, Fault
  <2>2. CASE Await("api", "apiWait", "smoke")
    BY <2>2 DEF Await, Fault
  <2> QED
    BY <1>8, <2>1, <2>2
<1>9. CASE SmokeTest
  BY <1>9 DEF SmokeTest
<1>10. CASE RollBackApi
  BY <1>10 DEF RollBackApi, UpdateService, Fault
<1>11. CASE RollBackWorker
  BY <1>11 DEF RollBackWorker, UpdateService, Fault
<1>12. CASE Cancel
  BY <1>12 DEF Cancel, Fault
<1>13. ASSUME NEW s \in Services, Settle(s) \/ TakeBack(s) PROVE SchemaInv'
  BY <1>13 DEF Settle, TakeBack
<1>14. CASE UNCHANGED vars
  BY <1>14 DEF vars
<1> QED
  BY <1>1, <1>2, <1>3, <1>4, <1>5, <1>6, <1>7, <1>8, <1>9, <1>10, <1>11, <1>12,
     <1>13, <1>14 DEF Next, Job

\* No service is ever put on a revision whose migration the database does not
\* have (deploy.yml migrates first, and the schema never goes back).
THEOREM CodeNeverLeadsSchema == Spec => []SchemaLeadsCode
<1>1. SchemaInv => SchemaLeadsCode
  BY DEF SchemaInv
<1> QED
  BY <1>1, SchemaInit, SchemaStep, PTL DEF Spec

-----------------------------------------------------------------------------
\* TypeOK, but for the step the job is at.
DataOK ==
  /\ target \in [Services -> Revisions] /\ stable \in [Services -> Revisions]
  /\ rejected \subseteq Services
  /\ settledOn \in [Services -> SUBSET Revisions]
  /\ schema \in Revisions /\ task \in {"none", "running", "ok", "failed"}
  /\ orphans \subseteq Revisions
  /\ revision \in Revisions /\ previous \in [Services -> Revisions \cup {None}]
  /\ before \in [Services -> Revisions]
  /\ jobs \in 0..MaxJobs /\ faults \in 0..MaxFaults
  /\ abandoned \in BOOLEAN /\ left \in [Services -> SUBSET Revisions]

PcOK == pc \in Ends \cup Steps

LEMMA PcStep == PcOK /\ [Next]_vars => PcOK'
<1> SUFFICES ASSUME PcOK, [Next]_vars PROVE PcOK'
  OBVIOUS
<1> USE DEF PcOK, Ends, Steps
<1>1. CASE Job
  BY <1>1 DEF Job, StopBeforeRegister, Register, StartMigration, AwaitMigration, Deploy,
     Await, SmokeTest, RollBackApi, RollBackWorker
<1>2. ASSUME NEW r \in Revisions, StartJob(r) PROVE PcOK'
  BY <1>2 DEF StartJob
<1>3. CASE Cancel \/ MigrationEnds
  BY <1>3 DEF Cancel, MigrationEnds
<1>4. ASSUME NEW s \in Services, Settle(s) \/ TakeBack(s) PROVE PcOK'
  BY <1>4 DEF Settle, TakeBack
<1>5. CASE UNCHANGED vars
  BY <1>5 DEF vars
<1> QED
  BY <1>1, <1>2, <1>3, <1>4, <1>5 DEF Next

LEMMA UpdateServiceTyped ==
  ASSUME DataOK, NEW s \in Services, NEW r \in Revisions, UpdateService(s, r)
  PROVE  /\ target' \in [Services -> Revisions] /\ stable' \in [Services -> Revisions]
         /\ rejected' \subseteq Services
         /\ settledOn' \in [Services -> SUBSET Revisions]
BY DEF DataOK, UpdateService

LEMMA LeaveTyped == DataOK /\ Leave => left' \in [Services -> SUBSET Revisions]
BY DEF DataOK, Leave

\* The guards of the rollback keep an empty output out of the services.
LEMMA DataStep == DataOK /\ [Next]_vars => DataOK'
<1> SUFFICES ASSUME DataOK, [Next]_vars PROVE DataOK'
  OBVIOUS
<1> USE ReleaseAssumption DEF DataOK, Revisions, Services, ecs, base, plan, hist, count, Fault
<1>1. ASSUME NEW r \in Revisions, StartJob(r) PROVE DataOK'
  <2>1. abandoned' \in BOOLEAN
    BY <1>1, Zenon DEF StartJob
  <2> QED
    BY <1>1, <2>1 DEF StartJob
<1>2. CASE StopBeforeRegister
  BY <1>2 DEF StopBeforeRegister
<1>3. CASE Register
  BY <1>3 DEF Register
<1>4. CASE StartMigration
  BY <1>4 DEF StartMigration
<1>5. CASE MigrationEnds
  BY <1>5 DEF MigrationEnds, Upgrade
<1>6. CASE AwaitMigration
  BY <1>6 DEF AwaitMigration
<1>7. CASE Deploy("worker", "workerWait")
  <2>1. UpdateService("worker", revision) \/ UNCHANGED ecs
    BY <1>7 DEF Deploy
  <2>2. /\ target' \in [Services -> Revisions] /\ stable' \in [Services -> Revisions]
        /\ rejected' \subseteq Services
        /\ settledOn' \in [Services -> SUBSET Revisions]
    BY <2>1, UpdateServiceTyped
  <2> QED
    BY <1>7, <2>2 DEF Deploy
<1>8. CASE Deploy("api", "apiWait")
  <2>1. UpdateService("api", revision) \/ UNCHANGED ecs
    BY <1>8 DEF Deploy
  <2>2. /\ target' \in [Services -> Revisions] /\ stable' \in [Services -> Revisions]
        /\ rejected' \subseteq Services
        /\ settledOn' \in [Services -> SUBSET Revisions]
    BY <2>1, UpdateServiceTyped
  <2> QED
    BY <1>8, <2>2 DEF Deploy
<1>9. CASE Await("worker", "workerWait", "api")
  BY <1>9 DEF Await
<1>10. CASE Await("api", "apiWait", "smoke")
  BY <1>10 DEF Await
<1>11. CASE SmokeTest
  BY <1>11 DEF SmokeTest
<1>12. CASE RollBackApi
  <2>1. previous["api"] \in Revisions \/ previous["api"] = None
    OBVIOUS
  <2>2. UNCHANGED ecs \/ (previous["api"] # None /\ UpdateService("api", previous["api"]))
    BY <1>12 DEF RollBackApi
  <2>3. /\ target' \in [Services -> Revisions] /\ stable' \in [Services -> Revisions]
        /\ rejected' \subseteq Services
        /\ settledOn' \in [Services -> SUBSET Revisions]
    BY <2>1, <2>2, UpdateServiceTyped
  <2>4. abandoned' \in BOOLEAN
    BY <1>12, Zenon DEF RollBackApi
  <2>5. faults' \in 0..MaxFaults /\ UNCHANGED <<base, plan, jobs>>
    BY <1>12 DEF RollBackApi
  <2>6. left' \in [Services -> SUBSET Revisions]
    BY <1>12, LeaveTyped DEF RollBackApi
  <2> QED
    BY <2>3, <2>4, <2>5, <2>6
<1>13. CASE RollBackWorker
  <2>1. previous["worker"] \in Revisions \/ previous["worker"] = None
    OBVIOUS
  <2>2. UNCHANGED ecs \/ (previous["worker"] # None /\ UpdateService("worker", previous["worker"]))
    BY <1>13 DEF RollBackWorker
  <2>3. /\ target' \in [Services -> Revisions] /\ stable' \in [Services -> Revisions]
        /\ rejected' \subseteq Services
        /\ settledOn' \in [Services -> SUBSET Revisions]
    BY <2>1, <2>2, UpdateServiceTyped
  <2>4. abandoned' \in BOOLEAN
    BY <1>13, Zenon DEF RollBackWorker
  <2>5. faults' \in 0..MaxFaults /\ UNCHANGED <<base, plan, jobs>>
    BY <1>13 DEF RollBackWorker
  <2>6. left' \in [Services -> SUBSET Revisions]
    BY <1>13, LeaveTyped DEF RollBackWorker
  <2> QED
    BY <2>3, <2>4, <2>5, <2>6
<1>14. CASE Cancel
  BY <1>14, LeaveTyped DEF Cancel
<1>15. ASSUME NEW s \in Services, Settle(s) PROVE DataOK'
  <2>1. settledOn[s] \cup {target[s]} \in SUBSET Revisions
    OBVIOUS
  <2>2. settledOn' \in [Services -> SUBSET Revisions]
    BY <1>15, <2>1, Zenon DEF Settle
  <2>3. stable' \in [Services -> Revisions]
    BY <1>15 DEF Settle
  <2> QED
    BY <1>15, <2>2, <2>3 DEF Settle
<1>16. ASSUME NEW s \in Services, TakeBack(s) PROVE DataOK'
  BY <1>16 DEF TakeBack
<1>17. CASE UNCHANGED vars
  BY <1>17 DEF vars
<1> QED
  BY <1>1, <1>2, <1>3, <1>4, <1>5, <1>6, <1>7, <1>8, <1>9, <1>10, <1>11, <1>12,
     <1>13, <1>14, <1>15, <1>16, <1>17 DEF Next, Job

\* Type correctness, for any number of revisions, jobs and faults.
THEOREM TypeCorrect == Spec => []TypeOK
<1>1. Init => DataOK
  <2> SUFFICES ASSUME Init PROVE DataOK
    OBVIOUS
  <2>1. settledOn \in [Services -> SUBSET Revisions]
    BY ReleaseAssumption DEF Init, Revisions
  <2>2. 0 \in Revisions
    BY ReleaseAssumption DEF Revisions
  <2>3. target \in [Services -> Revisions] /\ stable \in [Services -> Revisions]
    BY <2>2 DEF Init
  <2>4. /\ schema \in Revisions /\ orphans \subseteq Revisions /\ revision \in Revisions
        /\ previous \in [Services -> Revisions \cup {None}]
    BY <2>2 DEF Init
  <2>5. task \in {"none", "running", "ok", "failed"} /\ rejected \subseteq Services
    BY DEF Init
  <2>6. abandoned \in BOOLEAN
    BY Zenon DEF Init
  <2>8. before \in [Services -> Revisions] /\ left \in [Services -> SUBSET Revisions]
    BY <2>3 DEF Init
  <2>7. jobs \in 0..MaxJobs /\ faults \in 0..MaxFaults
    BY ReleaseAssumption DEF Init
  <2> QED
    BY <2>1, <2>3, <2>4, <2>5, <2>6, <2>7, <2>8 DEF DataOK
<1>2. Init => PcOK
  BY DEF Init, PcOK, Ends
<1>3. DataOK /\ PcOK => TypeOK
  BY DEF DataOK, PcOK, TypeOK
<1> QED
  BY <1>1, <1>2, <1>3, PcStep, DataStep, PTL DEF Spec

-----------------------------------------------------------------------------
\* ECS returns a service only to what it has settled on.
ReturnsToStable ==
  \A s \in Services : /\ stable[s] \in settledOn[s]
                      /\ s \in rejected => target[s] = stable[s]

\* What the waits of the job have established when it is past them.
DeployedInv ==
  /\ pc \in {"workerWait", "api", "apiWait", "smoke", "succeeded"} =>
       target["worker"] = revision \/ "worker" \in rejected
  /\ pc \in {"api", "apiWait", "smoke", "succeeded"} => target["worker"] = stable["worker"]
  /\ pc \in {"smoke", "succeeded"} => target["api"] = stable["api"]
  /\ pc = "succeeded" => stable["api"] = revision

\* How far the rollback has come, and that it knows what the services ran.
RestoredInv ==
  /\ pc = "register" => \A s \in Services : previous[s] = None
  /\ pc \in Steps => \A s \in Services : previous[s] \in {None, before[s]}
  /\ pc = "rollbackWorker" => target["api"] = before["api"] \/ "api" \in rejected
  /\ FailureRestores

\* Of a service's task definition: it has worked there, or is left over.
WorkedOrLeft(s, r) == r \in settledOn[s] \cup left[s]

\* Between jobs and until the targets are read, they have worked or are left over;
\* then so has what was read, and the API when the worker's turn comes.
WorkedInv ==
  /\ pc \in Ends \cup {"register"} => \A s \in Services : WorkedOrLeft(s, target[s])
  /\ pc \in Steps \ {"register"} =>
       \A s \in Services : previous[s] = None \/ WorkedOrLeft(s, previous[s])
  /\ pc = "rollbackWorker" => WorkedOrLeft("api", target["api"])

LEMMA ReturnsStep == DataOK /\ ReturnsToStable /\ [Next]_vars => ReturnsToStable'
<1> SUFFICES ASSUME DataOK, ReturnsToStable, [Next]_vars PROVE ReturnsToStable'
  OBVIOUS
<1> USE ReleaseAssumption DEF DataOK, ReturnsToStable, Services, Ends, Steps, ecs, base, plan, hist, count, Fault
<1>1. ASSUME NEW r \in Revisions, StartJob(r) PROVE ReturnsToStable'
  BY <1>1 DEF StartJob
<1>2. CASE StopBeforeRegister
  BY <1>2 DEF StopBeforeRegister
<1>3. CASE Register
  BY <1>3 DEF Register
<1>4. CASE StartMigration
  BY <1>4 DEF StartMigration
<1>5. CASE MigrationEnds
  BY <1>5 DEF MigrationEnds
<1>6. CASE AwaitMigration
  BY <1>6 DEF AwaitMigration
<1>7. CASE Deploy("worker", "workerWait")
  BY <1>7 DEF Deploy, UpdateService
<1>8. CASE Deploy("api", "apiWait")
  BY <1>8 DEF Deploy, UpdateService
<1>9. CASE Await("worker", "workerWait", "api")
  BY <1>9 DEF Await, Settled
<1>10. CASE Await("api", "apiWait", "smoke")
  BY <1>10 DEF Await, Settled
<1>11. CASE SmokeTest
  BY <1>11 DEF SmokeTest, Ready
<1>12. CASE RollBackApi
  BY <1>12 DEF RollBackApi, UpdateService
<1>13. CASE RollBackWorker
  BY <1>13 DEF RollBackWorker, UpdateService
<1>14. CASE Cancel
  BY <1>14 DEF Cancel
<1>15. ASSUME NEW s \in Services, Settle(s) PROVE ReturnsToStable'
  BY <1>15 DEF Settle
<1>16. ASSUME NEW s \in Services, TakeBack(s) PROVE ReturnsToStable'
  BY <1>16 DEF TakeBack
<1>17. CASE UNCHANGED vars
  BY <1>17 DEF vars
<1> QED
  BY <1>1, <1>2, <1>3, <1>4, <1>5, <1>6, <1>7, <1>8, <1>9, <1>10, <1>11, <1>12,
     <1>13, <1>14, <1>15, <1>16, <1>17 DEF Next, Job

LEMMA DeployedStep == DataOK /\ DeployedInv /\ [Next]_vars => DeployedInv'
<1> SUFFICES ASSUME DataOK, DeployedInv, [Next]_vars PROVE DeployedInv'
  OBVIOUS
<1> USE ReleaseAssumption DEF DataOK, DeployedInv, Services, Ends, Steps, ecs, base, plan, hist, count, Fault
<1>1. ASSUME NEW r \in Revisions, StartJob(r) PROVE DeployedInv'
  BY <1>1 DEF StartJob
<1>2. CASE StopBeforeRegister
  BY <1>2 DEF StopBeforeRegister
<1>3. CASE Register
  BY <1>3 DEF Register
<1>4. CASE StartMigration
  BY <1>4 DEF StartMigration
<1>5. CASE MigrationEnds
  BY <1>5 DEF MigrationEnds
<1>6. CASE AwaitMigration
  BY <1>6 DEF AwaitMigration
<1>7. CASE Deploy("worker", "workerWait")
  BY <1>7 DEF Deploy, UpdateService
<1>8. CASE Deploy("api", "apiWait")
  BY <1>8 DEF Deploy, UpdateService
<1>9. CASE Await("worker", "workerWait", "api")
  BY <1>9 DEF Await, Settled
<1>10. CASE Await("api", "apiWait", "smoke")
  BY <1>10 DEF Await, Settled
<1>11. CASE SmokeTest
  BY <1>11 DEF SmokeTest, Ready
<1>12. CASE RollBackApi
  BY <1>12 DEF RollBackApi, UpdateService
<1>13. CASE RollBackWorker
  BY <1>13 DEF RollBackWorker, UpdateService
<1>14. CASE Cancel
  BY <1>14 DEF Cancel
<1>15. ASSUME NEW s \in Services, Settle(s) PROVE DeployedInv'
  BY <1>15 DEF Settle
<1>16. ASSUME NEW s \in Services, TakeBack(s) PROVE DeployedInv'
  BY <1>16 DEF TakeBack
<1>17. CASE UNCHANGED vars
  BY <1>17 DEF vars
<1> QED
  BY <1>1, <1>2, <1>3, <1>4, <1>5, <1>6, <1>7, <1>8, <1>9, <1>10, <1>11, <1>12,
     <1>13, <1>14, <1>15, <1>16, <1>17 DEF Next, Job

LEMMA RestoredStep == DataOK /\ RestoredInv /\ [Next]_vars => RestoredInv'
<1> SUFFICES ASSUME DataOK, RestoredInv, [Next]_vars PROVE RestoredInv'
  OBVIOUS
<1> USE ReleaseAssumption DEF DataOK, RestoredInv, FailureRestores, Services, Ends, Steps, ecs, base, plan, hist, count, Fault
<1>1. ASSUME NEW r \in Revisions, StartJob(r) PROVE RestoredInv'
  BY <1>1 DEF StartJob
<1>2. CASE StopBeforeRegister
  BY <1>2 DEF StopBeforeRegister
<1>3. CASE Register
  BY <1>3 DEF Register
<1>4. CASE StartMigration
  BY <1>4 DEF StartMigration
<1>5. CASE MigrationEnds
  BY <1>5 DEF MigrationEnds
<1>6. CASE AwaitMigration
  BY <1>6 DEF AwaitMigration
<1>7. CASE Deploy("worker", "workerWait")
  BY <1>7 DEF Deploy, UpdateService
<1>8. CASE Deploy("api", "apiWait")
  BY <1>8 DEF Deploy, UpdateService
<1>9. CASE Await("worker", "workerWait", "api")
  BY <1>9 DEF Await, Settled
<1>10. CASE Await("api", "apiWait", "smoke")
  BY <1>10 DEF Await, Settled
<1>11. CASE SmokeTest
  BY <1>11 DEF SmokeTest, Ready
<1>12. CASE RollBackApi
  BY <1>12 DEF RollBackApi, UpdateService
<1>13. CASE RollBackWorker
  BY <1>13 DEF RollBackWorker, UpdateService
<1>14. CASE Cancel
  BY <1>14 DEF Cancel
<1>15. ASSUME NEW s \in Services, Settle(s) PROVE RestoredInv'
  BY <1>15 DEF Settle
<1>16. ASSUME NEW s \in Services, TakeBack(s) PROVE RestoredInv'
  BY <1>16 DEF TakeBack
<1>17. CASE UNCHANGED vars
  BY <1>17 DEF vars
<1> QED
  BY <1>1, <1>2, <1>3, <1>4, <1>5, <1>6, <1>7, <1>8, <1>9, <1>10, <1>11, <1>12,
     <1>13, <1>14, <1>15, <1>16, <1>17 DEF Next, Job

\* A release that ends well leaves both services settled (DeployedInv), and what
\* ECS gives back has worked (ReturnsToStable).
LEMMA WorkedStep ==
  DataOK /\ ReturnsToStable /\ DeployedInv /\ WorkedInv /\ [Next]_vars => WorkedInv'
<1> SUFFICES ASSUME DataOK, ReturnsToStable, DeployedInv, WorkedInv, [Next]_vars PROVE WorkedInv'
  OBVIOUS
<1> USE ReleaseAssumption DEF DataOK, ReturnsToStable, DeployedInv, WorkedInv, WorkedOrLeft, Leave, Services, Ends, Steps, ecs, base, plan, hist, count, Fault
<1>1. ASSUME NEW r \in Revisions, StartJob(r) PROVE WorkedInv'
  BY <1>1 DEF StartJob
<1>2. CASE StopBeforeRegister
  BY <1>2 DEF StopBeforeRegister
<1>3. CASE Register
  BY <1>3 DEF Register
<1>4. CASE StartMigration
  BY <1>4 DEF StartMigration
<1>5. CASE MigrationEnds
  BY <1>5 DEF MigrationEnds
<1>6. CASE AwaitMigration
  BY <1>6 DEF AwaitMigration
<1>7. CASE Deploy("worker", "workerWait")
  BY <1>7 DEF Deploy, UpdateService
<1>8. CASE Deploy("api", "apiWait")
  BY <1>8 DEF Deploy, UpdateService
<1>9. CASE Await("worker", "workerWait", "api")
  BY <1>9 DEF Await, Settled
<1>10. CASE Await("api", "apiWait", "smoke")
  BY <1>10 DEF Await, Settled
<1>11. CASE SmokeTest
  BY <1>11 DEF SmokeTest, Ready
<1>12. CASE RollBackApi
  BY <1>12 DEF RollBackApi, UpdateService
<1>13. CASE RollBackWorker
  BY <1>13 DEF RollBackWorker, UpdateService
<1>14. CASE Cancel
  BY <1>14 DEF Cancel
<1>15. ASSUME NEW s \in Services, Settle(s) PROVE WorkedInv'
  BY <1>15 DEF Settle
<1>16. ASSUME NEW s \in Services, TakeBack(s) PROVE WorkedInv'
  BY <1>16 DEF TakeBack
<1>17. CASE UNCHANGED vars
  BY <1>17 DEF vars
<1> QED
  BY <1>1, <1>2, <1>3, <1>4, <1>5, <1>6, <1>7, <1>8, <1>9, <1>10, <1>11, <1>12,
     <1>13, <1>14, <1>15, <1>16, <1>17 DEF Next, Job

OutcomeInv == ReturnsToStable /\ DeployedInv /\ RestoredInv /\ WorkedInv

LEMMA OutcomeInit == Init => OutcomeInv
<1> SUFFICES ASSUME Init PROVE OutcomeInv
  OBVIOUS
<1> USE DEF Init, Services, Ends, Steps
<1>1. ReturnsToStable /\ DeployedInv
  BY DEF ReturnsToStable, DeployedInv
<1>2. RestoredInv /\ WorkedInv
  BY DEF RestoredInv, FailureRestores, WorkedInv, WorkedOrLeft
<1> QED
  BY <1>1, <1>2 DEF OutcomeInv

LEMMA OutcomeStep == DataOK /\ OutcomeInv /\ [Next]_vars => OutcomeInv'
BY ReturnsStep, DeployedStep, RestoredStep, WorkedStep DEF OutcomeInv

LEMMA OutcomeAlways == Spec => [](DataOK /\ PcOK /\ OutcomeInv)
<1>1. TypeOK => DataOK /\ PcOK
  BY DEF TypeOK, DataOK, PcOK
<1> QED
  BY <1>1, TypeCorrect, OutcomeInit, OutcomeStep, PTL DEF Spec

\* After a failed release each service is set back to what it ran before, unless
\* ECS was earlier, a rollback call failed, or describe-services had returned
\* nothing (the rollback step of deploy.yml).
THEOREM FailureAlwaysRestores == Spec => []FailureRestores
<1>1. OutcomeInv => FailureRestores
  BY DEF OutcomeInv, RestoredInv
<1> QED
  BY <1>1, OutcomeAlways, PTL

\* A rollback deploys only what has worked before or what a job without a complete
\* rollback had left there (previous_api, previous_worker).
THEOREM RollbackTargetsWorked == Spec => []RollbackTargetWorked
<1>1. OutcomeInv => RollbackTargetWorked
  BY DEF OutcomeInv, WorkedInv, WorkedOrLeft, RollbackTargetWorked, Steps
<1> QED
  BY <1>1, OutcomeAlways, PTL

\* A successful release runs its revision in both services, unless ECS took the
\* worker back (wait_for_service and the smoke test).
THEOREM SuccessAlwaysReleases == Spec => []SuccessReleasesBoth
<1>1. OutcomeInv => SuccessReleasesBoth
  BY DEF OutcomeInv, DeployedInv, SuccessReleasesBoth, Services
<1> QED
  BY <1>1, OutcomeAlways, PTL
=============================================================================
