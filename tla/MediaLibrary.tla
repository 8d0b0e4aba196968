---------------------------- MODULE MediaLibrary ----------------------------
(***************************************************************************)
(* The hosted media of db/media.go and task/media_*.go.  Assets are        *)
(* fetched by background pollers and by requests that wait for the bytes,  *)
(* under a lease on the asset's job; a revoked asset is removed by the     *)
(* deletion pollers, under a lease on its deletion job; the reconciler     *)
(* removes files that no object row knows.  A database transaction is one  *)
(* step; a file operation is a step of its own, and a crash may fall       *)
(* between any two.                                                        *)
(*                                                                         *)
(* A storage key also names the object row written with it: both derive    *)
(* from the claim's fresh token (mediaObjectID, MaterializeClaimedMedia).  *)
(* A key nothing mentions any more stands for a fresh one.  A lease token  *)
(* is its worker: no worker holds two claims, and a restarted one cannot   *)
(* use what it held.  Retry delays are left out: a job that waits for its  *)
(* next attempt may be claimed at once.                                    *)
(***************************************************************************)
EXTENDS Naturals, FiniteSets

CONSTANTS
    TaskAssets,     \* the results of one task: one asset for each URL
    Shared,         \* assets of an upgraded database that share one object
    Pollers,        \* the goroutines of the MediaMaterializationPoller
    Requests,       \* requests that materialize while their caller waits
    Removers,       \* the goroutines of the MediaDeletionPoller
    Keys,           \* storage keys
    SharedKey,      \* the key of the object in Shared
    DeleteOrphans,  \* RELAY_MEDIA_DELETE_ORPHANS
    MaxFaults,      \* bound: deaths of the process and heartbeats that come too late
    None

ASSUME MediaAssumption ==
    /\ TaskAssets \cap Shared = {}
    /\ IsFiniteSet(TaskAssets \cup Shared)
    /\ Pollers \cap Requests = {}
    /\ SharedKey \in Keys
    /\ None \notin TaskAssets \cup Shared \cup Keys \cup Pollers \cup Requests \cup Removers
    /\ DeleteOrphans \in BOOLEAN
    /\ MaxFaults \in Nat

Assets == TaskAssets \cup Shared
Workers == Pollers \cup Requests

\* The statuses under which an asset may still be read or become readable
\* (retentionEligible); the other ones a row can have revoke it for good.
Live == {"pending", "materializing", "available", "failed"}
Revoked == {"delete_requested", "delete_failed", "deleted", "expired"}
\* Not a row: not created yet, or removed with HardDeleteMediaAssetByID.
Absent == {"none", "purged"}

JobStates == {"none", "pending", "running", "succeeded"}
ObjectStates == {"none", "ready", "delete_pending", "deleting", "delete_failed", "deleted"}

VARIABLES
    asset,      \* media_assets: status and object_id
    object,     \* media_objects, by storage key: state and ref_count
    fetchJob,   \* media_materialization_jobs: status, lease owner, lease not expired
    deleteJob,  \* media_deletion_jobs: the same, and purge_after_delete
    task,       \* task_runs.task_status of the task of TaskAssets
    files,      \* the files of the object store
    old,        \* those last written before the reconciler's safety window
    worker,     \* what each poller or request does: step, asset, key it wrote
    remover,    \* what each deletion goroutine does: step, asset, key it read
    doomed,     \* files the reconciler's scan has still to remove
    faults      \* the bounded faults so far

vars == <<asset, object, fetchJob, deleteJob, task, files, old, worker, remover, doomed, faults>>
media == <<asset, object, fetchJob, deleteJob, task>>
store == <<files, old>>
actors == <<worker, remover, doomed, faults>>

Row == [status : Live \cup Revoked \cup Absent, obj : Keys \cup {None}]
Object == [state : ObjectStates, ref : Nat]
Job == [status : JobStates, owner : Workers \cup Removers \cup {None}, live : BOOLEAN]

NoObject == [state |-> "none", ref |-> 0]
NoJob == [status |-> "none", owner |-> None, live |-> FALSE]
PendingJob == [NoJob EXCEPT !.status = "pending"]
SucceededJob == [NoJob EXCEPT !.status = "succeeded"]
NoDeletion == [job |-> NoJob, purge |-> FALSE]
Idle == [pc |-> "idle", asset |-> None, key |-> None]

\* A database with no asset of the task yet, and perhaps one object that an
\* earlier version stored once for several assets.
Init ==
    /\ asset = [a \in Assets |->
                  IF a \in Shared THEN [status |-> "available", obj |-> SharedKey]
                                  ELSE [status |-> "none", obj |-> None]]
    /\ object = [k \in Keys |->
                  IF k = SharedKey /\ Shared # {}
                  THEN [state |-> "ready", ref |-> Cardinality(Shared)] ELSE NoObject]
    /\ fetchJob = [a \in Assets |-> IF a \in Shared THEN SucceededJob ELSE NoJob]
    /\ deleteJob = [a \in Assets |-> NoDeletion]
    /\ task = "running"
    /\ files = IF Shared # {} THEN {SharedKey} ELSE {}
    /\ old = {}
    /\ worker = [w \in Workers |-> Idle]
    /\ remover = [d \in Removers |-> Idle]
    /\ doomed = {}
    /\ faults = 0

-----------------------------------------------------------------------------
(* Leases.                                                                 *)

\* Seeded bug: the lease of a worker that died is never taken over.
ClaimPendingOnly(job) == job.status = "pending"

Claimable(job) == job.status = "pending" \/ (job.status = "running" /\ ~job.live)
Fenced(job, w) == job.status = "running" /\ job.owner = w /\ job.live
LeasedTo(w) == [status |-> "running", owner |-> w, live |-> TRUE]

AtWork(doing, job, a) == job.owner \in DOMAIN doing /\ doing[job.owner].asset = a

\* keepLeaseAlive renews the lease of a goroutine at work, unless a heartbeat
\* comes too late; any other lease runs out.
LeaseExpires(a) ==
    /\ \/ /\ fetchJob[a].status = "running" /\ fetchJob[a].live
          /\ fetchJob' = [fetchJob EXCEPT ![a].live = FALSE]
          /\ faults' = IF AtWork(worker, fetchJob[a], a) THEN faults + 1 ELSE faults
          /\ UNCHANGED deleteJob
       \/ /\ deleteJob[a].job.status = "running" /\ deleteJob[a].job.live
          /\ deleteJob' = [deleteJob EXCEPT ![a].job.live = FALSE]
          /\ faults' = IF AtWork(remover, deleteJob[a].job, a) THEN faults + 1 ELSE faults
          /\ UNCHANGED fetchJob
    /\ faults' <= MaxFaults
    /\ UNCHANGED <<asset, object, task, store, worker, remover, doomed>>

-----------------------------------------------------------------------------
(* Materialization.                                                        *)

\* EnsureTaskResultMediaContext: a pending asset and job for each URL that
\* has none, with the task that waits for them.
Ensured == [a \in Assets |-> IF a \in TaskAssets /\ asset[a].status = "none"
                             THEN [status |-> "pending", obj |-> None] ELSE asset[a]]
EnsuredJobs == [a \in Assets |-> IF a \in TaskAssets /\ fetchJob[a].status = "none"
                                    /\ asset[a].status # "purged"
                                 THEN PendingJob ELSE fetchJob[a]]

EnsureTaskResultMedia ==
    /\ task = "running"
    /\ TaskAssets # {}
    /\ asset' = Ensured
    /\ fetchJob' = EnsuredJobs
    /\ task' = "materializing"
    /\ UNCHANGED <<object, deleteJob, files, old, worker, remover, doomed, faults>>

Step(w, pc) == worker' = [worker EXCEPT ![w].pc = pc]
Rest(w) == worker' = [worker EXCEPT ![w] = Idle]

\* RunOnce, its claim: any job that is due, whatever became of its asset.
ClaimMediaMaterializationJob(w, a) ==
    /\ w \in Pollers
    /\ worker[w].pc = "idle"
    /\ Claimable(fetchJob[a])
    /\ fetchJob' = [fetchJob EXCEPT ![a] = LeasedTo(w)]
    /\ worker' = [worker EXCEPT ![w] = [pc |-> "claimed", asset |-> a, key |-> None]]
    /\ UNCHANGED <<asset, object, deleteJob, task, files, old, remover, doomed, faults>>

\* RunOnce, its look at the asset: nothing to do for a revoked or an
\* available one.  The row, or the read, may fail: fail(job) leaves the asset.
LoadClaimed(w) ==
    /\ worker[w].pc = "claimed"
    /\ \/ /\ asset[worker[w].asset].status \in Revoked \cup {"available"}
          /\ Step(w, "completing")
       \/ /\ asset[worker[w].asset].status \in Live \ {"available"}
          /\ Step(w, "fetching")
       \/ Step(w, "releasing")
    /\ UNCHANGED <<media, store, remover, doomed, faults>>

\* materializeProfileMediaURLs: the request stores the whole result set and
\* claims an asset in the same transaction.
ClaimMediaAssetMaterialization(w, a) ==
    /\ w \in Requests /\ a \in TaskAssets
    /\ worker[w].pc = "idle"
    /\ Claimable(EnsuredJobs[a])
    /\ Ensured[a].status \in {"pending", "materializing", "failed"}
    /\ asset' = [Ensured EXCEPT ![a].status = "materializing"]
    /\ fetchJob' = [EnsuredJobs EXCEPT ![a] = LeasedTo(w)]
    /\ task' = IF task = "running" THEN "materializing" ELSE task
    /\ worker' = [worker EXCEPT ![w] = [pc |-> "fetching", asset |-> a, key |-> None]]
    /\ UNCHANGED <<object, deleteJob, files, old, remover, doomed, faults>>

\* A key that no row, file or goroutine mentions.
Fresh(k) ==
    /\ k \notin files \cup doomed
    /\ object[k] = NoObject
    /\ \A w \in Workers : worker[w].key # k
    /\ \A d \in Removers : remover[d].key # k

\* MaterializationWorker.Materialize: the provider's bytes under the claim's
\* own key, or an error that leaves no file behind (PutAtomic).
Materialize(w) ==
    /\ worker[w].pc = "fetching"
    /\ \/ \E k \in Keys :
             /\ Fresh(k)
             /\ files' = files \cup {k}
             /\ worker' = [worker EXCEPT ![w].pc = "stored", ![w].key = k]
       \/ /\ Step(w, "failing")
          /\ UNCHANGED files
    /\ UNCHANGED <<media, old, remover, doomed, faults>>

\* Seeded bug: the first stored asset completes the task.
StoredAny(rows) == \E a \in TaskAssets : rows[a].status = "available"

\* CompleteTaskRunAfterMediaContext: the rows there are, and one at least.
Stored(rows) ==
    /\ \E a \in TaskAssets : rows[a].status \notin Absent
    /\ \A a \in TaskAssets : rows[a].status \in Absent \cup {"available"}

\* Seeded bug: the commit looks at its lease only.
CommitRevoked(w, a) == Fenced(fetchJob[a], w) /\ asset[a].status \notin Absent

\* What CommitMediaMaterializationContext demands of the job (its lease) and
\* MarkMediaAssetAvailableContext of the asset (not revoked, not removed).
MayCommit(w, a) == Fenced(fetchJob[a], w) /\ asset[a].status \in Live

CommitMediaMaterialization(w) ==
    /\ worker[w].pc = "stored"
    /\ LET a == worker[w].asset
           k == worker[w].key
       IN  /\ MayCommit(w, a)
           /\ fetchJob' = [fetchJob EXCEPT ![a] = SucceededJob]
           /\ object' = [object EXCEPT ![k] = [state |-> "ready", ref |-> 1]]
           /\ asset' = [asset EXCEPT ![a] = [status |-> "available", obj |-> k]]
           /\ task' = IF task = "materializing" /\ Stored(asset') THEN "completed" ELSE task
    /\ Rest(w)
    /\ UNCHANGED <<deleteJob, files, old, remover, doomed, faults>>

\* The commit is refused, or the database fails: the file is deleted, if that
\* succeeds.  A poller that was refused (ErrMediaAssetGone, ErrMediaJobLeaseOwner)
\* has nothing to report; a request reports a failure in either case.
DiscardUncommitted(w) ==
    /\ worker[w].pc = "stored"
    /\ \/ /\ ~MayCommit(w, worker[w].asset) /\ w \in Pollers
          /\ worker' = [worker EXCEPT ![w].pc = "completing", ![w].key = None]
       \/ worker' = [worker EXCEPT ![w].pc = "failing", ![w].key = None]
    /\ files' \in {files, files \ {worker[w].key}}
    /\ old' = old \cap files'
    /\ UNCHANGED <<media, remover, doomed, faults>>

\* CompleteMediaMaterializationJobForLeaseContext.
CompleteJob(w) ==
    /\ worker[w].pc = "completing"
    /\ fetchJob' = IF Fenced(fetchJob[worker[w].asset], w)
                   THEN [fetchJob EXCEPT ![worker[w].asset] = SucceededJob] ELSE fetchJob
    /\ Rest(w)
    /\ UNCHANGED <<asset, object, deleteJob, task, store, remover, doomed, faults>>

\* Seeded bug: a job whose asset could not be read is done.
FailDone(w) ==
    /\ worker[w].pc = "releasing"
    /\ fetchJob' = [fetchJob EXCEPT ![worker[w].asset] = SucceededJob]
    /\ Rest(w)
    /\ UNCHANGED <<asset, object, deleteJob, task, store, remover, doomed, faults>>

\* FailMediaMaterializationJobForLeaseContext, before the asset was read.
FailJob(w) ==
    /\ worker[w].pc = "releasing"
    /\ fetchJob' = IF Fenced(fetchJob[worker[w].asset], w)
                   THEN [fetchJob EXCEPT ![worker[w].asset] = PendingJob] ELSE fetchJob
    /\ Rest(w)
    /\ UNCHANGED <<asset, object, deleteJob, task, store, remover, doomed, faults>>

\* Seeded bug: a worker that lost its lease still marks the asset failed.
FailUnfenced(w) ==
    /\ worker[w].pc = "failing"
    /\ LET a == worker[w].asset
       IN  IF asset[a].status \in Live
           THEN /\ fetchJob' = [fetchJob EXCEPT ![a] = PendingJob]
                /\ asset' = [asset EXCEPT ![a].status = "failed"]
           ELSE UNCHANGED <<fetchJob, asset>>
    /\ Rest(w)
    /\ UNCHANGED <<object, deleteJob, task, store, remover, doomed, faults>>

\* FailMediaMaterializationWithAssetForLeaseContext.  MarkMediaAssetFailed
\* finds no row when the asset is revoked, and the transaction is rolled back:
\* the job then runs until its lease expires.
FailWithAsset(w) ==
    /\ worker[w].pc = "failing"
    /\ LET a == worker[w].asset
       IN  IF MayCommit(w, a)
           THEN /\ fetchJob' = [fetchJob EXCEPT ![a] = PendingJob]
                /\ asset' = [asset EXCEPT ![a].status = "failed"]
           ELSE UNCHANGED <<fetchJob, asset>>
    /\ Rest(w)
    /\ UNCHANGED <<object, deleteJob, task, store, remover, doomed, faults>>

\* handleRetryMediaAsset, RetryMediaAssetMaterializationContext.  The job is
\* there with the asset; a live lease is left alone.
RetryMaterialization(a) ==
    /\ asset[a].status \in {"failed", "pending", "materializing"}
    /\ ~(fetchJob[a].status = "running" /\ fetchJob[a].live)
    /\ asset' = [asset EXCEPT ![a].status = "materializing"]
    /\ fetchJob' = [fetchJob EXCEPT ![a] = PendingJob]
    /\ UNCHANGED <<object, deleteJob, task, store, actors>>

-----------------------------------------------------------------------------
(* Revocation.                                                             *)

\* Seeded bug: the object goes with its first reference.
ReleaseObject(a) ==
    LET k == asset[a].obj
    IN  IF k # None /\ object[k].state \notin {"none", "deleted"} /\ object[k].ref > 0
        THEN [object EXCEPT ![k] = [state |-> "delete_pending", ref |-> @.ref - 1]]
        ELSE object

\* The revoked asset's reference is given up; the object goes with the last.
ReleaseReference(a) ==
    LET k == asset[a].obj
    IN  IF k # None /\ object[k].state \notin {"none", "deleted"} /\ object[k].ref > 0
        THEN [object EXCEPT ![k] = [state |-> IF @.ref > 1 THEN "ready" ELSE "delete_pending",
                                    ref |-> @.ref - 1]]
        ELSE object

WithDeleteJob(a, purge) ==
    [deleteJob EXCEPT ![a] = [job |-> IF @.job.status = "none" THEN PendingJob ELSE @.job,
                              purge |-> @.purge \/ purge]]

\* HardDeleteMediaAssetByIDContext, reached for a deleted asset only: its row
\* and jobs go, and the object's row when no other asset's row names it.
PurgedRow(rows, a) == [rows EXCEPT ![a] = [status |-> "purged", obj |-> None]]
PurgedObject(rows, objects, a) ==
    LET k == rows[a].obj
    IN  IF k # None /\ \A b \in Assets \ {a} : rows[b].obj # k
        THEN [objects EXCEPT ![k] = NoObject] ELSE objects

\* handleDeleteMediaAsset, RequestMediaAssetPurgeContext.
RequestPurge(a) ==
    /\ asset[a].status \notin Absent
    /\ \/ /\ asset[a].status = "deleted"
          /\ asset' = PurgedRow(asset, a)
          /\ object' = PurgedObject(asset, object, a)
          /\ fetchJob' = [fetchJob EXCEPT ![a] = NoJob]
          /\ deleteJob' = [deleteJob EXCEPT ![a] = NoDeletion]
       \/ /\ asset[a].status \in Live
          /\ asset' = [asset EXCEPT ![a].status = "delete_requested"]
          /\ object' = ReleaseReference(a)
          /\ deleteJob' = WithDeleteJob(a, TRUE)
          /\ UNCHANGED fetchJob
       \/ /\ asset[a].status \in Revoked \ {"deleted"}
          /\ deleteJob' = WithDeleteJob(a, TRUE)
          /\ UNCHANGED <<asset, object, fetchJob>>
    /\ UNCHANGED <<task, store, actors>>

\* Seeded bug: a revoked asset gives up its reference once more.
ExpireAgain(a) ==
    /\ asset[a].status \in (Live \cup Revoked) \ {"expired", "deleted"}
    /\ asset' = [asset EXCEPT ![a].status = "expired"]
    /\ object' = ReleaseReference(a)
    /\ deleteJob' = WithDeleteJob(a, FALSE)
    /\ UNCHANGED <<fetchJob, task, store, actors>>

\* expireMediaAsset, for an asset whose retention has ended.
Expire(a) ==
    /\ asset[a].status \in Live
    /\ asset' = [asset EXCEPT ![a].status = "expired"]
    /\ object' = ReleaseReference(a)
    /\ deleteJob' = WithDeleteJob(a, FALSE)
    /\ UNCHANGED <<fetchJob, task, store, actors>>

\* RetryMediaAssetDeletionContext.
RetryDeletion(a) ==
    /\ asset[a].status \in {"delete_failed", "delete_requested"}
    /\ ~(deleteJob[a].job.status = "running" /\ deleteJob[a].job.live)
    /\ asset' = [asset EXCEPT ![a].status = "delete_requested"]
    /\ object' = LET k == asset[a].obj
                 IN  IF k # None /\ object[k].state # "none" /\ object[k].ref = 0
                     THEN [object EXCEPT ![k].state = "delete_pending"] ELSE object
    /\ deleteJob' = [deleteJob EXCEPT ![a].job = PendingJob]
    /\ UNCHANGED <<fetchJob, task, store, actors>>

-----------------------------------------------------------------------------
(* Deletion: MediaDeletionPoller.RunOnce.                                  *)

Move(d, pc) == remover' = [remover EXCEPT ![d].pc = pc]

ClaimMediaDeletionJob(d, a) ==
    /\ remover[d].pc = "idle"
    /\ Claimable(deleteJob[a].job)
    /\ deleteJob' = [deleteJob EXCEPT ![a].job = LeasedTo(d)]
    /\ remover' = [remover EXCEPT ![d] = [pc |-> "claimed", asset |-> a, key |-> None]]
    /\ UNCHANGED <<asset, object, fetchJob, task, store, worker, doomed, faults>>

\* An object with no row, deleted or still referenced needs no removal.
Settled(k) == object[k].state \in {"none", "deleted"} \/ object[k].ref > 0

\* RunOnce, its reads.  A revoked asset's object_id does not change, so that
\* the two reads are one step.
LoadRevoked(d) ==
    /\ remover[d].pc = "claimed"
    /\ LET k == asset[remover[d].asset].obj
       IN  \/ IF k # None /\ ~Settled(k) /\ asset[remover[d].asset].status # "deleted"
              THEN remover' = [remover EXCEPT ![d].pc = "preparing", ![d].key = k]
              ELSE Move(d, "completing")
           \/ Move(d, "failing")
    /\ UNCHANGED <<media, store, worker, doomed, faults>>

PrepareMediaObjectDeletion(d) ==
    /\ remover[d].pc = "preparing"
    /\ LET k == remover[d].key
           ok == object[k].ref = 0 /\ object[k].state \in {"delete_pending", "delete_failed", "deleting"}
       IN  \/ /\ ok
              /\ object' = [object EXCEPT ![k].state = "deleting"]
              /\ Move(d, "removing")
           \/ /\ ~ok
              /\ Move(d, "rereading")
              /\ UNCHANGED object
           \/ /\ Move(d, "failing")
              /\ UNCHANGED object
    /\ UNCHANGED <<asset, fetchJob, deleteJob, task, store, worker, doomed, faults>>

\* A row that is gone by now is an error here, not the end of the work.
RereadObject(d) ==
    /\ remover[d].pc = "rereading"
    /\ LET k == remover[d].key
       IN  \/ /\ Settled(k) /\ object[k].state # "none"
              /\ Move(d, "completing")
           \/ /\ ~Settled(k)
              /\ Move(d, "removing")
           \/ Move(d, "failing")
    /\ UNCHANGED <<media, store, worker, doomed, faults>>

\* Seeded bug: a removal that fails counts as done.
RemoveFileOnce(d) ==
    /\ remover[d].pc = "removing"
    /\ Move(d, "completing")
    /\ files' \in {files, files \ {remover[d].key}}
    /\ old' = old \cap files'
    /\ UNCHANGED <<media, worker, doomed, faults>>

\* LocalObjectStore.Delete: a file that is not there is no error.
RemoveFile(d) ==
    /\ remover[d].pc = "removing"
    /\ \/ /\ files' = files \ {remover[d].key}
          /\ Move(d, "completing")
       \/ /\ UNCHANGED files
          /\ Move(d, "failing")
    /\ old' = old \cap files'
    /\ UNCHANGED <<media, worker, doomed, faults>>

\* CompleteMediaAssetDeleteContext: the object's fate is its count of now.
DeletedObject(a) ==
    LET k == asset[a].obj
    IN  IF k # None /\ object[k].state # "none" /\ asset[a].status # "deleted"
        THEN [object EXCEPT ![k].state = IF object[k].ref > 0 THEN "ready" ELSE "deleted"]
        ELSE object

\* CompleteMediaDeletionJobForLeaseContext.
CompleteDeletion(d) ==
    /\ remover[d].pc = "completing"
    /\ LET a == remover[d].asset
           rows == [asset EXCEPT ![a].status = "deleted"]
       IN  IF Fenced(deleteJob[a].job, d)
           THEN IF deleteJob[a].purge
                THEN /\ asset' = PurgedRow(rows, a)
                     /\ object' = PurgedObject(rows, DeletedObject(a), a)
                     /\ fetchJob' = [fetchJob EXCEPT ![a] = NoJob]
                     /\ deleteJob' = [deleteJob EXCEPT ![a] = NoDeletion]
                ELSE /\ asset' = rows
                     /\ object' = DeletedObject(a)
                     /\ deleteJob' = [deleteJob EXCEPT ![a].job = SucceededJob]
                     /\ UNCHANGED fetchJob
           ELSE UNCHANGED <<asset, object, fetchJob, deleteJob>>
    /\ remover' = [remover EXCEPT ![d] = Idle]
    /\ UNCHANGED <<task, store, worker, doomed, faults>>

\* FailMediaDeletionJobForLeaseContext, MarkMediaAssetDeleteFailedContext.
FailDeletion(d) ==
    /\ remover[d].pc = "failing"
    /\ LET a == remover[d].asset
           k == asset[a].obj
       IN  IF Fenced(deleteJob[a].job, d)
           THEN /\ deleteJob' = [deleteJob EXCEPT ![a].job = PendingJob]
                /\ asset' = [asset EXCEPT ![a].status = IF @ = "deleted" THEN @ ELSE "delete_failed"]
                /\ object' = IF asset[a].status # "deleted" /\ k # None
                                /\ object[k].state # "none" /\ object[k].ref = 0
                             THEN [object EXCEPT ![k].state = "delete_failed"] ELSE object
           ELSE UNCHANGED <<asset, object, deleteJob>>
    /\ remover' = [remover EXCEPT ![d] = Idle]
    /\ UNCHANGED <<fetchJob, task, store, worker, doomed, faults>>

-----------------------------------------------------------------------------
(* Reconciliation, crashes.                                                *)

\* A file is older than the safety window only when the claim that wrote it
\* has ended: the window outlasts the time from its last byte to its commit.
Age(k) ==
    /\ DeleteOrphans
    /\ k \in files \ old
    /\ \A w \in Workers : worker[w].key # k
    /\ old' = old \cup {k}
    /\ UNCHANGED <<media, files, actors>>

Known == {k \in Keys : object[k].state \notin {"none", "deleted"}}

\* Seeded bug: the safety window is left out.
ScanAnyAge ==
    /\ DeleteOrphans
    /\ doomed = {}
    /\ files \ Known # {}
    /\ doomed' = files \ Known
    /\ UNCHANGED <<media, store, worker, remover, faults>>

\* Seeded bug: the comparison with the safety window is the wrong way round.
ScanRecent ==
    /\ DeleteOrphans
    /\ doomed = {}
    /\ files \ (Known \cup old) # {}
    /\ doomed' = files \ (Known \cup old)
    /\ UNCHANGED <<media, store, worker, remover, faults>>

\* MediaReconcilePoller.RunOnce: the rows, then the files that are old by
\* then.  The gap between the two reads is within the window as well.
ScanFiles ==
    /\ DeleteOrphans
    /\ doomed = {}
    /\ (files \cap old) \ Known # {}
    /\ doomed' = (files \cap old) \ Known
    /\ UNCHANGED <<media, store, worker, remover, faults>>

RemoveOrphan(k) ==
    /\ k \in doomed
    /\ doomed' = doomed \ {k}
    /\ files' \in {files, files \ {k}}
    /\ old' = old \cap files'
    /\ UNCHANGED <<media, worker, remover, faults>>

\* The process dies: rows, leases and files remain.
Crash ==
    /\ faults < MaxFaults
    /\ faults' = faults + 1
    /\ worker' = [w \in Workers |-> Idle]
    /\ remover' = [d \in Removers |-> Idle]
    /\ doomed' = {}
    /\ UNCHANGED <<media, store>>

WorkerStep(w) ==
    \/ LoadClaimed(w) \/ Materialize(w) \/ CommitMediaMaterialization(w)
    \/ DiscardUncommitted(w) \/ CompleteJob(w) \/ FailJob(w) \/ FailWithAsset(w)

RemoverStep(d) ==
    \/ LoadRevoked(d) \/ PrepareMediaObjectDeletion(d) \/ RereadObject(d)
    \/ RemoveFile(d) \/ CompleteDeletion(d) \/ FailDeletion(d)

Next ==
    \/ EnsureTaskResultMedia
    \/ \E w \in Workers, a \in Assets :
          ClaimMediaMaterializationJob(w, a) \/ ClaimMediaAssetMaterialization(w, a)
    \/ \E w \in Workers : WorkerStep(w)
    \/ \E a \in Assets : RetryMaterialization(a) \/ RequestPurge(a) \/ Expire(a)
                         \/ RetryDeletion(a) \/ LeaseExpires(a)
    \/ \E d \in Removers, a \in Assets : ClaimMediaDeletionJob(d, a)
    \/ \E d \in Removers : RemoverStep(d)
    \/ ScanFiles
    \/ \E k \in Keys : Age(k) \/ RemoveOrphan(k)
    \/ Crash

Spec == Init /\ [][Next]_vars

\* Goroutines go on with what they hold, leases of those that are gone run
\* out, and the reconciler scans on a ticker; a file it tries to remove again
\* and again is removed at last.
Progress ==
    /\ \A w \in Workers : WF_vars(WorkerStep(w))
    /\ \A a \in Assets : WF_vars(LeaseExpires(a) /\ faults' = faults)
    /\ WF_vars(ScanFiles)
    /\ \A k \in Keys : WF_vars(Age(k)) /\ SF_vars(RemoveOrphan(k) /\ k \notin files')

\* The pollers look for jobs on a ticker; a read, a fetch, a commit or a
\* removal that may be tried again and again succeeds at last.
Fairness ==
    /\ Progress
    /\ \A w \in Pollers, a \in Assets : WF_vars(ClaimMediaMaterializationJob(w, a))
    /\ \A w \in Workers :
          /\ SF_vars(LoadClaimed(w) /\ worker'[w].pc # "releasing")
          /\ SF_vars(Materialize(w) /\ worker'[w].pc = "stored")
          /\ SF_vars(CommitMediaMaterialization(w))
    /\ \A d \in Removers : WF_vars(RemoverStep(d))
    /\ \A d \in Removers, a \in Assets : WF_vars(ClaimMediaDeletionJob(d, a))
    /\ \A d \in Removers :
          /\ SF_vars(LoadRevoked(d) /\ remover'[d].pc # "failing")
          /\ SF_vars(PrepareMediaObjectDeletion(d) /\ remover'[d].pc # "failing")
          /\ SF_vars(RemoveFile(d) /\ remover'[d].pc = "completing")

FairSpec == Spec /\ Fairness

-----------------------------------------------------------------------------
(* Properties.                                                             *)

\* Every variable holds values of its kind, and only an asset that is or was
\* available names an object (db/media.go, the structures of the tables).
TypeOK ==
    /\ asset \in [Assets -> Row]
    /\ object \in [Keys -> Object]
    /\ fetchJob \in [Assets -> Job]
    /\ deleteJob \in [Assets -> [job : Job, purge : BOOLEAN]]
    /\ task \in {"running", "materializing", "completed"}
    /\ files \subseteq Keys /\ old \subseteq files /\ doomed \subseteq Keys
    /\ worker \in [Workers ->
          [pc : {"idle", "claimed", "fetching", "stored", "completing", "releasing", "failing"},
           asset : Assets \cup {None}, key : Keys \cup {None}]]
    /\ remover \in [Removers ->
          [pc : {"idle", "claimed", "preparing", "rereading", "removing", "completing", "failing"},
           asset : Assets \cup {None}, key : Keys \cup {None}]]
    /\ faults \in 0 .. MaxFaults
    /\ \A a \in Assets : asset[a].obj # None => asset[a].status \in Revoked \cup {"available"}

\* What serveMediaAssetContent needs for an asset it may serve: its object is
\* ready and the file is in the store, whatever removals of other assets, lost
\* leases, reconciliation and crashes have done meanwhile.
AvailableIsServed ==
    \A a \in Assets : asset[a].status = "available" =>
        /\ asset[a].obj # None
        /\ object[asset[a].obj].state = "ready"
        /\ asset[a].obj \in files

Holders(k) == {a \in Assets : asset[a].obj = k /\ asset[a].status = "available"}

\* ref_count is the number of assets that may still be read through the
\* object: MarkMediaAssetAvailable, RequestMediaAssetDelete, expireMediaAsset
\* and HardDeleteMediaAssetByID keep it together, each revocation once.
ReferencesCounted == \A k \in Keys : object[k].ref = Cardinality(Holders(k))

\* A revocation is final: a download that ends after it never brings the
\* asset back (MarkMediaAssetAvailable, MarkMediaAssetFailed, retries).
RevokedForGood ==
    [][\A a \in Assets : asset[a].status \in Revoked =>
          asset'[a].status \in Revoked \cup {"purged"}]_vars

\* "Purging happens only when the deletion worker has successfully removed the
\* unshared object" (db/media_purge.go): when the last row that names an object
\* is purged, its file is out of the store.
RemovedBeforePurge ==
    [][\A a \in Assets :
          /\ asset[a].obj # None /\ asset'[a].status = "purged"
          /\ \A b \in Assets \ {a} : asset[b].obj # asset[a].obj
          => asset[a].obj \notin files']_vars

\* The task is completed by the commit that makes its last asset available
\* (CompleteTaskRunAfterMediaContext), never with an asset still to fetch.
TaskCompletesWithMedia ==
    [][task # task' /\ task' = "completed" =>
          /\ \A a \in TaskAssets : asset'[a].status \in {"available", "purged"}
          /\ \E a \in TaskAssets : asset[a].status # "available" /\ asset'[a].status = "available"]_vars

\* A revoked asset is deleted at last, through failures and crashes.
RevokedIsDeleted ==
    \A a \in Assets : asset[a].status \in Revoked ~> asset[a].status \in {"deleted", "purged"}

\* An asset that waits for its bytes gets them, unless it is revoked.
PendingIsServed ==
    \A a \in Assets : asset[a].status \in Live \ {"available"} ~>
                          asset[a].status \in Revoked \cup {"available", "purged"}

\* With RELAY_MEDIA_DELETE_ORPHANS a file that no asset can reach does not
\* stay in the store for ever.
Unreachable(k) == k \in files /\ \A a \in Assets : asset[a].status \in Live => asset[a].obj # k
OrphansAreRemoved == DeleteOrphans => \A k \in Keys : Unreachable(k) ~> ~Unreachable(k)

\* Through failures, crashes and lost leases the library settles: an asset that
\* waits for its bytes is served or revoked, a revoked one is deleted, and a
\* file that no asset can reach is removed when that is enabled.
LibrarySettles == PendingIsServed /\ RevokedIsDeleted /\ OrphansAreRemoved

=============================================================================
