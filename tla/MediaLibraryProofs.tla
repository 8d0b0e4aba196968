------------------------- MODULE MediaLibraryProofs -------------------------
(* Proofs about MediaLibrary, for any assets, goroutines and storage keys,  *)
(* any number of shared objects and any bound on the faults.                *)
EXTENDS MediaLibrary, FiniteSetTheorems, TLAPS

-----------------------------------------------------------------------------
(* The inductive invariant. *)

WorkerPCs == {"idle", "claimed", "fetching", "stored", "completing", "releasing", "failing"}
RemoverPCs == {"idle", "claimed", "preparing", "rereading", "removing", "completing", "failing"}

\* A job that may still be fetched belongs to an asset that is not available;
\* one that deletes belongs to a revoked asset.
Jobs ==
    \A a \in Assets :
        /\ asset[a].status = "available" => fetchJob[a].status = "succeeded"
        /\ deleteJob[a].job.status # "none" => asset[a].status \in Revoked

\* The assets of the task exist once it waits for them; those of the upgraded
\* database were never fetched here.
Rows ==
    /\ task # "running" => \A a \in TaskAssets : asset[a].status # "none"
    /\ \A a \in Shared : asset[a].status \in Revoked \cup {"available", "purged"}

\* A worker that has stored bytes, and only it, holds a key: no object row has
\* it yet, and neither the reconciler nor another goroutine is after its file.
Hold(w) ==
    /\ worker[w].pc # "idle" => worker[w].asset \in Assets
    /\ worker[w].pc = "stored" <=> worker[w].key # None
    /\ worker[w].key # None =>
          /\ object[worker[w].key] = NoObject
          /\ worker[w].key \in files \ (old \cup doomed)
          /\ \A v \in Workers \ {w} : worker[v].key # worker[w].key
          /\ \A d \in Removers : remover[d].key # worker[w].key

\* A goroutine removes a file only when no asset can be read through it.
Removal(d) ==
    /\ remover[d].pc # "idle" => remover[d].asset \in Assets
    /\ remover[d].pc \in {"preparing", "rereading", "removing"} => remover[d].key # None
    /\ remover[d].pc = "removing" => object[remover[d].key].ref = 0

\* What the reconciler is about to remove, no object in use has.
Doomed == \A k \in doomed : object[k].state # "ready"

IInv ==
    /\ TypeOK /\ Jobs /\ Rows
    /\ \A w \in Workers : Hold(w)
    /\ \A d \in Removers : Removal(d)
    /\ Doomed
    /\ ReferencesCounted
    /\ AvailableIsServed

LEMMA InitEstablishes ==
    ASSUME MediaAssumption, Init
    PROVE  IInv
<1> USE DEF MediaAssumption
<1>1. NoObject \in Object /\ NoJob \in Job /\ SucceededJob \in Job
  BY DEF NoObject, Object, ObjectStates, NoJob, SucceededJob, Job, JobStates
<1>2. IsFiniteSet(Shared)
  BY FS_Subset DEF Assets
<1>3. Cardinality(Shared) \in Nat
  BY <1>2, FS_CardinalityType
<1>4. [state |-> "ready", ref |-> Cardinality(Shared)] \in Object
  BY <1>3 DEF Object, ObjectStates
<1>5. TypeOK
  <2>1. asset \in [Assets -> Row]
    BY DEF Init, Row, Live, Absent
  <2>2. object \in [Keys -> Object]
    BY <1>1, <1>4 DEF Init
  <2>3. fetchJob \in [Assets -> Job] /\ deleteJob \in [Assets -> [job : Job, purge : BOOLEAN]]
    BY <1>1 DEF Init, NoDeletion
  <2>4. QED
    BY <2>1, <2>2, <2>3 DEF Init, TypeOK, Idle
<1>6. Jobs /\ Rows
  BY DEF Init, Jobs, Rows, SucceededJob, NoJob, NoDeletion, Assets
<1>7. \A w \in Workers : Hold(w)
  BY DEF Init, Hold, Idle
<1>8. \A d \in Removers : Removal(d)
  BY DEF Init, Removal, Idle
<1>9. Doomed
  BY DEF Init, Doomed
<1>10. ReferencesCounted
  <2> SUFFICES ASSUME NEW k \in Keys PROVE object[k].ref = Cardinality(Holders(k))
    BY DEF ReferencesCounted
  <2>1. CASE k = SharedKey
    <3>1. Holders(k) = Shared
      BY <2>1 DEF Init, Holders, Assets
    <3>2. Shared = {} => Cardinality(Shared) = 0
      BY FS_EmptySet
    <3>3. QED
      BY <2>1, <3>1, <3>2 DEF Init, NoObject
  <2>2. CASE k # SharedKey
    <3>1. Holders(k) = {}
      BY <2>2 DEF Init, Holders, Assets
    <3>2. QED
      BY <2>2, <3>1, FS_EmptySet DEF Init, NoObject
  <2>3. QED
    BY <2>1, <2>2
<1>11. AvailableIsServed
  BY DEF Init, AvailableIsServed, Assets
<1>12. QED
  BY <1>5, <1>6, <1>7, <1>8, <1>9, <1>10, <1>11 DEF IInv

-----------------------------------------------------------------------------
(* Types. *)

LEMMA RowsShaped ==
    ASSUME NEW r \in Row
    PROVE  /\ \A v \in Live \cup Revoked \cup Absent : [r EXCEPT !.status = v] \in Row
           /\ [status |-> "pending", obj |-> None] \in Row
           /\ [status |-> "purged", obj |-> None] \in Row
           /\ \A k \in Keys : [status |-> "available", obj |-> k] \in Row
BY DEF Row, Live, Absent

LEMMA StatusShaped ==
    ASSUME TypeOK, NEW a, NEW v \in Live \cup Revoked \cup Absent
    PROVE  [asset EXCEPT ![a].status = v] \in [Assets -> Row]
<1>1. \A b \in Assets : [asset[b] EXCEPT !.status = v] \in Row
  BY RowsShaped DEF TypeOK
<1>2. QED
  BY <1>1 DEF TypeOK

LEMMA JobsShaped ==
    /\ NoJob \in Job /\ PendingJob \in Job /\ SucceededJob \in Job
    /\ \A w \in Workers \cup Removers : LeasedTo(w) \in Job
    /\ \A j \in Job : [j EXCEPT !.live = FALSE] \in Job
BY DEF NoJob, PendingJob, SucceededJob, LeasedTo, Job, JobStates

Deletion == [job : Job, purge : BOOLEAN]
LEMMA DeletionsShaped ==
    ASSUME NEW r \in Deletion
    PROVE  /\ NoDeletion \in Deletion
           /\ \A j \in Job : [r EXCEPT !.job = j] \in Deletion
           /\ \A p \in BOOLEAN : 
                 [job |-> IF r.job.status = "none" THEN PendingJob ELSE r.job,
                  purge |-> r.purge \/ p] \in Deletion
BY JobsShaped DEF Deletion, NoDeletion

LEMMA DeletionsTyped ==
    ASSUME TypeOK
    PROVE  deleteJob \in [Assets -> Deletion]
BY DEF TypeOK, Deletion

LEMMA NewJobShaped ==
    ASSUME TypeOK, NEW a, NEW j \in Job
    PROVE  [deleteJob EXCEPT ![a].job = j] \in [Assets -> Deletion]
<1>1. \A b \in Assets : [deleteJob[b] EXCEPT !.job = j] \in Deletion
  BY DeletionsShaped DEF TypeOK, Deletion
<1>2. QED
  BY <1>1 DEF TypeOK, Deletion

LEMMA ObjectsShaped ==
    ASSUME NEW o \in Object
    PROVE  /\ NoObject \in Object
           /\ \A s \in ObjectStates : [o EXCEPT !.state = s] \in Object
           /\ \A s \in ObjectStates, n \in Nat : [state |-> s, ref |-> n] \in Object
BY DEF Object, NoObject, ObjectStates

LEMMA ReleaseShaped ==
    ASSUME TypeOK, NEW a \in Assets
    PROVE  ReleaseReference(a) \in [Keys -> Object]
<1> DEFINE k == asset[a].obj
<1>1. CASE k # None /\ object[k].state \notin {"none", "deleted"} /\ object[k].ref > 0
  <2>1. k \in Keys /\ object[k] \in Object
    BY <1>1 DEF TypeOK, Row
  <2>2. object[k].ref - 1 \in Nat
    BY <1>1, <2>1 DEF Object
  <2>3. [state |-> IF object[k].ref > 1 THEN "ready" ELSE "delete_pending",
         ref |-> object[k].ref - 1] \in Object
    BY <2>2 DEF Object, ObjectStates
  <2>4. QED
    BY <1>1, <2>1, <2>3 DEF ReleaseReference, TypeOK
<1>2. CASE ~(k # None /\ object[k].state \notin {"none", "deleted"} /\ object[k].ref > 0)
  BY <1>2 DEF ReleaseReference, TypeOK
<1>3. QED
  BY <1>1, <1>2

LEMMA DeletedShaped ==
    ASSUME TypeOK, NEW a \in Assets
    PROVE  DeletedObject(a) \in [Keys -> Object]
<1>1. \A k \in Keys, s \in ObjectStates : [object[k] EXCEPT !.state = s] \in Object
  BY ObjectsShaped DEF TypeOK
<1>2. "ready" \in ObjectStates /\ "deleted" \in ObjectStates
  BY DEF ObjectStates
<1>3. QED
  BY <1>1, <1>2 DEF DeletedObject, TypeOK, Row

LEMMA PurgedShaped ==
    ASSUME NEW a, NEW rows \in [Assets -> Row], NEW objects \in [Keys -> Object]
    PROVE  /\ PurgedRow(rows, a) \in [Assets -> Row]
           /\ PurgedObject(rows, objects, a) \in [Keys -> Object]
BY DEF PurgedRow, PurgedObject, Row, Absent, NoObject, Object, ObjectStates

LEMMA QueuedShaped ==
    ASSUME TypeOK, NEW a \in Assets, NEW p \in BOOLEAN
    PROVE  WithDeleteJob(a, p) \in [Assets -> Deletion]
BY DeletionsShaped DEF WithDeleteJob, TypeOK, Deletion

LEMMA EnsuredShaped ==
    ASSUME TypeOK
    PROVE  /\ Ensured \in [Assets -> Row] /\ EnsuredJobs \in [Assets -> Job]
           /\ \A a \in Assets : Ensured[a].obj # None => Ensured[a].status \in Revoked \cup {"available"}
<1>1. [status |-> "pending", obj |-> None] \in Row
  BY DEF Row, Live
<1>2. QED
  BY <1>1, JobsShaped DEF TypeOK, Ensured, EnsuredJobs

DoingWork == [pc : WorkerPCs, asset : Assets \cup {None}, key : Keys \cup {None}]
DoingRemoval == [pc : RemoverPCs, asset : Assets \cup {None}, key : Keys \cup {None}]

LEMMA WorkersShaped ==
    ASSUME TypeOK, NEW w \in Workers
    PROVE  /\ \A pc \in WorkerPCs : [worker EXCEPT ![w].pc = pc] \in [Workers -> DoingWork]
           /\ \A pc \in WorkerPCs, a \in Assets :
                 [worker EXCEPT ![w] = [pc |-> pc, asset |-> a, key |-> None]] \in [Workers -> DoingWork]
           /\ \A pc \in WorkerPCs, k \in Keys \cup {None} :
                 [worker EXCEPT ![w].pc = pc, ![w].key = k] \in [Workers -> DoingWork]
           /\ [worker EXCEPT ![w] = Idle] \in [Workers -> DoingWork]
<1>1. worker \in [Workers -> DoingWork]
  BY DEF TypeOK, DoingWork, WorkerPCs
<1>2. Idle \in DoingWork
  BY DEF DoingWork, WorkerPCs, Idle
<1>3. \A pc \in WorkerPCs : [worker EXCEPT ![w].pc = pc] \in [Workers -> DoingWork]
  BY <1>1 DEF DoingWork
<1>4. \A pc \in WorkerPCs, a \in Assets :
         [worker EXCEPT ![w] = [pc |-> pc, asset |-> a, key |-> None]] \in [Workers -> DoingWork]
  BY <1>1 DEF DoingWork
<1>5. \A pc \in WorkerPCs, k \in Keys \cup {None} :
         [worker EXCEPT ![w].pc = pc, ![w].key = k] \in [Workers -> DoingWork]
  BY <1>1 DEF DoingWork
<1>6. QED
  BY <1>1, <1>2, <1>3, <1>4, <1>5

LEMMA RemoversShaped ==
    ASSUME TypeOK, NEW d \in Removers
    PROVE  /\ \A pc \in RemoverPCs : [remover EXCEPT ![d].pc = pc] \in [Removers -> DoingRemoval]
           /\ \A pc \in RemoverPCs, a \in Assets :
                 [remover EXCEPT ![d] = [pc |-> pc, asset |-> a, key |-> None]]
                    \in [Removers -> DoingRemoval]
           /\ \A pc \in RemoverPCs, k \in Keys :
                 [remover EXCEPT ![d].pc = pc, ![d].key = k] \in [Removers -> DoingRemoval]
           /\ [remover EXCEPT ![d] = Idle] \in [Removers -> DoingRemoval]
<1>1. remover \in [Removers -> DoingRemoval]
  BY DEF TypeOK, DoingRemoval, RemoverPCs
<1>2. Idle \in DoingRemoval
  BY DEF DoingRemoval, RemoverPCs, Idle
<1>3. \A pc \in RemoverPCs : [remover EXCEPT ![d].pc = pc] \in [Removers -> DoingRemoval]
  BY <1>1 DEF DoingRemoval
<1>4. \A pc \in RemoverPCs, a \in Assets :
         [remover EXCEPT ![d] = [pc |-> pc, asset |-> a, key |-> None]] \in [Removers -> DoingRemoval]
  BY <1>1 DEF DoingRemoval
<1>5. \A pc \in RemoverPCs, k \in Keys :
         [remover EXCEPT ![d].pc = pc, ![d].key = k] \in [Removers -> DoingRemoval]
  BY <1>1 DEF DoingRemoval
<1>6. QED
  BY <1>1, <1>2, <1>3, <1>4, <1>5

\* Only an asset that is or was available names an object.
NamesItsObject == \A a \in Assets : asset[a].obj # None => asset[a].status \in Revoked \cup {"available"}

LEMMA TypesByEnsure ==
    ASSUME MediaAssumption, IInv, EnsureTaskResultMedia
    PROVE  TypeOK'
BY EnsuredShaped DEF EnsureTaskResultMedia, TypeOK, IInv

LEMMA TypesByClaim ==
    ASSUME MediaAssumption, IInv, NEW w \in Workers, NEW a \in Assets,
           ClaimMediaMaterializationJob(w, a) \/ ClaimMediaAssetMaterialization(w, a)
    PROVE  TypeOK'
<1> USE DEF IInv
<1>1. LeasedTo(w) \in Job
  BY JobsShaped
<1>2. CASE ClaimMediaMaterializationJob(w, a)
  <2>1. worker' \in [Workers -> DoingWork]
    BY <1>2, WorkersShaped DEF ClaimMediaMaterializationJob, WorkerPCs
  <2>2. fetchJob' \in [Assets -> Job]
    BY <1>1, <1>2 DEF ClaimMediaMaterializationJob, TypeOK
  <2>3. QED
    BY <1>2, <2>1, <2>2 DEF ClaimMediaMaterializationJob, TypeOK, DoingWork, WorkerPCs
<1>3. CASE ClaimMediaAssetMaterialization(w, a)
  <2>1. worker' \in [Workers -> DoingWork]
    BY <1>3, WorkersShaped DEF ClaimMediaAssetMaterialization, WorkerPCs
  <2>2. fetchJob' \in [Assets -> Job]
    BY <1>1, <1>3, EnsuredShaped DEF ClaimMediaAssetMaterialization
  <2>3. asset' \in [Assets -> Row]
    BY <1>3, EnsuredShaped, RowsShaped DEF ClaimMediaAssetMaterialization, Live
  <2>4. NamesItsObject'
    BY <1>3, EnsuredShaped DEF ClaimMediaAssetMaterialization, NamesItsObject, Revoked, Row
  <2>5. QED
    BY <1>3, <2>1, <2>2, <2>3, <2>4
       DEF ClaimMediaAssetMaterialization, TypeOK, DoingWork, WorkerPCs, NamesItsObject, store
<1>4. QED
  BY <1>2, <1>3

\* A lease on an asset's fetch: the asset is not available, has no object, and
\* is one of the task's.
LEMMA Leased ==
    ASSUME IInv, NEW a \in Assets, NEW w, MayCommit(w, a)
    PROVE  asset[a].status # "available" /\ asset[a].obj = None /\ a \in TaskAssets
BY DEF IInv, MayCommit, Fenced, Jobs, Rows, TypeOK, Live, Revoked, Assets

LEMMA TypesByWorker ==
    ASSUME MediaAssumption, IInv, NEW w \in Workers, WorkerStep(w)
    PROVE  TypeOK'
<1> USE DEF IInv
<1> DEFINE a == worker[w].asset
<1>0. \A pc \in WorkerPCs : worker[w].pc = pc /\ pc # "idle" => a \in Assets
  BY DEF Hold
<1>1. CASE LoadClaimed(w)
  <2>1. worker' \in [Workers -> DoingWork]
    <3>1. \E pc \in WorkerPCs : worker' = [worker EXCEPT ![w].pc = pc]
      BY <1>1 DEF LoadClaimed, Step, WorkerPCs
    <3>2. QED
      BY <3>1, WorkersShaped
  <2>2. QED
    BY <1>1, <2>1 DEF LoadClaimed, TypeOK, DoingWork, WorkerPCs, media, store
<1>2. CASE Materialize(w)
  <2>1. worker' \in [Workers -> DoingWork]
    <3>1. \/ worker' = [worker EXCEPT ![w].pc = "failing"]
          \/ \E k \in Keys : worker' = [worker EXCEPT ![w].pc = "stored", ![w].key = k]
      BY <1>2 DEF Materialize, Step
    <3>2. "failing" \in WorkerPCs /\ "stored" \in WorkerPCs
      BY DEF WorkerPCs
    <3>3. QED
      BY <3>1, <3>2, WorkersShaped
  <2>2. files \subseteq files' /\ files' \subseteq Keys
    BY <1>2 DEF Materialize, TypeOK
  <2>3. QED
    BY <1>2, <2>1, <2>2 DEF Materialize, TypeOK, DoingWork, WorkerPCs, media
<1>3. CASE CommitMediaMaterialization(w)
  <2>1. worker' \in [Workers -> DoingWork]
    BY <1>3, WorkersShaped DEF CommitMediaMaterialization, Rest
  <2>2. a \in Assets /\ worker[w].key \in Keys
    BY <1>3 DEF CommitMediaMaterialization, Hold, TypeOK
  <2>3. fetchJob' \in [Assets -> Job]
    BY <1>3, JobsShaped DEF CommitMediaMaterialization, TypeOK
  <2>4. object' \in [Keys -> Object]
    BY <1>3, ObjectsShaped, <2>2 DEF CommitMediaMaterialization, TypeOK, ObjectStates
  <2>5. asset' \in [Assets -> Row] /\ NamesItsObject'
    BY <1>3, <2>2, RowsShaped DEF CommitMediaMaterialization, TypeOK, NamesItsObject
  <2>6. task' \in {"running", "materializing", "completed"}
    BY <1>3 DEF CommitMediaMaterialization, TypeOK
  <2>7. QED
    BY <1>3, <2>1, <2>3, <2>4, <2>5, <2>6
       DEF CommitMediaMaterialization, TypeOK, DoingWork, WorkerPCs, NamesItsObject
<1>4. CASE DiscardUncommitted(w)
  <2>1. worker' \in [Workers -> DoingWork]
    <3>1. \E pc \in WorkerPCs, k \in Keys \cup {None} :
             worker' = [worker EXCEPT ![w].pc = pc, ![w].key = k]
      BY <1>4 DEF DiscardUncommitted, WorkerPCs
    <3>2. QED
      BY <3>1, WorkersShaped
  <2>2. files' \subseteq Keys /\ old' \subseteq files'
    BY <1>4 DEF DiscardUncommitted, TypeOK
  <2>3. QED
    BY <1>4, <2>1, <2>2 DEF DiscardUncommitted, TypeOK, DoingWork, WorkerPCs, media
<1>5. CASE CompleteJob(w)
  <2>1. worker' \in [Workers -> DoingWork]
    BY <1>5, WorkersShaped DEF CompleteJob, Rest
  <2>2. fetchJob' \in [Assets -> Job]
    BY <1>5, JobsShaped DEF CompleteJob, TypeOK
  <2>3. QED
    BY <1>5, <2>1, <2>2 DEF CompleteJob, TypeOK, DoingWork, WorkerPCs, store
<1>6. CASE FailJob(w)
  <2>1. worker' \in [Workers -> DoingWork]
    BY <1>6, WorkersShaped DEF FailJob, Rest
  <2>2. fetchJob' \in [Assets -> Job]
    BY <1>6, JobsShaped DEF FailJob, TypeOK
  <2>3. QED
    BY <1>6, <2>1, <2>2 DEF FailJob, TypeOK, DoingWork, WorkerPCs, store
<1>7. CASE FailWithAsset(w)
  <2>1. worker' \in [Workers -> DoingWork]
    BY <1>7, WorkersShaped DEF FailWithAsset, Rest
  <2>2. a \in Assets
    BY <1>7 DEF FailWithAsset, Hold
  <2>3. fetchJob' \in [Assets -> Job]
    BY <1>7, JobsShaped DEF FailWithAsset, TypeOK
  <2>4. asset' \in [Assets -> Row]
    <3>1. asset' = asset \/ asset' = [asset EXCEPT ![a].status = "failed"]
      BY <1>7 DEF FailWithAsset
    <3>2. [asset EXCEPT ![a].status = "failed"] \in [Assets -> Row]
      BY StatusShaped DEF Live
    <3>3. QED
      BY <3>1, <3>2 DEF TypeOK
  <2>5. MayCommit(w, a) => asset[a].obj = None
    BY <2>2, Leased
  <2>6. NamesItsObject'
    <3>1. \/ asset' = asset
          \/ MayCommit(w, a) /\ asset' = [asset EXCEPT ![a].status = "failed"]
      BY <1>7 DEF FailWithAsset
    <3>2. NamesItsObject
      BY DEF TypeOK, NamesItsObject
    <3>3. \A b \in Assets :
             asset'[b] = asset[b] \/ (asset'[b].obj = asset[b].obj /\ asset[b].obj = None)
      BY <2>2, <2>5, <3>1 DEF TypeOK, Row
    <3>4. QED
      BY <3>2, <3>3 DEF NamesItsObject
  <2>7. QED
    BY <1>7, <2>1, <2>3, <2>4, <2>6 DEF FailWithAsset, TypeOK, DoingWork, WorkerPCs, NamesItsObject, store
<1>8. QED
  BY <1>1, <1>2, <1>3, <1>4, <1>5, <1>6, <1>7 DEF WorkerStep

LEMMA TypesByRevocation ==
    ASSUME MediaAssumption, IInv, NEW a \in Assets,
           RetryMaterialization(a) \/ RequestPurge(a) \/ Expire(a)
           \/ RetryDeletion(a) \/ LeaseExpires(a)
    PROVE  TypeOK'
<1> USE DEF IInv
<1>1. CASE RetryMaterialization(a)
  <2>1. fetchJob' \in [Assets -> Job]
    BY <1>1, JobsShaped DEF RetryMaterialization, TypeOK
  <2>2. asset' \in [Assets -> Row]
    BY <1>1, StatusShaped DEF RetryMaterialization, Live
  <2>3. NamesItsObject'
    BY <1>1 DEF RetryMaterialization, TypeOK, NamesItsObject, Revoked
  <2>4. QED
    BY <1>1, <2>1, <2>2, <2>3 DEF RetryMaterialization, TypeOK, NamesItsObject, store, actors
<1>2. CASE RequestPurge(a)
  <2>1. CASE asset[a].status = "deleted"
    <3>1. asset' = PurgedRow(asset, a) /\ object' = PurgedObject(asset, object, a)
          /\ fetchJob' = [fetchJob EXCEPT ![a] = NoJob] /\ deleteJob' = [deleteJob EXCEPT ![a] = NoDeletion]
      BY <1>2, <2>1 DEF RequestPurge, Live
    <3>2. asset' \in [Assets -> Row] /\ object' \in [Keys -> Object]
      BY <3>1, PurgedShaped DEF TypeOK
    <3>3. fetchJob' \in [Assets -> Job]
      BY <3>1, JobsShaped DEF TypeOK
    <3>4. deleteJob' \in [Assets -> Deletion]
      BY <3>1, JobsShaped DEF TypeOK, Deletion, NoDeletion
    <3>5. NamesItsObject'
      BY <3>1 DEF TypeOK, NamesItsObject, PurgedRow
    <3>6. QED
      BY <1>2, <3>2, <3>3, <3>4, <3>5
         DEF RequestPurge, TypeOK, NamesItsObject, store, actors, Deletion
  <2>2. CASE asset[a].status # "deleted"
    <3>1. \/ /\ asset' = [asset EXCEPT ![a].status = "delete_requested"]
             /\ object' = ReleaseReference(a)
          \/ asset' = asset /\ object' = object
      BY <1>2, <2>2 DEF RequestPurge
    <3>2. deleteJob' = WithDeleteJob(a, TRUE) /\ fetchJob' = fetchJob
      BY <1>2, <2>2 DEF RequestPurge
    <3>3. asset' \in [Assets -> Row] /\ object' \in [Keys -> Object]
      <4>1. [asset EXCEPT ![a].status = "delete_requested"] \in [Assets -> Row]
        BY StatusShaped DEF Revoked
      <4>2. QED
        BY <3>1, <4>1, ReleaseShaped DEF TypeOK
    <3>4. deleteJob' \in [Assets -> Deletion]
      BY <3>2, QueuedShaped
    <3>5. NamesItsObject'
      <4>1. NamesItsObject
        BY DEF TypeOK, NamesItsObject
      <4>2. \A b \in Assets : /\ asset'[b].obj = asset[b].obj
                              /\ asset'[b].status \in {asset[b].status, "delete_requested"}
        BY <3>1 DEF TypeOK, Row
      <4>3. QED
        BY <4>1, <4>2 DEF NamesItsObject, Revoked
    <3>6. QED
      BY <1>2, <3>2, <3>3, <3>4, <3>5
         DEF RequestPurge, TypeOK, NamesItsObject, store, actors, Deletion
  <2>3. QED
    BY <2>1, <2>2
<1>3. CASE Expire(a)
  <2>1. asset' \in [Assets -> Row]
    BY <1>3, StatusShaped DEF Expire, Revoked
  <2>2. object' \in [Keys -> Object]
    BY <1>3, ReleaseShaped DEF Expire
  <2>3. deleteJob' \in [Assets -> Deletion]
    BY <1>3, QueuedShaped DEF Expire
  <2>4. NamesItsObject'
    BY <1>3 DEF Expire, TypeOK, NamesItsObject, Revoked
  <2>5. QED
    BY <1>3, <2>1, <2>2, <2>3, <2>4 DEF Expire, TypeOK, NamesItsObject, store, actors, Deletion
<1>4. CASE RetryDeletion(a)
  <2>1. asset' \in [Assets -> Row]
    BY <1>4, StatusShaped DEF RetryDeletion, Revoked
  <2>2. object' \in [Keys -> Object]
    BY <1>4, ObjectsShaped DEF RetryDeletion, TypeOK, ObjectStates
  <2>3. deleteJob' \in [Assets -> Deletion]
    BY <1>4, JobsShaped, NewJobShaped DEF RetryDeletion
  <2>4. NamesItsObject'
    BY <1>4 DEF RetryDeletion, TypeOK, NamesItsObject, Revoked
  <2>5. QED
    BY <1>4, <2>1, <2>2, <2>3, <2>4 DEF RetryDeletion, TypeOK, NamesItsObject, store, actors, Deletion
<1>5. CASE LeaseExpires(a)
  <2>1. fetchJob' \in [Assets -> Job]
    BY <1>5, JobsShaped DEF LeaseExpires, TypeOK
  <2>2. deleteJob' \in [Assets -> Deletion]
    <3>1. deleteJob[a] \in Deletion /\ deleteJob[a].job \in Job
      BY DEF TypeOK, Deletion
    <3>2. [deleteJob[a].job EXCEPT !.live = FALSE] \in Job
      BY <3>1, JobsShaped
    <3>3. CASE deleteJob' = [deleteJob EXCEPT ![a].job.live = FALSE]
      <4>1. deleteJob' = [deleteJob EXCEPT ![a].job = [deleteJob[a].job EXCEPT !.live = FALSE]]
        BY <3>3, <3>1, DeletionsTyped
      <4>2. QED
        BY <4>1, <3>2, NewJobShaped
    <3>4. QED
      BY <1>5, <3>3, DeletionsTyped DEF LeaseExpires
  <2>3. faults' \in 0 .. MaxFaults
    BY <1>5 DEF LeaseExpires, TypeOK, MediaAssumption
  <2>4. QED
    BY <1>5, <2>1, <2>2, <2>3 DEF LeaseExpires, TypeOK, store, Deletion
<1>6. QED
  BY <1>1, <1>2, <1>3, <1>4, <1>5

LEMMA TypesByRemover ==
    ASSUME MediaAssumption, IInv, NEW d \in Removers,
           RemoverStep(d) \/ \E a \in Assets : ClaimMediaDeletionJob(d, a)
    PROVE  TypeOK'
<1> USE DEF IInv
<1> DEFINE a == remover[d].asset
<1>1. CASE \E b \in Assets : ClaimMediaDeletionJob(d, b)
  <2>1. PICK b \in Assets : ClaimMediaDeletionJob(d, b)
    BY <1>1
  <2>2. remover' \in [Removers -> DoingRemoval]
    BY <2>1, RemoversShaped DEF ClaimMediaDeletionJob, RemoverPCs
  <2>3. LeasedTo(d) \in Job
    BY JobsShaped
  <2>4. deleteJob' \in [Assets -> Deletion]
    BY <2>1, <2>3, NewJobShaped DEF ClaimMediaDeletionJob
  <2>5. UNCHANGED <<asset, object, fetchJob, task, files, old, worker, doomed, faults>>
    BY <2>1 DEF ClaimMediaDeletionJob, store
  <2>6. QED
    BY <2>2, <2>4, <2>5 DEF TypeOK, DoingRemoval, RemoverPCs, Deletion
<1>2. CASE LoadRevoked(d)
  <2>1. asset[a].obj \in Keys \cup {None}
    BY <1>2 DEF LoadRevoked, Removal, TypeOK, Row
  <2>2. \/ \E pc \in RemoverPCs : remover' = [remover EXCEPT ![d].pc = pc]
        \/ \E k \in Keys : remover' = [remover EXCEPT ![d].pc = "preparing", ![d].key = k]
    BY <1>2, <2>1 DEF LoadRevoked, Move, RemoverPCs
  <2>3. "preparing" \in RemoverPCs
    BY DEF RemoverPCs
  <2>4. remover' \in [Removers -> DoingRemoval]
    BY <2>2, <2>3, RemoversShaped
  <2>5. QED
    <3>1. UNCHANGED <<asset, object, fetchJob, deleteJob, task, files, old, worker, doomed, faults>>
      BY <1>2 DEF LoadRevoked, media, store
    <3>2. QED
      BY <2>4, <3>1 DEF TypeOK, DoingRemoval, RemoverPCs
<1>3. CASE PrepareMediaObjectDeletion(d)
  <2>1. \E pc \in RemoverPCs : remover' = [remover EXCEPT ![d].pc = pc]
    BY <1>3 DEF PrepareMediaObjectDeletion, Move, RemoverPCs
  <2>2. remover' \in [Removers -> DoingRemoval]
    BY <2>1, RemoversShaped
  <2>3. \A k \in Keys : [object[k] EXCEPT !.state = "deleting"] \in Object
    BY ObjectsShaped DEF TypeOK, ObjectStates
  <2>4. object' \in [Keys -> Object]
    BY <1>3, <2>3 DEF PrepareMediaObjectDeletion, TypeOK
  <2>5. QED
    BY <1>3, <2>2, <2>4 DEF PrepareMediaObjectDeletion, TypeOK, DoingRemoval, RemoverPCs, store
<1>4. CASE RereadObject(d)
  <2>1. \E pc \in RemoverPCs : remover' = [remover EXCEPT ![d].pc = pc]
    BY <1>4 DEF RereadObject, Move, RemoverPCs
  <2>2. remover' \in [Removers -> DoingRemoval]
    BY <2>1, RemoversShaped
  <2>3. QED
    BY <1>4, <2>2 DEF RereadObject, TypeOK, DoingRemoval, RemoverPCs, media, store
<1>5. CASE RemoveFile(d)
  <2>1. \E pc \in RemoverPCs : remover' = [remover EXCEPT ![d].pc = pc]
    BY <1>5 DEF RemoveFile, Move, RemoverPCs
  <2>2. remover' \in [Removers -> DoingRemoval]
    BY <2>1, RemoversShaped
  <2>3. files' \subseteq Keys /\ old' \subseteq files'
    BY <1>5 DEF RemoveFile, TypeOK
  <2>4. QED
    BY <1>5, <2>2, <2>3 DEF RemoveFile, TypeOK, DoingRemoval, RemoverPCs, media
<1>6. CASE CompleteDeletion(d)
  <2> DEFINE rows == [asset EXCEPT ![a].status = "deleted"]
  <2>1. remover' \in [Removers -> DoingRemoval]
    BY <1>6, RemoversShaped DEF CompleteDeletion
  <2>2. a \in Assets
    BY <1>6 DEF CompleteDeletion, Removal
  <2>3. rows \in [Assets -> Row]
    BY StatusShaped DEF Revoked
  <2>4. DeletedObject(a) \in [Keys -> Object]
    BY <2>2, DeletedShaped
  <2>5. /\ PurgedRow(rows, a) \in [Assets -> Row]
        /\ PurgedObject(rows, DeletedObject(a), a) \in [Keys -> Object]
    BY <2>3, <2>4, PurgedShaped
  <2>6. asset' \in [Assets -> Row] /\ object' \in [Keys -> Object]
    BY <1>6, <2>3, <2>4, <2>5 DEF CompleteDeletion, TypeOK
  <2>7. fetchJob' \in [Assets -> Job]
    BY <1>6, JobsShaped DEF CompleteDeletion, TypeOK
  <2>8. deleteJob' \in [Assets -> Deletion]
    <3>1. [deleteJob EXCEPT ![a].job = SucceededJob] \in [Assets -> Deletion]
      BY NewJobShaped, JobsShaped
    <3>2. [deleteJob EXCEPT ![a] = NoDeletion] \in [Assets -> Deletion]
      BY DeletionsTyped, JobsShaped DEF NoDeletion, Deletion
    <3>3. QED
      BY <1>6, <3>1, <3>2, DeletionsTyped DEF CompleteDeletion
  <2>9. NamesItsObject'
    <3>1. NamesItsObject
      BY DEF TypeOK, NamesItsObject
    <3>2. \A b \in Assets : \/ asset'[b] = asset[b]
                            \/ asset'[b].status = "deleted"
                            \/ asset'[b].obj = None
      BY <1>6, <2>2 DEF CompleteDeletion, PurgedRow, TypeOK, Row
    <3>3. QED
      BY <3>1, <3>2 DEF NamesItsObject, Revoked
  <2>10. QED
    BY <1>6, <2>1, <2>6, <2>7, <2>8, <2>9
       DEF CompleteDeletion, TypeOK, NamesItsObject, Deletion, DoingRemoval, RemoverPCs, store
<1>7. CASE FailDeletion(d)
  <2>1. remover' \in [Removers -> DoingRemoval]
    BY <1>7, RemoversShaped DEF FailDeletion
  <2>2. a \in Assets
    BY <1>7 DEF FailDeletion, Removal
  <2>3. [deleteJob EXCEPT ![a].job = PendingJob] \in [Assets -> Deletion]
    BY NewJobShaped, JobsShaped
  <2>4. deleteJob' \in [Assets -> Deletion]
    BY <1>7, <2>3, DeletionsTyped DEF FailDeletion
  <2>5. \/ asset' = asset
        \/ asset' = [asset EXCEPT ![a].status = "deleted"]
        \/ asset' = [asset EXCEPT ![a].status = "delete_failed"]
    BY <1>7, <2>2 DEF FailDeletion, TypeOK
  <2>6. /\ [asset EXCEPT ![a].status = "deleted"] \in [Assets -> Row]
        /\ [asset EXCEPT ![a].status = "delete_failed"] \in [Assets -> Row]
    BY StatusShaped DEF Revoked
  <2>7. asset' \in [Assets -> Row]
    BY <2>5, <2>6 DEF TypeOK
  <2>8. NamesItsObject'
    <3>1. NamesItsObject
      BY DEF TypeOK, NamesItsObject
    <3>2. \A b \in Assets : \/ asset'[b] = asset[b]
                            \/ asset'[b].status \in {"deleted", "delete_failed"}
      BY <2>5, <2>2 DEF TypeOK, Row
    <3>3. QED
      BY <3>1, <3>2 DEF NamesItsObject, Revoked
  <2>9. object' \in [Keys -> Object]
    <3>1. \A k \in Keys : [object[k] EXCEPT !.state = "delete_failed"] \in Object
      BY ObjectsShaped DEF TypeOK, ObjectStates
    <3>2. \/ object' = object
          \/ object' = [object EXCEPT ![asset[a].obj].state = "delete_failed"]
      BY <1>7 DEF FailDeletion
    <3>3. QED
      BY <3>1, <3>2 DEF TypeOK
  <2>10. QED
    BY <1>7, <2>1, <2>4, <2>7, <2>8, <2>9
       DEF FailDeletion, TypeOK, NamesItsObject, Deletion, DoingRemoval, RemoverPCs, store
<1>8. QED
  BY <1>1, <1>2, <1>3, <1>4, <1>5, <1>6, <1>7 DEF RemoverStep

LEMMA TypesByOthers ==
    ASSUME MediaAssumption, IInv,
           \/ ScanFiles \/ Crash
           \/ \E k \in Keys : Age(k) \/ RemoveOrphan(k)
    PROVE  TypeOK'
<1> USE DEF IInv
<1>1. CASE ScanFiles
  BY <1>1 DEF ScanFiles, TypeOK, media, store
<1>2. CASE Crash
  <2>1. Idle \in DoingWork /\ Idle \in DoingRemoval
    BY DEF Idle, DoingWork, DoingRemoval, WorkerPCs, RemoverPCs
  <2>2. worker' \in [Workers -> DoingWork] /\ remover' \in [Removers -> DoingRemoval]
    BY <1>2, <2>1 DEF Crash
  <2>3. faults' \in 0 .. MaxFaults
    BY <1>2 DEF Crash, TypeOK, MediaAssumption
  <2>4. QED
    BY <1>2, <2>2, <2>3
       DEF Crash, TypeOK, media, store, DoingWork, DoingRemoval, WorkerPCs, RemoverPCs
<1>3. ASSUME NEW k \in Keys, Age(k) \/ RemoveOrphan(k) PROVE TypeOK'
  BY <1>3 DEF Age, RemoveOrphan, TypeOK, media, actors
<1>4. QED
  BY <1>1, <1>2, <1>3

-----------------------------------------------------------------------------
(* Jobs and rows. *)

LEMMA JobsByWorker ==
    ASSUME MediaAssumption, IInv, NEW w \in Workers, WorkerStep(w)
    PROVE  Jobs' /\ Rows'
<1> USE DEF IInv
<1> DEFINE a == worker[w].asset
<1>1. worker[w].pc # "idle" => a \in Assets
  BY DEF Hold
<1>2. MayCommit(w, a) /\ a \in Assets => asset[a].status # "available" /\ a \in TaskAssets
  BY Leased
<1>3. CASE LoadClaimed(w) \/ Materialize(w) \/ DiscardUncommitted(w)
  BY <1>3 DEF LoadClaimed, Materialize, DiscardUncommitted, media, Jobs, Rows
<1>4. CASE CommitMediaMaterialization(w)
  <2>1. a \in TaskAssets /\ MayCommit(w, a)
    BY <1>1, <1>2, <1>4 DEF CommitMediaMaterialization
  <2>2. fetchJob' = [fetchJob EXCEPT ![a] = SucceededJob]
        /\ asset' = [asset EXCEPT ![a] = [status |-> "available", obj |-> worker[w].key]]
        /\ deleteJob' = deleteJob /\ (task' = task \/ task = "materializing")
    BY <1>4 DEF CommitMediaMaterialization
  <2>3. SucceededJob.status = "succeeded"
    BY DEF SucceededJob, NoJob
  <2>4. Jobs'
    BY <2>1, <2>2, <2>3 DEF Jobs, MayCommit, Live, Revoked, TypeOK
  <2>5. Rows'
    BY <2>1, <2>2, MediaAssumption DEF Rows, TypeOK, MediaAssumption
  <2>6. QED
    BY <2>4, <2>5
<1>5. CASE CompleteJob(w)
  <2>1. SucceededJob.status = "succeeded"
    BY DEF SucceededJob, NoJob
  <2>2. QED
    BY <1>1, <1>5, <2>1 DEF CompleteJob, Jobs, Rows, TypeOK
<1>6. CASE FailJob(w)
  <2>1. Fenced(fetchJob[a], w) => asset[a].status # "available"
    BY <1>1, <1>6 DEF FailJob, Fenced, Jobs
  <2>2. QED
    BY <1>1, <1>6, <2>1 DEF FailJob, Jobs, Rows, TypeOK
<1>7. CASE FailWithAsset(w)
  <2>1. a \in Assets
    BY <1>1, <1>7 DEF FailWithAsset
  <2>2. CASE MayCommit(w, a)
    <3>1. fetchJob' = [fetchJob EXCEPT ![a] = PendingJob]
          /\ asset' = [asset EXCEPT ![a].status = "failed"] /\ UNCHANGED <<deleteJob, task>>
      BY <1>7, <2>2 DEF FailWithAsset
    <3>2. /\ asset'[a].status = "failed"
          /\ \A b \in Assets \ {a} : asset'[b] = asset[b] /\ fetchJob'[b] = fetchJob[b]
      BY <3>1, <2>1 DEF TypeOK, Row
    <3>3. a \in TaskAssets /\ asset[a].status \in Live
      BY <1>2, <2>1, <2>2 DEF MayCommit
    <3>4. Jobs'
      BY <3>1, <3>2, <3>3 DEF Jobs, Live, Revoked
    <3>5. Rows'
      BY <3>1, <3>2, <3>3 DEF Rows, MediaAssumption, Assets
    <3>6. QED
      BY <3>4, <3>5
  <2>3. CASE ~MayCommit(w, a)
    BY <1>7, <2>3 DEF FailWithAsset, Jobs, Rows
  <2>4. QED
    BY <2>2, <2>3
<1>8. QED
  BY <1>3, <1>4, <1>5, <1>6, <1>7 DEF WorkerStep

LEMMA JobsByClaim ==
    ASSUME MediaAssumption, IInv,
           \/ EnsureTaskResultMedia
           \/ \E w \in Workers, a \in Assets :
                 ClaimMediaMaterializationJob(w, a) \/ ClaimMediaAssetMaterialization(w, a)
    PROVE  Jobs' /\ Rows'
<1> USE DEF IInv
<1>a. \A a \in Assets :
         \/ Ensured[a] = asset[a]
         \/ a \in TaskAssets /\ asset[a].status = "none" /\ Ensured[a].status = "pending"
  BY DEF Ensured
<1>b. \A a \in Assets : EnsuredJobs[a] = fetchJob[a] \/ fetchJob[a].status = "none"
  BY DEF EnsuredJobs
<1>1. /\ \A a \in Assets :
             \/ Ensured[a] = asset[a]
             \/ a \in TaskAssets /\ asset[a].status = "none" /\ Ensured[a].status = "pending"
      /\ \A a \in Assets : EnsuredJobs[a] = fetchJob[a] \/ fetchJob[a].status = "none"
  BY <1>a, <1>b
<1>2. \A a \in TaskAssets : Ensured[a].status # "none"
  BY DEF Ensured, Assets
<1>3. CASE EnsureTaskResultMedia
  BY <1>1, <1>2, <1>3 DEF EnsureTaskResultMedia, Jobs, Rows, MediaAssumption, Revoked, Assets
<1>4. ASSUME NEW w \in Workers, NEW a \in Assets, ClaimMediaMaterializationJob(w, a)
      PROVE  Jobs' /\ Rows'
  BY <1>4 DEF ClaimMediaMaterializationJob, Claimable, Jobs, Rows, TypeOK
<1>5. ASSUME NEW w \in Workers, NEW a \in Assets, ClaimMediaAssetMaterialization(w, a)
      PROVE  Jobs' /\ Rows'
  <2>1. /\ asset' = [Ensured EXCEPT ![a].status = "materializing"]
        /\ fetchJob' = [EnsuredJobs EXCEPT ![a] = LeasedTo(w)]
        /\ a \in TaskAssets /\ Ensured[a].status \in {"pending", "materializing", "failed"}
        /\ deleteJob' = deleteJob
    BY <1>5 DEF ClaimMediaAssetMaterialization
  <2>2. /\ asset'[a].status = "materializing"
        /\ \A b \in Assets \ {a} : asset'[b] = Ensured[b] /\ fetchJob'[b] = EnsuredJobs[b]
    BY <2>1, EnsuredShaped DEF Row
  <2>3. Jobs'
    BY <1>1, <2>1, <2>2 DEF Jobs, Revoked
  <2>4. Rows'
    BY <1>1, <1>2, <2>1, <2>2 DEF Rows, MediaAssumption, Assets
  <2>5. QED
    BY <2>3, <2>4
<1>6. QED
  BY <1>3, <1>4, <1>5

LEMMA JobsByRevocation ==
    ASSUME MediaAssumption, IInv, NEW a \in Assets,
           RetryMaterialization(a) \/ RequestPurge(a) \/ Expire(a)
           \/ RetryDeletion(a) \/ LeaseExpires(a)
    PROVE  Jobs' /\ Rows'
<1> USE DEF IInv
<1> DEFINE Only(s) == /\ asset'[a].status = s
                      /\ \A b \in Assets \ {a} : asset'[b] = asset[b]
<1>0. /\ \A p \in BOOLEAN, b \in Assets \ {a} : WithDeleteJob(a, p)[b] = deleteJob[b]
      /\ \A s : asset' = [asset EXCEPT ![a].status = s] => Only(s)
  BY DEF WithDeleteJob, TypeOK, Row
<1>1. CASE RetryMaterialization(a)
  <2>1. Only("materializing")
    BY <1>0, <1>1 DEF RetryMaterialization
  <2>2. QED
    BY <1>1, <2>1 DEF RetryMaterialization, Jobs, Rows, Revoked, MediaAssumption, Assets, TypeOK
<1>2. CASE RequestPurge(a)
  <2>1. CASE asset[a].status = "deleted"
    <3>1. Only("purged") /\ fetchJob' = [fetchJob EXCEPT ![a] = NoJob]
          /\ deleteJob' = [deleteJob EXCEPT ![a] = NoDeletion] /\ task' = task
      BY <1>2, <2>1 DEF RequestPurge, Live, PurgedRow, TypeOK
    <3>2. NoDeletion.job.status = "none"
      BY DEF NoDeletion, NoJob
    <3>3. QED
      BY <3>1, <3>2 DEF Jobs, Rows, TypeOK, Assets
  <2>2. CASE asset[a].status \in Live
    <3>1. Only("delete_requested") /\ fetchJob' = fetchJob /\ task' = task
          /\ \A b \in Assets \ {a} : deleteJob'[b] = deleteJob[b]
      BY <1>0, <1>2, <2>2 DEF RequestPurge, Live, Revoked
    <3>2. QED
      BY <3>1 DEF Jobs, Rows, Revoked, Assets
  <2>3. CASE asset[a].status \in Revoked \ {"deleted"}
    <3>1. asset' = asset /\ fetchJob' = fetchJob /\ task' = task
          /\ \A b \in Assets \ {a} : deleteJob'[b] = deleteJob[b]
      BY <1>0, <1>2, <2>3 DEF RequestPurge, Live, Revoked
    <3>2. QED
      BY <3>1, <2>3 DEF Jobs, Rows
  <2>4. QED
    BY <1>2, <2>1, <2>2, <2>3 DEF RequestPurge
<1>3. CASE Expire(a)
  <2>1. Only("expired") /\ fetchJob' = fetchJob /\ task' = task
        /\ \A b \in Assets \ {a} : deleteJob'[b] = deleteJob[b]
    BY <1>0, <1>3 DEF Expire
  <2>2. QED
    BY <2>1 DEF Jobs, Rows, Revoked, Assets
<1>4. CASE RetryDeletion(a)
  <2>1. Only("delete_requested") /\ fetchJob' = fetchJob /\ task' = task
        /\ \A b \in Assets \ {a} : deleteJob'[b] = deleteJob[b]
    BY <1>0, <1>4 DEF RetryDeletion, TypeOK
  <2>2. QED
    BY <2>1 DEF Jobs, Rows, Revoked, Assets
<1>5. CASE LeaseExpires(a)
  <2>1. asset' = asset /\ task' = task
    BY <1>5 DEF LeaseExpires
  <2>2. \A b \in Assets : fetchJob'[b].status = fetchJob[b].status
    BY <1>5 DEF LeaseExpires, TypeOK, Job
  <2>3. \A b \in Assets : deleteJob'[b].job.status = deleteJob[b].job.status
    <3>1. deleteJob' = deleteJob \/ deleteJob' = [deleteJob EXCEPT ![a].job.live = FALSE]
      BY <1>5 DEF LeaseExpires
    <3>2. deleteJob[a].job \in Job
      BY DEF TypeOK
    <3>3. [deleteJob[a].job EXCEPT !.live = FALSE].status = deleteJob[a].job.status
      BY <3>2 DEF Job
    <3>4. QED
      BY <3>1, <3>3, DeletionsTyped DEF Deletion
  <2>4. QED
    BY <2>1, <2>2, <2>3 DEF Jobs, Rows
<1>6. QED
  BY <1>1, <1>2, <1>3, <1>4, <1>5

LEMMA JobsByRemover ==
    ASSUME MediaAssumption, IInv, NEW d \in Removers,
           RemoverStep(d) \/ \E a \in Assets : ClaimMediaDeletionJob(d, a)
    PROVE  Jobs' /\ Rows'
<1> USE DEF IInv
<1> DEFINE a == remover[d].asset
<1>1. ASSUME NEW b \in Assets, ClaimMediaDeletionJob(d, b) PROVE Jobs' /\ Rows'
  <2>1. deleteJob[b].job.status # "none"
    BY <1>1 DEF ClaimMediaDeletionJob, Claimable
  <2>2. \A c \in Assets \ {b} : deleteJob'[c] = deleteJob[c]
    BY <1>1 DEF ClaimMediaDeletionJob, TypeOK
  <2>3. UNCHANGED <<asset, fetchJob, task>>
    BY <1>1 DEF ClaimMediaDeletionJob
  <2>4. QED
    BY <2>1, <2>2, <2>3 DEF Jobs, Rows
<1>2. CASE LoadRevoked(d) \/ PrepareMediaObjectDeletion(d) \/ RereadObject(d) \/ RemoveFile(d)
  <2>1. UNCHANGED <<asset, fetchJob, deleteJob, task>>
    BY <1>2 DEF LoadRevoked, PrepareMediaObjectDeletion, RereadObject, RemoveFile, media
  <2>2. QED
    BY <2>1 DEF Jobs, Rows
<1>3. ASSUME a \in Assets, Fenced(deleteJob[a].job, d)
      PROVE  asset[a].status \in Revoked
  BY <1>3 DEF Fenced, Jobs
<1>4. CASE CompleteDeletion(d)
  <2>1. a \in Assets
    BY <1>4 DEF CompleteDeletion, Removal
  <2>2. CASE Fenced(deleteJob[a].job, d)
    <3>1. /\ \A b \in Assets \ {a} : /\ asset'[b] = asset[b] /\ deleteJob'[b] = deleteJob[b]
                                     /\ fetchJob'[b] = fetchJob[b]
          /\ task' = task
      BY <1>4, <2>1, <2>2 DEF CompleteDeletion, PurgedRow, TypeOK
    <3>2. \/ asset'[a].status = "deleted"
          \/ asset'[a].status = "purged" /\ deleteJob'[a] = NoDeletion
      BY <1>4, <2>1, <2>2 DEF CompleteDeletion, PurgedRow, TypeOK, Row
    <3>3. NoDeletion.job.status = "none"
      BY DEF NoDeletion, NoJob
    <3>4. QED
      BY <2>1, <3>1, <3>2, <3>3 DEF Jobs, Rows, Revoked, Assets
  <2>3. CASE ~Fenced(deleteJob[a].job, d)
    BY <1>4, <2>3 DEF CompleteDeletion, Jobs, Rows
  <2>4. QED
    BY <2>2, <2>3
<1>5. CASE FailDeletion(d)
  <2>1. a \in Assets
    BY <1>5 DEF FailDeletion, Removal
  <2>2. CASE Fenced(deleteJob[a].job, d)
    <3>1. /\ \A b \in Assets \ {a} : asset'[b] = asset[b] /\ deleteJob'[b] = deleteJob[b]
          /\ task' = task /\ fetchJob' = fetchJob
      BY <1>5, <2>1, <2>2 DEF FailDeletion, TypeOK
    <3>2. asset'[a].status \in {"deleted", "delete_failed"}
      BY <1>5, <2>1, <2>2 DEF FailDeletion, TypeOK, Row
    <3>3. QED
      BY <2>1, <3>1, <3>2 DEF Jobs, Rows, Revoked, Assets
  <2>3. CASE ~Fenced(deleteJob[a].job, d)
    BY <1>5, <2>3 DEF FailDeletion, Jobs, Rows
  <2>4. QED
    BY <2>2, <2>3
<1>6. QED
  BY <1>1, <1>2, <1>4, <1>5 DEF RemoverStep

-----------------------------------------------------------------------------
(* Objects and their references. *)

LEMMA HoldersFinite ==
    ASSUME MediaAssumption, NEW k
    PROVE  IsFiniteSet(Holders(k)) /\ Cardinality(Holders(k)) \in Nat
<1>1. Holders(k) \subseteq Assets
  BY DEF Holders
<1>2. IsFiniteSet(Holders(k))
  BY <1>1, FS_Subset DEF MediaAssumption, Assets
<1>3. QED
  BY <1>2, FS_CardinalityType

\* An object is in use when it is referenced, and then it is ready.
LEMMA InUse ==
    ASSUME MediaAssumption, IInv, NEW k \in Keys
    PROVE  /\ object[k].ref # 0 <=> \E a \in Assets : asset[a].status = "available" /\ asset[a].obj = k
           /\ object[k].ref # 0 => object[k].state = "ready" /\ k \in files
           /\ object[k].ref \in Nat
<1>1. object[k].ref # 0 <=> Holders(k) # {}
  BY HoldersFinite, FS_EmptySet DEF IInv, ReferencesCounted
<1>2. QED
  BY <1>1, HoldersFinite DEF IInv, AvailableIsServed, Holders, TypeOK, Object, ReferencesCounted

\* What a step does to the objects that are not in use.
Lower(objects) ==
    \A k \in Keys :
        /\ object[k] = NoObject => objects[k] = NoObject
        /\ object[k].ref = 0 => objects[k].ref = 0
        /\ object[k].state # "ready" => objects[k].state # "ready"

\* Nor does it touch those that are.
Kept(objects) ==
    \A k \in Keys :
        /\ objects[k].ref = object[k].ref
        /\ object[k].ref # 0 => objects[k].state = "ready"

LEMMA Unchanged ==
    ASSUME MediaAssumption, IInv
    PROVE  Lower(object) /\ Kept(object)
BY InUse DEF Lower, Kept

\* A move of one object that has no reference.
LEMMA MoveUnused ==
    ASSUME MediaAssumption, IInv, NEW k \in Keys, NEW s \in ObjectStates \ {"ready"},
           object[k].ref = 0, object[k].state # "none"
    PROVE  Lower([object EXCEPT ![k].state = s]) /\ Kept([object EXCEPT ![k].state = s])
<1> DEFINE new == [object EXCEPT ![k].state = s]
<1>1. new[k].ref = object[k].ref /\ new[k].state = s /\ \A j \in Keys \ {k} : new[j] = object[j]
  BY DEF IInv, TypeOK, Object
<1>2. object[k] # NoObject
  BY DEF NoObject
<1>3. QED
  BY <1>1, <1>2, InUse DEF Lower, Kept

LEMMA DeletedKept ==
    ASSUME MediaAssumption, IInv, NEW a \in Assets
    PROVE  Lower(DeletedObject(a)) /\ Kept(DeletedObject(a))
<1> DEFINE k == asset[a].obj
           cond == k # None /\ object[k].state # "none" /\ asset[a].status # "deleted"
<1>0. k \in Keys \cup {None}
  BY DEF IInv, TypeOK, Row
<1>1. CASE ~cond
  BY <1>1, Unchanged DEF DeletedObject
<1>2. CASE cond /\ object[k].ref = 0
  <2>1. DeletedObject(a) = [object EXCEPT ![k].state = "deleted"]
    BY <1>2 DEF DeletedObject
  <2>2. k \in Keys /\ object[k].ref = 0 /\ object[k].state # "none"
    BY <1>0, <1>2
  <2>3. "deleted" \in ObjectStates \ {"ready"}
    BY DEF ObjectStates
  <2>4. Lower([object EXCEPT ![k].state = "deleted"]) /\ Kept([object EXCEPT ![k].state = "deleted"])
    BY <2>2, <2>3, MoveUnused
  <2>5. QED
    BY <2>1, <2>4
<1>3. CASE cond /\ object[k].ref # 0
  <2>1. object[k].ref > 0 /\ object[k].state = "ready"
    BY <1>0, <1>3, InUse
  <2>2. DeletedObject(a) = [object EXCEPT ![k].state = "ready"]
    BY <1>3, <2>1 DEF DeletedObject
  <2>3. [object EXCEPT ![k].state = "ready"] = object
    BY <1>0, <1>3, <2>1 DEF IInv, TypeOK, Object
  <2>4. QED
    BY <2>2, <2>3, Unchanged
<1>4. QED
  BY <1>1, <1>2, <1>3

\* The removal of the row of an object that only revoked assets name.
LEMMA PurgedKept ==
    ASSUME MediaAssumption, IInv, NEW a \in Assets, NEW rows, NEW objects,
           objects \in [Keys -> Object], Lower(objects), Kept(objects),
           \A b \in Assets : rows[b].obj = asset[b].obj, asset[a].status # "available"
    PROVE  Lower(PurgedObject(rows, objects, a)) /\ Kept(PurgedObject(rows, objects, a))
<1> DEFINE k == rows[a].obj
           new == PurgedObject(rows, objects, a)
<1>1. CASE k # None /\ \A b \in Assets \ {a} : rows[b].obj # k
  <2>1. k \in Keys
    BY <1>1 DEF IInv, TypeOK, Row
  <2>2. object[k].ref = 0
    BY <1>1, <2>1, InUse
  <2>3. new = [objects EXCEPT ![k] = NoObject]
    BY <1>1 DEF PurgedObject
  <2>4. new[k] = NoObject /\ \A j \in Keys \ {k} : new[j] = objects[j]
    BY <2>1, <2>3
  <2>5. QED
    BY <2>2, <2>4 DEF Lower, Kept, NoObject
<1>2. CASE ~(k # None /\ \A b \in Assets \ {a} : rows[b].obj # k)
  BY <1>2 DEF PurgedObject
<1>3. QED
  BY <1>1, <1>2

\* The revocation of an asset: its object loses one reference if the asset
\* was available, and nothing happens if not.
LEMMA Released ==
    ASSUME MediaAssumption, IInv, NEW a \in Assets, asset[a].status \in Live
    PROVE  /\ Lower(ReleaseReference(a))
           /\ \A k \in Keys : ReleaseReference(a)[k].ref =
                 IF a \in Holders(k) THEN object[k].ref - 1 ELSE object[k].ref
           /\ \A k \in Keys : ReleaseReference(a)[k].ref # 0 => ReleaseReference(a)[k].state = "ready"
<1> DEFINE k == asset[a].obj
           new == ReleaseReference(a)
<1>1. CASE k # None
  <2>1. k \in Keys /\ asset[a].status = "available"
    BY <1>1 DEF IInv, TypeOK, Row, Live, Revoked
  <2>2. object[k].ref \in Nat /\ object[k].ref > 0 /\ object[k].state = "ready"
    BY <2>1, InUse
  <2>3. new = [object EXCEPT ![k] = [state |-> IF object[k].ref > 1 THEN "ready" ELSE "delete_pending",
                                     ref |-> object[k].ref - 1]]
    BY <1>1, <2>2 DEF ReleaseReference
  <2>4. /\ new[k].ref = object[k].ref - 1
        /\ new[k].state = IF object[k].ref > 1 THEN "ready" ELSE "delete_pending"
        /\ \A j \in Keys \ {k} : new[j] = object[j]
    BY <2>1, <2>3 DEF IInv, TypeOK
  <2>5. \A j \in Keys : a \in Holders(j) <=> j = k
    BY <2>1 DEF Holders
  <2>6. Lower(new)
    BY <2>1, <2>2, <2>4 DEF Lower, NoObject
  <2>7. \A j \in Keys : new[j].ref # 0 => new[j].state = "ready"
    BY <2>2, <2>4, InUse
  <2>8. QED
    BY <2>4, <2>5, <2>6, <2>7
<1>2. CASE k = None
  <2>1. new = object /\ \A j \in Keys : a \notin Holders(j)
    BY <1>2 DEF ReleaseReference, Holders, MediaAssumption
  <2>2. QED
    BY <2>1, Unchanged, InUse
<1>3. QED
  BY <1>1, <1>2

-----------------------------------------------------------------------------
(* What the library promises of its assets, kept by steps that leave the    *)
(* available assets as they are, and what they need.                        *)

SameHolders ==
    \A a \in Assets : \/ asset'[a] = asset[a]
                      \/ asset[a].status # "available" /\ asset'[a].status # "available"

LEMMA LibraryKept ==
    ASSUME MediaAssumption, IInv, SameHolders, Kept(object'),
           \A k \in files \ files' : object[k].ref = 0
    PROVE  ReferencesCounted' /\ AvailableIsServed'
<1>1. ASSUME NEW k \in Keys PROVE Holders(k)' = Holders(k)
  BY DEF SameHolders, Holders
<1>2. ReferencesCounted'
  BY <1>1 DEF ReferencesCounted, IInv, Kept
<1>3. ASSUME NEW a \in Assets, asset'[a].status = "available"
      PROVE  /\ asset'[a].obj # None
             /\ object'[asset'[a].obj].state = "ready"
             /\ asset'[a].obj \in files'
  <2>1. asset'[a] = asset[a]
    BY <1>3 DEF SameHolders
  <2>2. asset[a].obj # None /\ asset[a].obj \in Keys
    BY <1>3, <2>1 DEF IInv, AvailableIsServed, TypeOK, Row
  <2>3. object[asset[a].obj].ref # 0 /\ asset[a].obj \in files
    BY <1>3, <2>1, <2>2, InUse DEF IInv, AvailableIsServed
  <2>4. QED
    BY <2>1, <2>2, <2>3 DEF Kept
<1>4. AvailableIsServed'
  BY <1>3 DEF AvailableIsServed
<1>5. QED
  BY <1>2, <1>4

\* A revocation takes one asset and its reference.
LEMMA LibraryRevoked ==
    ASSUME MediaAssumption, IInv, NEW a \in Assets, asset[a].status \in Live,
           NEW s \in Revoked, asset' = [asset EXCEPT ![a].status = s],
           object' = ReleaseReference(a), files' = files
    PROVE  ReferencesCounted' /\ AvailableIsServed'
<1>1. asset'[a].status = s /\ \A b \in Assets \ {a} : asset'[b] = asset[b]
  BY DEF IInv, TypeOK, Row
<1>2. s # "available"
  BY DEF Revoked
<1>3. \A k \in Keys : Holders(k)' = Holders(k) \ {a}
  BY <1>1, <1>2 DEF Holders
<1>4. ASSUME NEW k \in Keys PROVE object'[k].ref = Cardinality(Holders(k)')
  <2>1. CASE a \in Holders(k)
    <3>1. Cardinality(Holders(k) \ {a}) = Cardinality(Holders(k)) - 1
      BY <2>1, HoldersFinite, FS_RemoveElement
    <3>2. QED
      BY <1>3, <2>1, <3>1, Released DEF IInv, ReferencesCounted
  <2>2. CASE a \notin Holders(k)
    <3>1. Holders(k) \ {a} = Holders(k)
      BY <2>2
    <3>2. QED
      BY <1>3, <2>2, <3>1, Released DEF IInv, ReferencesCounted
  <2>3. QED
    BY <2>1, <2>2
<1>5. ReferencesCounted'
  BY <1>4 DEF ReferencesCounted
<1>6. ASSUME NEW b \in Assets, asset'[b].status = "available"
      PROVE  /\ asset'[b].obj # None
             /\ object'[asset'[b].obj].state = "ready"
             /\ asset'[b].obj \in files'
  <2> DEFINE k == asset[b].obj
  <2>1. b # a /\ asset'[b] = asset[b]
    BY <1>1, <1>2, <1>6
  <2>2. k # None /\ k \in Keys /\ k \in files
    BY <1>6, <2>1 DEF IInv, AvailableIsServed, TypeOK, Row
  <2>3. b \in Holders(k)'
    BY <1>6, <2>1 DEF Holders
  <2>4. Cardinality(Holders(k)') # 0
    BY <1>3, <2>2, <2>3, HoldersFinite, FS_EmptySet, FS_Subset
  <2>5. object'[k].ref # 0
    BY <1>4, <2>2, <2>4
  <2>6. object'[k].state = "ready"
    BY <2>2, <2>5, Released
  <2>7. QED
    BY <2>1, <2>2, <2>6
<1>7. AvailableIsServed'
  BY <1>6 DEF AvailableIsServed
<1>8. QED
  BY <1>5, <1>7

\* A commit makes the first holder of a key that had no object.
LEMMA LibraryCommitted ==
    ASSUME MediaAssumption, IInv, NEW w \in Workers, CommitMediaMaterialization(w)
    PROVE  ReferencesCounted' /\ AvailableIsServed'
<1> DEFINE a == worker[w].asset
<1>0. PICK k \in Keys : worker[w].key = k
  BY DEF CommitMediaMaterialization, IInv, Hold, TypeOK
<1>1. a \in Assets /\ k # None /\ object[k] = NoObject /\ k \in files
  BY <1>0 DEF CommitMediaMaterialization, IInv, Hold, TypeOK
<1>2. asset[a].status # "available"
  BY <1>1, Leased DEF CommitMediaMaterialization
<1>3. /\ asset'[a] = [status |-> "available", obj |-> k]
      /\ \A b \in Assets \ {a} : asset'[b] = asset[b]
      /\ object'[k] = [state |-> "ready", ref |-> 1]
      /\ \A j \in Keys \ {k} : object'[j] = object[j]
      /\ files' = files
  BY <1>0, <1>1 DEF CommitMediaMaterialization, IInv, TypeOK
<1>4. Holders(k) = {}
  BY <1>1, InUse DEF Holders, NoObject
<1>5. Holders(k)' = {a}
  <2>1. asset'[a].status = "available" /\ asset'[a].obj = k
    BY <1>3
  <2>2. \A b \in Assets \ {a} : ~(asset[b].obj = k /\ asset[b].status = "available")
    BY <1>4 DEF Holders
  <2>3. QED
    BY <1>1, <1>3, <2>1, <2>2 DEF Holders
<1>6. \A j \in Keys \ {k} : Holders(j)' = Holders(j)
  BY <1>1, <1>2, <1>3 DEF Holders
<1>7. Cardinality({a}) = 1
  BY FS_Singleton
<1>8. ReferencesCounted'
  <2>1. object'[k].ref = Cardinality(Holders(k)')
    BY <1>3, <1>5, <1>7
  <2>2. \A j \in Keys \ {k} : object'[j].ref = Cardinality(Holders(j)')
    BY <1>3, <1>6 DEF ReferencesCounted, IInv
  <2>3. QED
    BY <2>1, <2>2 DEF ReferencesCounted
<1>9. ASSUME NEW b \in Assets, asset'[b].status = "available"
      PROVE  /\ asset'[b].obj # None
             /\ object'[asset'[b].obj].state = "ready"
             /\ asset'[b].obj \in files'
  <2>1. CASE b = a
    BY <1>1, <1>3, <2>1
  <2>2. CASE b # a
    <3>1. asset'[b] = asset[b] /\ asset[b].obj \in Keys \ {k}
      BY <1>3, <1>4, <1>9, <2>2 DEF Holders, IInv, AvailableIsServed, TypeOK, Row
    <3>2. QED
      BY <1>3, <1>9, <3>1 DEF IInv, AvailableIsServed
  <2>3. QED
    BY <2>1, <2>2
<1>10. AvailableIsServed'
  BY <1>9 DEF AvailableIsServed
<1>11. QED
  BY <1>8, <1>10

-----------------------------------------------------------------------------
(* Keys held by workers, removals, doomed files. *)

LEMMA HoldsKept ==
    ASSUME MediaAssumption, IInv,
           \A w \in Workers :
              \/ worker'[w] = worker[w]
              \/ /\ worker'[w].pc # "stored" /\ worker'[w].key = None
                 /\ worker'[w].pc # "idle" => worker'[w].asset \in Assets,
           \A w \in Workers : worker'[w].key # None =>
              /\ object'[worker[w].key] = NoObject
              /\ worker[w].key \in files' \ (old' \cup doomed'),
           \A d \in Removers :
              \/ remover'[d].key \in {remover[d].key, None}
              \/ object[remover'[d].key] # NoObject
    PROVE  \A w \in Workers : Hold(w)'
<1>1. \A w \in Workers : worker'[w].key \in {worker[w].key, None}
  BY DEF IInv, TypeOK
<1>2. SUFFICES ASSUME NEW w \in Workers PROVE Hold(w)'
  OBVIOUS
<1>3. /\ worker'[w].pc # "idle" => worker'[w].asset \in Assets
      /\ worker'[w].pc = "stored" <=> worker'[w].key # None
  BY DEF IInv, Hold
<1>4. ASSUME worker'[w].key # None
      PROVE  /\ object'[worker'[w].key] = NoObject
             /\ worker'[w].key \in files' \ (old' \cup doomed')
             /\ \A v \in Workers \ {w} : worker'[v].key # worker'[w].key
             /\ \A d \in Removers : remover'[d].key # worker'[w].key
  <2>1. worker'[w].key = worker[w].key
    BY <1>1, <1>4
  <2>2. \A v \in Workers \ {w} : worker'[v].key # worker'[w].key
    BY <1>1, <1>4, <2>1 DEF IInv, Hold
  <2>3. \A d \in Removers : remover'[d].key # worker'[w].key
    BY <1>4, <2>1 DEF IInv, Hold
  <2>4. QED
    BY <1>4, <2>1, <2>2, <2>3
<1>5. QED
  BY <1>3, <1>4 DEF Hold

LEMMA RemovalsKept ==
    ASSUME MediaAssumption, IInv, 
           \A d \in Removers : remover'[d] = remover[d] \/ Removal(d)',
           \A d \in Removers : remover[d].pc = "removing" => object'[remover[d].key].ref = 0
    PROVE  \A d \in Removers : Removal(d)'
BY DEF IInv, Removal

\* A key that a goroutine removes is one of an object that was there, or the
\* goroutine removes nothing; a step that lowers the objects keeps it so.
LEMMA RemovalsLowered ==
    ASSUME MediaAssumption, IInv, Lower(object')
    PROVE  \A d \in Removers : remover[d].pc = "removing" => object'[remover[d].key].ref = 0
<1>1. \A d \in Removers : remover[d].pc = "removing" =>
         remover[d].key \in Keys /\ object[remover[d].key].ref = 0
  BY DEF IInv, Removal, TypeOK
<1>2. QED
  BY <1>1 DEF Lower

LEMMA DoomedKept ==
    ASSUME MediaAssumption, IInv, Lower(object'), doomed' \subseteq doomed
    PROVE  Doomed'
BY DEF IInv, Doomed, Lower, TypeOK

Others ==
    /\ \A w \in Workers : Hold(w)
    /\ \A d \in Removers : Removal(d)
    /\ Doomed /\ ReferencesCounted /\ AvailableIsServed

\* The workers that move write nothing, and those that had written keep it.
WorkersRest ==
    \A w \in Workers :
        \/ worker'[w] = worker[w]
        \/ /\ worker'[w].pc # "stored" /\ worker'[w].key = None
           /\ worker'[w].pc # "idle" => worker'[w].asset \in Assets
KeysKept ==
    \A w \in Workers : worker'[w].key # None => worker[w].key \in files' \ (old' \cup doomed')

\* The removers that move do so with good reason, for an object that is there.
RemoversRest ==
    \A d \in Removers :
        /\ remover'[d] = remover[d] \/ Removal(d)'
        /\ \/ remover'[d].key \in {remover[d].key, None}
           \/ object[remover'[d].key] # NoObject

LEMMA Frame ==
    ASSUME MediaAssumption, IInv, SameHolders, Lower(object'), Kept(object'),
           WorkersRest, KeysKept, RemoversRest, doomed' \subseteq doomed,
           \A k \in files \ files' : object[k].ref = 0
    PROVE  Others'
<1>1. \A w \in Workers : worker'[w].key # None => object'[worker[w].key] = NoObject
  <2>1. \A w \in Workers : worker'[w].key # None => worker[w].key # None
    BY DEF WorkersRest
  <2>2. \A w \in Workers : worker[w].key # None =>
           worker[w].key \in Keys /\ object[worker[w].key] = NoObject
    BY DEF IInv, Hold, TypeOK
  <2>3. QED
    BY <2>1, <2>2 DEF Lower
<1>2. (\A w \in Workers : Hold(w))'
  BY <1>1, HoldsKept DEF WorkersRest, KeysKept, RemoversRest
<1>3. (\A d \in Removers : Removal(d))'
  BY RemovalsLowered, RemovalsKept DEF RemoversRest
<1>4. Doomed'
  BY DoomedKept
<1>5. ReferencesCounted' /\ AvailableIsServed'
  BY LibraryKept
<1>6. QED
  BY <1>2, <1>3, <1>4, <1>5 DEF Others

LEMMA Steady ==
    ASSUME MediaAssumption, IInv, SameHolders, Lower(object'), Kept(object'),
           WorkersRest, RemoversRest, UNCHANGED <<files, old, doomed>>
    PROVE  Others'
<1>1. KeysKept
  BY DEF KeysKept, WorkersRest, IInv, Hold
<1>2. QED
  BY <1>1, Frame

\* A worker, or a remover, that moves; the other goroutines do not.
LEMMA OneWorker ==
    ASSUME IInv, NEW w \in Workers, remover' = remover,
           NEW pc \in WorkerPCs \ {"stored"}, NEW a \in Assets \cup {None},
           pc # "idle" => a \in Assets,
           \/ worker' = [worker EXCEPT ![w] = [pc |-> pc, asset |-> a, key |-> None]]
           \/ /\ worker' = [worker EXCEPT ![w].pc = pc]
              /\ worker[w].key = None /\ worker[w].asset = a
           \/ /\ worker' = [worker EXCEPT ![w].pc = pc, ![w].key = None]
              /\ worker[w].asset = a
    PROVE  WorkersRest /\ RemoversRest
<1>1. worker'[w].pc = pc /\ worker'[w].asset = a /\ worker'[w].key = None
  BY DEF IInv, TypeOK
<1>2. \A v \in Workers \ {w} : worker'[v] = worker[v]
  BY DEF IInv, TypeOK
<1>3. QED
  BY <1>1, <1>2 DEF WorkersRest, RemoversRest

LEMMA OneRemover ==
    ASSUME IInv, NEW d \in Removers, worker' = worker,
           NEW pc \in RemoverPCs, NEW a \in Assets \cup {None}, NEW k \in Keys \cup {None},
           pc # "idle" => a \in Assets,
           pc \in {"preparing", "rereading", "removing"} => k # None,
           pc = "removing" => object'[k].ref = 0,
           k \in {remover[d].key, None} \/ object[k] # NoObject,
           \/ remover' = [remover EXCEPT ![d] = [pc |-> pc, asset |-> a, key |-> k]]
           \/ /\ remover' = [remover EXCEPT ![d].pc = pc]
              /\ remover[d].asset = a /\ remover[d].key = k
           \/ /\ remover' = [remover EXCEPT ![d].pc = pc, ![d].key = k]
              /\ remover[d].asset = a
    PROVE  WorkersRest /\ RemoversRest
<1>1. remover'[d].pc = pc /\ remover'[d].asset = a /\ remover'[d].key = k
  BY DEF IInv, TypeOK
<1>2. \A v \in Removers \ {d} : remover'[v] = remover[v]
  BY DEF IInv, TypeOK
<1>3. Removal(d)'
  BY <1>1 DEF Removal
<1>4. QED
  BY <1>1, <1>2, <1>3 DEF WorkersRest, RemoversRest

-----------------------------------------------------------------------------
(* The steps keep what they must. *)

LEMMA OthersByClaim ==
    ASSUME MediaAssumption, IInv,
           \/ EnsureTaskResultMedia
           \/ \E w \in Workers, a \in Assets :
                 ClaimMediaMaterializationJob(w, a) \/ ClaimMediaAssetMaterialization(w, a)
    PROVE  Others'
<1>1. \A a \in Assets :
         \/ Ensured[a] = asset[a]
         \/ asset[a].status # "available" /\ Ensured[a].status = "pending"
  BY DEF Ensured
<1>2. CASE EnsureTaskResultMedia
  <2>1. SameHolders
    BY <1>1, <1>2 DEF EnsureTaskResultMedia, SameHolders
  <2>2. WorkersRest /\ RemoversRest
    BY <1>2 DEF EnsureTaskResultMedia, WorkersRest, RemoversRest
  <2>3. UNCHANGED <<object, files, old, doomed>>
    BY <1>2 DEF EnsureTaskResultMedia
  <2>4. QED
    BY <2>1, <2>2, <2>3, Unchanged, Steady
<1>3. ASSUME NEW w \in Workers, NEW a \in Assets, ClaimMediaMaterializationJob(w, a)
      PROVE  Others'
  <2>1. UNCHANGED <<asset, object, files, old, doomed, remover>>
    BY <1>3 DEF ClaimMediaMaterializationJob
  <2>2. worker' = [worker EXCEPT ![w] = [pc |-> "claimed", asset |-> a, key |-> None]]
    BY <1>3 DEF ClaimMediaMaterializationJob
  <2>3. WorkersRest /\ RemoversRest
    BY <2>1, <2>2, OneWorker DEF WorkerPCs
  <2>4. QED
    BY <2>1, <2>3, Unchanged, Steady DEF SameHolders
<1>4. ASSUME NEW w \in Workers, NEW a \in Assets, ClaimMediaAssetMaterialization(w, a)
      PROVE  Others'
  <2>1. UNCHANGED <<object, files, old, doomed, remover>>
    BY <1>4 DEF ClaimMediaAssetMaterialization
  <2>2. worker' = [worker EXCEPT ![w] = [pc |-> "fetching", asset |-> a, key |-> None]]
    BY <1>4 DEF ClaimMediaAssetMaterialization
  <2>3. WorkersRest /\ RemoversRest
    BY <2>1, <2>2, OneWorker DEF WorkerPCs
  <2>4. SameHolders
    <3>1. asset' = [Ensured EXCEPT ![a].status = "materializing"]
          /\ Ensured[a].status \in {"pending", "materializing", "failed"}
      BY <1>4 DEF ClaimMediaAssetMaterialization
    <3>2. /\ asset'[a].status = "materializing"
          /\ \A b \in Assets \ {a} : asset'[b] = Ensured[b]
      BY <3>1, EnsuredShaped DEF Row, IInv
    <3>3. asset[a].status # "available"
      BY <1>1, <3>1
    <3>4. QED
      BY <1>1, <3>2, <3>3 DEF SameHolders
  <2>5. QED
    BY <2>1, <2>3, <2>4, Unchanged, Steady
<1>5. QED
  BY <1>2, <1>3, <1>4

\* A worker's new key is one that nothing mentions.
LEMMA OthersByMaterialize ==
    ASSUME MediaAssumption, IInv, NEW w \in Workers, Materialize(w)
    PROVE  Others'
<1>1. UNCHANGED <<asset, object, old, remover, doomed>>
  BY DEF Materialize, media
<1>2. worker[w].asset \in Assets /\ worker[w].key = None /\ worker[w].pc = "fetching"
  BY DEF Materialize, IInv, Hold
<1>3. CASE worker' = [worker EXCEPT ![w].pc = "failing"] /\ files' = files
  <2>1. WorkersRest /\ RemoversRest
    BY <1>1, <1>2, <1>3, OneWorker DEF WorkerPCs
  <2>2. QED
    BY <1>1, <1>3, <2>1, Unchanged, Steady DEF SameHolders
<1>4. ASSUME NEW k \in Keys, Fresh(k), files' = files \cup {k},
             worker' = [worker EXCEPT ![w].pc = "stored", ![w].key = k]
      PROVE  Others'
  <2>1. /\ worker'[w].pc = "stored" /\ worker'[w].key = k /\ worker'[w].asset = worker[w].asset
        /\ \A v \in Workers \ {w} : worker'[v] = worker[v]
    BY <1>4 DEF IInv, TypeOK
  <2>2. k # None /\ k \notin old
    BY <1>4 DEF MediaAssumption, Fresh, IInv, TypeOK
  <2>3. Hold(w)'
    <3>1. worker'[w].key = k /\ worker'[w].pc = "stored" /\ worker'[w].asset \in Assets
      BY <1>2, <2>1
    <3>2. object'[k] = NoObject /\ k \in files' \ (old' \cup doomed')
      BY <1>1, <1>4, <2>2 DEF Fresh
    <3>3. \A v \in Workers \ {w} : worker'[v].key # k
      BY <1>4, <2>1 DEF Fresh
    <3>4. \A d \in Removers : remover'[d].key # k
      BY <1>1, <1>4 DEF Fresh
    <3>5. QED
      BY <2>2, <3>1, <3>2, <3>3, <3>4 DEF Hold
  <2>4. ASSUME NEW v \in Workers \ {w} PROVE Hold(v)'
    <3>1. Hold(v)
      BY DEF IInv
    <3>2. worker[v].key # k
      BY <1>4 DEF Fresh
    <3>3. /\ worker'[v] = worker[v]
          /\ \A u \in Workers \ {v} : worker[u].key = worker'[u].key \/ worker'[u].key = k
      BY <2>1
    <3>4. ASSUME worker'[v].key # None
          PROVE  /\ object'[worker'[v].key] = NoObject
                 /\ worker'[v].key \in files' \ (old' \cup doomed')
                 /\ \A u \in Workers \ {v} : worker'[u].key # worker'[v].key
                 /\ \A d \in Removers : remover'[d].key # worker'[v].key
      <4>1. worker'[v].key = worker[v].key /\ worker[v].key # None
        BY <3>3, <3>4
      <4>2. object'[worker[v].key] = NoObject /\ worker[v].key \in files' \ (old' \cup doomed')
        BY <1>1, <1>4, <3>1, <4>1 DEF Hold
      <4>3. \A u \in Workers \ {v} : worker'[u].key # worker[v].key
        BY <3>1, <3>2, <3>3, <4>1 DEF Hold
      <4>4. \A d \in Removers : remover'[d].key # worker[v].key
        BY <1>1, <3>1, <4>1 DEF Hold
      <4>5. QED
        BY <4>1, <4>2, <4>3, <4>4
    <3>5. QED
      BY <3>1, <3>3, <3>4 DEF Hold
  <2>5. (\A v \in Workers : Hold(v))'
    BY <2>3, <2>4
  <2>6. (\A d \in Removers : Removal(d))'
    BY <1>1 DEF IInv, Removal
  <2>7. Doomed'
    BY <1>1 DEF IInv, Doomed
  <2>8. ReferencesCounted' /\ AvailableIsServed'
    BY <1>1, <1>4, Unchanged, LibraryKept DEF SameHolders
  <2>9. QED
    BY <2>5, <2>6, <2>7, <2>8 DEF Others
<1>5. QED
  BY <1>3, <1>4 DEF Materialize, Step

LEMMA OthersByCommit ==
    ASSUME MediaAssumption, IInv, NEW w \in Workers, CommitMediaMaterialization(w)
    PROVE  Others'
<1>0. PICK k \in Keys : worker[w].key = k
  BY DEF CommitMediaMaterialization, IInv, Hold, TypeOK
<1>1. /\ k # None /\ object[k] = NoObject /\ k \notin doomed
      /\ \A v \in Workers \ {w} : worker[v].key # k
      /\ \A d \in Removers : remover[d].key # k
  BY <1>0 DEF CommitMediaMaterialization, IInv, Hold
<1>2. /\ worker'[w].pc = "idle" /\ worker'[w].key = None
      /\ \A v \in Workers \ {w} : worker'[v] = worker[v]
      /\ \A j \in Keys \ {k} : object'[j] = object[j]
      /\ UNCHANGED <<files, old, remover, doomed>>
  BY <1>0 DEF CommitMediaMaterialization, Rest, Idle, IInv, TypeOK
<1>3. WorkersRest /\ RemoversRest
  BY <1>2 DEF WorkersRest, RemoversRest
<1>4. \A v \in Workers : worker'[v].key # None =>
         /\ object'[worker[v].key] = NoObject
         /\ worker[v].key \in files' \ (old' \cup doomed')
  <2> SUFFICES ASSUME NEW v \in Workers, worker'[v].key # None
               PROVE  /\ object'[worker[v].key] = NoObject
                      /\ worker[v].key \in files' \ (old' \cup doomed')
    OBVIOUS
  <2>1. v # w /\ worker[v].key # None /\ worker[v].key \in Keys \ {k}
    BY <1>1, <1>2 DEF IInv, TypeOK
  <2>2. QED
    BY <1>2, <2>1 DEF IInv, Hold
<1>5. (\A v \in Workers : Hold(v))'
  BY <1>3, <1>4, HoldsKept DEF WorkersRest, RemoversRest
<1>6. \A d \in Removers : remover[d].pc = "removing" => object'[remover[d].key].ref = 0
  BY <1>1, <1>2 DEF IInv, Removal, TypeOK
<1>7. (\A d \in Removers : Removal(d))'
  BY <1>2, <1>6 DEF IInv, Removal
<1>8. Doomed'
  BY <1>1, <1>2 DEF IInv, Doomed, TypeOK
<1>9. ReferencesCounted' /\ AvailableIsServed'
  BY LibraryCommitted
<1>10. QED
  BY <1>5, <1>7, <1>8, <1>9 DEF Others

LEMMA OthersByWorker ==
    ASSUME MediaAssumption, IInv, NEW w \in Workers, WorkerStep(w)
    PROVE  Others'
<1> DEFINE a == worker[w].asset
<1>1. CASE LoadClaimed(w)
  <2>1. UNCHANGED <<asset, object, files, old, remover, doomed>>
    BY <1>1 DEF LoadClaimed, media, store
  <2>2. a \in Assets /\ worker[w].key = None
    BY <1>1 DEF LoadClaimed, IInv, Hold
  <2>3. \E pc \in WorkerPCs \ {"stored"} : worker' = [worker EXCEPT ![w].pc = pc]
    BY <1>1 DEF LoadClaimed, Step, WorkerPCs
  <2>4. WorkersRest /\ RemoversRest
    BY <2>1, <2>2, <2>3, OneWorker
  <2>5. QED
    BY <2>1, <2>4, Unchanged, Steady DEF SameHolders
<1>2. CASE Materialize(w)
  BY <1>2, OthersByMaterialize
<1>3. CASE CommitMediaMaterialization(w)
  BY <1>3, OthersByCommit
<1>4. CASE DiscardUncommitted(w)
  <2>1. UNCHANGED <<asset, object, remover, doomed>> /\ old' = old \cap files'
    BY <1>4 DEF DiscardUncommitted, media
  <2>2. PICK k \in Keys : k = worker[w].key
    BY <1>4 DEF DiscardUncommitted, IInv, Hold, TypeOK
  <2>3. a \in Assets /\ object[k] = NoObject /\ \A v \in Workers \ {w} : worker[v].key # k
    BY <1>4, <2>2, MediaAssumption DEF DiscardUncommitted, IInv, Hold, MediaAssumption
  <2>4. files' = files \/ files' = files \ {k}
    BY <1>4, <2>2 DEF DiscardUncommitted
  <2>5. \E pc \in WorkerPCs \ {"stored", "idle"} :
           worker' = [worker EXCEPT ![w].pc = pc, ![w].key = None]
    BY <1>4 DEF DiscardUncommitted, WorkerPCs
  <2>6. WorkersRest /\ RemoversRest
    BY <2>1, <2>3, <2>5, OneWorker
  <2>7. worker'[w].key = None /\ \A v \in Workers \ {w} : worker'[v] = worker[v]
    BY <2>5 DEF IInv, TypeOK
  <2>8. KeysKept
    BY <2>1, <2>3, <2>4, <2>7 DEF KeysKept, IInv, Hold
  <2>9. \A j \in files \ files' : object[j].ref = 0
    BY <2>3, <2>4 DEF NoObject
  <2>10. QED
    BY <2>1, <2>6, <2>8, <2>9, Unchanged, Frame DEF SameHolders
<1>5. CASE CompleteJob(w) \/ FailJob(w) \/ FailWithAsset(w)
  <2>1. UNCHANGED <<object, files, old, remover, doomed>>
    BY <1>5 DEF CompleteJob, FailJob, FailWithAsset, store
  <2>2. worker' = [worker EXCEPT ![w] = [pc |-> "idle", asset |-> None, key |-> None]]
    BY <1>5 DEF CompleteJob, FailJob, FailWithAsset, Rest, Idle
  <2>3. WorkersRest /\ RemoversRest
    BY <2>1, <2>2, OneWorker DEF WorkerPCs
  <2>4. SameHolders
    <3>1. CASE asset' = asset
      BY <3>1 DEF SameHolders
    <3>2. CASE asset' # asset
      <4>1. FailWithAsset(w) /\ MayCommit(w, a) /\ asset' = [asset EXCEPT ![a].status = "failed"]
        BY <1>5, <3>2 DEF CompleteJob, FailJob, FailWithAsset
      <4>2. a \in Assets
        BY <4>1 DEF FailWithAsset, IInv, Hold
      <4>3. asset[a].status # "available"
        BY <4>1, <4>2, Leased
      <4>4. asset'[a].status = "failed" /\ \A b \in Assets \ {a} : asset'[b] = asset[b]
        BY <4>1, <4>2 DEF IInv, TypeOK, Row
      <4>5. QED
        BY <4>3, <4>4 DEF SameHolders
    <3>3. QED
      BY <3>1, <3>2
  <2>5. QED
    BY <2>1, <2>3, <2>4, Unchanged, Steady
<1>6. QED
  BY <1>1, <1>2, <1>3, <1>4, <1>5 DEF WorkerStep

\* A revocation of a readable asset, with its reference.
LEMMA OthersByRelease ==
    ASSUME MediaAssumption, IInv, NEW a \in Assets, asset[a].status \in Live,
           NEW s \in Revoked, asset' = [asset EXCEPT ![a].status = s],
           object' = ReleaseReference(a), UNCHANGED <<files, old, worker, remover, doomed>>
    PROVE  Others'
<1>1. Lower(object')
  BY Released
<1>2. WorkersRest /\ RemoversRest
  BY DEF WorkersRest, RemoversRest
<1>3. \A w \in Workers : worker'[w].key # None =>
         /\ object'[worker[w].key] = NoObject
         /\ worker[w].key \in files' \ (old' \cup doomed')
  <2>1. \A w \in Workers : worker[w].key # None =>
           worker[w].key \in Keys /\ object[worker[w].key] = NoObject
    BY DEF IInv, Hold, TypeOK
  <2>2. QED
    BY <1>1, <2>1 DEF Lower, IInv, Hold
<1>4. (\A w \in Workers : Hold(w))'
  BY <1>2, <1>3, HoldsKept DEF WorkersRest, RemoversRest
<1>5. (\A d \in Removers : Removal(d))'
  BY <1>1, <1>2, RemovalsLowered, RemovalsKept DEF RemoversRest
<1>6. Doomed'
  BY <1>1, DoomedKept
<1>7. ReferencesCounted' /\ AvailableIsServed'
  BY LibraryRevoked
<1>8. QED
  BY <1>4, <1>5, <1>6, <1>7 DEF Others

LEMMA OthersByRevocation ==
    ASSUME MediaAssumption, IInv, NEW a \in Assets,
           RetryMaterialization(a) \/ RequestPurge(a) \/ Expire(a)
           \/ RetryDeletion(a) \/ LeaseExpires(a)
    PROVE  Others'
<1>1. UNCHANGED <<files, old, worker, remover, doomed>>
  BY DEF RetryMaterialization, RequestPurge, Expire, RetryDeletion, LeaseExpires, store, actors
<1>2. WorkersRest /\ RemoversRest
  BY <1>1 DEF WorkersRest, RemoversRest
<1>3. ASSUME NEW s, s # "available", asset[a].status # "available", asset' = [asset EXCEPT ![a].status = s]
      PROVE  SameHolders
  <2>1. asset'[a].status = s /\ \A b \in Assets \ {a} : asset'[b] = asset[b]
    BY <1>3 DEF IInv, TypeOK, Row
  <2>2. QED
    BY <1>3, <2>1 DEF SameHolders
<1>4. CASE RetryMaterialization(a)
  <2>1. SameHolders
    BY <1>3, <1>4 DEF RetryMaterialization
  <2>2. object' = object
    BY <1>4 DEF RetryMaterialization
  <2>3. QED
    BY <1>1, <1>2, <2>1, <2>2, Unchanged, Steady
<1>5. CASE RequestPurge(a)
  <2>1. CASE asset[a].status = "deleted"
    <3>1. asset' = PurgedRow(asset, a) /\ object' = PurgedObject(asset, object, a)
      BY <1>5, <2>1 DEF RequestPurge, Live
    <3>2. SameHolders
      <4>1. asset'[a].status = "purged" /\ \A b \in Assets \ {a} : asset'[b] = asset[b]
        BY <3>1 DEF PurgedRow, IInv, TypeOK
      <4>2. QED
        BY <2>1, <4>1 DEF SameHolders
    <3>3. object \in [Keys -> Object] /\ asset[a].status # "available"
      BY <2>1 DEF IInv, TypeOK
    <3>4. Lower(object') /\ Kept(object')
      BY <3>1, <3>3, Unchanged, PurgedKept
    <3>5. QED
      BY <1>1, <1>2, <3>2, <3>4, Steady
  <2>2. CASE asset[a].status \in Live
    <3>1. asset' = [asset EXCEPT ![a].status = "delete_requested"] /\ object' = ReleaseReference(a)
      BY <1>5, <2>2 DEF RequestPurge, Live, Revoked
    <3>2. QED
      BY <1>1, <2>2, <3>1, OthersByRelease DEF Revoked
  <2>3. CASE asset[a].status \in Revoked \ {"deleted"}
    <3>1. UNCHANGED <<asset, object>>
      BY <1>5, <2>3 DEF RequestPurge, Live, Revoked
    <3>2. QED
      BY <1>1, <1>2, <3>1, Unchanged, Steady DEF SameHolders
  <2>4. QED
    BY <1>5, <2>1, <2>2, <2>3 DEF RequestPurge
<1>6. CASE Expire(a)
  BY <1>1, <1>6, OthersByRelease DEF Expire, Revoked
<1>7. CASE RetryDeletion(a)
  <2>1. SameHolders
    BY <1>3, <1>7 DEF RetryDeletion
  <2>2. Lower(object') /\ Kept(object')
    <3> DEFINE k == asset[a].obj
    <3>1. CASE k # None /\ object[k].state # "none" /\ object[k].ref = 0
      <4>1. k \in Keys
        BY <3>1 DEF IInv, TypeOK, Row
      <4>2. object' = [object EXCEPT ![k].state = "delete_pending"]
        BY <1>7, <3>1 DEF RetryDeletion
      <4>3. "delete_pending" \in ObjectStates \ {"ready"}
        BY DEF ObjectStates
      <4>4. Lower([object EXCEPT ![k].state = "delete_pending"])
            /\ Kept([object EXCEPT ![k].state = "delete_pending"])
        BY <3>1, <4>1, <4>3, MoveUnused
      <4>5. QED
        BY <4>2, <4>4
    <3>2. CASE ~(k # None /\ object[k].state # "none" /\ object[k].ref = 0)
      <4>1. object' = object
        BY <1>7, <3>2 DEF RetryDeletion
      <4>2. QED
        BY <4>1, Unchanged
    <3>3. QED
      BY <3>1, <3>2
  <2>3. QED
    BY <1>1, <1>2, <2>1, <2>2, Steady
<1>8. CASE LeaseExpires(a)
  <2>1. UNCHANGED <<asset, object>>
    BY <1>8 DEF LeaseExpires
  <2>2. QED
    BY <1>1, <1>2, <2>1, Unchanged, Steady DEF SameHolders
<1>9. QED
  BY <1>4, <1>5, <1>6, <1>7, <1>8

LEMMA OthersByRemover ==
    ASSUME MediaAssumption, IInv, NEW d \in Removers,
           RemoverStep(d) \/ \E a \in Assets : ClaimMediaDeletionJob(d, a)
    PROVE  Others'
<1> DEFINE a == remover[d].asset
           k == remover[d].key
<1>0. k \in Keys \cup {None}
  BY DEF IInv, TypeOK
<1>1. ASSUME NEW b \in Assets, ClaimMediaDeletionJob(d, b) PROVE Others'
  <2>1. UNCHANGED <<asset, object, files, old, worker, doomed>>
    BY <1>1 DEF ClaimMediaDeletionJob, store
  <2>2. remover' = [remover EXCEPT ![d] = [pc |-> "claimed", asset |-> b, key |-> None]]
    BY <1>1 DEF ClaimMediaDeletionJob
  <2>3. WorkersRest /\ RemoversRest
    BY <2>1, <2>2, OneRemover DEF RemoverPCs
  <2>4. QED
    BY <2>1, <2>3, Unchanged, Steady DEF SameHolders
<1>2. CASE LoadRevoked(d)
  <2>1. UNCHANGED <<asset, object, files, old, worker, doomed>>
    BY <1>2 DEF LoadRevoked, media, store
  <2>2. a \in Assets /\ asset[a].obj \in Keys \cup {None}
    BY <1>2 DEF LoadRevoked, IInv, Removal, TypeOK, Row
  <2>3. CASE remover' = [remover EXCEPT ![d].pc = "completing"]
             \/ remover' = [remover EXCEPT ![d].pc = "failing"]
    <3>1. PICK pc \in {"completing", "failing"} : remover' = [remover EXCEPT ![d].pc = pc]
      BY <2>3
    <3>2. pc \in RemoverPCs /\ pc \notin {"idle", "preparing", "rereading", "removing"}
      BY DEF RemoverPCs
    <3>3. WorkersRest /\ RemoversRest
      BY <1>0, <2>1, <2>2, <3>1, <3>2, OneRemover
    <3>4. QED
      BY <2>1, <3>3, Unchanged, Steady DEF SameHolders
  <2>4. CASE /\ asset[a].obj # None /\ ~Settled(asset[a].obj)
             /\ remover' = [remover EXCEPT ![d].pc = "preparing", ![d].key = asset[a].obj]
    <3> DEFINE j == asset[a].obj
    <3>1. object[j] # NoObject /\ j # None /\ j \in Keys
      BY <2>2, <2>4 DEF Settled, NoObject
    <3>2. "preparing" \in RemoverPCs
      BY DEF RemoverPCs
    <3>3. remover' = [remover EXCEPT ![d].pc = "preparing", ![d].key = j]
      BY <2>4
    <3> HIDE DEF j
    <3>4. WorkersRest /\ RemoversRest
      BY <2>1, <2>2, <3>1, <3>2, <3>3, OneRemover
    <3>5. QED
      BY <2>1, <3>4, Unchanged, Steady DEF SameHolders
  <2>5. QED
    BY <1>2, <2>3, <2>4 DEF LoadRevoked, Move
<1>3. CASE PrepareMediaObjectDeletion(d)
  <2>1. UNCHANGED <<asset, files, old, worker, doomed>>
    BY <1>3 DEF PrepareMediaObjectDeletion, store
  <2>2. a \in Assets /\ k \in Keys
    BY <1>0, <1>3 DEF PrepareMediaObjectDeletion, IInv, Removal
  <2>3. CASE /\ object[k].ref = 0 /\ object[k].state \in {"delete_pending", "delete_failed", "deleting"}
             /\ object' = [object EXCEPT ![k].state = "deleting"]
             /\ remover' = [remover EXCEPT ![d].pc = "removing"]
    <3>1. "deleting" \in ObjectStates \ {"ready"}
      BY DEF ObjectStates
    <3>2. Lower([object EXCEPT ![k].state = "deleting"]) /\ Kept([object EXCEPT ![k].state = "deleting"])
      BY <2>2, <2>3, <3>1, MoveUnused
    <3>3. Lower(object') /\ Kept(object')
      BY <2>3, <3>2
    <3>4. object'[k].ref = 0
      BY <2>2, <2>3, <3>3 DEF Lower
    <3>5. WorkersRest /\ RemoversRest
      BY <2>1, <2>2, <2>3, <3>4, OneRemover DEF RemoverPCs
    <3>6. QED
      BY <2>1, <3>3, <3>5, Steady DEF SameHolders
  <2>4. CASE /\ object' = object
             /\ \/ remover' = [remover EXCEPT ![d].pc = "rereading"]
                \/ remover' = [remover EXCEPT ![d].pc = "failing"]
    <3>1. k # None
      BY <2>2 DEF MediaAssumption
    <3>2. WorkersRest /\ RemoversRest
      BY <2>1, <2>2, <2>4, <3>1, OneRemover DEF RemoverPCs
    <3>3. QED
      BY <2>1, <2>4, <3>2, Unchanged, Steady DEF SameHolders
  <2>5. QED
    BY <1>3, <2>3, <2>4 DEF PrepareMediaObjectDeletion, Move
<1>4. CASE RereadObject(d)
  <2>1. UNCHANGED <<asset, object, files, old, worker, doomed>>
    BY <1>4 DEF RereadObject, media, store
  <2>2. a \in Assets /\ k \in Keys /\ k # None
    BY <1>0, <1>4 DEF RereadObject, IInv, Removal
  <2>3. CASE remover' = [remover EXCEPT ![d].pc = "completing"]
             \/ remover' = [remover EXCEPT ![d].pc = "failing"]
    <3>1. PICK pc \in {"completing", "failing"} : remover' = [remover EXCEPT ![d].pc = pc]
      BY <2>3
    <3>2. pc \in RemoverPCs /\ pc \notin {"idle", "preparing", "rereading", "removing"}
      BY DEF RemoverPCs
    <3>3. WorkersRest /\ RemoversRest
      BY <2>1, <2>2, <3>1, <3>2, OneRemover
    <3>4. QED
      BY <2>1, <3>3, Unchanged, Steady DEF SameHolders
  <2>4. CASE ~Settled(k) /\ remover' = [remover EXCEPT ![d].pc = "removing"]
    <3>1. object'[k].ref = 0
      BY <2>1, <2>2, <2>4, InUse DEF Settled
    <3>2. WorkersRest /\ RemoversRest
      BY <2>1, <2>2, <2>4, <3>1, OneRemover DEF RemoverPCs
    <3>3. QED
      BY <2>1, <3>2, Unchanged, Steady DEF SameHolders
  <2>5. QED
    BY <1>4, <2>3, <2>4 DEF RereadObject, Move
<1>5. CASE RemoveFile(d)
  <2>1. UNCHANGED <<asset, object, worker, doomed>> /\ old' = old \cap files'
    BY <1>5 DEF RemoveFile, media
  <2>2. /\ a \in Assets /\ k \in Keys /\ object[k].ref = 0
        /\ \A w \in Workers : worker[w].key # k
    BY <1>0, <1>5, MediaAssumption DEF RemoveFile, IInv, Removal, Hold, MediaAssumption
  <2>3. files' = files \/ files' = files \ {k}
    BY <1>5 DEF RemoveFile
  <2>4. remover' = [remover EXCEPT ![d].pc = "completing"]
        \/ remover' = [remover EXCEPT ![d].pc = "failing"]
    BY <1>5 DEF RemoveFile, Move
  <2>5. WorkersRest /\ RemoversRest
    BY <2>1, <2>2, <2>4, OneRemover DEF RemoverPCs
  <2>6. KeysKept
    BY <2>1, <2>2, <2>3 DEF KeysKept, IInv, Hold
  <2>7. \A j \in files \ files' : object[j].ref = 0
    BY <2>2, <2>3
  <2>8. QED
    BY <2>1, <2>5, <2>6, <2>7, Unchanged, Frame DEF SameHolders
<1>6. CASE CompleteDeletion(d) \/ FailDeletion(d)
  <2>1. UNCHANGED <<files, old, worker, doomed>>
    BY <1>6 DEF CompleteDeletion, FailDeletion, store
  <2>2. a \in Assets
    BY <1>6 DEF CompleteDeletion, FailDeletion, IInv, Removal
  <2>3. remover' = [remover EXCEPT ![d] = [pc |-> "idle", asset |-> None, key |-> None]]
    BY <1>6 DEF CompleteDeletion, FailDeletion, Idle
  <2>4. WorkersRest /\ RemoversRest
    BY <2>1, <2>3, OneRemover DEF RemoverPCs
  <2>5. CASE UNCHANGED <<asset, object>>
    BY <2>1, <2>4, <2>5, Unchanged, Steady DEF SameHolders
  <2>6. CASE Fenced(deleteJob[a].job, d)
    <3>1. asset[a].status # "available"
      BY <2>2, <2>6 DEF IInv, Jobs, Fenced, Revoked
    <3>2. SameHolders
      <4>1. \A b \in Assets \ {a} : asset'[b] = asset[b]
        BY <1>6, <2>2, <2>6 DEF CompleteDeletion, FailDeletion, PurgedRow, IInv, TypeOK
      <4>2. asset'[a].status # "available"
        <5>1. asset \in [Assets -> Row]
          BY DEF IInv, TypeOK
        <5>2. \/ \E rows \in {asset, [asset EXCEPT ![a].status = "deleted"]} :
                    asset' = [rows EXCEPT ![a] = [status |-> "purged", obj |-> None]]
              \/ asset' = [asset EXCEPT ![a].status = "deleted"]
              \/ asset' = [asset EXCEPT ![a].status = asset[a].status]
              \/ asset' = [asset EXCEPT ![a].status = "delete_failed"]
          BY <1>6, <2>6 DEF CompleteDeletion, FailDeletion, PurgedRow
        <5>3. asset[a] \in Row
          BY <2>2, <5>1
        <5>4. QED
          BY <2>2, <3>1, <5>1, <5>2, <5>3 DEF Row
      <4>3. QED
        BY <3>1, <4>1, <4>2 DEF SameHolders
    <3>3. Lower(object') /\ Kept(object')
      <4>1. CASE CompleteDeletion(d)
        <5> DEFINE rows == [asset EXCEPT ![a].status = "deleted"]
        <5>1. Lower(DeletedObject(a)) /\ Kept(DeletedObject(a))
          BY <2>2, DeletedKept
        <5>2. DeletedObject(a) \in [Keys -> Object]
          BY <2>2, DeletedShaped DEF IInv
        <5>3. \A b \in Assets : rows[b].obj = asset[b].obj
          BY <2>2 DEF IInv, TypeOK, Row
        <5>4. /\ Lower(PurgedObject(rows, DeletedObject(a), a))
              /\ Kept(PurgedObject(rows, DeletedObject(a), a))
          BY <2>2, <3>1, <5>1, <5>2, <5>3, PurgedKept
        <5>5. object' = DeletedObject(a) \/ object' = PurgedObject(rows, DeletedObject(a), a)
          BY <2>6, <4>1 DEF CompleteDeletion
        <5>6. QED
          BY <5>1, <5>4, <5>5
      <4>2. CASE FailDeletion(d)
        <5> DEFINE j == asset[a].obj
        <5>1. CASE object' = object
          BY <5>1, Unchanged
        <5>2. CASE object' # object
          <6>1. /\ object' = [object EXCEPT ![j].state = "delete_failed"]
                /\ j # None /\ object[j].state # "none" /\ object[j].ref = 0
            BY <4>2, <5>2 DEF FailDeletion
          <6>2. j \in Keys
            BY <2>2, <6>1 DEF IInv, TypeOK, Row
          <6>3. "delete_failed" \in ObjectStates \ {"ready"}
            BY DEF ObjectStates
          <6>4. Lower([object EXCEPT ![j].state = "delete_failed"])
                /\ Kept([object EXCEPT ![j].state = "delete_failed"])
            BY <6>1, <6>2, <6>3, MoveUnused
          <6>5. QED
            BY <6>1, <6>4
        <5>3. QED
          BY <5>1, <5>2
      <4>3. QED
        BY <1>6, <4>1, <4>2
    <3>4. QED
      BY <2>1, <2>4, <3>2, <3>3, Steady
  <2>7. QED
    BY <1>6, <2>5, <2>6 DEF CompleteDeletion, FailDeletion
<1>7. QED
  BY <1>1, <1>2, <1>3, <1>4, <1>5, <1>6 DEF RemoverStep

\* The reconciler is after old files that no object in use has.
LEMMA OthersByReconciler ==
    ASSUME MediaAssumption, IInv,
           \/ ScanFiles \/ Crash
           \/ \E k \in Keys : Age(k) \/ RemoveOrphan(k)
    PROVE  Others'
<1>1. UNCHANGED <<asset, object>>
  BY DEF ScanFiles, Crash, Age, RemoveOrphan, media
<1>2. SameHolders /\ Lower(object') /\ Kept(object')
  BY <1>1, Unchanged DEF SameHolders
<1>3. CASE ScanFiles
  <2>1. UNCHANGED <<files, old, worker, remover>> /\ doomed' = (files \cap old) \ Known
    BY <1>3 DEF ScanFiles, store
  <2>2. (\A w \in Workers : Hold(w))'
    BY <1>1, <2>1 DEF IInv, Hold
  <2>3. (\A d \in Removers : Removal(d))'
    BY <1>1, <2>1 DEF IInv, Removal
  <2>4. Doomed'
    BY <1>1, <2>1 DEF Doomed, Known, IInv, TypeOK
  <2>5. ReferencesCounted' /\ AvailableIsServed'
    BY <1>2, <2>1, LibraryKept
  <2>6. QED
    BY <2>2, <2>3, <2>4, <2>5 DEF Others
<1>4. CASE Crash
  <2>1. UNCHANGED <<files, old>> /\ doomed' = {}
    BY <1>4 DEF Crash, store
  <2>2. /\ \A w \in Workers : worker'[w].pc = "idle" /\ worker'[w].key = None
        /\ \A d \in Removers : remover'[d].pc = "idle" /\ remover'[d].key = None
    BY <1>4 DEF Crash, Idle
  <2>3. WorkersRest /\ RemoversRest /\ KeysKept
    BY <2>2 DEF WorkersRest, RemoversRest, KeysKept, Removal
  <2>4. QED
    BY <1>2, <2>1, <2>3, Frame
<1>5. ASSUME NEW k \in Keys, Age(k) PROVE Others'
  <2>1. UNCHANGED <<files, worker, remover, doomed>> /\ old' = old \cup {k}
    BY <1>5 DEF Age, actors
  <2>2. WorkersRest /\ RemoversRest
    BY <2>1 DEF WorkersRest, RemoversRest
  <2>3. KeysKept
    BY <1>5, <2>1 DEF Age, KeysKept, IInv, Hold
  <2>4. QED
    BY <1>2, <2>1, <2>2, <2>3, Frame
<1>6. ASSUME NEW k \in Keys, RemoveOrphan(k) PROVE Others'
  <2>1. /\ UNCHANGED <<worker, remover>> /\ k \in doomed /\ doomed' = doomed \ {k}
        /\ (files' = files \/ files' = files \ {k}) /\ old' = old \cap files'
    BY <1>6 DEF RemoveOrphan
  <2>2. WorkersRest /\ RemoversRest
    BY <2>1 DEF WorkersRest, RemoversRest
  <2>3. KeysKept
    BY <2>1 DEF KeysKept, IInv, Hold
  <2>4. object[k].ref = 0
    BY <2>1, InUse DEF IInv, Doomed
  <2>5. \A j \in files \ files' : object[j].ref = 0
    BY <2>1, <2>4
  <2>6. QED
    BY <1>2, <2>1, <2>2, <2>3, <2>5, Frame
<1>7. QED
  BY <1>3, <1>4, <1>5, <1>6

-----------------------------------------------------------------------------
(* The theorems. *)

LEMMA NextKeeps ==
    ASSUME MediaAssumption, IInv, [Next]_vars
    PROVE  IInv'
<1>1. CASE UNCHANGED vars
  <2>1. UNCHANGED <<asset, object, fetchJob, deleteJob, task, files, old, worker, remover, doomed, faults>>
    BY <1>1 DEF vars
  <2>2. TypeOK'
    BY <2>1 DEF IInv, TypeOK
  <2>3. Jobs' /\ Rows'
    BY <2>1 DEF IInv, Jobs, Rows
  <2>4. WorkersRest /\ RemoversRest
    BY <2>1 DEF WorkersRest, RemoversRest
  <2>5. Others'
    BY <2>1, <2>4, Unchanged, Steady DEF SameHolders
  <2>6. QED
    BY <2>2, <2>3, <2>5 DEF IInv, Others
<1>2. CASE Next
  <2>1. CASE \/ EnsureTaskResultMedia
             \/ \E w \in Workers, a \in Assets :
                   ClaimMediaMaterializationJob(w, a) \/ ClaimMediaAssetMaterialization(w, a)
    BY <2>1, TypesByEnsure, TypesByClaim, JobsByClaim, OthersByClaim DEF IInv, Others
  <2>2. CASE \E w \in Workers : WorkerStep(w)
    BY <2>2, TypesByWorker, JobsByWorker, OthersByWorker DEF IInv, Others
  <2>3. CASE \E a \in Assets : RetryMaterialization(a) \/ RequestPurge(a) \/ Expire(a)
                               \/ RetryDeletion(a) \/ LeaseExpires(a)
    BY <2>3, TypesByRevocation, JobsByRevocation, OthersByRevocation DEF IInv, Others
  <2>4. CASE \E d \in Removers : RemoverStep(d) \/ \E a \in Assets : ClaimMediaDeletionJob(d, a)
    BY <2>4, TypesByRemover, JobsByRemover, OthersByRemover DEF IInv, Others
  <2>5. CASE ScanFiles \/ Crash \/ \E k \in Keys : Age(k) \/ RemoveOrphan(k)
    <3>1. UNCHANGED <<asset, fetchJob, deleteJob, task>>
      BY <2>5 DEF ScanFiles, Crash, Age, RemoveOrphan, media
    <3>2. Jobs' /\ Rows'
      BY <3>1 DEF IInv, Jobs, Rows
    <3>3. QED
      BY <2>5, <3>2, TypesByOthers, OthersByReconciler DEF IInv, Others
  <2>6. QED
    BY <1>2, <2>1, <2>2, <2>3, <2>4, <2>5 DEF Next
<1>3. QED
  BY <1>1, <1>2

\* The statuses that no step leaves: a revoked asset's, and a purged one's.
Final == Revoked \cup {"purged"}
LEMMA FinalKept ==
    ASSUME MediaAssumption, IInv, Next, NEW a \in Assets, asset[a].status \in Final
    PROVE  asset'[a].status \in Final
<1>1. asset \in [Assets -> Row]
  BY DEF IInv, TypeOK
<1>2. CASE asset' = asset
  BY <1>2
<1>3. CASE EnsureTaskResultMedia
  BY <1>3 DEF EnsureTaskResultMedia, Ensured, Final, Revoked
<1>4. ASSUME NEW w \in Workers, NEW b \in Assets, ClaimMediaAssetMaterialization(w, b)
      PROVE  asset'[a].status \in Final
  <2>1. Ensured[a] = asset[a]
    BY DEF Ensured, Final, Revoked
  <2>2. a # b
    BY <1>4, <2>1 DEF ClaimMediaAssetMaterialization, Final, Revoked
  <2>3. asset'[a] = Ensured[a]
    BY <1>4, <2>2, EnsuredShaped DEF ClaimMediaAssetMaterialization, IInv
  <2>4. QED
    BY <2>1, <2>3
<1>5. ASSUME NEW w \in Workers, WorkerStep(w), asset' # asset
      PROVE  asset'[a].status \in Final
  <2>1. MayCommit(w, worker[w].asset) /\ \A b \in Assets \ {worker[w].asset} : asset'[b] = asset[b]
    BY <1>1, <1>5 DEF WorkerStep, LoadClaimed, Materialize, DiscardUncommitted, media, CompleteJob,
         FailJob, FailWithAsset, CommitMediaMaterialization
  <2>2. a # worker[w].asset
    BY <2>1 DEF MayCommit, Live, Final, Revoked
  <2>3. QED
    BY <2>1, <2>2
<1>6. ASSUME NEW b \in Assets, RetryMaterialization(b) PROVE asset'[a].status \in Final
  BY <1>1, <1>6 DEF RetryMaterialization, Final, Revoked
<1>7. ASSUME NEW b \in Assets, RequestPurge(b) \/ Expire(b) \/ RetryDeletion(b)
      PROVE  asset'[a].status \in Final
  <2>1. \A c \in Assets \ {b} : asset'[c] = asset[c]
    BY <1>1, <1>7 DEF RequestPurge, Expire, RetryDeletion, PurgedRow
  <2>2. asset'[b].status \in {asset[b].status} \cup Final
    <3>1. asset[b] \in Row /\ asset \in [Assets -> Row]
      BY <1>1
    <3>2. CASE asset' = PurgedRow(asset, b)
      <4>1. asset'[b] = [status |-> "purged", obj |-> None]
        BY <3>1, <3>2 DEF PurgedRow
      <4>2. QED
        BY <4>1 DEF Final
    <3>3. CASE \E s \in {"delete_requested", "expired"} : asset' = [asset EXCEPT ![b].status = s]
      <4>1. PICK s \in {"delete_requested", "expired"} : asset'[b] = [asset[b] EXCEPT !.status = s]
        BY <3>1, <3>3
      <4>2. asset'[b].status = s
        BY <3>1, <4>1 DEF Row
      <4>3. QED
        BY <4>2 DEF Final, Revoked
    <3>4. QED
      BY <1>7, <3>2, <3>3 DEF RequestPurge, Expire, RetryDeletion
  <2>3. QED
    BY <2>1, <2>2
<1>8. ASSUME NEW d \in Removers, RemoverStep(d), asset' # asset
      PROVE  asset'[a].status \in Final
  <2> DEFINE b == remover[d].asset
  <2>1. CompleteDeletion(d) \/ FailDeletion(d)
    BY <1>8 DEF RemoverStep, LoadRevoked, PrepareMediaObjectDeletion, RereadObject, RemoveFile, media
  <2>2. \A c \in Assets \ {b} : asset'[c] = asset[c]
    BY <1>1, <1>8, <2>1 DEF CompleteDeletion, FailDeletion, PurgedRow
  <2>3. b \in Assets => asset'[b].status \in Final
    <3>1. SUFFICES ASSUME b \in Assets PROVE asset'[b].status \in Final
      OBVIOUS
    <3>2. asset[b] \in Row
      BY <1>1, <3>1
    <3>3. \/ \E rows \in {asset, [asset EXCEPT ![b].status = "deleted"]} :
                asset' = [rows EXCEPT ![b] = [status |-> "purged", obj |-> None]]
          \/ asset' = [asset EXCEPT ![b].status = "deleted"]
          \/ asset' = [asset EXCEPT ![b].status = asset[b].status] /\ asset[b].status = "deleted"
          \/ asset' = [asset EXCEPT ![b].status = "delete_failed"]
      BY <1>8, <2>1 DEF CompleteDeletion, FailDeletion, PurgedRow
    <3> HIDE DEF b
    <3>4. asset'[b].status \in {"purged", "deleted", "delete_failed"}
      BY <1>1, <3>1, <3>2, <3>3 DEF Row
    <3>5. QED
      BY <3>4 DEF Final, Revoked
  <2>4. QED
    BY <2>2, <2>3
<1>9. asset' = asset
      \/ EnsureTaskResultMedia
      \/ (\E w \in Workers, b \in Assets : ClaimMediaAssetMaterialization(w, b))
      \/ (\E w \in Workers : WorkerStep(w))
      \/ (\E b \in Assets : RetryMaterialization(b) \/ RequestPurge(b) \/ Expire(b) \/ RetryDeletion(b))
      \/ (\E d \in Removers : RemoverStep(d))
  BY DEF Next, ClaimMediaMaterializationJob, LeaseExpires, ClaimMediaDeletionJob,
         ScanFiles, Age, RemoveOrphan, Crash, media
<1>10. QED
  BY <1>2, <1>3, <1>4, <1>5, <1>6, <1>7, <1>8, <1>9

\* The inductive invariant holds of every reachable state: what the leases, the
\* claims' own keys, the safety window and the counts keep together.
THEOREM InvariantHolds ==
    ASSUME MediaAssumption
    PROVE  Spec => []IInv
<1>1. Init => IInv
  BY InitEstablishes
<1>2. IInv /\ [Next]_vars => IInv'
  BY NextKeeps
<1>3. QED
  BY <1>1, <1>2, PTL DEF Spec

\* Rows, jobs, files and goroutines have their types, and only an asset that is
\* or was available names an object, for any library.
THEOREM TypesHold ==
    ASSUME MediaAssumption
    PROVE  Spec => []TypeOK
<1>1. IInv => TypeOK
  BY DEF IInv
<1>2. QED
  BY <1>1, InvariantHolds, PTL

\* An available asset can be served: no removal, scan, lost lease or crash takes
\* its object or its file from it.
THEOREM AvailableAssetsAreServed ==
    ASSUME MediaAssumption
    PROVE  Spec => []AvailableIsServed
<1>1. IInv => AvailableIsServed
  BY DEF IInv
<1>2. QED
  BY <1>1, InvariantHolds, PTL

\* ref_count counts the assets that can be read through an object, whichever
\* way they are revoked and however often.
THEOREM ReferencesAreCounted ==
    ASSUME MediaAssumption
    PROVE  Spec => []ReferencesCounted
<1>1. IInv => ReferencesCounted
  BY DEF IInv
<1>2. QED
  BY <1>1, InvariantHolds, PTL

\* No commit, failure or retry brings a revoked asset back.
THEOREM RevocationIsFinal ==
    ASSUME MediaAssumption
    PROVE  Spec => RevokedForGood
<1> DEFINE ForGood == \A a \in Assets : asset[a].status \in Revoked =>
                         asset'[a].status \in Revoked \cup {"purged"}
<1>1. IInv /\ [Next]_vars => [ForGood]_vars
  BY FinalKept DEF Final
<1>2. QED
  BY <1>1, InvariantHolds, PTL DEF Spec, RevokedForGood

\* The commit that makes the last asset available completes the task, and
\* nothing else does.
THEOREM TasksCompleteWithMedia ==
    ASSUME MediaAssumption
    PROVE  Spec => TaskCompletesWithMedia
<1> DEFINE WithMedia ==
      task # task' /\ task' = "completed" =>
          /\ \A a \in TaskAssets : asset'[a].status \in {"available", "purged"}
          /\ \E a \in TaskAssets : asset[a].status # "available" /\ asset'[a].status = "available"
<1>1. IInv /\ [Next]_vars => [WithMedia]_vars
  <2> SUFFICES ASSUME IInv, Next, task # task', task' = "completed"
               PROVE  /\ \A a \in TaskAssets : asset'[a].status \in {"available", "purged"}
                      /\ \E a \in TaskAssets :
                            asset[a].status # "available" /\ asset'[a].status = "available"
    OBVIOUS
  <2>1. PICK w \in Workers : CommitMediaMaterialization(w)
    BY DEF Next, WorkerStep, RemoverStep, EnsureTaskResultMedia, ClaimMediaMaterializationJob,
           ClaimMediaAssetMaterialization, LoadClaimed, Materialize, DiscardUncommitted, CompleteJob,
           FailJob, FailWithAsset, RetryMaterialization, RequestPurge, Expire, RetryDeletion, LeaseExpires,
           ClaimMediaDeletionJob, LoadRevoked, PrepareMediaObjectDeletion, RereadObject, RemoveFile,
           CompleteDeletion, FailDeletion, ScanFiles, Age, RemoveOrphan, Crash, media
  <2> DEFINE a == worker[w].asset
  <2>2. a \in Assets /\ MayCommit(w, a)
    BY <2>1 DEF CommitMediaMaterialization, IInv, Hold
  <2>3. a \in TaskAssets /\ asset[a].status # "available"
    BY <2>2, Leased
  <2>4. /\ asset' = [asset EXCEPT ![a] = [status |-> "available", obj |-> worker[w].key]]
        /\ task = "materializing" /\ Stored(asset')
    BY <2>1 DEF CommitMediaMaterialization
  <2>5. asset'[a].status = "available"
    BY <2>2, <2>4 DEF IInv, TypeOK
  <2>6. Rows'
    BY <2>1, JobsByWorker DEF WorkerStep
  <2>7. \A b \in TaskAssets : asset'[b].status \in {"available", "purged"}
    BY <2>4, <2>6 DEF Rows, Stored, Absent
  <2>8. QED
    BY <2>3, <2>5, <2>7
<1>2. QED
  BY <1>1, InvariantHolds, PTL DEF Spec, TaskCompletesWithMedia

-----------------------------------------------------------------------------
(* A purge follows the removal of the file, in a library where each object  *)
(* was stored for one asset.                                                *)

(* The invariant of the purge, with IInv. *)

Gone(a) == asset[a].obj = None \/ asset[a].obj \notin files

\* An object is named by one asset, and has a row as long as it is.
Names ==
    /\ \A a, b \in Assets : asset[a].obj # None /\ asset[a].obj = asset[b].obj => a = b
    /\ \A a \in Assets : asset[a].obj # None => object[asset[a].obj].state # "none"

\* What is deleted has no file.
DeletedGone ==
    /\ \A k \in Keys : object[k].state = "deleted" => k \notin files
    /\ \A a \in Assets : asset[a].status = "deleted" => Gone(a)

\* A remover works for a revoked asset, on its object, and completes when the
\* file is out of the store.
Bound(d) ==
    /\ remover[d].pc # "idle" => asset[remover[d].asset].status \in Final
    /\ remover[d].pc \in {"preparing", "rereading", "removing"} =>
          asset[remover[d].asset].obj \in {remover[d].key, None}
    /\ remover[d].pc = "completing" => Gone(remover[d].asset)

PInv == Names /\ DeletedGone /\ \A d \in Removers : Bound(d)

LEMMA InitPurge ==
    ASSUME MediaAssumption, Init, Shared = {}
    PROVE  PInv
<1>1. Names
  BY DEF Init, Names
<1>2. DeletedGone
  BY DEF Init, DeletedGone, NoObject
<1>3. \A d \in Removers : Bound(d)
  BY DEF Init, Bound, Idle
<1>4. QED
  BY <1>1, <1>2, <1>3 DEF PInv

\* A step that names no object and brings no file back.
LEMMA PurgeFrame ==
    ASSUME MediaAssumption, IInv, PInv, TypeOK',
           \A a \in Assets : asset'[a].obj \in {asset[a].obj, None},
           \A a \in Assets : asset'[a].obj # None => object'[asset'[a].obj].state # "none",
           \A k \in Keys : object'[k].state = "deleted" =>
              object[k].state = "deleted" \/ k \notin files',
           \A a \in Assets : asset'[a].status = "deleted" =>
              asset[a].status = "deleted" \/ Gone(a)',
           \A k \in files' \ files : object[k].state = "none",
           \A a \in Assets : asset[a].status \in Final => asset'[a].status \in Final,
           \A d \in Removers : remover'[d] = remover[d] \/ Bound(d)'
    PROVE  PInv'
<1>1. \A a \in Assets : asset[a].obj \in Keys \cup {None}
  BY DEF IInv, TypeOK, Row
<1>2. \A a \in Assets : Gone(a) => Gone(a)'
  <2> SUFFICES ASSUME NEW a \in Assets, Gone(a), asset'[a].obj # None
               PROVE  asset'[a].obj \notin files'
    BY DEF Gone
  <2>1. asset'[a].obj = asset[a].obj /\ asset[a].obj \notin files
    BY DEF Gone
  <2>2. object[asset[a].obj].state # "none"
    BY <2>1 DEF PInv, Names
  <2>3. QED
    BY <2>1, <2>2
<1>3. Names'
  BY DEF PInv, Names
<1>4. DeletedGone'
  <2>1. ASSUME NEW k \in Keys, object'[k].state = "deleted" PROVE k \notin files'
    <3>1. CASE object[k].state = "deleted"
      <4>1. k \notin files
        BY <3>1 DEF PInv, DeletedGone
      <4>2. QED
        BY <3>1, <4>1
    <3>2. QED
      BY <2>1, <3>1
  <2>2. \A a \in Assets : asset'[a].status = "deleted" => Gone(a)'
    BY <1>2 DEF PInv, DeletedGone
  <2>3. QED
    BY <2>1, <2>2 DEF DeletedGone
<1>5. ASSUME NEW d \in Removers PROVE Bound(d)'
  <2>1. CASE remover'[d] = remover[d]
    <3>1. Bound(d)
      BY DEF PInv
    <3>2. CASE remover[d].pc = "idle"
      BY <2>1, <3>2 DEF Bound
    <3>3. CASE remover[d].pc # "idle"
      <4>1. remover[d].asset \in Assets
        BY <3>3 DEF IInv, Removal
      <4>2. asset'[remover[d].asset].status \in Final
        BY <3>1, <3>3, <4>1 DEF Bound
      <4>3. remover[d].pc \in {"preparing", "rereading", "removing"} =>
               asset'[remover[d].asset].obj \in {remover[d].key, None}
        BY <3>1, <4>1 DEF Bound
      <4>4. remover[d].pc = "completing" =>
               asset'[remover[d].asset].obj = None \/ asset'[remover[d].asset].obj \notin files'
        BY <1>2, <3>1, <4>1 DEF Bound, Gone
      <4>5. QED
        BY <2>1, <4>2, <4>3, <4>4 DEF Bound, Gone
    <3>4. QED
      BY <3>2, <3>3
  <2>2. QED
    BY <2>1
<1>6. QED
  BY <1>3, <1>4, <1>5 DEF PInv

\* In particular one that leaves rows and objects alone, and another that only
\* revokes.
LEMMA PurgeSteady ==
    ASSUME MediaAssumption, IInv, PInv, IInv', Next,
           UNCHANGED object,
           \A a \in Assets : asset'[a].obj = asset[a].obj,
           \A a \in Assets : asset'[a].status = "deleted" => asset[a].status = "deleted",
           \A k \in files' \ files : object[k].state = "none",
           \A d \in Removers : remover'[d] = remover[d] \/ Bound(d)'
    PROVE  PInv'
<1>1. \A a \in Assets : asset'[a].obj # None => object'[asset'[a].obj].state # "none"
  BY DEF PInv, Names
<1>2. \A a \in Assets : asset[a].status \in Final => asset'[a].status \in Final
  BY FinalKept
<1>3. QED
  BY <1>1, <1>2, PurgeFrame DEF IInv

-----------------------------------------------------------------------------
(* The steps. *)

LEMMA PurgeByClaim ==
    ASSUME MediaAssumption, IInv, PInv, IInv', Next,
           \/ EnsureTaskResultMedia
           \/ \E w \in Workers, a \in Assets :
                 ClaimMediaMaterializationJob(w, a) \/ ClaimMediaAssetMaterialization(w, a)
    PROVE  PInv'
<1>1. UNCHANGED <<object, files, remover>>
  BY DEF EnsureTaskResultMedia, ClaimMediaMaterializationJob, ClaimMediaAssetMaterialization, store
<1>2. \A a \in Assets : /\ Ensured[a].obj = asset[a].obj
                        /\ Ensured[a].status = "deleted" => asset[a].status = "deleted"
  <2> SUFFICES ASSUME NEW a \in Assets
               PROVE  Ensured[a].obj = asset[a].obj
                      /\ (Ensured[a].status = "deleted" => asset[a].status = "deleted")
    OBVIOUS
  <2>1. CASE a \in TaskAssets /\ asset[a].status = "none"
    <3>1. asset[a].obj = None
      BY <2>1 DEF IInv, TypeOK, Revoked
    <3>2. Ensured[a] = [status |-> "pending", obj |-> None]
      BY <2>1 DEF Ensured
    <3>3. QED
      BY <3>1, <3>2
  <2>2. CASE ~(a \in TaskAssets /\ asset[a].status = "none")
    BY <2>2 DEF Ensured
  <2>3. QED
    BY <2>1, <2>2
<1>3. CASE EnsureTaskResultMedia
  BY <1>1, <1>2, <1>3, PurgeSteady DEF EnsureTaskResultMedia
<1>4. ASSUME NEW w \in Workers, NEW a \in Assets, ClaimMediaMaterializationJob(w, a)
      PROVE  PInv'
  BY <1>1, <1>4, PurgeSteady DEF ClaimMediaMaterializationJob
<1>5. ASSUME NEW w \in Workers, NEW a \in Assets, ClaimMediaAssetMaterialization(w, a)
      PROVE  PInv'
  <2>1. asset' = [Ensured EXCEPT ![a].status = "materializing"]
    BY <1>5 DEF ClaimMediaAssetMaterialization
  <2>2. /\ asset'[a].obj = Ensured[a].obj /\ asset'[a].status = "materializing"
        /\ \A b \in Assets \ {a} : asset'[b] = Ensured[b]
    BY <2>1, EnsuredShaped DEF IInv, Row
  <2>3. /\ \A b \in Assets : asset'[b].obj = asset[b].obj
        /\ \A b \in Assets : asset'[b].status = "deleted" => asset[b].status = "deleted"
    BY <1>2, <2>2
  <2>4. QED
    BY <1>1, <2>3, PurgeSteady
<1>6. QED
  BY <1>3, <1>4, <1>5

\* A commit names a key that nothing named.
LEMMA PurgeByCommit ==
    ASSUME MediaAssumption, IInv, PInv, IInv', Next,
           NEW w \in Workers, CommitMediaMaterialization(w)
    PROVE  PInv'
<1> DEFINE a == worker[w].asset
<1>1. PICK k \in Keys : worker[w].key = k
  BY DEF CommitMediaMaterialization, IInv, Hold, TypeOK
<1>2. a \in Assets /\ object[k].state = "none"
  BY <1>1, MediaAssumption DEF CommitMediaMaterialization, IInv, Hold, NoObject, MediaAssumption
<1>3. \A b \in Assets : asset[b].obj # k
  BY <1>2, MediaAssumption DEF PInv, Names, MediaAssumption
<1>4. /\ asset'[a].status = "available" /\ asset'[a].obj = k
      /\ \A b \in Assets \ {a} : asset'[b] = asset[b]
      /\ object'[k].state = "ready"
      /\ \A j \in Keys \ {k} : object'[j] = object[j]
      /\ UNCHANGED <<files, remover>>
  BY <1>1, <1>2 DEF CommitMediaMaterialization, IInv, TypeOK
<1>5. asset[a].status \notin Final
  BY DEF CommitMediaMaterialization, MayCommit, Live, Final, Revoked
<1>6. \A b \in Assets : asset[b].obj \in Keys \cup {None}
  BY DEF IInv, TypeOK, Row
<1>7. Names'
  <2>1. \A b \in Assets \ {a} : asset'[b].obj # None => object'[asset'[b].obj].state # "none"
    BY <1>3, <1>4, <1>6 DEF PInv, Names
  <2>2. \A b \in Assets : asset'[b].obj # None => object'[asset'[b].obj].state # "none"
    BY <1>4, <2>1
  <2>3. \A b, c \in Assets : asset'[b].obj # None /\ asset'[b].obj = asset'[c].obj => b = c
    BY <1>3, <1>4 DEF PInv, Names
  <2>4. QED
    BY <2>2, <2>3 DEF Names
<1>8. DeletedGone'
  <2>1. \A j \in Keys : object'[j].state = "deleted" => j \notin files'
    BY <1>4 DEF PInv, DeletedGone
  <2>2. \A b \in Assets : asset'[b].status = "deleted" => Gone(b)'
    BY <1>4 DEF PInv, DeletedGone, Gone
  <2>3. QED
    BY <2>1, <2>2 DEF DeletedGone
<1>9. ASSUME NEW d \in Removers PROVE Bound(d)'
  <2>1. Bound(d)
    BY DEF PInv
  <2>2. CASE remover[d].pc = "idle"
    BY <1>4, <2>2 DEF Bound
  <2>3. CASE remover[d].pc # "idle"
    <3>1. remover[d].asset \in Assets \ {a}
      BY <1>5, <2>1, <2>3 DEF Bound, IInv, Removal
    <3>2. asset'[remover[d].asset] = asset[remover[d].asset]
      BY <1>4, <3>1
    <3>3. QED
      BY <1>4, <2>1, <3>2 DEF Bound, Gone
  <2>4. QED
    BY <2>2, <2>3
<1>10. QED
  BY <1>7, <1>8, <1>9 DEF PInv

LEMMA PurgeByWorker ==
    ASSUME MediaAssumption, IInv, PInv, IInv', Next, NEW w \in Workers, WorkerStep(w)
    PROVE  PInv'
<1>1. CASE CommitMediaMaterialization(w)
  BY <1>1, PurgeByCommit
<1>2. CASE Materialize(w)
  <2>1. UNCHANGED <<asset, object, remover>>
    BY <1>2 DEF Materialize, media
  <2>2. \A k \in files' \ files : object[k].state = "none"
    BY <1>2 DEF Materialize, Fresh, NoObject
  <2>3. QED
    BY <2>1, <2>2, PurgeSteady
<1>3. CASE LoadClaimed(w) \/ DiscardUncommitted(w) \/ CompleteJob(w) \/ FailJob(w) \/ FailWithAsset(w)
  <2>1. UNCHANGED <<object, remover>> /\ files' \subseteq files
    BY <1>3 DEF LoadClaimed, DiscardUncommitted, CompleteJob, FailJob, FailWithAsset, media, store
  <2>2. asset' = asset \/ asset' = [asset EXCEPT ![worker[w].asset].status = "failed"]
    BY <1>3 DEF LoadClaimed, DiscardUncommitted, CompleteJob, FailJob, FailWithAsset, media
  <2>3. /\ \A a \in Assets : asset'[a].obj = asset[a].obj
        /\ \A a \in Assets : asset'[a].status = "deleted" => asset[a].status = "deleted"
    <3>1. ASSUME NEW a \in Assets
          PROVE  asset'[a].obj = asset[a].obj /\ asset'[a].status \in {asset[a].status, "failed"}
      <4>1. CASE asset' = asset
        BY <4>1
      <4>2. CASE /\ asset' = [asset EXCEPT ![worker[w].asset].status = "failed"]
                 /\ a = worker[w].asset
        BY <4>2 DEF IInv, TypeOK, Row
      <4>3. CASE /\ asset' = [asset EXCEPT ![worker[w].asset].status = "failed"]
                 /\ a # worker[w].asset
        BY <4>3 DEF IInv, TypeOK
      <4>4. QED
        BY <2>2, <4>1, <4>2, <4>3
    <3>2. QED
      BY <3>1
  <2>4. QED
    BY <2>1, <2>3, PurgeSteady
<1>4. QED
  BY <1>1, <1>2, <1>3 DEF WorkerStep

LEMMA PurgeByReconciler ==
    ASSUME MediaAssumption, IInv, PInv, IInv', Next,
           \/ ScanFiles \/ Crash
           \/ \E k \in Keys : Age(k) \/ RemoveOrphan(k)
    PROVE  PInv'
<1>1. UNCHANGED <<asset, object>> /\ files' \subseteq files
  BY DEF ScanFiles, Crash, Age, RemoveOrphan, media, store
<1>2. \A d \in Removers : remover'[d] = remover[d] \/ remover'[d].pc = "idle"
  BY DEF ScanFiles, Crash, Age, RemoveOrphan, actors, Idle
<1>3. \A d \in Removers : remover'[d] = remover[d] \/ Bound(d)'
  BY <1>2 DEF Bound
<1>4. QED
  BY <1>1, <1>3, PurgeSteady

\* An asset that is given another status than "deleted", and its object another
\* state than "none" and "deleted".
LEMMA PurgeByStatus ==
    ASSUME MediaAssumption, IInv, PInv, IInv', Next, NEW a \in Assets,
           NEW s, s # "deleted", asset' = [asset EXCEPT ![a].status = s],
           \A k \in Keys : \/ object'[k].state = object[k].state
                           \/ object'[k].state \notin {"none", "deleted"},
           UNCHANGED files,
           \A d \in Removers : remover'[d] = remover[d] \/ Bound(d)'
    PROVE  PInv'
<1>1. ASSUME NEW b \in Assets
      PROVE  asset'[b].obj = asset[b].obj /\ asset'[b].status \in {asset[b].status, s}
  BY DEF IInv, TypeOK, Row
<1>2. \A b \in Assets : asset'[b].obj # None => object'[asset'[b].obj].state # "none"
  <2>1. \A b \in Assets : asset[b].obj \in Keys \cup {None}
    BY DEF IInv, TypeOK, Row
  <2>2. QED
    BY <1>1, <2>1 DEF PInv, Names
<1>3. \A b \in Assets : asset[b].status \in Final => asset'[b].status \in Final
  BY FinalKept
<1>4. \A b \in Assets : asset'[b].status = "deleted" => asset[b].status = "deleted"
  BY <1>1
<1>5. \A k \in Keys : object'[k].state = "deleted" => object[k].state = "deleted"
  OBVIOUS
<1>6. QED
  BY <1>1, <1>2, <1>3, <1>4, <1>5, PurgeFrame DEF IInv

\* The removal of a deleted row: with it goes the row of its object, when no
\* other asset names that.
LEMMA PurgeByRemoval ==
    ASSUME MediaAssumption, IInv, PInv, IInv', Next, NEW a \in Assets, Gone(a),
           NEW rows \in [Assets -> Row], NEW objects \in [Keys -> Object],
           \A b \in Assets : rows[b].obj = asset[b].obj,
           \A b \in Assets \ {a} : rows[b] = asset[b],
           \A k \in Keys : objects[k].state = "none" => object[k].state = "none",
           \A k \in Keys : objects[k].state = "deleted" => object[k].state = "deleted" \/ k \notin files,
           asset' = PurgedRow(rows, a), object' = PurgedObject(rows, objects, a),
           UNCHANGED files,
           \A d \in Removers : remover'[d] = remover[d] \/ Bound(d)'
    PROVE  PInv'
<1>1. /\ asset'[a].status = "purged" /\ asset'[a].obj = None
      /\ \A b \in Assets \ {a} : asset'[b] = asset[b]
  BY DEF PurgedRow
<1>2. \A k \in Keys : \/ object'[k] = objects[k]
                      \/ /\ object'[k].state = "none" /\ k = asset[a].obj
                         /\ \A b \in Assets \ {a} : asset[b].obj # k
  BY DEF PurgedObject, NoObject
<1>3. \A b \in Assets : asset[b].obj \in Keys \cup {None}
  BY DEF IInv, TypeOK, Row
<1>4. \A b \in Assets : asset'[b].obj # None => object'[asset'[b].obj].state # "none"
  <2> SUFFICES ASSUME NEW b \in Assets \ {a}, asset[b].obj # None
               PROVE  object'[asset[b].obj].state # "none"
    BY <1>1
  <2>1. object[asset[b].obj].state # "none" /\ asset[b].obj \in Keys
    BY <1>3 DEF PInv, Names
  <2>2. object'[asset[b].obj] = objects[asset[b].obj]
    BY <1>2, <2>1
  <2>3. QED
    BY <2>1, <2>2
<1>5. \A k \in Keys : object'[k].state = "deleted" => object[k].state = "deleted" \/ k \notin files'
  BY <1>2
<1>6. \A b \in Assets : asset[b].status \in Final => asset'[b].status \in Final
  BY FinalKept
<1>7. \A b \in Assets : asset'[b].obj \in {asset[b].obj, None}
  BY <1>1
<1>8. \A b \in Assets : asset'[b].status = "deleted" => asset[b].status = "deleted"
  BY <1>1
<1>9. QED
  BY <1>4, <1>5, <1>6, <1>7, <1>8, PurgeFrame DEF IInv

LEMMA PurgeByRevocation ==
    ASSUME MediaAssumption, IInv, PInv, IInv', Next, NEW a \in Assets,
           RetryMaterialization(a) \/ RequestPurge(a) \/ Expire(a)
           \/ RetryDeletion(a) \/ LeaseExpires(a)
    PROVE  PInv'
<1>1. UNCHANGED <<files, remover>>
  BY DEF RetryMaterialization, RequestPurge, Expire, RetryDeletion, LeaseExpires, store, actors
<1>2. \A k \in Keys : \/ ReleaseReference(a)[k].state = object[k].state
                      \/ ReleaseReference(a)[k].state \notin {"none", "deleted"}
  <2>1. ASSUME NEW k \in Keys
        PROVE  \/ ReleaseReference(a)[k] = object[k]
               \/ ReleaseReference(a)[k].state \in {"ready", "delete_pending"}
    BY DEF ReleaseReference, IInv, TypeOK
  <2>2. QED
    BY <2>1
<1>3. CASE RetryMaterialization(a) \/ LeaseExpires(a)
  <2>1. object' = object
        /\ (asset' = asset \/ asset' = [asset EXCEPT ![a].status = "materializing"])
    BY <1>3 DEF RetryMaterialization, LeaseExpires
  <2>2. CASE asset' = asset
    BY <1>1, <2>1, <2>2, PurgeSteady
  <2>3. CASE asset' = [asset EXCEPT ![a].status = "materializing"]
    BY <1>1, <2>1, <2>3, PurgeByStatus
  <2>4. QED
    BY <2>1, <2>2, <2>3
<1>4. CASE RequestPurge(a)
  <2>1. CASE asset[a].status = "deleted"
    <3>1. asset' = PurgedRow(asset, a) /\ object' = PurgedObject(asset, object, a)
      BY <1>4, <2>1 DEF RequestPurge, Live
    <3>2. Gone(a) /\ asset \in [Assets -> Row] /\ object \in [Keys -> Object]
      BY <2>1 DEF PInv, DeletedGone, IInv, TypeOK
    <3>3. QED
      BY <1>1, <3>1, <3>2, PurgeByRemoval
  <2>2. CASE asset[a].status \in Live
    <3>1. asset' = [asset EXCEPT ![a].status = "delete_requested"] /\ object' = ReleaseReference(a)
      BY <1>4, <2>2 DEF RequestPurge, Live, Revoked
    <3>2. QED
      BY <1>1, <1>2, <3>1, PurgeByStatus
  <2>3. CASE asset[a].status \in Revoked \ {"deleted"}
    <3>1. UNCHANGED <<asset, object>>
      BY <1>4, <2>3 DEF RequestPurge, Live, Revoked
    <3>2. QED
      BY <1>1, <3>1, PurgeSteady
  <2>4. QED
    BY <1>4, <2>1, <2>2, <2>3 DEF RequestPurge
<1>5. CASE Expire(a)
  <2>1. asset' = [asset EXCEPT ![a].status = "expired"] /\ object' = ReleaseReference(a)
    BY <1>5 DEF Expire
  <2>2. QED
    BY <1>1, <1>2, <2>1, PurgeByStatus
<1>6. CASE RetryDeletion(a)
  <2>1. asset' = [asset EXCEPT ![a].status = "delete_requested"]
    BY <1>6 DEF RetryDeletion
  <2>2. object' = object \/ object' = [object EXCEPT ![asset[a].obj].state = "delete_pending"]
    BY <1>6 DEF RetryDeletion
  <2>3. ASSUME NEW k \in Keys
        PROVE  object'[k].state \in {object[k].state, "delete_pending"}
    <3>1. CASE object' = object
      BY <3>1
    <3>2. CASE object' = [object EXCEPT ![asset[a].obj].state = "delete_pending"] /\ k = asset[a].obj
      BY <3>2 DEF IInv, TypeOK, Object
    <3>3. CASE object' = [object EXCEPT ![asset[a].obj].state = "delete_pending"] /\ k # asset[a].obj
      BY <3>3 DEF IInv, TypeOK
    <3>4. QED
      BY <2>2, <3>1, <3>2, <3>3
  <2>4. QED
    BY <1>1, <2>1, <2>3, PurgeByStatus
<1>7. QED
  BY <1>3, <1>4, <1>5, <1>6

\* The object of a revoked asset has no reader.
LEMMA OneReader ==
    ASSUME MediaAssumption, IInv, PInv, NEW a \in Assets, asset[a].status \in Final, asset[a].obj # None
    PROVE  object[asset[a].obj].ref = 0
<1>1. asset[a].obj \in Keys
  BY DEF IInv, TypeOK, Row
<1>2. \A b \in Assets : asset[b].obj = asset[a].obj => b = a
  BY DEF PInv, Names
<1>3. asset[a].status # "available"
  BY DEF Final, Revoked
<1>4. QED
  BY <1>1, <1>2, <1>3, InUse

LEMMA PurgeByRemover ==
    ASSUME MediaAssumption, IInv, PInv, IInv', Next, NEW d \in Removers,
           RemoverStep(d) \/ \E a \in Assets : ClaimMediaDeletionJob(d, a)
    PROVE  PInv'
<1> DEFINE a == remover[d].asset
           k == remover[d].key
<1>0. ASSUME NEW pc \in RemoverPCs, remover' = [remover EXCEPT ![d].pc = pc], remover[d].pc # "idle",
             UNCHANGED asset,
             pc \in {"preparing", "rereading", "removing"} =>
                remover[d].pc \in {"preparing", "rereading", "removing"},
             pc = "completing" => Gone(a)'
      PROVE  \A e \in Removers : remover'[e] = remover[e] \/ Bound(e)'
  <2>1. /\ remover'[d].pc = pc /\ remover'[d].asset = a /\ remover'[d].key = k
        /\ \A e \in Removers \ {d} : remover'[e] = remover[e]
    BY <1>0 DEF IInv, TypeOK
  <2>2. a \in Assets /\ asset[a].status \in Final
    BY <1>0 DEF IInv, Removal, PInv, Bound
  <2>3. pc \in {"preparing", "rereading", "removing"} => asset[a].obj \in {k, None}
    BY <1>0 DEF PInv, Bound
  <2>4. Bound(d)'
    BY <1>0, <2>1, <2>2, <2>3 DEF Bound, Gone
  <2>5. QED
    BY <2>1, <2>4
<1>1. ASSUME NEW b \in Assets, ClaimMediaDeletionJob(d, b) PROVE PInv'
  <2>1. UNCHANGED <<asset, object, files>>
    BY <1>1 DEF ClaimMediaDeletionJob, store
  <2>2. /\ remover'[d].pc = "claimed" /\ remover'[d].asset = b
        /\ \A e \in Removers \ {d} : remover'[e] = remover[e]
    BY <1>1 DEF ClaimMediaDeletionJob, IInv, TypeOK
  <2>3. asset[b].status \in Final
    BY <1>1 DEF ClaimMediaDeletionJob, Claimable, IInv, Jobs, Final
  <2>4. Bound(d)'
    BY <2>1, <2>2, <2>3 DEF Bound
  <2>5. QED
    BY <2>1, <2>2, <2>4, PurgeSteady
<1>2. CASE LoadRevoked(d)
  <2> DEFINE j == asset[a].obj
  <2>1. UNCHANGED <<asset, object, files>> /\ remover[d].pc = "claimed"
    BY <1>2 DEF LoadRevoked, media, store
  <2>2. a \in Assets /\ asset[a].status \in Final /\ j \in Keys \cup {None}
    BY <2>1 DEF IInv, Removal, PInv, Bound, TypeOK, Row
  <2>3. CASE j # None /\ remover' = [remover EXCEPT ![d].pc = "preparing", ![d].key = j]
    <3>1. /\ remover'[d].pc = "preparing" /\ remover'[d].asset = a /\ remover'[d].key = j
          /\ \A e \in Removers \ {d} : remover'[e] = remover[e]
      BY <2>3 DEF IInv, TypeOK
    <3>2. Bound(d)'
      BY <2>1, <2>2, <3>1 DEF Bound
    <3>3. QED
      BY <2>1, <3>1, <3>2, PurgeSteady
  <2>4. CASE remover' = [remover EXCEPT ![d].pc = "failing"]
    <3>1. \A e \in Removers : remover'[e] = remover[e] \/ Bound(e)'
      BY <1>0, <2>1, <2>4 DEF RemoverPCs
    <3>2. QED
      BY <2>1, <3>1, PurgeSteady
  <2>5. CASE /\ j = None \/ Settled(j) \/ asset[a].status = "deleted"
             /\ remover' = [remover EXCEPT ![d].pc = "completing"]
    <3>1. Gone(a)
      <4>1. CASE j = None \/ asset[a].status = "deleted"
        BY <2>2, <4>1 DEF Gone, PInv, DeletedGone
      <4>2. CASE j # None /\ Settled(j)
        <5>1. object[j].ref = 0
          BY <2>2, <4>2, OneReader
        <5>2. object[j].state = "deleted"
          BY <2>2, <4>2, <5>1 DEF Settled, PInv, Names
        <5>3. QED
          BY <2>2, <4>2, <5>2 DEF PInv, DeletedGone, Gone
      <4>3. QED
        BY <2>5, <4>1, <4>2
    <3>2. Gone(a)'
      BY <2>1, <2>2, <2>5, <3>1 DEF Gone, IInv, TypeOK
    <3>3. \A e \in Removers : remover'[e] = remover[e] \/ Bound(e)'
      BY <1>0, <2>1, <2>5, <3>2 DEF RemoverPCs
    <3>4. QED
      BY <2>1, <3>3, PurgeSteady
  <2>6. QED
    BY <1>2, <2>3, <2>4, <2>5 DEF LoadRevoked, Move
<1>3. CASE PrepareMediaObjectDeletion(d)
  <2>1. UNCHANGED <<asset, files>> /\ remover[d].pc = "preparing"
    BY <1>3 DEF PrepareMediaObjectDeletion, store
  <2>2. \E pc \in {"removing", "rereading", "failing"} : remover' = [remover EXCEPT ![d].pc = pc]
    BY <1>3 DEF PrepareMediaObjectDeletion, Move
  <2>3. \A e \in Removers : remover'[e] = remover[e] \/ Bound(e)'
    BY <1>0, <2>1, <2>2 DEF RemoverPCs
  <2>4. CASE object' = object
    BY <2>1, <2>3, <2>4, PurgeSteady
  <2>5. CASE object' = [object EXCEPT ![k].state = "deleting"]
    <3>1. ASSUME NEW j \in Keys
          PROVE  \/ object'[j].state = object[j].state
                 \/ object'[j].state \notin {"none", "deleted"}
      <4>1. CASE j = k
        BY <2>5, <4>1 DEF IInv, TypeOK, Object
      <4>2. CASE j # k
        BY <2>5, <4>2 DEF IInv, TypeOK
      <4>3. QED
        BY <4>1, <4>2
    <3>2. \A b \in Assets : asset'[b].obj # None => object'[asset'[b].obj].state # "none"
      <4>1. \A b \in Assets : asset[b].obj \in Keys \cup {None}
        BY DEF IInv, TypeOK, Row
      <4>2. QED
        BY <2>1, <3>1, <4>1 DEF PInv, Names
    <3>3. \A j \in Keys : object'[j].state = "deleted" => object[j].state = "deleted"
      BY <3>1
    <3>4. QED
      BY <2>1, <2>3, <3>2, <3>3, PurgeFrame DEF IInv
  <2>6. QED
    BY <1>3, <2>4, <2>5 DEF PrepareMediaObjectDeletion
<1>4. CASE RereadObject(d)
  <2>1. UNCHANGED <<asset, object, files>> /\ remover[d].pc = "rereading"
    BY <1>4 DEF RereadObject, media, store
  <2>2. CASE \E pc \in {"removing", "failing"} : remover' = [remover EXCEPT ![d].pc = pc]
    <3>1. \A e \in Removers : remover'[e] = remover[e] \/ Bound(e)'
      BY <1>0, <2>1, <2>2 DEF RemoverPCs
    <3>2. QED
      BY <2>1, <3>1, PurgeSteady
  <2>3. CASE /\ Settled(k) /\ object[k].state # "none"
             /\ remover' = [remover EXCEPT ![d].pc = "completing"]
    <3>1. a \in Assets /\ asset[a].status \in Final /\ asset[a].obj \in {k, None}
      BY <2>1 DEF IInv, Removal, PInv, Bound
    <3>2. Gone(a)
      <4>1. CASE asset[a].obj = None
        BY <4>1 DEF Gone
      <4>2. CASE asset[a].obj = k /\ asset[a].obj # None
        <5>1. object[k].ref = 0 /\ k \in Keys
          BY <3>1, <4>2, OneReader DEF IInv, TypeOK, Row
        <5>2. object[k].state = "deleted"
          BY <2>3, <5>1 DEF Settled
        <5>3. QED
          BY <4>2, <5>1, <5>2 DEF PInv, DeletedGone, Gone
      <4>3. QED
        BY <3>1, <4>1, <4>2
    <3>3. Gone(a)'
      BY <2>1, <2>3, <3>2 DEF Gone, IInv, TypeOK
    <3>4. \A e \in Removers : remover'[e] = remover[e] \/ Bound(e)'
      BY <1>0, <2>1, <2>3, <3>3 DEF RemoverPCs
    <3>5. QED
      BY <2>1, <3>4, PurgeSteady
  <2>4. QED
    BY <1>4, <2>2, <2>3 DEF RereadObject, Move
<1>5. CASE RemoveFile(d)
  <2>1. UNCHANGED <<asset, object>> /\ files' \subseteq files /\ remover[d].pc = "removing"
    BY <1>5 DEF RemoveFile, media
  <2>2. CASE remover' = [remover EXCEPT ![d].pc = "failing"]
    <3>1. \A e \in Removers : remover'[e] = remover[e] \/ Bound(e)'
      BY <1>0, <2>1, <2>2 DEF RemoverPCs
    <3>2. QED
      BY <2>1, <3>1, PurgeSteady
  <2>3. CASE files' = files \ {k} /\ remover' = [remover EXCEPT ![d].pc = "completing"]
    <3>1. asset[a].obj \in {k, None}
      BY <2>1 DEF PInv, Bound
    <3>2. Gone(a)'
      BY <2>1, <2>3, <3>1 DEF Gone, IInv, TypeOK
    <3>3. \A e \in Removers : remover'[e] = remover[e] \/ Bound(e)'
      BY <1>0, <2>1, <2>3, <3>2 DEF RemoverPCs
    <3>4. QED
      BY <2>1, <3>3, PurgeSteady
  <2>4. QED
    BY <1>5, <2>2, <2>3 DEF RemoveFile, Move
<1>6. CASE CompleteDeletion(d) \/ FailDeletion(d)
  <2>1. UNCHANGED files
    BY <1>6 DEF CompleteDeletion, FailDeletion, store
  <2>2. remover' = [remover EXCEPT ![d] = Idle]
    BY <1>6 DEF CompleteDeletion, FailDeletion
  <2>3. \A e \in Removers : remover'[e] = remover[e] \/ Bound(e)'
    BY <2>2 DEF Bound, Idle, IInv, TypeOK
  <2>4. a \in Assets
    BY <1>6 DEF CompleteDeletion, FailDeletion, IInv, Removal
  <2>5. CASE UNCHANGED <<asset, object>>
    BY <2>1, <2>3, <2>5, PurgeSteady
  <2>6. CASE CompleteDeletion(d) /\ Fenced(deleteJob[a].job, d)
    <3> DEFINE rows == [asset EXCEPT ![a].status = "deleted"]
               objects == DeletedObject(a)
    <3>1. Gone(a)
      BY <2>6 DEF CompleteDeletion, PInv, Bound
    <3>2. rows \in [Assets -> Row] /\ objects \in [Keys -> Object]
      BY <2>4, StatusShaped, DeletedShaped DEF IInv, Revoked
    <3>3. /\ \A b \in Assets : rows[b].obj = asset[b].obj
          /\ \A b \in Assets \ {a} : rows[b] = asset[b]
      BY <2>4 DEF IInv, TypeOK, Row
    <3>4. ASSUME NEW j \in Keys
          PROVE  /\ objects[j].state = "none" => object[j].state = "none"
                 /\ objects[j].state = "deleted" => object[j].state = "deleted" \/ j \notin files
      <4>1. CASE objects = object
        BY <4>1
      <4>2. CASE \E s \in {"ready", "deleted"} : objects = [object EXCEPT ![asset[a].obj].state = s]
        <5>1. CASE j = asset[a].obj
          <6>1. objects[j].state # "none"
            BY <4>2, <5>1 DEF IInv, TypeOK, Object
          <6>2. j \notin files
            BY <3>1, <5>1, MediaAssumption DEF Gone, MediaAssumption
          <6>3. QED
            BY <6>1, <6>2
        <5>2. CASE j # asset[a].obj
          BY <4>2, <5>2 DEF IInv, TypeOK
        <5>3. QED
          BY <5>1, <5>2
      <4>3. QED
        BY <4>1, <4>2 DEF DeletedObject
    <3> HIDE DEF rows, objects
    <3>5. CASE asset' = PurgedRow(rows, a) /\ object' = PurgedObject(rows, objects, a)
      BY <2>1, <2>3, <2>4, <3>1, <3>2, <3>3, <3>4, <3>5, PurgeByRemoval
    <3>6. CASE asset' = rows /\ object' = objects
      <4>1. \A b \in Assets : asset'[b].obj = asset[b].obj
        BY <3>3, <3>6
      <4>2. \A b \in Assets : asset'[b].obj # None => object'[asset'[b].obj].state # "none"
        <5>1. \A b \in Assets : asset[b].obj \in Keys \cup {None}
          BY DEF IInv, TypeOK, Row
        <5>2. QED
          BY <3>4, <3>6, <4>1, <5>1 DEF PInv, Names
      <4>3. \A j \in Keys : object'[j].state = "deleted" => object[j].state = "deleted" \/ j \notin files'
        BY <2>1, <3>4, <3>6
      <4>4. \A b \in Assets : asset'[b].status = "deleted" => asset[b].status = "deleted" \/ Gone(b)'
        <5>1. ASSUME NEW b \in Assets, b = a PROVE asset'[b].obj = None \/ asset'[b].obj \notin files'
          BY <2>1, <3>1, <4>1, <5>1 DEF Gone
        <5>2. \A b \in Assets \ {a} : asset'[b] = asset[b]
          BY <3>3, <3>6
        <5>3. QED
          BY <5>1, <5>2 DEF Gone
      <4>5. \A b \in Assets : asset[b].status \in Final => asset'[b].status \in Final
        BY FinalKept
      <4>6. QED
        BY <2>1, <2>3, <4>1, <4>2, <4>3, <4>4, <4>5, PurgeFrame DEF IInv
    <3>7. QED
      BY <2>6, <3>5, <3>6 DEF CompleteDeletion, rows, objects
  <2>7. CASE FailDeletion(d) /\ Fenced(deleteJob[a].job, d)
    <3>1. asset' = [asset EXCEPT ![a].status = IF @ = "deleted" THEN @ ELSE "delete_failed"]
      BY <2>7 DEF FailDeletion
    <3>2. object' = object \/ object' = [object EXCEPT ![asset[a].obj].state = "delete_failed"]
      BY <2>7 DEF FailDeletion
    <3>3. CASE asset[a].status = "deleted"
      <4>1. object' = object
        BY <2>7, <3>3 DEF FailDeletion
      <4>2. \A b \in Assets : asset'[b].obj = asset[b].obj /\ asset'[b].status = asset[b].status
        BY <2>4, <3>1, <3>3 DEF IInv, TypeOK, Row
      <4>3. QED
        BY <2>1, <2>3, <4>1, <4>2, PurgeSteady
    <3>4. CASE asset[a].status # "deleted"
      <4>1. asset' = [asset EXCEPT ![a].status = "delete_failed"]
        BY <2>4, <3>1, <3>4 DEF IInv, TypeOK
      <4>2. ASSUME NEW j \in Keys
            PROVE  \/ object'[j].state = object[j].state
                   \/ object'[j].state \notin {"none", "deleted"}
        <5>1. CASE object' = object
          BY <5>1
        <5>2. CASE object' = [object EXCEPT ![asset[a].obj].state = "delete_failed"] /\ j = asset[a].obj
          <6>1. object \in [Keys -> Object]
            BY DEF IInv, TypeOK
          <6>2. object'[j].state = "delete_failed"
            BY <5>2, <6>1 DEF Object
          <6>3. QED
            BY <6>2
        <5>3. CASE object' = [object EXCEPT ![asset[a].obj].state = "delete_failed"] /\ j # asset[a].obj
          BY <5>3 DEF IInv, TypeOK
        <5>4. QED
          BY <3>2, <5>1, <5>2, <5>3
      <4>3. QED
        BY <2>1, <2>3, <2>4, <4>1, <4>2, PurgeByStatus
    <3>5. QED
      BY <3>3, <3>4
  <2>8. QED
    BY <1>6, <2>5, <2>6, <2>7 DEF CompleteDeletion, FailDeletion
<1>7. QED
  BY <1>1, <1>2, <1>3, <1>4, <1>5, <1>6 DEF RemoverStep

-----------------------------------------------------------------------------
(* The theorem. *)

LEMMA PurgeKept ==
    ASSUME MediaAssumption, IInv, PInv, [Next]_vars
    PROVE  IInv' /\ PInv'
<1>1. IInv'
  BY NextKeeps
<1>2. CASE UNCHANGED vars
  <2>1. UNCHANGED <<asset, object, files, remover>>
    BY <1>2 DEF vars
  <2>2. Names'
    BY <2>1 DEF PInv, Names
  <2>3. DeletedGone'
    BY <2>1 DEF PInv, DeletedGone, Gone
  <2>4. (\A d \in Removers : Bound(d))'
    BY <2>1 DEF PInv, Bound, Gone
  <2>5. QED
    BY <1>1, <2>2, <2>3, <2>4 DEF PInv
<1>3. CASE Next
  <2>1. CASE \/ EnsureTaskResultMedia
             \/ \E w \in Workers, a \in Assets :
                   ClaimMediaMaterializationJob(w, a) \/ ClaimMediaAssetMaterialization(w, a)
    BY <1>1, <1>3, <2>1, PurgeByClaim
  <2>2. CASE \E w \in Workers : WorkerStep(w)
    BY <1>1, <1>3, <2>2, PurgeByWorker
  <2>3. CASE \E a \in Assets : RetryMaterialization(a) \/ RequestPurge(a) \/ Expire(a)
                               \/ RetryDeletion(a) \/ LeaseExpires(a)
    BY <1>1, <1>3, <2>3, PurgeByRevocation
  <2>4. CASE \E d \in Removers : RemoverStep(d) \/ \E a \in Assets : ClaimMediaDeletionJob(d, a)
    BY <1>1, <1>3, <2>4, PurgeByRemover
  <2>5. CASE ScanFiles \/ Crash \/ \E k \in Keys : Age(k) \/ RemoveOrphan(k)
    BY <1>1, <1>3, <2>5, PurgeByReconciler
  <2>6. QED
    BY <1>3, <2>1, <2>2, <2>3, <2>4, <2>5 DEF Next
<1>4. QED
  BY <1>2, <1>3

\* Where no object is shared, a purge never leaves a file behind: the row that
\* names it outlives the file, through failed removals, lost leases and crashes.
THEOREM PurgeFollowsRemoval ==
    ASSUME MediaAssumption, Shared = {}
    PROVE  Spec => RemovedBeforePurge
<1> DEFINE Removed ==
      \A a \in Assets :
          /\ asset[a].obj # None /\ asset'[a].status = "purged"
          /\ \A b \in Assets \ {a} : asset[b].obj # asset[a].obj
          => asset[a].obj \notin files'
<1>1. Init => IInv /\ PInv
  BY InitEstablishes, InitPurge
<1>2. IInv /\ PInv /\ [Next]_vars => (IInv /\ PInv)'
  BY PurgeKept
<1>3. IInv /\ PInv /\ [Next]_vars => [Removed]_vars
  <2> SUFFICES ASSUME IInv, PInv, Next, NEW a \in Assets, asset[a].obj # None, asset'[a].status = "purged"
               PROVE  asset[a].obj \notin files'
    OBVIOUS
  <2>1. asset[a].status # "purged"
    BY DEF IInv, TypeOK, Revoked
  <2>2. CASE \E b \in Assets : RequestPurge(b)
    <3>1. PICK b \in Assets : RequestPurge(b)
      BY <2>2
    <3>2. a = b /\ asset[b].status = "deleted"
      <4>1. CASE asset[b].status = "deleted"
        BY <2>1, <3>1, <4>1 DEF RequestPurge, Live, PurgedRow, IInv, TypeOK
      <4>2. CASE asset[b].status # "deleted"
        <5>1. asset' = asset \/ asset' = [asset EXCEPT ![b].status = "delete_requested"]
          BY <3>1, <4>2 DEF RequestPurge
        <5>2. QED
          BY <2>1, <5>1 DEF IInv, TypeOK, Row
      <4>3. QED
        BY <4>1, <4>2
    <3>3. files' = files
      BY <3>1 DEF RequestPurge, store
    <3>4. QED
      BY <3>2, <3>3 DEF PInv, DeletedGone, Gone
  <2>3. CASE \E d \in Removers : CompleteDeletion(d)
    <3>1. PICK d \in Removers : CompleteDeletion(d)
      BY <2>3
    <3>2. a = remover[d].asset
      BY <2>1, <3>1 DEF CompleteDeletion, PurgedRow, IInv, TypeOK
    <3>3. Gone(a)
      BY <3>1, <3>2 DEF CompleteDeletion, PInv, Bound
    <3>4. files' = files
      BY <3>1 DEF CompleteDeletion, store
    <3>5. QED
      BY <3>3, <3>4 DEF Gone
  <2>4. CASE asset' = asset
    BY <2>1, <2>4
  <2>5. CASE EnsureTaskResultMedia
    BY <2>1, <2>5 DEF EnsureTaskResultMedia, Ensured
  <2>6. ASSUME NEW w \in Workers, NEW b \in Assets, ClaimMediaAssetMaterialization(w, b) PROVE FALSE
    <3>1. \A c \in Assets : Ensured[c] = asset[c] \/ Ensured[c].status = "pending"
      BY DEF Ensured
    <3>2. asset' = [Ensured EXCEPT ![b].status = "materializing"]
      BY <2>6 DEF ClaimMediaAssetMaterialization
    <3>3. asset'[b].status = "materializing" /\ \A c \in Assets \ {b} : asset'[c] = Ensured[c]
      BY <3>2, EnsuredShaped DEF IInv, Row
    <3>4. QED
      BY <2>1, <3>1, <3>3
  <2>7. ASSUME NEW b \in Assets, NEW s, s # "purged", asset' = [asset EXCEPT ![b].status = s] PROVE FALSE
    BY <2>1, <2>7 DEF IInv, TypeOK, Row
  <2>8. CASE \E w \in Workers : WorkerStep(w)
    <3>1. PICK w \in Workers : WorkerStep(w)
      BY <2>8
    <3>2. CASE CommitMediaMaterialization(w)
      BY <2>1, <3>2 DEF CommitMediaMaterialization, IInv, TypeOK
    <3>3. CASE FailWithAsset(w)
      <4>1. worker[w].asset \in Assets
        BY <3>3 DEF FailWithAsset, IInv, Hold
      <4>2. QED
        BY <2>4, <2>7, <3>3, <4>1 DEF FailWithAsset
    <3>4. QED
      BY <2>4, <3>1, <3>2, <3>3
         DEF WorkerStep, LoadClaimed, Materialize, DiscardUncommitted, CompleteJob, FailJob, media
  <2>9. CASE \E b \in Assets : RetryMaterialization(b) \/ Expire(b) \/ RetryDeletion(b)
    BY <2>7, <2>9 DEF RetryMaterialization, Expire, RetryDeletion
  <2>10. ASSUME NEW d \in Removers, FailDeletion(d) PROVE asset[a].obj \notin files'
    <3>1. remover[d].asset \in Assets
      BY <2>10 DEF FailDeletion, IInv, Removal
    <3>2. asset'[a].status \in {asset[a].status, "delete_failed"}
      BY <2>10, <3>1 DEF FailDeletion, IInv, TypeOK, Row
    <3>3. QED
      BY <2>1, <3>2
  <2>11. QED
    BY <2>2, <2>3, <2>4, <2>5, <2>6, <2>8, <2>9, <2>10
       DEF Next, RemoverStep, ClaimMediaMaterializationJob, LeaseExpires, ClaimMediaDeletionJob, LoadRevoked,
           PrepareMediaObjectDeletion, RereadObject, RemoveFile, ScanFiles, Age, RemoveOrphan, Crash, media
<1>4. QED
  BY <1>1, <1>2, <1>3, PTL DEF Spec, RemovedBeforePurge

=============================================================================
