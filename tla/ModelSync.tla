------------------------------ MODULE ModelSync ------------------------------
(***************************************************************************)
(* Discovery of the models of one upstream channel: SyncRemoteModels and   *)
(* StopSync (service/dispatcher.go), the snapshot and conditional commit   *)
(* of db/channel_probe.go, the administrator's requests that save, toggle, *)
(* delete and test the channel (db/db.go, router/router.go) and the part   *)
(* of shutdownGateway that joins the refresh.                              *)
(*                                                                         *)
(* A list of models is represented by the discovery inputs (type, base     *)
(* URL, keys, headers) of the request that fetched it, and discovery       *)
(* inputs by the revision that introduced them; 0 is no row, or no list.   *)
(* One transaction or one critical section is one action.                  *)
(***************************************************************************)
EXTENDS Integers

CONSTANTS Admins,     \* concurrent management requests
          MaxChanges, \* bound: management requests ever made
          MaxTests,   \* bound: manual channel tests among them
          MaxBoots    \* bound: times the process is started again

ASSUME SyncAssumption ==
    /\ MaxChanges \in Nat
    /\ MaxTests \in Nat
    /\ MaxBoots \in Nat

VARIABLES
    source,     \* row: discovery inputs, 0 once the channel is deleted
    enabled,    \* row: enabled, with model discovery
    revision,   \* row: updated_at
    stored,     \* row: models_synced_raw
    active,     \* the channel is in the active-channels cache
    published,  \* remoteModels of the channel
    generation, \* modelGeneration of the channel
    syncing,
    pending,    \* syncPending
    cancelled,  \* syncCancel was called
    run,        \* number of the refresh goroutine, its syncDone
    worker,     \* the refresh goroutine
    admin,      \* the management requests
    phase,      \* of the process
    joining,    \* a StopSync: the run it waits for, 0 for none
    changes, tests, boots,
    owed,       \* history: a refresh was requested and no pass began since
    credit      \* history: refreshes requested minus passes begun

row == <<source, enabled, revision, stored>>
cache == <<active, published, generation>>
sync == <<syncing, pending, cancelled, run, worker>>
stop == <<phase, joining>>
counts == <<changes, tests, boots>>
history == <<owed, credit>>
vars == <<row, cache, sync, admin, stop, counts, history>>

Steps == {"idle", "start", "read", "snapshot", "fetch", "commit",
          "publish", "check", "exit"}
Worker == [pc : Steps, generation : Nat, revision : Nat, source : Nat]
NoWorker == [pc |-> "idle", generation |-> 0, revision |-> 0, source |-> 0]

\* rounds: further cache refreshes and invalidations the request will make.
Admin == [pc : {"idle", "saved", "refreshed", "invalidated", "testing", "tested"},
          rounds : {0, 1}, source : Nat]
NoAdmin == [pc |-> "idle", rounds |-> 0, source |-> 0]

\* main: LoadCachedModelsFromDB, then the first SyncRemoteModels.
Init ==
    /\ source = 1 /\ revision = 1
    /\ enabled \in BOOLEAN
    /\ stored \in {0, 1}
    /\ active = enabled
    /\ published = stored
    /\ generation = 0
    /\ syncing = TRUE /\ pending = FALSE /\ cancelled = FALSE
    /\ run = 1
    /\ worker = [NoWorker EXCEPT !.pc = "start"]
    /\ admin = [a \in Admins |-> NoAdmin]
    /\ phase = "serving"
    /\ joining = 0
    /\ changes = 0 /\ tests = 0 /\ boots = 0
    /\ owed = TRUE
    /\ credit = 1

-----------------------------------------------------------------------------
(* The refresh goroutine. *)

\* SyncRemoteModels: start the goroutine, or leave a note for the running one.
SyncRemoteModels ==
    /\ IF syncing
         THEN /\ pending' = TRUE
              /\ UNCHANGED <<syncing, cancelled, run, worker>>
         ELSE /\ syncing' = TRUE
              /\ pending' = FALSE
              /\ cancelled' = FALSE
              /\ run' = run + 1
              /\ worker' = [NoWorker EXCEPT !.pc = "start"]
    /\ owed' = TRUE
    /\ credit' = credit + 1

GoTo(step) == worker' = [worker EXCEPT !.pc = step]

\* A pass begins with the channels of the cache ...
StartPass ==
    /\ worker.pc = "start"
    /\ GoTo(IF active THEN "read" ELSE "check")
    /\ owed' = FALSE
    /\ credit' = credit - 1
    /\ UNCHANGED <<row, cache, syncing, pending, cancelled, run, admin, stop, counts>>

\* ... reads the generation of each ...
ReadGeneration ==
    /\ worker.pc = "read"
    /\ worker' = [worker EXCEPT !.pc = "snapshot", !.generation = generation]
    /\ UNCHANGED <<row, cache, syncing, pending, cancelled, run, admin, stop, counts, history>>

\* ... and then its row: SnapshotChannelProbe.
Snapshot ==
    /\ worker.pc = "snapshot"
    /\ \/ /\ enabled /\ source # 0 /\ ~cancelled
          /\ worker' = [worker EXCEPT !.pc = "fetch", !.revision = revision, !.source = source]
       \/ /\ ~enabled \/ source = 0 \/ cancelled
          /\ GoTo("check")
    /\ UNCHANGED <<row, cache, syncing, pending, cancelled, run, admin, stop, counts, history>>

SameGeneration == worker.generation = generation

\* The provider answered with a list and the generation has not moved.  The
\* other outcomes (no lease on the breaker, an error, a time-out, a save in
\* the meantime) change no list.
Fetch ==
    /\ worker.pc = "fetch"
    /\ \/ SameGeneration /\ GoTo("commit")
       \/ GoTo("check")
    /\ UNCHANGED <<row, cache, syncing, pending, cancelled, run, admin, stop, counts, history>>

\* Seeded bug: the UPDATE names the channel only.
AnyRevision == source # 0
SameRevision == source # 0 /\ revision = worker.revision

\* CommitChannelProbe: one UPDATE, conditional on the revision; it may fail.
CommitChannelProbe ==
    /\ worker.pc = "commit"
    /\ \/ /\ SameRevision /\ ~cancelled
          /\ stored' = worker.source
          /\ GoTo("publish")
       \/ /\ UNCHANGED stored
          /\ GoTo("check")
    /\ UNCHANGED <<source, enabled, revision, cache, syncing, pending, cancelled,
                   run, admin, stop, counts, history>>

Publish ==
    /\ worker.pc = "publish"
    /\ published' = IF SameGeneration THEN worker.source ELSE published
    /\ GoTo("check")
    /\ UNCHANGED <<row, active, generation, syncing, pending, cancelled, run, admin,
                   stop, counts, history>>

\* Seeded bug: the note is never thrown away.
CheckForever ==
    /\ worker.pc = "check"
    /\ GoTo(IF pending THEN "start" ELSE "exit")
    /\ UNCHANGED <<row, cache, syncing, pending, cancelled, run, admin, stop, counts, history>>

\* One more pass when a request arrived during this one.
Check ==
    /\ worker.pc = "check"
    /\ GoTo(IF pending THEN "start" ELSE "exit")
    /\ pending' = FALSE
    /\ UNCHANGED <<row, cache, syncing, cancelled, run, admin, stop, counts, history>>

\* Seeded bug: the flag of the running refresh stays up.
ExitSyncing ==
    /\ worker.pc = "exit"
    /\ worker' = NoWorker
    /\ pending' = FALSE
    /\ UNCHANGED <<row, cache, syncing, cancelled, run, admin, stop, counts, history>>

\* The deferred clean-up, a critical section of its own; it closes syncDone.
Exit ==
    /\ worker.pc = "exit"
    /\ worker' = NoWorker
    /\ syncing' = FALSE
    /\ pending' = FALSE
    /\ UNCHANGED <<row, cache, cancelled, run, admin, stop, counts, history>>

RefreshStep ==
    \/ StartPass \/ ReadGeneration \/ Snapshot \/ Fetch \/ CommitChannelProbe
    \/ Publish \/ Check \/ Exit

-----------------------------------------------------------------------------
(* Management requests. *)

Arrives(a) ==
    /\ phase = "serving"
    /\ admin[a].pc = "idle"
    /\ changes < MaxChanges
    /\ changes' = changes + 1
Saved(a, rounds) == admin' = [admin EXCEPT ![a].pc = "saved", ![a].rounds = rounds]

\* SaveChannelModelContext: a save with other discovery inputs forgets the
\* stored list, any save moves updated_at.
SaveChannel(a) ==
    /\ Arrives(a)
    /\ source # 0
    /\ revision' = revision + 1
    /\ enabled' \in BOOLEAN
    /\ \/ UNCHANGED <<source, stored>>
       \/ source' = revision' /\ stored' = 0
    /\ Saved(a, 0)
    /\ UNCHANGED <<cache, sync, stop, tests, boots, history>>

\* ToggleChannelContext, which notifies by itself before the middleware does.
ToggleChannel(a) ==
    /\ Arrives(a)
    /\ source # 0
    /\ enabled' = ~enabled
    /\ revision' = revision + 1
    /\ Saved(a, 1)
    /\ UNCHANGED <<source, stored, cache, sync, stop, tests, boots, history>>

\* DeleteChannelContext refreshes the cache, RemoveChannel invalidates, and
\* the middleware does both again.
DeleteChannel(a) ==
    /\ Arrives(a)
    /\ source' = 0 /\ stored' = 0 /\ enabled' = FALSE
    /\ Saved(a, 1)
    /\ UNCHANGED <<revision, cache, sync, stop, tests, boots, history>>

\* RefreshActiveChannelsCache
RefreshCache(a) ==
    /\ admin[a].pc = "saved"
    /\ active' = enabled
    /\ admin' = [admin EXCEPT ![a].pc = "refreshed"]
    /\ UNCHANGED <<row, published, generation, sync, stop, counts, history>>

\* Seeded bug: the generation stays.
SameNumber == generation
NextGeneration == generation + 1

\* InvalidateChannel
InvalidateChannel(a) ==
    /\ admin[a].pc = "refreshed"
    /\ published' = 0
    /\ generation' = NextGeneration
    /\ admin' = [admin EXCEPT ![a].pc = IF admin[a].rounds > 0
                                        THEN "saved" ELSE "invalidated",
                              ![a].rounds = 0]
    /\ UNCHANGED <<row, active, sync, stop, counts, history>>

\* The end of the request: auditMiddleware asks for a refresh.
RequestRefresh(a) ==
    /\ admin[a].pc = "invalidated"
    /\ SyncRemoteModels
    /\ admin' = [admin EXCEPT ![a] = NoAdmin]
    /\ UNCHANGED <<row, cache, stop, counts>>

\* handleSyncModels: a refresh by hand.
AskRefresh(a) ==
    /\ Arrives(a)
    /\ SyncRemoteModels
    /\ UNCHANGED <<row, cache, admin, stop, tests, boots>>

\* handleTestChannel and its kin: read the row, ask the provider ...
StartTest(a) ==
    /\ Arrives(a)
    /\ source # 0
    /\ tests < MaxTests
    /\ tests' = tests + 1
    /\ admin' = [admin EXCEPT ![a].pc = "testing", ![a].source = source]
    /\ UNCHANGED <<row, cache, sync, stop, boots, history>>

\* ... persistChannelHealth, which writes whatever the row is now ...
PersistTest(a) ==
    /\ admin[a].pc = "testing"
    /\ revision' = IF source = 0 THEN revision ELSE revision + 1
    /\ \/ /\ stored' = IF source = 0 THEN stored ELSE admin[a].source
          /\ admin' = [admin EXCEPT ![a].pc = "tested"]
       \/ /\ UNCHANGED stored
          /\ admin' = [admin EXCEPT ![a] = NoAdmin]
    /\ UNCHANGED <<source, enabled, cache, sync, stop, counts, history>>

\* ... and UpdateRemoteModels.
PublishTest(a) ==
    /\ admin[a].pc = "tested"
    /\ published' = admin[a].source
    /\ admin' = [admin EXCEPT ![a] = NoAdmin]
    /\ UNCHANGED <<row, active, generation, sync, stop, counts, history>>

AdminStep(a) ==
    \/ RefreshCache(a) \/ InvalidateChannel(a) \/ RequestRefresh(a)
    \/ PersistTest(a) \/ PublishTest(a)
AdminArrives(a) ==
    \/ SaveChannel(a) \/ ToggleChannel(a) \/ DeleteChannel(a)
    \/ AskRefresh(a) \/ StartTest(a)

-----------------------------------------------------------------------------
(* Shutdown, crash and restart. *)

\* StopSync: cancel the running refresh and wait for it.
StopSync ==
    /\ cancelled' = (cancelled \/ syncing)
    /\ joining' = IF syncing THEN run ELSE 0
Joined == joining = 0 \/ ~syncing \/ run > joining

Quit ==
    /\ phase = "serving"
    /\ phase' = "draining"
    /\ UNCHANGED <<row, cache, sync, admin, joining, counts, history>>

FirstStop ==
    /\ phase = "draining"
    /\ StopSync
    /\ phase' = "stopping"
    /\ UNCHANGED <<row, cache, syncing, pending, run, worker, admin, counts, history>>

\* Seeded bug: nobody waits for the requests in flight.
NotDrained == TRUE

\* The server has drained, then the first StopSync has returned.
Drained == \A a \in Admins : admin[a].pc = "idle"

\* The StopSync after the drain, and the one of db.Close.
FinalStop ==
    /\ phase = "stopping"
    /\ Drained /\ Joined
    /\ StopSync
    /\ phase' = "joining"
    /\ UNCHANGED <<row, cache, syncing, pending, run, worker, admin, counts, history>>

Close ==
    /\ phase = "joining"
    /\ Joined
    /\ phase' = "closed"
    /\ UNCHANGED <<row, cache, sync, admin, joining, counts, history>>

\* The process dies, or a budget of the shutdown expires and it exits without
\* closing the database.
Die ==
    /\ phase \notin {"closed", "dead"}
    /\ phase' = "dead"
    /\ published' = 0 /\ active' = FALSE /\ generation' = 0
    /\ syncing' = FALSE /\ pending' = FALSE /\ cancelled' = FALSE
    /\ run' = 0
    /\ worker' = NoWorker
    /\ admin' = [a \in Admins |-> NoAdmin]
    /\ owed' = FALSE /\ credit' = 0
    /\ joining' = 0
    /\ UNCHANGED <<row, counts>>

\* main again: LoadCachedModelsFromDB and the first SyncRemoteModels.
Boot ==
    /\ phase \in {"closed", "dead"}
    /\ boots < MaxBoots
    /\ boots' = boots + 1
    /\ phase' = "serving"
    /\ joining' = 0
    /\ active' = enabled
    /\ published' = stored
    /\ generation' = 0
    /\ syncing' = TRUE /\ pending' = FALSE /\ cancelled' = FALSE
    /\ run' = 1
    /\ worker' = [NoWorker EXCEPT !.pc = "start"]
    /\ owed' = TRUE /\ credit' = 1
    /\ UNCHANGED <<row, admin, changes, tests>>

ShutdownStep == FirstStop \/ FinalStop \/ Close
Next ==
    \/ RefreshStep
    \/ \E a \in Admins : AdminStep(a) \/ AdminArrives(a)
    \/ Quit \/ ShutdownStep \/ Die \/ Boot

Spec == Init /\ [][Next]_vars

\* Every goroutine runs: fetches end after 15 seconds, SQL statements return.
FairSpec ==
    /\ Spec
    /\ WF_vars(RefreshStep)
    /\ \A a \in Admins : WF_vars(AdminStep(a))
    /\ WF_vars(ShutdownStep)

-----------------------------------------------------------------------------
(* Properties. *)

Invalidating == \E a \in Admins : admin[a].pc \in {"saved", "refreshed"}

\* The variables have their types; the syncing flag is up exactly while the
\* goroutine exists, from its start to its deferred clean-up.
TypeOK ==
    /\ source \in Nat /\ enabled \in BOOLEAN /\ revision \in Nat /\ stored \in Nat
    /\ active \in BOOLEAN /\ published \in Nat /\ generation \in Nat
    /\ syncing \in BOOLEAN /\ pending \in BOOLEAN /\ cancelled \in BOOLEAN
    /\ run \in Nat
    /\ worker \in Worker
    /\ admin \in [Admins -> Admin]
    /\ phase \in {"serving", "draining", "stopping", "joining", "closed", "dead"}
    /\ joining \in Nat
    /\ changes \in Nat /\ tests \in Nat /\ boots \in Nat
    /\ owed \in BOOLEAN /\ credit \in Int
    /\ syncing <=> worker.pc # "idle"

\* A saved channel may point at a different provider, so routing knows only
\* models that the configuration in force would discover, except between the
\* commit of a save and its invalidation: the comment of InvalidateChannel.
RoutedModelsFresh == published \in {0, source} \/ Invalidating

\* The same of the stored list, which a restart publishes, without exception:
\* the comment of CommitChannelProbe.  Manual tests break both.
FreshModels == tests = 0 => stored \in {0, source} /\ RoutedModelsFresh

\* Whatever manual tests do, the background refresh stores only what the
\* configuration in force discovers, and publishes anything else only when an
\* invalidation that throws it away is under way.
RefreshIsFresh ==
    [][/\ worker.pc = "commit" /\ worker'.pc = "publish" => stored' = source
       /\ worker.pc = "publish" /\ worker'.pc = "check" /\ published' # published
            => published' = source \/ Invalidating]_vars

\* Requests are coalesced: no pass runs that nobody asked for.
PassesAreAsked == credit >= 0

\* The database is closed by a process in which no refresh and no management
\* request runs.
ClosedQuiet ==
    phase = "closed" => ~syncing /\ \A a \in Admins : admin[a].pc = "idle"

\* A shutdown comes to an end.
ShutdownEnds == phase = "draining" ~> phase \in {"closed", "dead"}

\* A request that arrives while a refresh runs gets a follow-up pass: the
\* comment of SyncRemoteModels.
NoRequestForgotten == owed => syncing
=============================================================================
