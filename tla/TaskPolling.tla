---------------------------- MODULE TaskPolling ----------------------------
(***************************************************************************)
(* One durable TaskRun of a profile task and everyone who writes its row:  *)
(* the background poll workers, the client status requests that poll on    *)
(* demand, and the media materializer that completes the task when its     *)
(* last required asset is stored.                                          *)
(*                                                                         *)
(* Exactly one SQLite transaction is one action.  A provider call, and the *)
(* time between two transactions of the same handler, is a gap between two *)
(* actions in which every other actor may run.  Absolute times of the code *)
(* are countdowns: `lease' is the rest of lease_expires_at, `wait' the     *)
(* rest of next_poll_at and `deadline' the rest of deadline_at.            *)
(***************************************************************************)
EXTENDS Integers

CONSTANTS Workers,      \* background pollers (task.BackgroundPoller.Start)
          Clients,      \* concurrent status requests (profileTaskStatus)
          None,         \* the empty lease_owner
          MaxAttempts,  \* op.Poll.MaxAttempts, the immutable poll budget
          Lease,        \* lease duration in ticks
          PollDelay,    \* ticks until the next poll is due
          MaxDeadline,  \* longest deadline in ticks
          MaxCount,     \* bound: polls on the record of a task nobody can expire
          MaxFaults     \* bound: crashes, failed renewals and loads, stalls

Procs == Workers \cup Clients

ASSUME ProcsAssumption ==
    /\ Workers \cap Clients = {}
    /\ None \notin Procs
ASSUME BoundsAssumption ==
    /\ MaxAttempts \in Nat \ {0}
    /\ Lease \in Nat \ {0}
    /\ PollDelay \in Nat
    /\ MaxDeadline \in Nat \ {0}
    /\ MaxFaults \in Nat
    /\ MaxCount \in Nat /\ MaxCount > MaxAttempts + MaxFaults

VARIABLES
    task,      \* frozen at creation: polling mode, media retention, has a source
    status,    \* task_status
    outcome,   \* task_outcome
    count,     \* poll_count
    owner,     \* lease_owner (a token unique to one claim)
    lease,     \* ticks to lease_expires_at, 0 when expired or NULL
    wait,      \* ticks to next_poll_at, 0 when due
    deadline,  \* ticks to deadline_at, 0 when passed, -1 when NULL
    result,    \* result_body: none, a successful payload, any other payload
    media,     \* the task's asset rows as a batch
    provider,  \* the provider's task
    loads,     \* the definition the task was created under can be loaded
    proc,      \* what each handler holds between its transactions
    faults,    \* faults injected so far
    wasReady,  \* history: every asset row was available at one time
    blind      \* history: polls on the record made without reading the budget

row == <<status, outcome, count, owner, lease, wait, deadline, result>>
env == <<media, provider, loads, faults, wasReady, blind>>
vars == <<task, row, env, proc>>

-----------------------------------------------------------------------------
(* The status vocabulary. *)

\* `other' stands for every word the gateway does not know.
StatusRank == [other |-> 0, queued |-> 1, processing |-> 2, materializing |-> 3,
               completed |-> 4, failed |-> 4, expired |-> 4, timeout |-> 4]
Statuses == DOMAIN StatusRank
Terminal(s) == StatusRank[s] = 4

\* Seeded bug: a terminal status may be replaced by another one.
MayReplaceTerminal(s, t) == StatusRank[t] >= StatusRank[s]

\* UpdateTaskRunStatus refuses a regression and a change of a terminal status.
MayBecome(s, t) ==
    /\ StatusRank[t] >= StatusRank[s]
    /\ Terminal(s) => t = s

Modes == {"background", "client"}
Retentions == {"disabled", "best_effort", "required"}
MediaStates == {"none", "pending", "ready", "gone"}

Outcomes == {"pending", "success", "failed"}

\* What a poll brings: the status NormalizeTaskStatus makes of the provider's
\* word, `silent' for an empty one, and the outcome it has for the operation.
Answer(s, o) == [answer |-> s, outcome |-> o]

\* Only a word among the operation's SuccessValues or FailureValues settles
\* the outcome.  Any other word leaves it pending: one that is normalised, or
\* one that passes as it is and may be a status the gateway gives a meaning.
PassedThrough == {"other", "materializing", "timeout", "silent"}
Answers ==
    CASE provider = "running"   -> {Answer(s, "pending") : s \in {"queued", "processing"} \cup PassedThrough}
      [] provider = "succeeded" -> {Answer("completed", "success")} \cup
                                   {Answer(s, "pending") : s \in {"completed"} \cup PassedThrough}
      [] provider = "failed"    -> {Answer("failed", "failed")} \cup
                                   {Answer(s, "pending") : s \in {"failed"} \cup PassedThrough}

\* No word at all: the request failed, or (for a client, whom it costs the
\* operation) it was never made, for want of profile or channel.
Failed == Answer("error", "pending")
Unprepared == Answer("unprepared", "pending")

\* A handler between two transactions: `seen' and `was' are poll_count and
\* task_status of the row its claim returned, `answer' and `outcome' what it
\* will write, `blind' a budget it could not read, `mediaErr' a failed
\* enqueue, `beating' whether its heartbeat has not failed.
PCs == {"idle", "settling", "checked", "claimed", "answered", "persisted",
        "projecting", "observed", "releasing"}
Handler == [pc : PCs, seen : Nat, was : Statuses,
            answer : Statuses \cup {"none", "silent", "error", "unprepared"},
            outcome : Outcomes, blind : BOOLEAN, mediaErr : BOOLEAN, beating : BOOLEAN]
Idle == [pc |-> "idle", seen |-> 0, was |-> "other", answer |-> "none",
         outcome |-> "pending", blind |-> FALSE, mediaErr |-> FALSE, beating |-> FALSE]
At(p, label) == proc[p].pc = label
Goto(p, label) == proc' = [proc EXCEPT ![p].pc = label]
Return(p) == proc' = [proc EXCEPT ![p] = Idle]
Finish(p) == proc' = [proc EXCEPT ![p] = [Idle EXCEPT !.pc = "releasing"]]
Hears(p, a, unread, label) ==
    proc' = [proc EXCEPT ![p].pc = label, ![p].was = "other",
                         ![p].answer = IF a.answer = "silent" /\ p \in Clients
                                         THEN proc[p].was ELSE a.answer,
                         ![p].outcome = a.outcome, ![p].blind = unread]
Observe(p, a) == Hears(p, a, proc[p].blind, "observed")
HeartStops(p) == proc' = [proc EXCEPT ![p].beating = FALSE]

\* Seeded bug: a live lease is enough, whoever owns it.
AnyLiveLease(p) == lease > 0

\* The predicate every fenced transaction re-checks on the row itself.
Fence(p) == owner = p /\ lease > 0

\* Seeded bug: one poll too many.
ExceededLate(polls) == polls > MaxAttempts \/ deadline = 0

\* profilePollBudget and profileClientPollBudget
Exceeded(polls) == polls >= MaxAttempts \/ deadline = 0

\* profileRunProviderSucceeded on the row that was read
ProviderSucceeded == status \in {"completed", "materializing"} \/ result = "success"

Retained == task.retention # "disabled"
Required == task.retention = "required"

\* LoadTaskProfileContext fails: always, once the definition is lost, and before
\* for a database error or a context that ends first.
LoadFails ==
    IF loads THEN faults < MaxFaults /\ faults' = faults + 1
             ELSE UNCHANGED faults

\* The bound of the model: a claim that could happen again and again.
Claimable == count < MaxCount

Init ==
    /\ task \in [mode : Modes, retention : Retentions, source : BOOLEAN]
    /\ status \in {"other", "queued"}
    /\ outcome = "pending"
    /\ count = 0
    /\ owner = None
    /\ lease = 0
    /\ wait = 0
    /\ deadline \in {-1, MaxDeadline}
    /\ result = "none"
    /\ media = "none"
    /\ provider = "running"
    /\ loads = TRUE
    /\ proc = [p \in Procs |-> Idle]
    /\ faults = 0
    /\ wasReady = FALSE
    /\ blind = 0

-----------------------------------------------------------------------------
(* Leases. *)

\* Both claims write owner and expiry in one conditional UPDATE.
TakeLease(p) ==
    /\ owner' = p
    /\ lease' = Lease
    /\ proc' = [proc EXCEPT ![p] = [Idle EXCEPT !.pc = "claimed",
                                                !.seen = count,
                                                !.was = status,
                                                !.beating = TRUE]]

DropLease ==
    /\ owner' = None
    /\ lease' = 0

\* Seeded bug: only a released task is due, never one whose lease expired.
ClaimReleased(w) ==
    /\ At(w, "idle")
    /\ task.mode = "background"
    /\ StatusRank[status] < StatusRank["materializing"]
    /\ wait = 0
    /\ owner = None
    /\ Claimable
    /\ TakeLease(w)
    /\ UNCHANGED <<task, status, outcome, count, wait, deadline, result, env>>

\* ClaimDueTaskRun: background mode, status the poller owns, poll due, no live
\* lease.  The task was accepted: Init is the row of an accepted submission.
ClaimDue(w) ==
    /\ At(w, "idle")
    /\ task.mode = "background"
    /\ StatusRank[status] < StatusRank["materializing"]
    /\ wait = 0
    /\ lease = 0
    /\ Claimable
    /\ TakeLease(w)
    /\ UNCHANGED <<task, status, outcome, count, wait, deadline, result, env>>

\* ClaimTaskRunPoll, from a status request: not terminal, no live lease.
ClaimPoll(c) ==
    /\ At(c, "checked")
    /\ IF ~Terminal(status) /\ lease = 0 /\ Claimable
         THEN TakeLease(c)
         ELSE Return(c) /\ UNCHANGED <<owner, lease>>
    /\ UNCHANGED <<task, status, outcome, count, wait, deadline, result, env>>

\* Seeded bug: a renewal extends the old expiry instead of counting from now.
RenewFromExpiry(p) ==
    /\ proc[p].beating
    /\ IF Fence(p)
         THEN /\ lease' = lease + Lease
              /\ UNCHANGED proc
         ELSE /\ HeartStops(p)
              /\ UNCHANGED lease
    /\ UNCHANGED <<task, status, outcome, count, owner, wait, deadline, result, env>>

\* The heartbeat of keepLeaseAlive: RenewTaskRunLease, or the loss it reports.
Renew(p) ==
    /\ proc[p].beating
    /\ IF Fence(p)
         THEN /\ lease' = Lease
              /\ UNCHANGED proc
         ELSE /\ HeartStops(p)
              /\ UNCHANGED lease
    /\ UNCHANGED <<task, status, outcome, count, owner, wait, deadline, result, env>>

\* A renewal that fails for another reason stops the heartbeat all the same.
RenewFails(p) ==
    /\ proc[p].beating
    /\ faults < MaxFaults
    /\ faults' = faults + 1
    /\ HeartStops(p)
    /\ UNCHANGED <<task, row, media, provider, loads, wasReady, blind>>

-----------------------------------------------------------------------------
(* The provider call, shared by both kinds of poller. *)

\* Errors of the way to the provider that are met after the budget: for a
\* worker they are a failed poll like any other.
Poll(p) ==
    /\ At(p, "claimed")
    /\ loads
    /\ ~Exceeded(proc[p].seen)
    /\ IF p \in Workers
         THEN \/ Hears(p, Failed, FALSE, "observed")
              \/ \E a \in Answers : Hears(p, a, FALSE, "answered")
         ELSE \E a \in Answers \cup {Failed, Unprepared} : Hears(p, a, FALSE, "answered")
    /\ UNCHANGED <<task, row, env>>

\* The payload is stored in a fenced transaction of its own, before the
\* lifecycle projection.
StorePayload(p) ==
    /\ Fence(p)
    /\ result' = IF proc[p].outcome = "success" THEN "success" ELSE "other"
    /\ UNCHANGED <<task, status, outcome, count, owner, lease, wait, deadline, env>>

\* EnsureTaskResultMedia / EnsureTaskContentMedia: first-or-create.
EnqueueMedia == media' = IF media = "none" THEN "pending" ELSE media

-----------------------------------------------------------------------------
(* BackgroundPoller.RunOnce with ProfilePoll. *)

\* Profile, operation and retention are loaded before the budget is looked at;
\* without them the observation is a failed poll, whatever the row has counted.
WorkerUnprepared(w) ==
    /\ At(w, "claimed")
    /\ LoadFails
    /\ Hears(w, Failed, TRUE, "observed")
    /\ UNCHANGED <<task, row, media, provider, loads, wasReady, blind>>

\* The budget is spent: an observation that skips poll accounting.
WorkerBudget(w) ==
    /\ At(w, "claimed")
    /\ loads
    /\ Exceeded(proc[w].seen)
    /\ Observe(w, Answer("expired", "failed"))
    /\ UNCHANGED <<task, row, env>>

\* persistProfilePollPayload; a lost fence, a context cancelled by the
\* heartbeat or a database error becomes a failed observation.
WorkerPersist(w) ==
    /\ At(w, "answered")
    /\ \/ /\ proc[w].beating
          /\ StorePayload(w)
          /\ Goto(w, "persisted")
       \/ /\ Observe(w, Failed)
          /\ UNCHANGED <<task, row, env>>

Stored == Answer("completed", "success")
Parked == Answer("materializing", "pending")

\* Seeded bug: assets that are only enqueued count as stored.
ProjectedEnqueued(batch) ==
    IF Required /\ batch = "none" THEN Parked ELSE Stored

\* projectProfilePollResult for a successful provider task: what the
\* observation asks for, given the batch after the enqueue.
Projected(batch) ==
    IF Required /\ batch # "ready" THEN Parked ELSE Stored

\* The second fenced transaction of ProfilePoll.  A failed enqueue rolls the
\* media rows back; required retention then keeps the task processing.
WorkerProject(w) ==
    LET heard  == Answer(proc[w].answer, proc[w].outcome)
        stores == proc[w].outcome = "success" /\ Retained
    IN  /\ At(w, "persisted")
        /\ \/ /\ Observe(w, Failed)
              /\ UNCHANGED media
           \/ /\ Fence(w) /\ proc[w].beating /\ ~stores
              /\ Observe(w, heard)
              /\ UNCHANGED media
           \/ /\ Fence(w) /\ proc[w].beating /\ stores /\ task.source
              /\ EnqueueMedia
              /\ Observe(w, Projected(media'))
           \/ /\ Fence(w) /\ proc[w].beating /\ stores
              /\ Observe(w, IF Required THEN Answer("processing", "pending") ELSE Stored)
              /\ UNCHANGED media
        /\ UNCHANGED <<task, row, provider, loads, faults, wasReady, blind>>

\* A failed renewal ends the attempt without a commit.
WorkerGivesUp(w) ==
    /\ At(w, "observed")
    /\ ~proc[w].beating
    /\ Return(w)
    /\ UNCHANGED <<task, row, env>>

\* The accounting of a poll, in RecordTaskPollForLease.
Record(p) ==
    /\ count' = count + 1
    /\ blind' = IF proc[p].blind THEN blind + 1 ELSE blind

\* UpdateTaskRunStatus with its outcome
Becomes(s, o) ==
    /\ status' = s
    /\ outcome' = o

\* The commit: account for the poll unless it was skipped, move the status if
\* there is one and that is no regression, then release or reschedule.  A
\* projected materializing pauses the polling; the provider's own word for it
\* does not, and is rescheduled to no avail.
WorkerCommit(w) ==
    LET asked == proc[w].answer
    IN  /\ At(w, "observed")
        /\ proc[w].beating
        /\ IF Fence(w)
             THEN /\ IF asked = "expired" THEN UNCHANGED <<count, blind>> ELSE Record(w)
                  /\ IF asked \in Statuses /\ MayBecome(status, asked)
                       THEN Becomes(asked, proc[w].outcome)
                       ELSE UNCHANGED <<status, outcome>>
                  /\ wait' = IF Terminal(status') \/ (asked = "materializing" /\ result = "success")
                               THEN wait ELSE PollDelay
                  /\ DropLease
             ELSE UNCHANGED <<count, blind, status, outcome, wait, owner, lease>>
        /\ Return(w)
        /\ UNCHANGED <<task, deadline, result, media, provider, loads, faults, wasReady>>

-----------------------------------------------------------------------------
(* profileTaskStatus: a status request of the owning client. *)

\* The first read.  What it saw decides whether the request settles a task the
\* provider has finished, polls, or only renders the stored state.  A profile
\* that does not load leaves nothing to settle.
StatusRead(c) ==
    /\ At(c, "idle")
    /\ \/ /\ ProviderSucceeded /\ Retained /\ loads
          /\ Goto(c, "settling")
          /\ UNCHANGED faults
       \/ /\ task.mode = "client"
          /\ ~Terminal(status)
          /\ IF ProviderSucceeded /\ Retained THEN LoadFails ELSE UNCHANGED faults
          /\ Goto(c, "checked")
    /\ UNCHANGED <<task, row, media, provider, loads, wasReady, blind>>

\* CompleteTaskRunAfterMedia: promotes a task that is not terminal once every
\* asset row is available; fenced by nothing but the row itself.
CompleteAfterMedia(batch) ==
    IF ~Terminal(status) /\ batch = "ready"
      THEN Becomes("completed", "success") ELSE UNCHANGED <<status, outcome>>

\* profileRequiredMediaStatus: complete, or enqueue once more (an error is
\* dropped), or park a required task that has nothing to download.  Only a
\* retained task without assets and without a source goes on to poll.
Settle(c) ==
    /\ At(c, "settling")
    /\ \/ /\ media # "none"
          /\ CompleteAfterMedia(media)
          /\ Return(c)
          /\ UNCHANGED media
       \/ /\ media = "none" /\ task.source
          /\ EnqueueMedia \/ UNCHANGED media
          /\ Return(c)
          /\ UNCHANGED <<status, outcome>>
       \/ /\ media = "none" /\ ~task.source /\ Required
          /\ IF MayBecome(status, "materializing")
               THEN Becomes("materializing", "pending") ELSE UNCHANGED <<status, outcome>>
          /\ Return(c)
          /\ UNCHANGED media
       \/ /\ media = "none" /\ ~task.source /\ ~Required
          /\ IF task.mode = "client" /\ ~Terminal(status)
               THEN Goto(c, "checked") ELSE Return(c)
          /\ UNCHANGED <<media, status, outcome>>
    /\ UNCHANGED <<task, count, owner, lease, wait, deadline, result,
                   provider, loads, faults, wasReady, blind>>

\* The budget is spent: expire the task instead of polling it.
ClientBudget(c) ==
    /\ At(c, "claimed")
    /\ loads
    /\ Exceeded(proc[c].seen)
    /\ IF Fence(c) /\ MayBecome(status, "expired")
         THEN Becomes("expired", "failed") ELSE UNCHANGED <<status, outcome>>
    /\ Finish(c)
    /\ UNCHANGED <<task, count, owner, lease, wait, deadline, result, env>>

\* profileOperationSnapshot answers a failed load with no operation, and that
\* has no budget.  The poll loads the profile again: the provider is asked,
\* or the load fails once more (always, when the request itself has ended).
ClientUnread(c) ==
    /\ At(c, "claimed")
    /\ LoadFails
    /\ \E a \in {Unprepared} \cup (IF loads THEN Answers \cup {Failed} ELSE {}) :
         Hears(c, a, TRUE, "answered")
    /\ UNCHANGED <<task, row, media, provider, loads, wasReady, blind>>

\* A failed poll is recorded, and expires the task when it was the last one
\* and the request knows the operation.  A refused expiry rolls the record
\* back too.
ClientPollFailed(c) ==
    LET last == proc[c].answer = "error" /\ Exceeded(count + 1)
    IN  /\ At(c, "answered")
        /\ proc[c].answer \in {"error", "unprepared"}
        /\ \/ /\ Fence(c) /\ ~last
              /\ Record(c)
              /\ UNCHANGED <<status, outcome>>
           \/ /\ Fence(c) /\ last /\ MayBecome(status, "expired")
              /\ Record(c)
              /\ Becomes("expired", "failed")
           \/ /\ ~Fence(c) \/ (last /\ ~MayBecome(status, "expired"))
              /\ UNCHANGED <<count, blind, status, outcome>>
        /\ Finish(c)
        /\ UNCHANGED <<task, owner, lease, wait, deadline, result,
                       media, provider, loads, faults, wasReady>>

ClientPersist(c) ==
    /\ At(c, "answered")
    /\ proc[c].answer \notin {"error", "unprepared"}
    /\ \/ /\ StorePayload(c)
          /\ Goto(c, IF proc[c].outcome = "success" /\ Retained
                       THEN "persisted" ELSE "projecting")
       \/ /\ ~Fence(c)
          /\ Finish(c)
          /\ UNCHANGED <<task, row, env>>

\* The enqueue of the result's assets; the request goes on with its error.
ClientEnqueue(c) ==
    /\ At(c, "persisted")
    /\ \/ /\ ~Fence(c)
          /\ Finish(c)
          /\ UNCHANGED media
       \/ /\ Fence(c) /\ task.source
          /\ EnqueueMedia
          /\ Goto(c, "projecting")
       \/ /\ Fence(c) /\ (task.source \/ Required)
          /\ proc' = [proc EXCEPT ![c].pc = "projecting", ![c].mediaErr = TRUE]
          /\ UNCHANGED media
       \/ /\ Fence(c) /\ ~task.source /\ ~Required
          /\ Goto(c, "projecting")
          /\ UNCHANGED media
    /\ UNCHANGED <<task, row, provider, loads, faults, wasReady, blind>>

\* The lifecycle projection: readiness is read inside this transaction, and a
\* refused status rolls the poll record back.
ClientProject(c) ==
    LET waits == /\ proc[c].outcome = "success" /\ Required
                 /\ proc[c].mediaErr \/ media # "ready"
        next  == IF waits THEN Parked ELSE Answer(proc[c].answer, proc[c].outcome)
    IN  /\ At(c, "projecting")
        /\ IF Fence(c) /\ MayBecome(status, next.answer)
             THEN /\ Record(c)
                  /\ Becomes(next.answer, next.outcome)
             ELSE UNCHANGED <<count, blind, status, outcome>>
        /\ Finish(c)
        /\ UNCHANGED <<task, owner, lease, wait, deadline, result,
                       media, provider, loads, faults, wasReady>>

\* The request's context ends between two of its transactions.
RequestCancelled(c) ==
    /\ \/ At(c, "claimed") /\ loads /\ Exceeded(proc[c].seen)
       \/ /\ proc[c].pc \in {"answered", "persisted", "projecting"}
          /\ proc[c].answer \notin {"error", "unprepared"}
    /\ Finish(c)
    /\ UNCHANGED <<task, row, env>>

\* The deferred ReleaseTaskRunLease: by owner alone, whatever the expiry.
Release(c) ==
    /\ At(c, "releasing")
    /\ IF owner = c THEN DropLease ELSE UNCHANGED <<owner, lease>>
    /\ Return(c)
    /\ UNCHANGED <<task, status, outcome, count, wait, deadline, result, env>>

-----------------------------------------------------------------------------
(* The surroundings: provider, media library, clock, failures. *)

ProviderFinishes ==
    /\ provider = "running"
    /\ provider' \in {"succeeded", "failed"}
    /\ UNCHANGED <<task, row, proc, media, loads, faults, wasReady, blind>>

\* The revision is deleted or edited and no archived snapshot has its digest:
\* getTaskProfileSnapshot refuses the task from now on.
DefinitionLost ==
    /\ loads
    /\ loads' = FALSE
    /\ UNCHANGED <<task, row, proc, media, provider, faults, wasReady, blind>>

\* CommitMediaMaterialization of the last missing asset, which completes the
\* task in the same transaction.
MediaStored ==
    /\ media = "pending"
    /\ media' = "ready"
    /\ wasReady' = TRUE
    /\ CompleteAfterMedia("ready")
    /\ UNCHANGED <<task, count, owner, lease, wait, deadline, result,
                   provider, loads, faults, blind, proc>>

\* An asset is deleted or expires: the batch is never all available again.
MediaRevoked ==
    /\ media \in {"pending", "ready"}
    /\ media' = "gone"
    /\ UNCHANGED <<task, row, proc, provider, loads, faults, wasReady, blind>>

\* The purge of revoked assets removes their rows from the batch.
MediaPurged ==
    /\ media = "gone"
    /\ media' \in {"none", "pending", "ready"}
    /\ wasReady' = (wasReady \/ media' = "ready")
    /\ UNCHANGED <<task, row, proc, provider, loads, faults, blind>>

\* Time.  That a holder with a working heartbeat still loses its lease (a
\* stalled process or database) is a fault.
Stalled == \E p \in Procs : Fence(p) /\ proc[p].beating /\ lease = 1
Countdown(n) == IF n > 0 THEN n - 1 ELSE n

Tick ==
    /\ lease > 0 \/ wait > 0 \/ deadline > 0
    /\ IF Stalled THEN faults < MaxFaults /\ faults' = faults + 1
                  ELSE UNCHANGED faults
    /\ lease' = Countdown(lease)
    /\ wait' = Countdown(wait)
    /\ deadline' = Countdown(deadline)
    /\ UNCHANGED <<task, status, outcome, count, owner, result, media, provider, loads,
                   proc, wasReady, blind>>

\* A handler dies between two of its transactions; its lease stays behind.
Crash(p) ==
    /\ ~At(p, "idle")
    /\ faults < MaxFaults
    /\ faults' = faults + 1
    /\ Return(p)
    /\ UNCHANGED <<task, row, media, provider, loads, wasReady, blind>>

-----------------------------------------------------------------------------
WorkerStep(w) ==
    \/ ClaimDue(w) \/ WorkerUnprepared(w) \/ WorkerBudget(w) \/ Poll(w)
    \/ WorkerPersist(w) \/ WorkerProject(w) \/ WorkerGivesUp(w) \/ WorkerCommit(w)

ClientStep(c) ==
    \/ ClaimPoll(c) \/ Settle(c) \/ ClientBudget(c) \/ ClientUnread(c) \/ Poll(c)
    \/ ClientPollFailed(c) \/ ClientPersist(c) \/ ClientEnqueue(c)
    \/ ClientProject(c) \/ RequestCancelled(c) \/ Release(c)

Next ==
    \/ \E w \in Workers : WorkerStep(w)
    \/ \E c \in Clients : StatusRead(c) \/ ClientStep(c)
    \/ \E p \in Procs : Renew(p) \/ RenewFails(p) \/ Crash(p)
    \/ ProviderFinishes \/ DefinitionLost \/ MediaStored \/ MediaRevoked \/ MediaPurged \/ Tick

Spec == Init /\ [][Next]_vars

\* The workers are never stopped for good, and time passes.  Nobody has to send
\* a request or to finish one, and the provider and the materializer may do
\* nothing for ever.
Fairness ==
    /\ \A w \in Workers : WF_vars(WorkerStep(w))
    /\ WF_vars(Tick)

FairSpec == Spec /\ Fairness

-----------------------------------------------------------------------------
(* What must hold. *)

TypeOK ==
    /\ task \in [mode : Modes, retention : Retentions, source : BOOLEAN]
    /\ status \in Statuses
    /\ outcome \in Outcomes
    /\ count \in Nat
    /\ owner \in Procs \cup {None}
    /\ lease \in 0..Lease
    /\ wait \in 0..PollDelay
    /\ deadline \in -1..MaxDeadline
    /\ result \in {"none", "success", "other"}
    /\ media \in MediaStates
    /\ provider \in {"running", "succeeded", "failed"}
    /\ loads \in BOOLEAN
    /\ proc \in [Procs -> Handler]
    /\ faults \in 0..MaxFaults
    /\ wasReady \in BOOLEAN
    /\ blind \in Nat

\* The record passes the budget only by polls whose handler could not read it:
\* claims, stalls and takeovers never count one poll twice, and no worker that
\* lost its lease adds to the account of its successor
\* (RecordTaskPollForLease, profilePollBudget, profileClientPollBudget).
BudgetRespected == count <= MaxAttempts + blind

\* Claim and commit are one critical section: as long as a handler could still
\* pass the fence, the row has the poll count its claim returned, so that
\* nobody's accounting is lost or built on a stale row.
NoLostPoll ==
    \A p \in Procs :
        Fence(p) /\ proc[p].pc \notin {"idle", "settling", "checked", "releasing"}
            => proc[p].seen = count

\* A task under required retention succeeds only if at some time every asset
\* of it was stored (CompleteTaskRunAfterMedia, projectProfilePollResult and
\* the readiness that profileTaskStatus reads in its last transaction).  A task
\* that is completed by a word outside SuccessValues has no such outcome.
RequiredCompletedAfterMedia == Required /\ outcome = "success" => wasReady

\* A background task leaves the poll queue: it ends, or is left to its media,
\* whatever the provider does and says, and with any finite number of crashes,
\* lost renewals, stalls and failed loads - unless its definition is lost.
PollingEnds ==
    (task.mode = "background") ~> (Terminal(status) \/ status = "materializing" \/ ~loads)

\* profile_status.go says of profileRequiredMediaStatus that it keeps a
\* provider-completed task out of the provider poll loop while its required
\* assets are pending.
MaterializingNotPolled ==
    [][ \A c \in Clients :
          (At(c, "claimed") /\ proc'[c].pc = "answered" /\ proc'[c].answer # "unprepared")
              => ~(Required /\ status = "materializing" /\ media = "pending") ]_vars

\* Leases, retries, takeovers and the materializer are invisible to the reader
\* of a task: the detailed protocol does only what TaskContract allows.
Contract == INSTANCE TaskContract
                WITH required <- Required, st <- status, won <- (outcome = "success"),
                     polls <- count, unread <- blind,
                     late <- (deadline = 0), stored <- wasReady
ImplementsContract == Contract!Spec
=============================================================================
