-------------------------------- MODULE Gateway --------------------------------
(***************************************************************************)
(* What requests go through and leave behind: the choice of a channel      *)
(* (Routing), the submissions under a key (Submission), the polls a        *)
(* submission makes before it answers (GatewayWait), the account of the    *)
(* administrator (Accounts), the request log of a task (AuditLog) and the  *)
(* profiles and bindings of the console (Catalog).  The six have no row,   *)
(* lock or map in common here, and their steps interleave.                 *)
(***************************************************************************)
EXTENDS Integers

CONSTANTS
    Requests, Processes, Routes, Bodies, MaxCrashes, MaxRebinds,  \* Submission
    Definitions, Retries, Milli, Second, MaxInt, MaxAsks,         \* GatewayWait
    Logins, Calls, Keys, Buckets, MaxTokens, Passwords, Limit,    \* Accounts
    Window, MaxBuckets, Slots, Lifetime, ExtendAfter, Initial, MaxVersion,
    MaxPolls, Statuses, MaxProgress, MaxMishaps,                  \* AuditLog
    Order, Fleets, Replies, MaxWeight, MaxPools, MaxTurns, MaxChanges,  \* Routing
    MaxRevision, Contents, Offers, Preset, Patterns, Precedences, \* Catalog
    MaxBindings, Editors, Tasks,
    None

VARIABLES
    bound, row, table, refs, holder, req, sent, made, crashes, rebinds,
    definition, pc, attempt, elapsed, delay, asked, gone, attempts, lastErr,
    outcome, count, counters, logged, asks,
    user, session, proof, listed, bucket, login, call,
    creation, summary, mapping, poll, batch, mixed, mishaps,
    fleet, open, pools, clock, request, recent, changes,
    source, alone, there, latest, revision, binding, archive, task, edit

Submits == INSTANCE Submission
Waits == INSTANCE GatewayWait WITH row <- counters
Admits == INSTANCE Accounts WITH table <- listed
Logs == INSTANCE AuditLog
Serves == INSTANCE Routing
Keeps == INSTANCE Catalog

submission == <<bound, row, table, refs, holder, req, sent, made, crashes, rebinds>>
wait == <<definition, pc, attempt, elapsed, delay, asked, gone, attempts, lastErr,
          outcome, count, counters, logged, asks>>
accounts == <<user, session, proof, listed, bucket, login, call>>
log == <<creation, summary, mapping, poll, batch, mixed, mishaps>>
routing == <<fleet, open, pools, clock, request, recent, changes>>
catalog == <<source, alone, there, latest, revision, binding, archive, task, edit>>
vars == <<submission, wait, accounts, log, routing, catalog>>

GatewayAssumption ==
    /\ Submits!SubmissionAssumption /\ Waits!GatewayWaitAssumption
    /\ Admits!AccountsAssumption /\ Logs!AuditLogAssumption
    /\ Serves!RoutingAssumption /\ Keeps!CatalogAssumption

Init ==
    /\ Submits!Init /\ Waits!Init /\ Admits!Init /\ Logs!Init /\ Serves!Init
    /\ Keeps!Init

SubmissionStep == Submits!Next /\ UNCHANGED <<wait, accounts, log, routing, catalog>>
WaitStep == Waits!Next /\ UNCHANGED <<submission, accounts, log, routing, catalog>>
AccountStep == Admits!Next /\ UNCHANGED <<submission, wait, log, routing, catalog>>
LogStep == Logs!Next /\ UNCHANGED <<submission, wait, accounts, routing, catalog>>
RoutingStep == Serves!Next /\ UNCHANGED <<submission, wait, accounts, log, catalog>>
CatalogStep == Keeps!Next /\ UNCHANGED <<submission, wait, accounts, log, routing>>
Next ==
    SubmissionStep \/ WaitStep \/ AccountStep \/ LogStep \/ RoutingStep \/ CatalogStep

Spec == Init /\ [][Next]_vars

-----------------------------------------------------------------------------
\* One lock of a key in a process and one holder of it, one submission of an
\* operation and body, and one of a key by a process and operation (Submission).
OneSubmission == Submits!LockExclusive /\ Submits!SubmitOnce /\ Submits!KeyOnce

\* No task the provider may have made is forgotten, and a replay is the task of
\* the same body (Submission).
TasksAreRemembered == Submits!SentIsRemembered /\ Submits!ReplayIsTheTask

\* The polls of the loop are bounded and counted, the answer of the last one
\* decides, and the counters of the row agree with its attempts (GatewayWait).
WaitAccounted == Waits!PollsAccounted /\ Waits!LastAnswerWins /\ Waits!CountersAgree

\* Delays are exact up to what a duration holds (GatewayWait).
DelayExact == Waits!DelayExact

\* Attempts and failures of a key stay within the limit; a session is accepted
\* for the credentials in force, a revoked one is refused, and the credentials
\* are changed by one request at a time (Accounts).
AccountsKept ==
    /\ [](Admits!AttemptsBounded /\ Admits!SessionsAreCurrent /\ Admits!RevokedAreRefused)
    /\ Admits!CredentialsSerial

\* The log is well-formed, its polls are accounted for once, and late ones do not
\* take the summary back (AuditLog).
LogAccounted == [](Logs!TypeOK /\ Logs!PollsAccounted) /\ Logs!SummaryAdvances

\* Every key of a channel is asked at most once for a request and nobody after
\* one that may have run it, and the sets of channels used last keep their turns
\* (Routing).
RequestsRouted == Serves!SubmittedOnce /\ Serves!TurnsKept

\* A stored task keeps the content it was submitted with, latest_revision is the
\* highest one, what was published is not edited, and the bindings of a single
\* administrator have published revisions and do not overlap (Catalog).
CatalogKept ==
    /\ [](Keeps!TasksKeepTheirProfile /\ Keeps!LatestIsHighest /\ Keeps!BindingsStand)
    /\ Keeps!PublishedIsFrozen

\* Each channel of a set gets its share of the turns (Routing).
TurnsFair == Serves!TurnsFair
=============================================================================
