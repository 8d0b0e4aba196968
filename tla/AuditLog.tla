------------------------------ MODULE AuditLog ------------------------------
(***************************************************************************)
(* The request log of one asynchronous task: audit/audit.go, the           *)
(* middleware of router/router.go that opens and closes an entry, and the  *)
(* reconciliation of router/legacy_task_lifecycle.go.                      *)
(*                                                                         *)
(* The request that created the task has a row with a summary of the task  *)
(* (the async_* columns).  A status poll of a client has a row of its own, *)
(* which is folded into that summary when the poll was answered.  A        *)
(* statement or a transaction is one action; of the transaction that folds *)
(* a poll, what it reads before it has the writer is a step of its own.    *)
(***************************************************************************)
EXTENDS Integers, FiniteSets, FiniteSetsExt

CONSTANTS MaxPolls,      \* bound: status polls, numbered as they start
          Statuses,      \* task statuses a provider answers with
          MaxProgress,   \* highest progress a result shows; -1: none does
          MaxMishaps     \* bound: writes that run out of their budget, deaths of
                         \* the process, and cleanups or deletions of the log

AuditLogAssumption ==
    /\ MaxPolls \in Nat /\ MaxProgress \in Int /\ MaxProgress >= -1
    /\ {"queued", "completed"} \subseteq Statuses
    /\ MaxMishaps \in Nat

Polls == 1 .. MaxPolls
\* Progress of a result body; -1 stands for a body that shows none.
Progress == -1 .. MaxProgress

VARIABLES
    creation,  \* the request that creates the task
    summary,   \* its row in request_logs
    mapping,   \* the task's mapping still names this request as its origin
    poll,      \* the status polls, their entries and rows
    batch,     \* the reconciliation of the recovery worker
    mixed,     \* a reconciliation wrote over a poll folded since it read
    mishaps

vars == <<creation, summary, mapping, poll, batch, mixed, mishaps>>

Summary == [there : BOOLEAN, status : Statuses \cup {""}, progress : Progress,
            body : BOOLEAN, count : Nat, completed : BOOLEAN]
\* row: it has one in request_logs; console: its path is the playground's;
\* named: the stored answer names the task; folded: how often it was added.
Poll == [pc : {"idle", "running", "answered", "recorded", "merging", "over"},
         row : BOOLEAN, console : BOOLEAN, marked : BOOLEAN, named : BOOLEAN, failed : BOOLEAN,
         status : Statuses \cup {""}, progress : Progress,
         folded : 0 .. 2]
NoPoll == [pc |-> "idle", row |-> FALSE, console |-> FALSE, marked |-> FALSE, named |-> FALSE,
           failed |-> FALSE, status |-> "", progress |-> -1, folded |-> 0]
Batch == [pc : {"idle", "listed", "read"}, rows : SUBSET Polls, count : Nat,
          status : Statuses \cup {""}, body : BOOLEAN, progress : Progress]
NoBatch == [pc |-> "idle", rows |-> {}, count |-> 0, status |-> "", body |-> FALSE,
            progress |-> -1]

Init ==
    /\ creation = "running"
    /\ summary = [there |-> TRUE, status |-> "", progress |-> -1, body |-> FALSE,
                  count |-> 0, completed |-> FALSE]
    /\ mapping = TRUE
    /\ poll = [p \in Polls |-> NoPoll]
    /\ batch = NoBatch
    /\ mixed = FALSE
    /\ mishaps = 0

-----------------------------------------------------------------------------
(* What a status may become.                                               *)

isTerminal(status) == status \in {"completed", "failed"}
\* asyncTaskStatusRank; a status that is not listed has none.
Rank(status) ==
    CASE status = "" -> 0
      [] status = "queued" -> 1
      [] status \in {"processing", "materializing"} -> 2
      [] isTerminal(status) -> 3
      [] OTHER -> -1

\* Seeded bug: ranks alone decide.
CanAdvanceByRank(current, next) ==
    (Rank(current) >= 0 /\ Rank(next) >= 0) => Rank(next) >= Rank(current)

\* asyncTaskStatusCanAdvance.
CanAdvance(current, next) ==
    IF isTerminal(current) THEN next = current
    ELSE (Rank(current) >= 0 /\ Rank(next) >= 0) => Rank(next) >= Rank(current)

\* Seeded bug: any repeated result is taken.
CanRefreshAlways(status, current, next) == TRUE

\* asyncTaskResultCanRefresh.
CanRefresh(status, current, next) == isTerminal(status) \/ current = -1 \/ next >= current

-----------------------------------------------------------------------------
(* The request that creates the task.                                      *)

\* RecordAsyncTaskCreated, just before the answer that names the task.
RecordCreated(status) ==
    /\ creation = "running"
    /\ creation' = "created"
    /\ summary' = IF summary.there
                  THEN [summary EXCEPT !.status = status, !.count = 0,
                                       !.completed = isTerminal(status)]
                  ELSE summary
    /\ UNCHANGED <<mapping, poll, batch, mixed, mishaps>>

-----------------------------------------------------------------------------
(* A status poll: the middleware around it, and the mark of its handler.   *)

Set(p, rec) == poll' = [poll EXCEPT ![p] = rec]
GoTo(p, pc) == Set(p, [poll[p] EXCEPT !.pc = pc])
\* A poll that is over and has no row is a number only.
Gone(p) == [NoPoll EXCEPT !.pc = "over", !.folded = poll[p].folded]
Over(p) == IF poll[p].row THEN [poll[p] EXCEPT !.pc = "over", !.marked = FALSE, !.failed = FALSE]
           ELSE Gone(p)
Leave(p) == Set(p, Over(p))
\* Its row is deleted while it may still be under way.
Rowless(p) == IF poll[p].pc = "over" THEN Gone(p) ELSE [poll[p] EXCEPT !.row = FALSE]

\* StartContext.
Start(p, console) ==
    /\ poll[p].pc = "idle"
    /\ creation = "created"
    /\ \A q \in 1 .. p - 1 : poll[q].pc # "idle"
    /\ Set(p, [NoPoll EXCEPT !.pc = "running", !.row = TRUE, !.console = console])
    /\ UNCHANGED <<creation, summary, mapping, batch, mixed, mishaps>>

\* The handler answers with a status, marked while the task has its mapping, or
\* with an error.
Answer(p, status, progress) ==
    /\ poll[p].pc = "running"
    /\ Set(p, [poll[p] EXCEPT !.pc = "answered", !.marked = mapping, !.named = TRUE,
                              !.status = status, !.progress = progress])
    /\ UNCHANGED <<creation, summary, mapping, batch, mixed, mishaps>>
AnswerError(p) ==
    /\ poll[p].pc = "running"
    /\ GoTo(p, "answered")
    /\ UNCHANGED <<creation, summary, mapping, batch, mixed, mishaps>>

\* RecordResult; the write may run out of its budget, or it stores the outcome of
\* a request whose client left.  The entry remembers either.
Record(p) ==
    /\ poll[p].pc = "answered"
    /\ \E stored, success \in BOOLEAN :
           /\ stored \/ mishaps < MaxMishaps
           /\ mishaps' = mishaps + IF stored THEN 0 ELSE 1
           /\ Set(p, [poll[p] EXCEPT !.pc = "recorded", !.failed = ~(stored /\ success),
                                     !.named = @ /\ stored])
    /\ UNCHANGED <<creation, summary, mapping, batch, mixed>>

\* What CoalesceMarkedAsyncTaskPoll asks of the entry ...
Eligible(p) == poll[p].marked /\ ~poll[p].failed

\* ... and of the mapping and the creation's row in its transaction.
Validate(p) ==
    /\ poll[p].pc = "recorded"
    /\ IF Eligible(p) /\ mapping /\ summary.there
       THEN GoTo(p, "merging")
       ELSE Leave(p)
    /\ UNCHANGED <<creation, summary, mapping, batch, mixed, mishaps>>

\* The summary with the poll: it is counted, and its status and result replace
\* those stored unless they are older.
Merged(p) ==
    LET rec == poll[p]
        changes == summary.status # rec.status
    IN IF /\ CanAdvance(summary.status, rec.status)
          /\ changes \/ CanRefresh(rec.status, summary.progress, rec.progress)
       THEN [summary EXCEPT !.count = @ + 1, !.status = rec.status, !.progress = rec.progress,
                            !.body = TRUE, !.completed = @ \/ isTerminal(rec.status)]
       ELSE [summary EXCEPT !.count = @ + 1]

\* Seeded bug: the number of rows deleted is not looked at.
MergeGone(p) ==
    /\ poll[p].pc = "merging"
    /\ IF summary.there
       THEN /\ summary' = Merged(p)
            /\ Set(p, [Gone(p) EXCEPT !.folded = 1])
       ELSE /\ Leave(p)
            /\ UNCHANGED summary
    /\ UNCHANGED <<creation, mapping, batch, mixed, mishaps>>

\* The rest of the transaction: the summary, and the poll's row goes.  It is
\* undone when one of the rows is gone or the budget is spent.
Merge(p) ==
    /\ poll[p].pc = "merging"
    /\ \/ /\ summary.there /\ poll[p].row
          /\ summary' = Merged(p)
          /\ Set(p, [Gone(p) EXCEPT !.folded = 1])
          /\ UNCHANGED mishaps
       \/ /\ ~(summary.there /\ poll[p].row) \/ mishaps < MaxMishaps
          /\ mishaps' = mishaps + IF summary.there /\ poll[p].row THEN 1 ELSE 0
          /\ Leave(p)
          /\ UNCHANGED summary
    /\ UNCHANGED <<creation, mapping, batch, mixed>>

-----------------------------------------------------------------------------
(* ReconcileOrphanedAsyncPollLogs, at start and every five minutes.        *)

\* It lists the polls of the console, also those being folded just then ...
ListPolls ==
    /\ batch.pc = "idle"
    /\ LET rows == {p \in Polls : poll[p].row /\ poll[p].console /\ poll[p].named
                                  /\ poll[p].pc \in {"recorded", "merging", "over"}}
       IN /\ rows # {}
          /\ batch' = [NoBatch EXCEPT !.pc = "listed", !.rows = rows]
    /\ UNCHANGED <<creation, summary, mapping, poll, mixed, mishaps>>

\* ... reads the creation's row, which the mapping names, or the task's row (run
\* is its status, "" if there is none), and makes the new summary of it ...
ReadSummary(run) ==
    /\ batch.pc = "listed"
    /\ IF (mapping \/ run # "") /\ summary.there
       THEN batch' = [batch EXCEPT !.pc = "read", !.count = summary.count + Cardinality(batch.rows),
                          !.status = IF run # "" THEN run ELSE poll[Max(batch.rows)].status,
                          !.body = ~summary.body,
                          !.progress = poll[Max(batch.rows)].progress]
       ELSE batch' = NoBatch
    /\ UNCHANGED <<creation, summary, mapping, poll, mixed, mishaps>>

\* Seeded bug: the rows of the polls stay.
UnlistedKept(p) == [poll[p] EXCEPT !.folded = @ + 1]
Unlisted(p) == [Rowless(p) EXCEPT !.folded = Min({@ + 1, 2})]

\* ... and writes it in one transaction, whatever has happened since.
WriteSummary ==
    /\ batch.pc = "read"
    /\ summary' = IF summary.there
                  THEN [summary EXCEPT !.count = batch.count, !.status = batch.status,
                           !.completed = @ \/ isTerminal(batch.status),
                           !.progress = IF batch.body THEN batch.progress ELSE @,
                           !.body = @ \/ batch.body]
                  ELSE summary
    /\ poll' = [p \in Polls |-> IF p \in batch.rows THEN Unlisted(p) ELSE poll[p]]
    /\ mixed' = (\/ mixed
                 \/ summary.count + Cardinality(batch.rows) # batch.count
                 \/ \E p \in batch.rows : ~poll[p].row)
    /\ batch' = NoBatch
    /\ UNCHANGED <<creation, mapping, mishaps>>

-----------------------------------------------------------------------------
(* The world around it.                                                    *)

\* The mapping is deleted with its channel, or replaced.
Forget ==
    /\ mapping
    /\ mapping' = FALSE
    /\ UNCHANGED <<creation, summary, poll, batch, mixed, mishaps>>

\* CleanupContext and DeleteAllContext: the rows that started first, or all.
Delete(k) ==
    /\ mishaps < MaxMishaps
    /\ mishaps' = mishaps + 1
    /\ summary.there
    /\ summary' = [summary EXCEPT !.there = FALSE]
    /\ poll' = [p \in Polls |-> IF p <= k THEN Rowless(p) ELSE poll[p]]
    /\ UNCHANGED <<creation, mapping, batch, mixed>>

\* The process dies; rows stay as they are.
Crash ==
    /\ mishaps < MaxMishaps
    /\ mishaps' = mishaps + 1
    /\ creation' = IF creation = "running" THEN "closed" ELSE creation
    /\ poll' = [p \in Polls |-> IF poll[p].pc = "idle" THEN poll[p] ELSE Over(p)]
    /\ batch' = NoBatch
    /\ UNCHANGED <<summary, mapping, mixed>>

PollStep(p) ==
    \/ \E console \in BOOLEAN : Start(p, console)
    \/ \E status \in Statuses, progress \in Progress : Answer(p, status, progress)
    \/ AnswerError(p)
    \/ Record(p)
    \/ Validate(p)
    \/ Merge(p)

Next ==
    \/ \E status \in Statuses : RecordCreated(status)
    \/ \E p \in Polls : PollStep(p)
    \/ ListPolls
    \/ \E run \in Statuses \cup {""} : ReadSummary(run)
    \/ WriteSummary
    \/ Forget
    \/ \E k \in 0 .. MaxPolls : Delete(k)
    \/ Crash

Spec == Init /\ [][Next]_vars

-----------------------------------------------------------------------------
TypeOK ==
    /\ creation \in {"running", "created", "closed"}
    /\ summary \in Summary
    /\ mapping \in BOOLEAN /\ mixed \in BOOLEAN
    /\ poll \in [Polls -> Poll]
    /\ batch \in Batch
    /\ mishaps \in 0 .. MaxMishaps

\* While the creation's row is there, a poll has its own row or is part of the
\* summary, and is counted there once, unless a reconciliation wrote over what
\* was folded while it worked.
PollsAccounted ==
    summary.there =>
        /\ ~mixed => summary.count = Cardinality({p \in Polls : poll[p].folded > 0})
        /\ ~mixed => \A p \in Polls : poll[p].folded <= 1
        /\ \A p \in Polls : poll[p].pc # "idle" => (poll[p].row <=> poll[p].folded = 0)

\* Polls answered late or out of order do not take the summary back: a final
\* status stays, a known status goes on to none before it, and the progress of
\* a status does not shrink.  A reconciliation may do all that.
SummaryAdvances ==
    [][~(batch.pc = "read" /\ batch'.pc = "idle") =>
           /\ isTerminal(summary.status) => summary'.status = summary.status
           /\ Rank(summary'.status) >= 0 => Rank(summary'.status) >= Rank(summary.status)
           /\ summary'.status = summary.status /\ ~isTerminal(summary.status) =>
                  summary'.progress >= summary.progress
           /\ summary.completed => summary'.completed]_vars
=============================================================================
