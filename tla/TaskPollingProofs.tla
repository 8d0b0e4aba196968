------------------------- MODULE TaskPollingProofs -------------------------
(* Proofs about TaskPolling, for any workers, clients, budget and bounds. *)
EXTENDS TaskPolling, TLAPS

USE ProcsAssumption, BoundsAssumption

LEMMA StatusFacts ==
    /\ Statuses = {"other", "queued", "processing", "materializing",
                   "completed", "failed", "expired", "timeout"}
    /\ \A s \in Statuses : StatusRank[s] \in Nat
BY DEF Statuses, StatusRank

\* The provider's word for the end of the budget is one of its failures, and
\* only what it calls completed is a success.
LEMMA AnswerFacts ==
    ASSUME provider \in {"running", "succeeded", "failed"}
    PROVE  /\ Answers \subseteq [answer : (Statuses \ {"expired"}) \cup {"silent"},
                                 outcome : Outcomes]
           /\ \A a \in Answers : a.outcome = "success" => a.answer = "completed"
<1>1. CASE provider = "running"
  BY <1>1, StatusFacts DEF Answers, Answer, PassedThrough, Outcomes
<1>2. CASE provider = "succeeded"
  BY <1>2, StatusFacts DEF Answers, Answer, PassedThrough, Outcomes
<1>3. CASE provider = "failed"
  BY <1>3, StatusFacts DEF Answers, Answer, PassedThrough, Outcomes
<1>4. QED
  BY <1>1, <1>2, <1>3

-----------------------------------------------------------------------------
(* The inductive invariant. *)

\* TypeOK without the handlers and the flags.
RowTypeOK ==
    /\ task \in [mode : Modes, retention : Retentions, source : BOOLEAN]
    /\ status \in Statuses
    /\ outcome \in Outcomes
    /\ count \in Nat
    /\ owner \in Procs \cup {None}
    /\ lease \in 0..Lease
    /\ wait \in 0..PollDelay
    /\ deadline \in -1..MaxDeadline
    /\ result \in {"none", "success", "other"}
    /\ media \in MediaStates
    /\ provider \in {"running", "succeeded", "failed"}
    /\ faults \in 0..MaxFaults
    /\ blind \in Nat
FlagsOK ==
    /\ loads \in BOOLEAN
    /\ wasReady \in BOOLEAN

\* What a handler carries between its transactions is what its next
\* transaction may write: within the budget unless it could not be read, and
\* a success only of a completed task with its media.
Words == (Statuses \ {"expired"}) \cup {"silent"}
HandlerOK(p) ==
    /\ At(p, "claimed") => ~Terminal(proc[p].was)
    /\ At(p, "answered") => proc[p].answer \in Words \cup {"error", "unprepared"}
    /\ At(p, "answered") /\ p \in Workers => proc[p].answer \in Words
    /\ At(p, "persisted") \/ At(p, "projecting") => proc[p].answer \in Words
    /\ proc[p].pc \in {"answered", "projecting"} /\ p \in Clients => proc[p].answer # "silent"
    /\ At(p, "persisted") /\ p \in Clients => proc[p].answer # "silent"
    /\ At(p, "observed") => proc[p].answer \in Words \cup {"expired", "error"}
    /\ proc[p].pc \in {"answered", "persisted", "projecting"} /\ ~proc[p].blind
           => proc[p].seen < MaxAttempts
    /\ At(p, "observed") /\ proc[p].answer # "expired" /\ ~proc[p].blind
           => proc[p].seen < MaxAttempts
    /\ At(p, "observed") /\ proc[p].answer = "expired"
           => Exceeded(proc[p].seen) /\ proc[p].outcome = "failed"
    /\ proc[p].pc \in {"answered", "persisted", "projecting", "observed"}
       /\ proc[p].outcome = "success"
           => proc[p].answer = "completed"
    /\ At(p, "observed") /\ proc[p].outcome = "success" /\ Required => wasReady
HandlersOK == \A p \in Procs : HandlerOK(p)
HistoryOK ==
    /\ media = "ready" => wasReady
    /\ outcome = "success" => status = "completed"
    /\ RequiredCompletedAfterMedia
IInv == TypeOK /\ HandlersOK /\ HistoryOK /\ NoLostPoll /\ BudgetRespected

LEMMA IdleHandler ==
    /\ Idle \in Handler
    /\ [Idle EXCEPT !.pc = "releasing"] \in Handler
    /\ \A n \in Nat, s \in Statuses :
           [Idle EXCEPT !.pc = "claimed", !.seen = n, !.was = s, !.beating = TRUE] \in Handler
BY StatusFacts DEF Idle, Handler, PCs, Outcomes

\* What a handler may hear.
Heard == [answer : Statuses \cup {"silent", "error", "unprepared"}, outcome : Outcomes]

LEMMA HeardFacts ==
    /\ Failed \in Heard /\ Unprepared \in Heard /\ Stored \in Heard /\ Parked \in Heard
    /\ Answer("expired", "failed") \in Heard /\ Answer("processing", "pending") \in Heard
BY StatusFacts DEF Failed, Unprepared, Stored, Parked, Answer, Heard, Outcomes

\* The ways a handler moves keep it a handler.
LEMMA Moves ==
    ASSUME RowTypeOK, proc \in [Procs -> Handler], NEW p \in Procs,
           \/ Return(p) \/ Finish(p) \/ TakeLease(p) \/ HeartStops(p)
           \/ \E l \in PCs : Goto(p, l)
           \/ \E a \in Heard, b \in BOOLEAN, l \in PCs : Hears(p, a, b, l)
    PROVE  proc' \in [Procs -> Handler]
<1>1. count \in Nat /\ status \in Statuses
  BY DEF RowTypeOK
<1>2. CASE Return(p)
  BY <1>2, IdleHandler DEF Return
<1>3. CASE Finish(p)
  BY <1>3, IdleHandler DEF Finish
<1>4. CASE TakeLease(p)
  BY <1>1, <1>4, IdleHandler DEF TakeLease
<1>5. CASE HeartStops(p)
  BY <1>5 DEF HeartStops, Handler
<1>6. CASE \E l \in PCs : Goto(p, l)
  BY <1>6 DEF Goto, Handler
<1>7. CASE \E a \in Heard, b \in BOOLEAN, l \in PCs : Hears(p, a, b, l)
  <2>1. PICK a \in Heard, b \in BOOLEAN, l \in PCs : Hears(p, a, b, l)
    BY <1>7
  <2> DEFINE w == IF a.answer = "silent" /\ p \in Clients THEN proc[p].was ELSE a.answer
  <2> DEFINE h == [proc[p] EXCEPT !.pc = l, !.was = "other", !.answer = w,
                                  !.outcome = a.outcome, !.blind = b]
  <2>2. /\ proc[p] \in Handler /\ "other" \in Statuses /\ a.outcome \in Outcomes
        /\ w \in Statuses \cup {"silent", "error", "unprepared"}
    BY StatusFacts DEF Heard, Handler
  <2>3. h \in Handler
    BY <2>1, <2>2 DEF Handler
  <2>4. proc' = [proc EXCEPT ![p] = h]
    BY <2>1 DEF Hears
  <2>5. QED
    BY <2>3, <2>4
<1>8. QED BY <1>2, <1>3, <1>4, <1>5, <1>6, <1>7

\* What holds of the handlers is left alone by the steps of another one.
LEMMA Others ==
    ASSUME HandlersOK, UNCHANGED <<task, deadline, wasReady>>, NEW p \in Procs,
           \A q \in Procs \ {p} : proc'[q] = proc[q],
           HandlerOK(p)'
    PROVE  HandlersOK'
<1> SUFFICES ASSUME NEW q \in Procs PROVE HandlerOK(q)'
  BY DEF HandlersOK
<1>1. CASE q = p
  BY <1>1
<1>2. CASE q # p
  BY <1>2 DEF HandlersOK, HandlerOK, At, Exceeded, Required
<1>3. QED
  BY <1>1, <1>2

\* A handler that is done, or has just claimed, has nothing to write.
LEMMA Emptied ==
    ASSUME HandlersOK, RowTypeOK, proc \in [Procs -> Handler],
           UNCHANGED <<task, deadline, wasReady>>, NEW p \in Procs,
           Return(p) \/ Finish(p) \/ (TakeLease(p) /\ ~Terminal(status))
    PROVE  HandlersOK'
<1>1. \A q \in Procs \ {p} : proc'[q] = proc[q]
  BY DEF Return, Finish, TakeLease
<1>2. \/ proc'[p].pc \in {"idle", "releasing"}
      \/ proc'[p].pc = "claimed" /\ proc'[p].was = status /\ ~Terminal(status)
  <2>1. CASE Return(p)
    BY <2>1 DEF Return, Idle
  <2>2. CASE Finish(p)
    BY <2>2 DEF Finish, Idle
  <2>3. CASE TakeLease(p) /\ ~Terminal(status)
    BY <2>3 DEF TakeLease, Idle
  <2>4. QED
    BY <2>1, <2>2, <2>3
<1>3. HandlerOK(p)'
  BY <1>2 DEF HandlerOK, At
<1>4. QED
  BY <1>1, <1>3, Others

LEMMA ClaimDueKeeps ==
    ASSUME IInv, NEW w \in Workers, ClaimDue(w)
    PROVE  IInv'
<1>1. RowTypeOK /\ proc \in [Procs -> Handler] /\ FlagsOK
  BY DEF IInv, TypeOK, RowTypeOK, FlagsOK
<1>2. RowTypeOK'
  BY <1>1, StatusFacts DEF RowTypeOK, ClaimDue, TakeLease, env, Procs
<1>3. proc' \in [Procs -> Handler]
  BY <1>1, Moves DEF ClaimDue, Procs
<1>4. FlagsOK'
  BY <1>1, Zenon DEF FlagsOK, ClaimDue, env
<1>5. HandlersOK'
  BY <1>1, StatusFacts, Emptied DEF IInv, Procs, ClaimDue, env, Terminal,
     StatusRank, RowTypeOK
<1>6. HistoryOK'
  BY <1>1 DEF IInv, HistoryOK, RequiredCompletedAfterMedia, Required, ClaimDue,
     TakeLease, env, Procs
<1>7. NoLostPoll'
  BY <1>1 DEF IInv, RowTypeOK, NoLostPoll, Fence, At, Handler, ClaimDue, TakeLease,
     env, Procs, Idle
<1>8. BudgetRespected'
  BY DEF IInv, BudgetRespected, ClaimDue, env
<1>9. QED
  BY <1>2, <1>3, <1>4, <1>5, <1>6, <1>7, <1>8 DEF IInv, TypeOK, RowTypeOK, FlagsOK

LEMMA ClaimPollKeeps ==
    ASSUME IInv, NEW c \in Clients, ClaimPoll(c)
    PROVE  IInv'
<1>1. RowTypeOK /\ proc \in [Procs -> Handler] /\ FlagsOK
  BY DEF IInv, TypeOK, RowTypeOK, FlagsOK
<1>2. RowTypeOK'
  BY <1>1, StatusFacts DEF RowTypeOK, ClaimPoll, TakeLease, env, Procs
<1>3. proc' \in [Procs -> Handler]
  BY <1>1, Moves DEF ClaimPoll, Procs
<1>4. FlagsOK'
  BY <1>1, Zenon DEF FlagsOK, ClaimPoll, env
<1>5. HandlersOK'
  BY <1>1, Emptied DEF IInv, Procs, ClaimPoll, env
<1>6. HistoryOK'
  BY <1>1 DEF IInv, HistoryOK, RequiredCompletedAfterMedia, Required, ClaimPoll,
     TakeLease, env, Procs
<1>7. NoLostPoll'
  <2>1. CASE TakeLease(c)
    BY <1>1, <2>1 DEF IInv, RowTypeOK, NoLostPoll, Fence, ClaimPoll, TakeLease, Idle,
       Handler, Procs
  <2>2. CASE Return(c) /\ UNCHANGED <<owner, lease>>
    BY <1>1, <2>2 DEF IInv, RowTypeOK, NoLostPoll, Fence, ClaimPoll, Return, Idle,
       Handler, Procs
  <2>3. QED
    BY <2>1, <2>2 DEF ClaimPoll
<1>8. BudgetRespected'
  BY DEF IInv, BudgetRespected, ClaimPoll, env
<1>9. QED
  BY <1>2, <1>3, <1>4, <1>5, <1>6, <1>7, <1>8 DEF IInv, TypeOK, RowTypeOK, FlagsOK

\* A heartbeat is none of the things a handler writes.
LEMMA Beats ==
    ASSUME HandlersOK, proc \in [Procs -> Handler], NEW p \in Procs,
           UNCHANGED <<task, deadline, wasReady>>, HeartStops(p) \/ UNCHANGED proc
    PROVE  HandlersOK'
<1> SUFFICES ASSUME NEW q \in Procs PROVE HandlerOK(q)'
  BY DEF HandlersOK
<1>1. /\ proc'[q].pc = proc[q].pc /\ proc'[q].was = proc[q].was
      /\ proc'[q].answer = proc[q].answer /\ proc'[q].outcome = proc[q].outcome
      /\ proc'[q].seen = proc[q].seen /\ proc'[q].blind = proc[q].blind
  BY DEF HeartStops, Handler
<1>2. HandlerOK(q)
  BY DEF HandlersOK
<1>3. QED
  BY <1>1, <1>2 DEF HandlerOK, At, Exceeded, Required

LEMMA RenewKeeps ==
    ASSUME IInv, NEW p \in Procs, Renew(p)
    PROVE  IInv'
<1>1. RowTypeOK /\ proc \in [Procs -> Handler] /\ FlagsOK
  BY DEF IInv, TypeOK, RowTypeOK, FlagsOK
<1>2. RowTypeOK'
  BY <1>1, StatusFacts DEF RowTypeOK, Renew, HeartStops, env
<1>3. proc' \in [Procs -> Handler]
  BY <1>1, Moves DEF Renew, Procs
<1>4. FlagsOK'
  BY <1>1, Zenon DEF FlagsOK, Renew, env
<1>5. HandlersOK'
  BY <1>1, Beats DEF IInv, Renew, env
<1>6. HistoryOK'
  BY <1>1 DEF IInv, HistoryOK, RequiredCompletedAfterMedia, Required, Renew,
     HeartStops, env
<1>7. NoLostPoll'
  BY <1>1 DEF IInv, RowTypeOK, NoLostPoll, Fence, At, Handler, Renew, HeartStops,
     env
<1>8. BudgetRespected'
  BY DEF IInv, BudgetRespected, Renew, env
<1>9. QED
  BY <1>2, <1>3, <1>4, <1>5, <1>6, <1>7, <1>8 DEF IInv, TypeOK, RowTypeOK, FlagsOK

LEMMA RenewFailsKeeps ==
    ASSUME IInv, NEW p \in Procs, RenewFails(p)
    PROVE  IInv'
<1>1. RowTypeOK /\ proc \in [Procs -> Handler] /\ FlagsOK
  BY DEF IInv, TypeOK, RowTypeOK, FlagsOK
<1>2. RowTypeOK'
  BY <1>1, StatusFacts DEF RowTypeOK, RenewFails, HeartStops, row
<1>3. proc' \in [Procs -> Handler]
  BY <1>1, Moves DEF RenewFails, Procs
<1>4. FlagsOK'
  BY <1>1, Zenon DEF FlagsOK, RenewFails, row
<1>5. HandlersOK'
  BY <1>1, Beats DEF IInv, RenewFails, row
<1>6. HistoryOK'
  BY <1>1 DEF IInv, HistoryOK, RequiredCompletedAfterMedia, Required, RenewFails,
     HeartStops, row
<1>7. NoLostPoll'
  BY <1>1 DEF IInv, RowTypeOK, NoLostPoll, Fence, At, Handler, RenewFails,
     HeartStops, row
<1>8. BudgetRespected'
  BY DEF IInv, BudgetRespected, RenewFails, row
<1>9. QED
  BY <1>2, <1>3, <1>4, <1>5, <1>6, <1>7, <1>8 DEF IInv, TypeOK, RowTypeOK, FlagsOK

\* What a handler hears where: a word of the provider, or none.
AskedOf(p, a, l) ==
    \/ l = "answered" /\ a \in Answers
    \/ l = "answered" /\ p \notin Workers /\ a \in {Failed, Unprepared}
    \/ l = "observed" /\ a = Failed

LEMMA HearsKeeps ==
    ASSUME HandlersOK, RowTypeOK, proc \in [Procs -> Handler],
           UNCHANGED <<task, deadline, wasReady>>,
           NEW p \in Procs, NEW a, NEW l, NEW b \in BOOLEAN,
           At(p, "claimed"), Hears(p, a, b, l), AskedOf(p, a, l),
           b \/ proc[p].seen < MaxAttempts
    PROVE  HandlersOK'
<1> DEFINE w == IF a.answer = "silent" /\ p \in Clients THEN proc[p].was ELSE a.answer
<1>1. /\ \A q \in Procs \ {p} : proc'[q] = proc[q]
      /\ proc'[p] = [proc[p] EXCEPT !.pc = l, !.was = "other", !.answer = w,
                                    !.outcome = a.outcome, !.blind = b]
  BY DEF Hears
<1>2. proc[p] \in Handler /\ proc[p].was \in Statuses /\ proc[p].was # "expired"
  BY StatusFacts DEF HandlersOK, HandlerOK, Terminal, StatusRank, Handler
<1>3. /\ proc'[p].pc = l /\ proc'[p].answer = w /\ proc'[p].outcome = a.outcome
      /\ proc'[p].blind = b /\ proc'[p].seen = proc[p].seen
  BY <1>1, <1>2 DEF Handler
<1>4. /\ l = "answered" \/ (l = "observed" /\ w = "error")
      /\ w \in Words \cup {"error", "unprepared"}
      /\ p \in Workers /\ l = "answered" => w \in Words
      /\ p \in Clients => w # "silent"
      /\ a.outcome = "success" => w = "completed" /\ l = "answered"
  <2>1. CASE a \in Answers
    BY <1>2, <2>1, AnswerFacts, StatusFacts DEF RowTypeOK, AskedOf, Words, Failed, Answer
  <2>2. CASE a \notin Answers
    BY <2>2, ProcsAssumption, StatusFacts DEF AskedOf, Failed, Unprepared, Answer, Words
  <2>3. QED
    BY <2>1, <2>2 DEF AskedOf
<1>5. HandlerOK(p)'
  BY <1>3, <1>4, StatusFacts DEF HandlerOK, At, Words
<1>6. QED
  BY <1>1, <1>5, Others

LEMMA PollKeeps ==
    ASSUME IInv, NEW p \in Procs, Poll(p)
    PROVE  IInv'
<1>1. RowTypeOK /\ proc \in [Procs -> Handler] /\ FlagsOK
  BY DEF IInv, TypeOK, RowTypeOK, FlagsOK
<1>2. RowTypeOK'
  BY <1>1 DEF RowTypeOK, Poll, row, env
<1>3. proc' \in [Procs -> Handler]
  <2>1. Answers \subseteq Heard /\ Failed \in Heard /\ Unprepared \in Heard
    BY <1>1, AnswerFacts, HeardFacts DEF RowTypeOK, Heard
  <2>2. \E a \in Heard, b \in BOOLEAN, l \in PCs : Hears(p, a, b, l)
    BY <2>1 DEF Poll, PCs
  <2>3. QED
    BY <1>1, <2>2, Moves
<1>4. FlagsOK'
  BY <1>1, Zenon DEF FlagsOK, Poll, row, env
<1>5. HandlersOK'
  <2>1. PICK a, l : Hears(p, a, FALSE, l) /\ AskedOf(p, a, l)
    BY DEF Poll, AskedOf
  <2>2. proc[p].seen < MaxAttempts
    BY <1>1 DEF Poll, Exceeded, Handler
  <2>3. QED
    BY <1>1, <2>1, <2>2, HearsKeeps DEF IInv, Poll, row, env
<1>6. HistoryOK'
  BY <1>1 DEF IInv, HistoryOK, RequiredCompletedAfterMedia, Required, Poll, row, env
<1>7. NoLostPoll'
  <2>1. /\ At(p, "claimed") /\ proc[p] \in Handler
        /\ UNCHANGED <<owner, lease, count>>
    BY <1>1 DEF Poll, row
  <2>2. PICK a, l : Hears(p, a, FALSE, l)
    BY DEF Poll
  <2>3. /\ proc'[p].seen = proc[p].seen
        /\ \A q \in Procs \ {p} : proc'[q] = proc[q]
    BY <1>1, <2>1, <2>2 DEF Hears, Handler
  <2>4. QED
    BY <2>1, <2>3 DEF IInv, NoLostPoll, Fence, At
<1>8. BudgetRespected'
  BY DEF IInv, BudgetRespected, Poll, row, env
<1>9. QED
  BY <1>2, <1>3, <1>4, <1>5, <1>6, <1>7, <1>8 DEF IInv, TypeOK, RowTypeOK, FlagsOK

LEMMA WorkerUnpreparedKeeps ==
    ASSUME IInv, NEW w \in Workers, WorkerUnprepared(w)
    PROVE  IInv'
<1>1. RowTypeOK /\ proc \in [Procs -> Handler] /\ FlagsOK
  BY DEF IInv, TypeOK, RowTypeOK, FlagsOK
<1>2. RowTypeOK'
  BY <1>1 DEF RowTypeOK, WorkerUnprepared, LoadFails, row
<1>3. proc' \in [Procs -> Handler]
  BY <1>1, Moves, HeardFacts DEF WorkerUnprepared, Procs, PCs
<1>4. FlagsOK'
  BY <1>1, Zenon DEF FlagsOK, WorkerUnprepared, row
<1>5. HandlersOK'
  BY <1>1, HearsKeeps DEF IInv, WorkerUnprepared, AskedOf, row, Procs
<1>6. HistoryOK'
  BY <1>1 DEF IInv, HistoryOK, RequiredCompletedAfterMedia, Required,
     WorkerUnprepared, LoadFails, row
<1>7. NoLostPoll'
  BY <1>1 DEF IInv, RowTypeOK, NoLostPoll, Fence, At, Handler, WorkerUnprepared,
     Hears, row, Procs
<1>8. BudgetRespected'
  BY DEF IInv, BudgetRespected, WorkerUnprepared, row
<1>9. QED
  BY <1>2, <1>3, <1>4, <1>5, <1>6, <1>7, <1>8 DEF IInv, TypeOK, RowTypeOK, FlagsOK

LEMMA ClientUnreadKeeps ==
    ASSUME IInv, NEW c \in Clients, ClientUnread(c)
    PROVE  IInv'
<1>1. RowTypeOK /\ proc \in [Procs -> Handler] /\ FlagsOK
  BY DEF IInv, TypeOK, RowTypeOK, FlagsOK
<1>2. RowTypeOK'
  BY <1>1 DEF RowTypeOK, ClientUnread, LoadFails, row
<1>3. proc' \in [Procs -> Handler]
  <2>1. Answers \subseteq Heard /\ Failed \in Heard /\ Unprepared \in Heard
    BY <1>1, AnswerFacts, HeardFacts DEF RowTypeOK, Heard
  <2>2. \E a \in Heard, b \in BOOLEAN, l \in PCs : Hears(c, a, b, l)
    BY <2>1 DEF ClientUnread, PCs
  <2>3. QED
    BY <1>1, <2>2, Moves DEF Procs
<1>4. FlagsOK'
  BY <1>1, Zenon DEF FlagsOK, ClientUnread, row
<1>5. HandlersOK'
  <2>1. PICK a : Hears(c, a, TRUE, "answered") /\ AskedOf(c, a, "answered")
    BY ProcsAssumption DEF ClientUnread, AskedOf
  <2>2. QED
    BY <1>1, <2>1, HearsKeeps DEF IInv, ClientUnread, row, Procs
<1>6. HistoryOK'
  BY <1>1 DEF IInv, HistoryOK, RequiredCompletedAfterMedia, Required, ClientUnread,
     LoadFails, row
<1>7. NoLostPoll'
  BY <1>1 DEF IInv, RowTypeOK, NoLostPoll, Fence, At, Handler, ClientUnread, Hears,
     row, Procs
<1>8. BudgetRespected'
  BY DEF IInv, BudgetRespected, ClientUnread, row
<1>9. QED
  BY <1>2, <1>3, <1>4, <1>5, <1>6, <1>7, <1>8 DEF IInv, TypeOK, RowTypeOK, FlagsOK

LEMMA WorkerBudgetKeeps ==
    ASSUME IInv, NEW w \in Workers, WorkerBudget(w)
    PROVE  IInv'
<1>1. RowTypeOK /\ proc \in [Procs -> Handler] /\ FlagsOK
  BY DEF IInv, TypeOK, RowTypeOK, FlagsOK
<1>2. RowTypeOK'
  BY <1>1 DEF RowTypeOK, WorkerBudget, row, env
<1>3. proc' \in [Procs -> Handler]
  <2>1. proc[w].blind \in BOOLEAN
    BY <1>1 DEF Handler, Procs
  <2>2. QED
    BY <1>1, <2>1, Moves, HeardFacts DEF WorkerBudget, Observe, Procs, PCs
<1>4. FlagsOK'
  BY <1>1, Zenon DEF FlagsOK, WorkerBudget, row, env
<1>5. HandlersOK'
  <2>1. w \in Procs /\ proc[w] \in Handler /\ w \notin Clients
    BY <1>1 DEF Procs
  <2>2. /\ \A q \in Procs \ {w} : proc'[q] = proc[q]
        /\ proc'[w].pc = "observed" /\ proc'[w].answer = "expired"
        /\ proc'[w].outcome = "failed" /\ proc'[w].seen = proc[w].seen
    BY <1>1, <2>1 DEF WorkerBudget, Observe, Hears, Answer, Handler
  <2>3. Exceeded(proc[w].seen) /\ UNCHANGED <<task, deadline, wasReady>>
    BY DEF WorkerBudget, row, env
  <2>4. HandlerOK(w)'
    BY <2>1, <2>2, <2>3 DEF HandlerOK, At, Exceeded
  <2>5. QED
    BY <2>1, <2>2, <2>3, <2>4, Others DEF IInv
<1>6. HistoryOK'
  BY <1>1 DEF IInv, HistoryOK, RequiredCompletedAfterMedia, Required, WorkerBudget,
     row, env
<1>7. NoLostPoll'
  BY <1>1 DEF IInv, RowTypeOK, NoLostPoll, Fence, At, Handler, WorkerBudget,
     Observe, Hears, row, env
<1>8. BudgetRespected'
  BY DEF IInv, BudgetRespected, WorkerBudget, row, env
<1>9. QED
  BY <1>2, <1>3, <1>4, <1>5, <1>6, <1>7, <1>8 DEF IInv, TypeOK, RowTypeOK, FlagsOK

\* What a worker observes after its poll is within the budget of its claim.
LEMMA ObserveKeeps ==
    ASSUME HandlersOK, proc \in [Procs -> Handler],
           UNCHANGED <<task, deadline, wasReady>>,
           NEW w \in Workers, proc[w].pc \in {"answered", "persisted"},
           NEW a, Observe(w, a), a.answer \in Words \cup {"error"},
           a.outcome = "success" => a.answer = "completed" /\ (Required => wasReady)
    PROVE  HandlersOK'
<1>1. w \in Procs /\ proc[w] \in Handler /\ w \notin Clients
  BY DEF Procs
<1>2. /\ \A q \in Procs \ {w} : proc'[q] = proc[q]
      /\ proc'[w].pc = "observed" /\ proc'[w].answer = a.answer
      /\ proc'[w].outcome = a.outcome /\ proc'[w].seen = proc[w].seen
      /\ proc'[w].blind = proc[w].blind
  BY <1>1 DEF Observe, Hears, Handler
<1>3. ~proc[w].blind => proc[w].seen < MaxAttempts
  BY <1>1 DEF HandlersOK, HandlerOK
<1>4. HandlerOK(w)'
  BY <1>1, <1>2, <1>3 DEF HandlerOK, At, Required, Words
<1>5. QED
  BY <1>1, <1>2, <1>4, Others

LEMMA WorkerPersistKeeps ==
    ASSUME IInv, NEW w \in Workers, WorkerPersist(w)
    PROVE  IInv'
<1>1. RowTypeOK /\ proc \in [Procs -> Handler] /\ FlagsOK
  BY DEF IInv, TypeOK, RowTypeOK, FlagsOK
<1>2. RowTypeOK'
  BY <1>1 DEF RowTypeOK, WorkerPersist, StorePayload, row, env
<1>3. proc' \in [Procs -> Handler]
  BY <1>1, Moves, HeardFacts DEF WorkerPersist, Observe, Procs, PCs, Handler
<1>4. FlagsOK'
  BY <1>1, Zenon DEF FlagsOK, WorkerPersist, StorePayload, row, env
<1>5. HandlersOK'
  <2>1. w \in Procs /\ proc[w] \in Handler /\ At(w, "answered")
    BY <1>1 DEF WorkerPersist, Procs
  <2>2. CASE Goto(w, "persisted") /\ StorePayload(w)
    <3>1. /\ \A q \in Procs \ {w} : proc'[q] = proc[q]
          /\ proc'[w] = [proc[w] EXCEPT !.pc = "persisted"]
      BY <1>1, <2>1, <2>2 DEF Goto
    <3>2. HandlerOK(w)'
      BY <2>1, <3>1 DEF IInv, HandlersOK, HandlerOK, At, Handler, Procs
    <3>3. UNCHANGED <<task, deadline, wasReady>>
      BY <2>2 DEF StorePayload, env
    <3>4. QED
      BY <2>1, <3>1, <3>2, <3>3, Others DEF IInv
  <2>3. CASE Observe(w, Failed) /\ UNCHANGED <<task, row, env>>
    BY <1>1, <2>1, <2>3, ObserveKeeps DEF IInv, At, row, env, Failed, Answer
  <2>4. QED
    BY <2>2, <2>3 DEF WorkerPersist
<1>6. HistoryOK'
  BY <1>1 DEF IInv, HistoryOK, RequiredCompletedAfterMedia, Required, WorkerPersist,
     StorePayload, row, env
<1>7. NoLostPoll'
  BY <1>1 DEF IInv, RowTypeOK, NoLostPoll, Fence, At, Handler, WorkerPersist,
     Observe, Hears, Goto, StorePayload, row, env
<1>8. BudgetRespected'
  BY DEF IInv, BudgetRespected, WorkerPersist, StorePayload, row, env
<1>9. QED
  BY <1>2, <1>3, <1>4, <1>5, <1>6, <1>7, <1>8 DEF IInv, TypeOK, RowTypeOK, FlagsOK

\* What the projection of a poll asks for.
AskedFor(w, a) ==
    /\ a \in Heard /\ a.answer \in Words \cup {"error"}
    /\ a.outcome = "success" => a.answer = "completed" /\ (Required => wasReady)

LEMMA ProjectObserves ==
    ASSUME IInv, NEW w \in Workers, WorkerProject(w)
    PROVE  \E a : Observe(w, a) /\ AskedFor(w, a)
<1>1. w \in Procs /\ At(w, "persisted") /\ proc[w] \in Handler
  BY DEF WorkerProject, Procs, IInv, TypeOK
<1>2. media = "ready" => wasReady
  BY DEF IInv, HistoryOK
<1>3. CASE Observe(w, Failed)
  BY <1>3, HeardFacts DEF AskedFor, Failed, Answer
<1>4. CASE /\ Observe(w, Answer(proc[w].answer, proc[w].outcome))
           /\ ~(proc[w].outcome = "success" /\ Retained)
  <2>1. /\ proc[w].answer \in Words
        /\ proc[w].outcome = "success" => proc[w].answer = "completed"
    BY <1>1 DEF IInv, HandlersOK, HandlerOK, At
  <2>2. AskedFor(w, Answer(proc[w].answer, proc[w].outcome))
    BY <1>1, <1>4, <2>1 DEF AskedFor, Answer, Heard, Handler, Words, Retained, Required
  <2>3. QED
    BY <1>4, <2>2
<1>5. CASE EnqueueMedia /\ Observe(w, Projected(media'))
  <2>1. media' = "ready" => wasReady
    BY <1>2, <1>5 DEF EnqueueMedia
  <2>2. AskedFor(w, Projected(media'))
    BY <2>1, HeardFacts, StatusFacts DEF AskedFor, Projected, Stored, Parked, Answer, Words
  <2>3. QED
    BY <1>5, <2>2
<1>6. CASE Observe(w, IF Required THEN Answer("processing", "pending") ELSE Stored)
  BY <1>6, HeardFacts, StatusFacts DEF AskedFor, Stored, Answer, Words
<1>7. QED
  BY <1>3, <1>4, <1>5, <1>6 DEF WorkerProject

LEMMA WorkerProjectKeeps ==
    ASSUME IInv, NEW w \in Workers, WorkerProject(w)
    PROVE  IInv'
<1>1. RowTypeOK /\ proc \in [Procs -> Handler] /\ FlagsOK
  BY DEF IInv, TypeOK, RowTypeOK, FlagsOK
<1>2. RowTypeOK'
  BY <1>1 DEF RowTypeOK, WorkerProject, EnqueueMedia, row, MediaStates
<1>3. proc' \in [Procs -> Handler]
  <2>1. PICK a : Observe(w, a) /\ AskedFor(w, a)
    BY ProjectObserves
  <2>2. w \in Procs /\ proc[w] \in Handler
    BY <1>1 DEF Procs
  <2>3. a \in Heard
    BY <2>1 DEF AskedFor
  <2>4. QED
    BY <1>1, <2>1, <2>2, <2>3, Moves DEF Observe, Handler, PCs
<1>4. FlagsOK'
  BY <1>1, Zenon DEF FlagsOK, WorkerProject, row
<1>5. HandlersOK'
  <2>1. PICK a : Observe(w, a) /\ AskedFor(w, a)
    BY ProjectObserves
  <2>2. QED
    BY <1>1, <2>1, ObserveKeeps DEF IInv, AskedFor, WorkerProject, At, row
<1>6. HistoryOK'
  BY <1>1 DEF IInv, HistoryOK, RequiredCompletedAfterMedia, Required, WorkerProject,
     EnqueueMedia, row
<1>7. NoLostPoll'
  <2>1. PICK a : Observe(w, a)
    BY ProjectObserves
  <2>2. QED
    BY <1>1, <2>1 DEF IInv, RowTypeOK, NoLostPoll, Fence, At, Handler, WorkerProject,
       Observe, Hears, row
<1>8. BudgetRespected'
  BY DEF IInv, BudgetRespected, WorkerProject, row
<1>9. QED
  BY <1>2, <1>3, <1>4, <1>5, <1>6, <1>7, <1>8 DEF IInv, TypeOK, RowTypeOK, FlagsOK

LEMMA WorkerGivesUpKeeps ==
    ASSUME IInv, NEW w \in Workers, WorkerGivesUp(w)
    PROVE  IInv'
<1>1. RowTypeOK /\ proc \in [Procs -> Handler] /\ FlagsOK
  BY DEF IInv, TypeOK, RowTypeOK, FlagsOK
<1>2. RowTypeOK'
  BY <1>1 DEF RowTypeOK, WorkerGivesUp, row, env
<1>3. proc' \in [Procs -> Handler]
  BY <1>1, Moves DEF WorkerGivesUp, Procs
<1>4. FlagsOK'
  BY <1>1, Zenon DEF FlagsOK, WorkerGivesUp, row, env
<1>5. HandlersOK'
  BY <1>1, Emptied DEF IInv, Procs, WorkerGivesUp, row, env
<1>6. HistoryOK'
  BY <1>1 DEF IInv, HistoryOK, RequiredCompletedAfterMedia, Required, WorkerGivesUp,
     row, env
<1>7. NoLostPoll'
  BY <1>1 DEF IInv, RowTypeOK, NoLostPoll, Fence, At, Handler, WorkerGivesUp,
     Return, Idle, row, env
<1>8. BudgetRespected'
  BY DEF IInv, BudgetRespected, WorkerGivesUp, row, env
<1>9. QED
  BY <1>2, <1>3, <1>4, <1>5, <1>6, <1>7, <1>8 DEF IInv, TypeOK, RowTypeOK, FlagsOK

LEMMA WorkerCommitKeeps ==
    ASSUME IInv, NEW w \in Workers, WorkerCommit(w)
    PROVE  IInv'
<1>1. RowTypeOK /\ proc \in [Procs -> Handler] /\ FlagsOK
  BY DEF IInv, TypeOK, RowTypeOK, FlagsOK
<1>2. RowTypeOK'
  <2>1. /\ proc[w].answer \in Words \cup {"expired", "error"} /\ proc[w].outcome \in Outcomes
        /\ proc[w].blind \in BOOLEAN
    BY <1>1 DEF WorkerCommit, IInv, HandlersOK, HandlerOK, Procs, Handler
  <2>2. /\ count' \in Nat /\ blind' \in Nat
        /\ status' \in Statuses /\ outcome' \in Outcomes
    BY <1>1, <2>1 DEF RowTypeOK, WorkerCommit, Record, Becomes
  <2>3. /\ owner' \in Procs \cup {None} /\ lease' \in 0..Lease /\ wait' \in 0..PollDelay
    BY <1>1 DEF RowTypeOK, WorkerCommit, DropLease
  <2>4. QED
    BY <1>1, <2>2, <2>3 DEF RowTypeOK, WorkerCommit
<1>3. proc' \in [Procs -> Handler]
  BY <1>1, Moves DEF WorkerCommit, Procs
<1>4. FlagsOK'
  BY <1>1, Zenon DEF FlagsOK, WorkerCommit
<1>5. HandlersOK'
  BY <1>1, Emptied DEF IInv, Procs, WorkerCommit
<1>6. HistoryOK'
  <2>1. w \in Procs /\ At(w, "observed")
    BY DEF WorkerCommit, Procs
  <2>2. /\ proc[w].outcome = "success" => proc[w].answer = "completed"
        /\ proc[w].outcome = "success" /\ Required => wasReady
    BY <2>1 DEF IInv, HandlersOK, HandlerOK, At
  <2>3. \/ UNCHANGED <<status, outcome>>
        \/ status' = proc[w].answer /\ outcome' = proc[w].outcome
    BY DEF WorkerCommit, Becomes
  <2>4. UNCHANGED <<task, media, wasReady>>
    BY DEF WorkerCommit
  <2>5. QED
    BY <2>2, <2>3, <2>4 DEF IInv, HistoryOK, RequiredCompletedAfterMedia, Required
<1>7. NoLostPoll'
  BY <1>1 DEF IInv, RowTypeOK, NoLostPoll, Fence, At, Handler, WorkerCommit, Return,
     Idle, DropLease, Procs
<1>8. BudgetRespected'
  <2>1. w \in Procs /\ At(w, "observed") /\ proc[w].blind \in BOOLEAN
    BY <1>1 DEF WorkerCommit, Procs, Handler
  <2>2. CASE Fence(w) /\ proc[w].answer # "expired"
    <3>1. ~proc[w].blind => proc[w].seen < MaxAttempts
      BY <2>1, <2>2 DEF IInv, HandlersOK, HandlerOK
    <3>2. proc[w].seen = count
      BY <2>1, <2>2 DEF IInv, NoLostPoll, At
    <3>3. count' = count + 1 /\ blind' = IF proc[w].blind THEN blind + 1 ELSE blind
      BY <2>2 DEF WorkerCommit, Record
    <3>4. QED
      BY <1>1, <2>1, <3>1, <3>2, <3>3 DEF RowTypeOK, IInv, BudgetRespected
  <2>3. CASE ~(Fence(w) /\ proc[w].answer # "expired")
    BY <2>3 DEF WorkerCommit, IInv, BudgetRespected
  <2>4. QED
    BY <2>2, <2>3
<1>9. QED
  BY <1>2, <1>3, <1>4, <1>5, <1>6, <1>7, <1>8 DEF IInv, TypeOK, RowTypeOK, FlagsOK

LEMMA StatusReadKeeps ==
    ASSUME IInv, NEW c \in Clients, StatusRead(c)
    PROVE  IInv'
<1>1. RowTypeOK /\ proc \in [Procs -> Handler] /\ FlagsOK
  BY DEF IInv, TypeOK, RowTypeOK, FlagsOK
<1>2. RowTypeOK'
  BY <1>1, StatusFacts DEF RowTypeOK, StatusRead, LoadFails, row
<1>3. proc' \in [Procs -> Handler]
  BY <1>1, Moves DEF StatusRead, Procs, PCs
<1>4. FlagsOK'
  BY <1>1, Zenon DEF FlagsOK, StatusRead, row
<1>5. HandlersOK'
  <2>1. c \in Procs /\ proc[c] \in Handler /\ UNCHANGED <<task, deadline, wasReady>>
    BY <1>1 DEF StatusRead, Procs, row
  <2>2. PICK l \in {"settling", "checked"} : Goto(c, l)
    BY DEF StatusRead
  <2>3. \A q \in Procs \ {c} : proc'[q] = proc[q]
    BY <2>2 DEF Goto
  <2>4. HandlerOK(c)'
    BY <1>1, <2>1, <2>2 DEF Goto, HandlerOK, At, Handler
  <2>5. QED
    BY <2>1, <2>3, <2>4, Others DEF IInv
<1>6. HistoryOK'
  BY <1>1 DEF IInv, HistoryOK, RequiredCompletedAfterMedia, Required, StatusRead,
     LoadFails, row
<1>7. NoLostPoll'
  BY <1>1 DEF IInv, RowTypeOK, NoLostPoll, Fence, At, Handler, StatusRead, Goto, row
<1>8. BudgetRespected'
  BY DEF IInv, BudgetRespected, StatusRead, row
<1>9. QED
  BY <1>2, <1>3, <1>4, <1>5, <1>6, <1>7, <1>8 DEF IInv, TypeOK, RowTypeOK, FlagsOK

LEMMA SettleKeeps ==
    ASSUME IInv, NEW c \in Clients, Settle(c)
    PROVE  IInv'
<1>1. RowTypeOK /\ proc \in [Procs -> Handler] /\ FlagsOK
  BY DEF IInv, TypeOK, RowTypeOK, FlagsOK
<1>2. RowTypeOK'
  BY <1>1, StatusFacts DEF RowTypeOK, Settle, EnqueueMedia, CompleteAfterMedia,
     Becomes, MediaStates, Outcomes
<1>3. proc' \in [Procs -> Handler]
  BY <1>1, Moves DEF Settle, Procs, PCs
<1>4. FlagsOK'
  BY <1>1, Zenon DEF FlagsOK, Settle
<1>5. HandlersOK'
  <2>1. c \in Procs /\ proc[c] \in Handler /\ UNCHANGED <<task, deadline, wasReady>>
    BY <1>1 DEF Settle, Procs
  <2>2. CASE Return(c)
    BY <1>1, <2>1, <2>2, Emptied DEF IInv
  <2>3. CASE Goto(c, "checked")
    <3>1. \A q \in Procs \ {c} : proc'[q] = proc[q]
      BY <2>3 DEF Goto
    <3>2. HandlerOK(c)'
      BY <1>1, <2>1, <2>3 DEF Goto, HandlerOK, At, Handler
    <3>3. QED
      BY <2>1, <3>1, <3>2, Others DEF IInv
  <2>4. QED
    BY <2>2, <2>3 DEF Settle
<1>6. HistoryOK'
  <2>1. /\ UNCHANGED <<task, wasReady>> /\ (media' = "ready" => media = "ready")
    BY DEF Settle, EnqueueMedia
  <2>2. \/ UNCHANGED <<status, outcome>>
        \/ status' = "completed" /\ outcome' = "success" /\ media = "ready"
        \/ status' = "materializing" /\ outcome' = "pending"
    BY DEF Settle, CompleteAfterMedia, Becomes
  <2>3. QED
    BY <2>1, <2>2 DEF IInv, HistoryOK, RequiredCompletedAfterMedia, Required
<1>7. NoLostPoll'
  BY <1>1 DEF IInv, RowTypeOK, NoLostPoll, Fence, At, Handler, Settle, Return, Goto,
     Idle
<1>8. BudgetRespected'
  BY DEF IInv, BudgetRespected, Settle
<1>9. QED
  BY <1>2, <1>3, <1>4, <1>5, <1>6, <1>7, <1>8 DEF IInv, TypeOK, RowTypeOK, FlagsOK

LEMMA ClientBudgetKeeps ==
    ASSUME IInv, NEW c \in Clients, ClientBudget(c)
    PROVE  IInv'
<1>1. RowTypeOK /\ proc \in [Procs -> Handler] /\ FlagsOK
  BY DEF IInv, TypeOK, RowTypeOK, FlagsOK
<1>2. RowTypeOK'
  BY <1>1, StatusFacts DEF RowTypeOK, ClientBudget, Becomes, Finish, env, Outcomes
<1>3. proc' \in [Procs -> Handler]
  BY <1>1, Moves DEF ClientBudget, Procs
<1>4. FlagsOK'
  BY <1>1, Zenon DEF FlagsOK, ClientBudget, env
<1>5. HandlersOK'
  BY <1>1, Emptied DEF IInv, Procs, ClientBudget, env
<1>6. HistoryOK'
  <2>1. \/ UNCHANGED <<status, outcome>>
        \/ status' = "expired" /\ outcome' = "failed"
    BY DEF ClientBudget, Becomes
  <2>2. UNCHANGED <<task, media, wasReady>>
    BY DEF ClientBudget, env
  <2>3. QED
    BY <2>1, <2>2 DEF IInv, HistoryOK, RequiredCompletedAfterMedia, Required
<1>7. NoLostPoll'
  BY <1>1 DEF IInv, RowTypeOK, NoLostPoll, Fence, At, Handler, ClientBudget, Finish,
     Idle, env
<1>8. BudgetRespected'
  BY DEF IInv, BudgetRespected, ClientBudget, env
<1>9. QED
  BY <1>2, <1>3, <1>4, <1>5, <1>6, <1>7, <1>8 DEF IInv, TypeOK, RowTypeOK, FlagsOK

LEMMA ClientPollFailedKeeps ==
    ASSUME IInv, NEW c \in Clients, ClientPollFailed(c)
    PROVE  IInv'
<1>1. RowTypeOK /\ proc \in [Procs -> Handler] /\ FlagsOK
  BY DEF IInv, TypeOK, RowTypeOK, FlagsOK
<1>2. RowTypeOK'
  <2>1. proc[c].blind \in BOOLEAN
    BY <1>1 DEF Handler, Procs
  <2>2. QED
    BY <1>1, <2>1, StatusFacts DEF RowTypeOK, ClientPollFailed, Record, Becomes, Outcomes
<1>3. proc' \in [Procs -> Handler]
  BY <1>1, Moves DEF ClientPollFailed, Procs
<1>4. FlagsOK'
  BY <1>1, Zenon DEF FlagsOK, ClientPollFailed
<1>5. HandlersOK'
  BY <1>1, Emptied DEF IInv, Procs, ClientPollFailed
<1>6. HistoryOK'
  <2>1. \/ UNCHANGED <<status, outcome>>
        \/ status' = "expired" /\ outcome' = "failed"
    BY DEF ClientPollFailed, Becomes
  <2>2. UNCHANGED <<task, media, wasReady>>
    BY DEF ClientPollFailed
  <2>3. QED
    BY <2>1, <2>2 DEF IInv, HistoryOK, RequiredCompletedAfterMedia, Required
<1>7. NoLostPoll'
  BY <1>1 DEF IInv, RowTypeOK, NoLostPoll, Fence, At, Handler, ClientPollFailed,
     Finish, Idle, Procs, Record
<1>8. BudgetRespected'
  <2>1. c \in Procs /\ At(c, "answered") /\ proc[c].blind \in BOOLEAN
    BY <1>1 DEF ClientPollFailed, Procs, Handler
  <2>2. CASE Fence(c) /\ Record(c)
    <3>1. ~proc[c].blind => proc[c].seen < MaxAttempts
      BY <2>1 DEF IInv, HandlersOK, HandlerOK, At
    <3>2. proc[c].seen = count
      BY <2>1, <2>2 DEF IInv, NoLostPoll, At
    <3>3. QED
      BY <1>1, <2>1, <2>2, <3>1, <3>2 DEF Record, RowTypeOK, IInv, BudgetRespected
  <2>3. CASE UNCHANGED <<count, blind>>
    BY <2>3 DEF IInv, BudgetRespected
  <2>4. QED
    BY <2>2, <2>3 DEF ClientPollFailed
<1>9. QED
  BY <1>2, <1>3, <1>4, <1>5, <1>6, <1>7, <1>8 DEF IInv, TypeOK, RowTypeOK, FlagsOK

LEMMA ClientPersistKeeps ==
    ASSUME IInv, NEW c \in Clients, ClientPersist(c)
    PROVE  IInv'
<1>1. RowTypeOK /\ proc \in [Procs -> Handler] /\ FlagsOK
  BY DEF IInv, TypeOK, RowTypeOK, FlagsOK
<1>2. RowTypeOK'
  BY <1>1 DEF RowTypeOK, ClientPersist, StorePayload, row, env
<1>3. proc' \in [Procs -> Handler]
  BY <1>1, Moves DEF ClientPersist, Procs, PCs
<1>4. FlagsOK'
  BY <1>1, Zenon DEF FlagsOK, ClientPersist, StorePayload, row, env
<1>5. HandlersOK'
  <2>1. /\ c \in Procs /\ proc[c] \in Handler /\ At(c, "answered")
        /\ proc[c].answer \notin {"error", "unprepared"} /\ c \notin Workers
        /\ UNCHANGED <<task, deadline, wasReady>>
    BY <1>1 DEF ClientPersist, Procs, StorePayload, row, env
  <2>2. CASE Finish(c)
    BY <1>1, <2>1, <2>2, Emptied DEF IInv
  <2>3. CASE \E l \in {"persisted", "projecting"} : Goto(c, l)
    <3>1. PICK l \in {"persisted", "projecting"} : Goto(c, l)
      BY <2>3
    <3>2. /\ \A q \in Procs \ {c} : proc'[q] = proc[q]
          /\ proc'[c] = [proc[c] EXCEPT !.pc = l]
      BY <1>1, <2>1, <3>1 DEF Goto
    <3>3. HandlerOK(c)'
      BY <2>1, <3>2 DEF IInv, HandlersOK, HandlerOK, At, Handler
    <3>4. QED
      BY <2>1, <3>2, <3>3, Others DEF IInv
  <2>4. QED
    BY <2>2, <2>3 DEF ClientPersist
<1>6. HistoryOK'
  BY <1>1 DEF IInv, HistoryOK, RequiredCompletedAfterMedia, Required, ClientPersist,
     StorePayload, row, env
<1>7. NoLostPoll'
  BY <1>1 DEF IInv, RowTypeOK, NoLostPoll, Fence, At, Handler, ClientPersist,
     Finish, Goto, Idle, StorePayload, row, env
<1>8. BudgetRespected'
  BY DEF IInv, BudgetRespected, ClientPersist, StorePayload, row, env
<1>9. QED
  BY <1>2, <1>3, <1>4, <1>5, <1>6, <1>7, <1>8 DEF IInv, TypeOK, RowTypeOK, FlagsOK

LEMMA ClientEnqueueKeeps ==
    ASSUME IInv, NEW c \in Clients, ClientEnqueue(c)
    PROVE  IInv'
<1>1. RowTypeOK /\ proc \in [Procs -> Handler] /\ FlagsOK
  BY DEF IInv, TypeOK, RowTypeOK, FlagsOK
<1>2. RowTypeOK'
  BY <1>1 DEF RowTypeOK, ClientEnqueue, EnqueueMedia, row, MediaStates
<1>3. proc' \in [Procs -> Handler]
  <2>1. [[proc[c] EXCEPT !.pc = "projecting"] EXCEPT !.mediaErr = TRUE] \in Handler
    BY <1>1 DEF Handler, PCs, Procs
  <2>2. CASE proc' = [proc EXCEPT ![c].pc = "projecting", ![c].mediaErr = TRUE]
    BY <1>1, <2>1, <2>2
  <2>3. CASE Finish(c) \/ Goto(c, "projecting")
    BY <1>1, <2>3, Moves DEF Procs, PCs
  <2>4. QED
    BY <2>2, <2>3 DEF ClientEnqueue
<1>4. FlagsOK'
  BY <1>1, Zenon DEF FlagsOK, ClientEnqueue, row
<1>5. HandlersOK'
  <2>1. /\ c \in Procs /\ proc[c] \in Handler /\ At(c, "persisted")
        /\ UNCHANGED <<task, deadline, wasReady>>
    BY <1>1 DEF ClientEnqueue, Procs, row
  <2>2. CASE Finish(c)
    BY <1>1, <2>1, <2>2, Emptied DEF IInv
  <2>3. CASE ~Finish(c)
    <3>1. /\ \A q \in Procs \ {c} : proc'[q] = proc[q]
          /\ proc'[c].pc = "projecting"
          /\ proc'[c].answer = proc[c].answer /\ proc'[c].outcome = proc[c].outcome
          /\ proc'[c].blind = proc[c].blind /\ proc'[c].seen = proc[c].seen
      BY <1>1, <2>1, <2>3 DEF ClientEnqueue, Goto, Handler
    <3>2. HandlerOK(c)'
      BY <2>1, <3>1 DEF IInv, HandlersOK, HandlerOK, At
    <3>3. QED
      BY <2>1, <3>1, <3>2, Others DEF IInv
  <2>4. QED
    BY <2>2, <2>3
<1>6. HistoryOK'
  BY <1>1 DEF IInv, HistoryOK, RequiredCompletedAfterMedia, Required, ClientEnqueue,
     EnqueueMedia, row
<1>7. NoLostPoll'
  BY <1>1 DEF IInv, RowTypeOK, NoLostPoll, Fence, At, Handler, ClientEnqueue,
     Finish, Goto, Idle, row
<1>8. BudgetRespected'
  BY DEF IInv, BudgetRespected, ClientEnqueue, row
<1>9. QED
  BY <1>2, <1>3, <1>4, <1>5, <1>6, <1>7, <1>8 DEF IInv, TypeOK, RowTypeOK, FlagsOK

LEMMA ClientProjectKeeps ==
    ASSUME IInv, NEW c \in Clients, ClientProject(c)
    PROVE  IInv'
<1>1. RowTypeOK /\ proc \in [Procs -> Handler] /\ FlagsOK
  BY DEF IInv, TypeOK, RowTypeOK, FlagsOK
<1>2. RowTypeOK'
  <2>1. /\ proc[c].blind \in BOOLEAN /\ proc[c].outcome \in Outcomes
        /\ proc[c].answer \in Statuses
    BY <1>1, ProcsAssumption DEF ClientProject, IInv, HandlersOK, HandlerOK, At, Words, Handler,
       Procs
  <2>2. /\ count' \in Nat /\ blind' \in Nat
        /\ status' \in Statuses /\ outcome' \in Outcomes
    BY <1>1, <2>1, StatusFacts DEF RowTypeOK, ClientProject, Record, Becomes, Parked, Answer,
       Outcomes
  <2>3. QED
    BY <1>1, <2>2 DEF RowTypeOK, ClientProject
<1>3. proc' \in [Procs -> Handler]
  BY <1>1, Moves DEF ClientProject, Procs
<1>4. FlagsOK'
  BY <1>1, Zenon DEF FlagsOK, ClientProject
<1>5. HandlersOK'
  BY <1>1, Emptied DEF IInv, Procs, ClientProject
<1>6. HistoryOK'
  <2>1. UNCHANGED <<task, media, wasReady>>
    BY DEF ClientProject
  <2>2. \/ UNCHANGED <<status, outcome>>
        \/ outcome' # "success"
        \/ status' = "completed" /\ (Required => wasReady)
    BY DEF ClientProject, Becomes, Parked, Answer, IInv, HistoryOK, HandlersOK, HandlerOK, At,
       Procs
  <2>3. QED
    BY <2>1, <2>2 DEF IInv, HistoryOK, RequiredCompletedAfterMedia, Required
<1>7. NoLostPoll'
  BY <1>1 DEF IInv, RowTypeOK, NoLostPoll, Fence, At, Handler, ClientProject,
     Finish, Idle, Procs, Record
<1>8. BudgetRespected'
  <2>1. c \in Procs /\ At(c, "projecting") /\ proc[c].blind \in BOOLEAN
    BY <1>1 DEF ClientProject, Procs, Handler
  <2>2. CASE Fence(c) /\ Record(c)
    <3>1. ~proc[c].blind => proc[c].seen < MaxAttempts
      BY <2>1 DEF IInv, HandlersOK, HandlerOK, At
    <3>2. proc[c].seen = count
      BY <2>1, <2>2 DEF IInv, NoLostPoll, At
    <3>3. QED
      BY <1>1, <2>1, <2>2, <3>1, <3>2 DEF Record, RowTypeOK, IInv, BudgetRespected
  <2>3. CASE UNCHANGED <<count, blind>>
    BY <2>3 DEF IInv, BudgetRespected
  <2>4. QED
    BY <2>2, <2>3 DEF ClientProject
<1>9. QED
  BY <1>2, <1>3, <1>4, <1>5, <1>6, <1>7, <1>8 DEF IInv, TypeOK, RowTypeOK, FlagsOK

LEMMA RequestCancelledKeeps ==
    ASSUME IInv, NEW c \in Clients, RequestCancelled(c)
    PROVE  IInv'
<1>1. RowTypeOK /\ proc \in [Procs -> Handler] /\ FlagsOK
  BY DEF IInv, TypeOK, RowTypeOK, FlagsOK
<1>2. RowTypeOK'
  BY <1>1 DEF RowTypeOK, RequestCancelled, Finish, row, env
<1>3. proc' \in [Procs -> Handler]
  BY <1>1, Moves DEF RequestCancelled, Procs
<1>4. FlagsOK'
  BY <1>1, Zenon DEF FlagsOK, RequestCancelled, row, env
<1>5. HandlersOK'
  BY <1>1, Emptied DEF IInv, Procs, RequestCancelled, row, env
<1>6. HistoryOK'
  BY <1>1 DEF IInv, HistoryOK, RequiredCompletedAfterMedia, Required,
     RequestCancelled, Finish, row, env
<1>7. NoLostPoll'
  BY <1>1 DEF IInv, RowTypeOK, NoLostPoll, Fence, At, Handler, RequestCancelled,
     Finish, row, env, Idle
<1>8. BudgetRespected'
  BY DEF IInv, BudgetRespected, RequestCancelled, row, env
<1>9. QED
  BY <1>2, <1>3, <1>4, <1>5, <1>6, <1>7, <1>8 DEF IInv, TypeOK, RowTypeOK, FlagsOK

LEMMA ReleaseKeeps ==
    ASSUME IInv, NEW c \in Clients, Release(c)
    PROVE  IInv'
<1>1. RowTypeOK /\ proc \in [Procs -> Handler] /\ FlagsOK
  BY DEF IInv, TypeOK, RowTypeOK, FlagsOK
<1>2. RowTypeOK'
  BY <1>1, StatusFacts DEF RowTypeOK, Release, DropLease, env
<1>3. proc' \in [Procs -> Handler]
  BY <1>1, Moves DEF Release, Procs
<1>4. FlagsOK'
  BY <1>1, Zenon DEF FlagsOK, Release, env
<1>5. HandlersOK'
  BY <1>1, Emptied DEF IInv, Procs, Release, env
<1>6. HistoryOK'
  BY <1>1 DEF IInv, HistoryOK, RequiredCompletedAfterMedia, Required, Release,
     DropLease, env
<1>7. NoLostPoll'
  BY <1>1 DEF IInv, RowTypeOK, NoLostPoll, Fence, At, Handler, Release, Return,
     Idle, DropLease, env
<1>8. BudgetRespected'
  BY DEF IInv, BudgetRespected, Release, env
<1>9. QED
  BY <1>2, <1>3, <1>4, <1>5, <1>6, <1>7, <1>8 DEF IInv, TypeOK, RowTypeOK, FlagsOK

LEMMA CrashKeeps ==
    ASSUME IInv, NEW p \in Procs, Crash(p)
    PROVE  IInv'
<1>1. RowTypeOK /\ proc \in [Procs -> Handler] /\ FlagsOK
  BY DEF IInv, TypeOK, RowTypeOK, FlagsOK
<1>2. RowTypeOK'
  BY <1>1 DEF RowTypeOK, Crash, row
<1>3. proc' \in [Procs -> Handler]
  BY <1>1, Moves DEF Crash, Procs
<1>4. FlagsOK'
  BY <1>1, Zenon DEF FlagsOK, Crash, row
<1>5. HandlersOK'
  BY <1>1, Emptied DEF IInv, Procs, Crash, row
<1>6. HistoryOK'
  BY <1>1 DEF IInv, HistoryOK, RequiredCompletedAfterMedia, Required, Crash, row
<1>7. NoLostPoll'
  BY <1>1 DEF IInv, RowTypeOK, NoLostPoll, Fence, At, Handler, Crash, Return, Idle,
     row
<1>8. BudgetRespected'
  BY DEF IInv, BudgetRespected, Crash, row
<1>9. QED
  BY <1>2, <1>3, <1>4, <1>5, <1>6, <1>7, <1>8 DEF IInv, TypeOK, RowTypeOK, FlagsOK

LEMMA ProviderFinishesKeeps ==
    ASSUME IInv, ProviderFinishes
    PROVE  IInv'
<1>1. RowTypeOK /\ proc \in [Procs -> Handler] /\ FlagsOK
  BY DEF IInv, TypeOK, RowTypeOK, FlagsOK
<1>2. RowTypeOK'
  BY <1>1, StatusFacts DEF RowTypeOK, ProviderFinishes, row, MediaStates
<1>3. proc' \in [Procs -> Handler]
  BY <1>1 DEF ProviderFinishes
<1>4. FlagsOK'
  BY <1>1, Zenon DEF FlagsOK, ProviderFinishes, row
<1>5. HandlersOK'
  BY <1>1 DEF IInv, HandlersOK, HandlerOK, At, Exceeded, Required, ProviderFinishes,
     row
<1>6. HistoryOK'
  BY <1>1 DEF IInv, HistoryOK, RequiredCompletedAfterMedia, Required,
     ProviderFinishes, row
<1>7. NoLostPoll'
  BY <1>1 DEF IInv, RowTypeOK, NoLostPoll, Fence, At, Handler, ProviderFinishes, row
<1>8. BudgetRespected'
  BY DEF IInv, BudgetRespected, ProviderFinishes, row
<1>9. QED
  BY <1>2, <1>3, <1>4, <1>5, <1>6, <1>7, <1>8 DEF IInv, TypeOK, RowTypeOK, FlagsOK

LEMMA DefinitionLostKeeps ==
    ASSUME IInv, DefinitionLost
    PROVE  IInv'
<1>1. RowTypeOK /\ proc \in [Procs -> Handler] /\ FlagsOK
  BY DEF IInv, TypeOK, RowTypeOK, FlagsOK
<1>2. RowTypeOK'
  BY <1>1, StatusFacts DEF RowTypeOK, DefinitionLost, row, MediaStates
<1>3. proc' \in [Procs -> Handler]
  BY <1>1 DEF DefinitionLost
<1>4. FlagsOK'
  BY <1>1, Zenon DEF FlagsOK, DefinitionLost, row
<1>5. HandlersOK'
  BY <1>1 DEF IInv, HandlersOK, HandlerOK, At, Exceeded, Required, DefinitionLost,
     row
<1>6. HistoryOK'
  BY <1>1 DEF IInv, HistoryOK, RequiredCompletedAfterMedia, Required,
     DefinitionLost, row
<1>7. NoLostPoll'
  BY <1>1 DEF IInv, RowTypeOK, NoLostPoll, Fence, At, Handler, DefinitionLost, row
<1>8. BudgetRespected'
  BY DEF IInv, BudgetRespected, DefinitionLost, row
<1>9. QED
  BY <1>2, <1>3, <1>4, <1>5, <1>6, <1>7, <1>8 DEF IInv, TypeOK, RowTypeOK, FlagsOK

LEMMA MediaStoredKeeps ==
    ASSUME IInv, MediaStored
    PROVE  IInv'
<1>1. RowTypeOK /\ proc \in [Procs -> Handler] /\ FlagsOK
  BY DEF IInv, TypeOK, RowTypeOK, FlagsOK
<1>2. RowTypeOK'
  BY <1>1, StatusFacts DEF RowTypeOK, MediaStored, MediaStates, CompleteAfterMedia,
     Becomes, Outcomes
<1>3. proc' \in [Procs -> Handler]
  BY <1>1 DEF MediaStored
<1>4. FlagsOK'
  BY <1>1, Zenon DEF FlagsOK, MediaStored
<1>5. HandlersOK'
  BY <1>1 DEF IInv, HandlersOK, HandlerOK, At, Exceeded, Required, MediaStored
<1>6. HistoryOK'
  BY <1>1 DEF IInv, HistoryOK, RequiredCompletedAfterMedia, Required, MediaStored,
     CompleteAfterMedia, Becomes
<1>7. NoLostPoll'
  BY <1>1 DEF IInv, RowTypeOK, NoLostPoll, Fence, At, Handler, MediaStored
<1>8. BudgetRespected'
  BY DEF IInv, BudgetRespected, MediaStored
<1>9. QED
  BY <1>2, <1>3, <1>4, <1>5, <1>6, <1>7, <1>8 DEF IInv, TypeOK, RowTypeOK, FlagsOK

LEMMA MediaRevokedKeeps ==
    ASSUME IInv, MediaRevoked
    PROVE  IInv'
<1>1. RowTypeOK /\ proc \in [Procs -> Handler] /\ FlagsOK
  BY DEF IInv, TypeOK, RowTypeOK, FlagsOK
<1>2. RowTypeOK'
  BY <1>1, StatusFacts DEF RowTypeOK, MediaRevoked, row, MediaStates
<1>3. proc' \in [Procs -> Handler]
  BY <1>1 DEF MediaRevoked
<1>4. FlagsOK'
  BY <1>1, Zenon DEF FlagsOK, MediaRevoked, row
<1>5. HandlersOK'
  BY <1>1 DEF IInv, HandlersOK, HandlerOK, At, Exceeded, Required, MediaRevoked, row
<1>6. HistoryOK'
  BY <1>1 DEF IInv, HistoryOK, RequiredCompletedAfterMedia, Required, MediaRevoked,
     row
<1>7. NoLostPoll'
  BY <1>1 DEF IInv, RowTypeOK, NoLostPoll, Fence, At, Handler, MediaRevoked, row
<1>8. BudgetRespected'
  BY DEF IInv, BudgetRespected, MediaRevoked, row
<1>9. QED
  BY <1>2, <1>3, <1>4, <1>5, <1>6, <1>7, <1>8 DEF IInv, TypeOK, RowTypeOK, FlagsOK

LEMMA MediaPurgedKeeps ==
    ASSUME IInv, MediaPurged
    PROVE  IInv'
<1>1. RowTypeOK /\ proc \in [Procs -> Handler] /\ FlagsOK
  BY DEF IInv, TypeOK, RowTypeOK, FlagsOK
<1>2. RowTypeOK'
  BY <1>1, StatusFacts DEF RowTypeOK, MediaPurged, row, MediaStates
<1>3. proc' \in [Procs -> Handler]
  BY <1>1 DEF MediaPurged
<1>4. FlagsOK'
  BY <1>1, Zenon DEF FlagsOK, MediaPurged, row
<1>5. HandlersOK'
  BY <1>1 DEF IInv, HandlersOK, HandlerOK, At, Exceeded, Required, MediaPurged, row
<1>6. HistoryOK'
  BY <1>1 DEF IInv, HistoryOK, RequiredCompletedAfterMedia, Required, MediaPurged,
     row
<1>7. NoLostPoll'
  BY <1>1 DEF IInv, RowTypeOK, NoLostPoll, Fence, At, Handler, MediaPurged, row
<1>8. BudgetRespected'
  BY DEF IInv, BudgetRespected, MediaPurged, row
<1>9. QED
  BY <1>2, <1>3, <1>4, <1>5, <1>6, <1>7, <1>8 DEF IInv, TypeOK, RowTypeOK, FlagsOK

LEMMA TickKeeps ==
    ASSUME IInv, Tick
    PROVE  IInv'
<1>1. RowTypeOK /\ proc \in [Procs -> Handler] /\ FlagsOK
  BY DEF IInv, TypeOK, RowTypeOK, FlagsOK
<1>2. RowTypeOK'
  BY <1>1 DEF RowTypeOK, Tick, Countdown
<1>3. proc' \in [Procs -> Handler]
  BY <1>1 DEF Tick
<1>4. FlagsOK'
  BY <1>1, Zenon DEF FlagsOK, Tick
<1>5. HandlersOK'
  BY <1>1 DEF IInv, RowTypeOK, HandlersOK, HandlerOK, At, Exceeded, Required, Tick,
     Countdown
<1>6. HistoryOK'
  BY <1>1 DEF IInv, HistoryOK, RequiredCompletedAfterMedia, Required, Tick
<1>7. NoLostPoll'
  BY <1>1 DEF IInv, RowTypeOK, NoLostPoll, Fence, Handler, Tick, Countdown
<1>8. BudgetRespected'
  BY DEF IInv, BudgetRespected, Tick
<1>9. QED
  BY <1>2, <1>3, <1>4, <1>5, <1>6, <1>7, <1>8 DEF IInv, TypeOK, RowTypeOK, FlagsOK

-----------------------------------------------------------------------------
LEMMA InitEstablishes == Init => IInv
<1> SUFFICES ASSUME Init PROVE IInv
  OBVIOUS
<1>1. TypeOK
  <2>1. /\ status \in Statuses /\ outcome \in Outcomes
        /\ result \in {"none", "success", "other"}
    BY StatusFacts DEF Init, Outcomes
  <2>2. proc \in [Procs -> Handler]
    BY IdleHandler DEF Init
  <2>3. media \in MediaStates /\ provider \in {"running", "succeeded", "failed"}
    BY DEF Init, MediaStates
  <2>4. /\ count \in Nat /\ owner \in Procs \cup {None} /\ lease \in 0..Lease
        /\ wait \in 0..PollDelay /\ deadline \in -1..MaxDeadline /\ faults \in 0..MaxFaults
        /\ blind \in Nat
    BY DEF Init
  <2>5. task \in [mode : Modes, retention : Retentions, source : BOOLEAN]
    BY DEF Init
  <2>6. wasReady \in BOOLEAN /\ loads \in BOOLEAN
    BY DEF Init
  <2>7. QED
    BY <2>1, <2>2, <2>3, <2>4, <2>5, <2>6 DEF TypeOK
<1>2. HandlersOK
  BY DEF Init, HandlersOK, HandlerOK, At, Idle
<1>3. HistoryOK
  BY DEF Init, HistoryOK, RequiredCompletedAfterMedia
<1>4. NoLostPoll /\ BudgetRespected
  BY DEF Init, NoLostPoll, BudgetRespected, Idle
<1>5. QED
  BY <1>1, <1>2, <1>3, <1>4 DEF IInv

LEMMA StutterKeeps ==
    ASSUME IInv, UNCHANGED vars
    PROVE  IInv'
<1>1. UNCHANGED <<task, status, outcome, count, owner, lease, wait, deadline, result,
                  media, provider, loads, faults, wasReady, blind, proc>>
  BY DEF vars, row, env
<1>2. TypeOK'
  BY <1>1 DEF IInv, TypeOK
<1>3. HandlersOK'
  BY <1>1 DEF IInv, HandlersOK, HandlerOK, At, Exceeded, Required
<1>4. HistoryOK' /\ NoLostPoll' /\ BudgetRespected'
  BY <1>1 DEF IInv, HistoryOK, RequiredCompletedAfterMedia, Required, NoLostPoll,
     Fence, BudgetRespected
<1>5. QED
  BY <1>2, <1>3, <1>4 DEF IInv

LEMMA NextKeeps == IInv /\ [Next]_vars => IInv'
<1> SUFFICES ASSUME IInv, [Next]_vars PROVE IInv'
  OBVIOUS
<1>1. CASE \E w \in Workers : WorkerStep(w)
  BY <1>1, ClaimDueKeeps, WorkerUnpreparedKeeps, WorkerBudgetKeeps, PollKeeps,
     WorkerPersistKeeps, WorkerProjectKeeps, WorkerGivesUpKeeps, WorkerCommitKeeps
     DEF WorkerStep, Procs
<1>2. CASE \E c \in Clients : StatusRead(c) \/ ClientStep(c)
  BY <1>2, StatusReadKeeps, ClaimPollKeeps, SettleKeeps, ClientBudgetKeeps, ClientUnreadKeeps,
     PollKeeps, ClientPollFailedKeeps, ClientPersistKeeps, ClientEnqueueKeeps, ClientProjectKeeps,
     RequestCancelledKeeps, ReleaseKeeps DEF ClientStep, Procs
<1>3. CASE \E p \in Procs : Renew(p) \/ RenewFails(p) \/ Crash(p)
  BY <1>3, RenewKeeps, RenewFailsKeeps, CrashKeeps
<1>4. CASE \/ ProviderFinishes \/ DefinitionLost \/ MediaStored \/ MediaRevoked
           \/ MediaPurged \/ Tick
  BY <1>4, ProviderFinishesKeeps, DefinitionLostKeeps, MediaStoredKeeps, MediaRevokedKeeps,
     MediaPurgedKeeps, TickKeeps
<1>5. CASE UNCHANGED vars
  BY <1>5, StutterKeeps
<1>6. QED
  BY <1>1, <1>2, <1>3, <1>4, <1>5 DEF Next

THEOREM InvariantHolds == Spec => []IInv
BY InitEstablishes, NextKeeps, PTL DEF Spec

\* Every state of the row, the handlers and the surroundings has its type.
THEOREM TypesHold == Spec => []TypeOK
<1>1. IInv => TypeOK
  BY DEF IInv
<1>2. QED
  BY <1>1, InvariantHolds, PTL

\* The record passes the budget only by polls whose handler could not read it.
THEOREM BudgetHolds == Spec => []BudgetRespected
<1>1. IInv => BudgetRespected
  BY DEF IInv
<1>2. QED
  BY <1>1, InvariantHolds, PTL

\* Whoever can still pass the fence holds the poll count of the row.
THEOREM FencedClaims == Spec => []NoLostPoll
<1>1. IInv => NoLostPoll
  BY DEF IInv
<1>2. QED
  BY <1>1, InvariantHolds, PTL

\* A task that requires its media succeeds only after they were stored.
THEOREM CompletionWaitsForMedia == Spec => []RequiredCompletedAfterMedia
<1>1. IInv => RequiredCompletedAfterMedia
  BY DEF IInv, HistoryOK
<1>2. QED
  BY <1>1, InvariantHolds, PTL

-----------------------------------------------------------------------------
(* TaskPolling implements TaskContract: each transaction on the row is a    *)
(* step of the contract, or the client cannot see it.                       *)

Unseen == UNCHANGED Contract!vars

\* The rank decides what MayBecome lets a status turn into; Later says the
\* same of the statuses one by one.
LEMMA ForwardIsLater ==
    ASSUME status \in Statuses, NEW t \in Statuses, MayBecome(status, t)
    PROVE  t \in Contract!Later
BY StatusFacts DEF MayBecome, Terminal, StatusRank, Contract!Later, Contract!Done

\* The statuses at the top of the rank are those no task leaves.
LEMMA EndsAreDone ==
    ASSUME status \in Statuses
    PROVE  /\ Terminal(status) <=> status \in Contract!Done
           /\ status \in Contract!Later
BY StatusFacts DEF Terminal, StatusRank, Contract!Done, Contract!Later

LEMMA InitMaps == Init => Contract!Init
<1> SUFFICES ASSUME Init PROVE Contract!Init
  OBVIOUS
<1>1. deadline # 0
  BY BoundsAssumption DEF Init
<1>2. (deadline = 0) = FALSE
  BY <1>1
<1>3. Required \in BOOLEAN /\ (outcome = "success") = FALSE
  BY DEF Init, Required
<1>4. QED
  BY <1>2, <1>3 DEF Init, Contract!Init

-----------------------------------------------------------------------------
(* The steps that the client can see. *)

LEMMA WorkerCommitMaps ==
    ASSUME IInv, NEW w \in Workers, WorkerCommit(w)
    PROVE  Contract!Next \/ Unseen
<1> DEFINE asked == proc[w].answer
<1> DEFINE moves == asked \in Statuses /\ MayBecome(status, asked)
<1>1. CASE ~Fence(w)
  BY <1>1 DEF WorkerCommit, Unseen, Contract!vars, Required
<1>2. CASE Fence(w)
  <2>1. /\ IF asked = "expired" THEN UNCHANGED <<count, blind>> ELSE Record(w)
        /\ IF moves THEN status' = asked /\ outcome' = proc[w].outcome
                    ELSE UNCHANGED <<status, outcome>>
        /\ UNCHANGED <<task, deadline, wasReady>>
    BY <1>2 DEF WorkerCommit, Becomes
  <2>2. /\ proc[w].seen = count /\ count \in Nat /\ status \in Statuses
        /\ proc[w].blind \in BOOLEAN /\ (outcome = "success" => status = "completed")
    BY <1>2, StatusFacts DEF IInv, TypeOK, NoLostPoll, HistoryOK, WorkerCommit, At, Procs, Handler
  <2>3. /\ asked # "expired" /\ ~proc[w].blind => count < MaxAttempts
        /\ asked = "expired" => Exceeded(count) /\ proc[w].outcome = "failed"
        /\ proc[w].outcome = "success" => asked = "completed"
        /\ proc[w].outcome = "success" /\ Required => wasReady
    BY <2>2 DEF IInv, HandlersOK, HandlerOK, WorkerCommit, At, Procs
  <2>4. status' \in Contract!Later
    BY <2>1, <2>2, ForwardIsLater, EndsAreDone
  <2>5. CASE asked = "expired"
    <3>1. CASE ~moves \/ status = "expired"
      BY <2>1, <2>2, <2>3, <2>5, <3>1 DEF Unseen, Contract!vars, Required
    <3>2. CASE moves /\ status # "expired"
      <4>1. ~Terminal(status) /\ status' = "expired" /\ outcome' = "failed"
        BY <2>1, <2>3, <2>5, <3>2 DEF MayBecome
      <4>2. Contract!GiveUp
        BY <2>1, <2>2, <2>3, <2>5, <4>1, EndsAreDone DEF Contract!GiveUp, Exceeded, Required
      <4>3. QED
        BY <4>2 DEF Contract!Next
    <3>3. QED
      BY <3>1, <3>2
  <2>6. CASE asked # "expired"
    <3>1. /\ count' = count + 1
          /\ (count < MaxAttempts /\ blind' = blind) \/ blind' = blind + 1
      BY <2>1, <2>2, <2>3, <2>6 DEF Record
    <3>2. ~(status # "expired" /\ status' = "expired")
      BY <2>1, <2>6
    <3>3. outcome # "success" /\ outcome' = "success"
            => status' = "completed" /\ (Required => wasReady)
      BY <2>1, <2>3
    <3>4. Contract!Observe
      BY <2>1, <2>4, <3>1, <3>2, <3>3 DEF Contract!Observe, Required
    <3>5. QED
      BY <3>4 DEF Contract!Next
  <2>7. QED
    BY <2>5, <2>6
<1>3. QED
  BY <1>1, <1>2

LEMMA SettleMaps ==
    ASSUME IInv, NEW c \in Clients, Settle(c)
    PROVE  Contract!Next \/ Unseen
<1>1. /\ status \in Statuses /\ (media = "ready" => wasReady)
      /\ outcome = "success" => status = "completed"
  BY DEF IInv, TypeOK, HistoryOK
<1>2. UNCHANGED <<task, count, blind, deadline, wasReady>>
  BY DEF Settle
<1>3. CASE UNCHANGED <<status, outcome>>
  BY <1>2, <1>3 DEF Unseen, Contract!vars, Required
<1>4. CASE ~UNCHANGED <<status, outcome>>
  <2>1. \/ /\ status' = "completed" /\ outcome' = "success"
           /\ ~Terminal(status) /\ media = "ready"
        \/ /\ status' = "materializing" /\ outcome' = "pending"
           /\ MayBecome(status, "materializing")
    BY <1>4 DEF Settle, CompleteAfterMedia, Becomes
  <2>2. status' \in Contract!Later
    BY <1>1, <2>1, ForwardIsLater, StatusFacts DEF Terminal, MayBecome, StatusRank
  <2>3. Contract!Settle
    BY <1>1, <1>2, <2>1, <2>2 DEF Contract!Settle, Required
  <2>4. QED
    BY <2>3 DEF Contract!Next
<1>5. QED
  BY <1>3, <1>4

LEMMA ClientBudgetMaps ==
    ASSUME IInv, NEW c \in Clients, ClientBudget(c)
    PROVE  Contract!Next \/ Unseen
<1>1. UNCHANGED <<task, count, blind, deadline, wasReady>>
  BY DEF ClientBudget, env
<1>2. outcome = "success" => status = "completed"
  BY DEF IInv, HistoryOK
<1>3. CASE UNCHANGED <<status, outcome>>
  BY <1>1, <1>3 DEF Unseen, Contract!vars, Required
<1>4. CASE ~UNCHANGED <<status, outcome>>
  <2>1. /\ Fence(c) /\ MayBecome(status, "expired")
        /\ status' = "expired" /\ outcome' = "failed"
    BY <1>4 DEF ClientBudget, Becomes
  <2>2. proc[c].seen = count
    BY <2>1 DEF IInv, NoLostPoll, ClientBudget, At, Procs
  <2>3. CASE status = "expired"
    BY <1>1, <1>2, <2>1, <2>3 DEF Unseen, Contract!vars, Required
  <2>4. CASE status # "expired"
    <3>1. status \in Statuses /\ ~Terminal(status)
      BY <2>1, <2>4 DEF MayBecome, IInv, TypeOK
    <3>2. Contract!GiveUp
      BY <1>1, <2>1, <2>2, <3>1, EndsAreDone DEF Contract!GiveUp, ClientBudget, Exceeded, Required
    <3>3. QED
      BY <3>2 DEF Contract!Next
  <2>5. QED
    BY <2>3, <2>4
<1>5. QED
  BY <1>3, <1>4

\* A poll on the record leaves the contract's account of unread budgets right.
LEMMA RecordCounts ==
    ASSUME IInv, NEW c \in Procs, proc[c].pc \in {"answered", "projecting"},
           Fence(c), Record(c)
    PROVE  /\ count' = count + 1 /\ count \in Nat
           /\ (count < MaxAttempts /\ blind' = blind) \/ blind' = blind + 1
<1>1. proc[c].seen = count /\ count \in Nat /\ proc[c].blind \in BOOLEAN
  BY DEF IInv, TypeOK, NoLostPoll, Handler
<1>2. ~proc[c].blind => count < MaxAttempts
  BY <1>1 DEF IInv, HandlersOK, HandlerOK, At
<1>3. QED
  BY <1>1, <1>2 DEF Record

LEMMA ClientPollFailedMaps ==
    ASSUME IInv, NEW c \in Clients, ClientPollFailed(c)
    PROVE  Contract!Next \/ Unseen
<1>1. UNCHANGED <<task, deadline, wasReady>> /\ status \in Statuses /\ c \in Procs
  BY DEF ClientPollFailed, IInv, TypeOK, Procs
<1>2. CASE UNCHANGED <<count, blind, status, outcome>>
  BY <1>1, <1>2 DEF Unseen, Contract!vars, Required
<1>3. CASE Fence(c) /\ Record(c) /\ UNCHANGED <<status, outcome>>
  <2>1. /\ count' = count + 1
        /\ (count < MaxAttempts /\ blind' = blind) \/ blind' = blind + 1
    BY <1>1, <1>3, RecordCounts DEF ClientPollFailed, At
  <2>2. status' \in Contract!Later
    BY <1>1, <1>3, EndsAreDone
  <2>3. Contract!Observe
    BY <1>1, <1>3, <2>1, <2>2 DEF Contract!Observe, Required
  <2>4. QED
    BY <2>3 DEF Contract!Next
<1>4. CASE /\ Fence(c) /\ Record(c) /\ Exceeded(count + 1) /\ MayBecome(status, "expired")
           /\ status' = "expired" /\ outcome' = "failed"
  <2>1. /\ count' = count + 1
        /\ (count < MaxAttempts /\ blind' = blind) \/ blind' = blind + 1
    BY <1>1, <1>4, RecordCounts DEF ClientPollFailed, At
  <2>2. status' \in Contract!Later
    BY <1>1, <1>4, ForwardIsLater, StatusFacts
  <2>3. count' >= MaxAttempts \/ deadline = 0
    BY <1>4, <2>1 DEF Exceeded
  <2>4. Contract!Observe
    BY <1>1, <1>4, <2>1, <2>2, <2>3 DEF Contract!Observe, Required
  <2>5. QED
    BY <2>4 DEF Contract!Next
<1>5. QED
  BY <1>2, <1>3, <1>4 DEF ClientPollFailed, Becomes

LEMMA ClientProjectMaps ==
    ASSUME IInv, NEW c \in Clients, ClientProject(c)
    PROVE  Contract!Next \/ Unseen
<1> DEFINE waits == /\ proc[c].outcome = "success" /\ Required
                    /\ proc[c].mediaErr \/ media # "ready"
<1> DEFINE next == IF waits THEN Parked ELSE Answer(proc[c].answer, proc[c].outcome)
<1>1. UNCHANGED <<task, deadline, wasReady>> /\ status \in Statuses /\ c \in Procs
  BY DEF ClientProject, IInv, TypeOK, Procs
<1>2. CASE ~(Fence(c) /\ MayBecome(status, next.answer))
  BY <1>1, <1>2 DEF ClientProject, Unseen, Contract!vars, Required
<1>3. CASE Fence(c) /\ MayBecome(status, next.answer)
  <2>1. Record(c) /\ status' = next.answer /\ outcome' = next.outcome
    BY <1>3 DEF ClientProject, Becomes
  <2>2. /\ proc[c].answer \in Statuses \ {"expired"}
        /\ proc[c].outcome = "success" => proc[c].answer = "completed"
        /\ media = "ready" => wasReady
    BY ProcsAssumption, StatusFacts DEF IInv, HandlersOK, HandlerOK, HistoryOK, ClientProject, At,
       Words, Procs
  <2>3. /\ next.answer \in Statuses /\ next.answer # "expired"
        /\ next.outcome = "success" => next.answer = "completed" /\ (Required => wasReady)
    BY <2>2, StatusFacts DEF Parked, Answer
  <2>4. status' \in Contract!Later
    BY <1>1, <1>3, <2>1, <2>3, ForwardIsLater
  <2>5. /\ count' = count + 1
        /\ (count < MaxAttempts /\ blind' = blind) \/ blind' = blind + 1
    BY <1>1, <1>3, <2>1, RecordCounts DEF ClientProject, At
  <2>6. Contract!Observe
    BY <1>1, <2>1, <2>3, <2>4, <2>5 DEF Contract!Observe, Required
  <2>7. QED
    BY <2>6 DEF Contract!Next
<1>4. QED
  BY <1>2, <1>3

LEMMA MediaStoredMaps ==
    ASSUME IInv, MediaStored
    PROVE  Contract!Next
<1>1. status \in Statuses
  BY DEF IInv, TypeOK
<1>2. \/ UNCHANGED <<status, outcome>>
      \/ status' \in Contract!Later \cap {"completed"} /\ outcome' = "success"
  BY <1>1, StatusFacts DEF MediaStored, CompleteAfterMedia, Becomes, Terminal, StatusRank,
     Contract!Later, Contract!Done
<1>3. Contract!MediaComplete
  BY <1>2 DEF MediaStored, Contract!MediaComplete, Required
<1>4. QED
  BY <1>3 DEF Contract!Next

LEMMA MediaPurgedMaps ==
    ASSUME IInv, MediaPurged
    PROVE  Contract!Next \/ Unseen
<1>1. wasReady \in BOOLEAN /\ UNCHANGED <<task, status, outcome, count, blind, deadline>>
  BY DEF IInv, TypeOK, MediaPurged, row
<1>2. CASE wasReady' = wasReady
  BY <1>1, <1>2 DEF Unseen, Contract!vars, Required
<1>3. CASE wasReady' # wasReady
  <2>1. wasReady' = TRUE
    BY <1>1, <1>3 DEF MediaPurged
  <2>2. Contract!MediaComplete
    BY <1>1, <2>1 DEF Contract!MediaComplete, Required
  <2>3. QED
    BY <2>2 DEF Contract!Next
<1>4. QED
  BY <1>2, <1>3

LEMMA TickMaps ==
    ASSUME IInv, Tick
    PROVE  Contract!Next \/ Unseen
<1>1. deadline \in -1..MaxDeadline /\ UNCHANGED <<task, status, outcome, count, blind, wasReady>>
  BY DEF IInv, TypeOK, Tick
<1>2. CASE deadline' = 0
  <2>1. Contract!DeadlinePasses
    BY <1>1, <1>2 DEF Contract!DeadlinePasses, Required
  <2>2. QED
    BY <2>1 DEF Contract!Next
<1>3. CASE deadline' # 0
  <2>1. deadline # 0
    BY <1>1, <1>3 DEF Tick, Countdown
  <2>2. QED
    BY <1>1, <1>3, <2>1 DEF Unseen, Contract!vars, Required
<1>4. QED
  BY <1>2, <1>3

-----------------------------------------------------------------------------
(* The other steps: claims, leases, payloads, media rows and faults. *)

LEMMA OthersUnseen ==
    ASSUME NEW p \in Procs,
           \/ ClaimDue(p) \/ ClaimPoll(p) \/ Renew(p) \/ RenewFails(p) \/ Poll(p)
           \/ WorkerUnprepared(p) \/ WorkerBudget(p) \/ WorkerPersist(p) \/ WorkerProject(p)
           \/ WorkerGivesUp(p) \/ StatusRead(p) \/ ClientUnread(p) \/ ClientPersist(p)
           \/ ClientEnqueue(p) \/ RequestCancelled(p) \/ Release(p) \/ Crash(p)
    PROVE  Unseen
<1>1. UNCHANGED <<task, status, outcome, count, blind, deadline, wasReady>>
  <2>1. CASE ClaimDue(p) \/ ClaimPoll(p) \/ Renew(p) \/ Poll(p) \/ WorkerBudget(p)
    BY <2>1 DEF ClaimDue, ClaimPoll, Renew, Poll, WorkerBudget, env, row
  <2>2. CASE RenewFails(p) \/ WorkerProject(p) \/ WorkerGivesUp(p) \/ StatusRead(p)
    BY <2>2 DEF RenewFails, WorkerProject, WorkerGivesUp, StatusRead, env, row
  <2>3. CASE WorkerPersist(p) \/ ClientPersist(p)
    BY <2>3 DEF WorkerPersist, ClientPersist, StorePayload, env, row
  <2>4. CASE ClientEnqueue(p) \/ RequestCancelled(p) \/ Release(p) \/ Crash(p)
    BY <2>4 DEF ClientEnqueue, RequestCancelled, Release, Crash, env, row
  <2>5. CASE WorkerUnprepared(p) \/ ClientUnread(p)
    BY <2>5 DEF WorkerUnprepared, ClientUnread, row
  <2>6. QED
    BY <2>1, <2>2, <2>3, <2>4, <2>5
<1>2. QED
  BY <1>1 DEF Unseen, Contract!vars, Required

LEMMA StepMaps == IInv /\ [Next]_vars => [Contract!Next]_Contract!vars
<1> SUFFICES ASSUME IInv, [Next]_vars PROVE Contract!Next \/ Unseen
  BY DEF Unseen
<1>1. CASE \E w \in Workers : WorkerStep(w)
  <2>1. PICK w \in Workers : WorkerStep(w)
    BY <1>1
  <2>2. QED
    BY <2>1, WorkerCommitMaps, OthersUnseen DEF WorkerStep, Procs
<1>2. CASE \E c \in Clients : StatusRead(c) \/ ClientStep(c)
  <2>1. PICK c \in Clients : StatusRead(c) \/ ClientStep(c)
    BY <1>2
  <2>2. QED
    BY <2>1, SettleMaps, ClientBudgetMaps, ClientPollFailedMaps, ClientProjectMaps,
       OthersUnseen DEF ClientStep, Procs
<1>3. CASE \E p \in Procs : Renew(p) \/ RenewFails(p) \/ Crash(p)
  BY <1>3, OthersUnseen
<1>4. CASE ProviderFinishes \/ DefinitionLost \/ MediaRevoked
  BY <1>4 DEF ProviderFinishes, DefinitionLost, MediaRevoked, row, Unseen, Contract!vars, Required
<1>5. CASE MediaStored \/ MediaPurged \/ Tick
  BY <1>5, MediaStoredMaps, MediaPurgedMaps, TickMaps
<1>6. CASE UNCHANGED vars
  BY <1>6 DEF vars, row, env, Unseen, Contract!vars, Required
<1>7. QED
  BY <1>1, <1>2, <1>3, <1>4, <1>5, <1>6 DEF Next

\* The protocol of workers, requests and materializer does to the row only what
\* a task promises to the client that reads it, for any number of them.
THEOREM PollingKeepsTheContract == Spec => ImplementsContract
<1>1. Spec => Contract!Init /\ [][Contract!Next]_Contract!vars
  BY InitMaps, StepMaps, InvariantHolds, PTL DEF Spec
<1>2. QED
  BY <1>1 DEF ImplementsContract, Contract!Spec
=============================================================================
