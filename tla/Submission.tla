----------------------------- MODULE Submission -----------------------------
(***************************************************************************)
(* Profile submissions under one Idempotency-Key: what                     *)
(* router/profile_execution.go, profile_image_execution.go and             *)
(* profile_idempotency.go do from the first lookup to the answer, in       *)
(* several gateway processes on one database, with the keyed lock of each  *)
(* process, and what protocol/executor.go makes of the provider's answer.  *)
(*                                                                         *)
(* The key is the same for all requests.  A request carries its route and  *)
(* its body; model and body stand for the fingerprint, and with the        *)
(* operation they name the row (profileReservationTaskRunID).  A request   *)
(* submits at most once, so it also names the provider's task.  One        *)
(* database statement, transaction or critical section is one action.      *)
(***************************************************************************)
EXTENDS Integers, FiniteSets, SequencesExt

CONSTANTS Requests,    \* requests with the key
          Processes,   \* gateway processes
          Routes,      \* of the routes below, those that are asked
          Bodies,      \* request bodies
          MaxCrashes,  \* bound: deaths of a process
          MaxRebinds,  \* bound: changes of bindings and channels
          None

SubmissionAssumption ==
    /\ IsFiniteSet(Requests)
    /\ Routes \subseteq {"video.create", "image.create", "images.generations"}
    /\ MaxCrashes \in Nat
    /\ MaxRebinds \in Nat
    /\ None \notin Requests \cup Processes \cup Bodies

\* The operations the first lookup asks for, by route ...
Lookups(route) ==
    IF route = "image.create" THEN <<"image.create", "images.create">> ELSE <<route>>

\* ... and those a binding is looked for, in order of preference.
Wanted(route) ==
    CASE route = "video.create" -> <<"video.create">>
      [] route = "image.create" -> <<"image.create", "images.create", "images.generations">>
      [] route = "images.generations" -> <<"images.generations", "images.create">>

Operations == UNION {ToSet(Wanted(route)) : route \in Routes}
Ids == Operations \X Bodies

VARIABLES
    bound,    \* operations some enabled channel has a published binding for
    row,      \* async_task_runs with the key, by operation and fingerprint
    table,    \* profileSubmitLocks.items of each process, by operation
    refs,     \* refs of each lock; a lock is named by the request that made it
    holder,   \* who is in its semaphore
    req,      \* the requests
    sent,     \* requests whose submission went out to the provider
    made,     \* those the provider has made a task for
    crashes, rebinds

locks == <<table, refs, holder>>
provider == <<sent, made>>
counts == <<crashes, rebinds>>
vars == <<bound, row, locks, req, provider, counts>>

States == {"none", "submitting", "accepted", "submission_unknown", "rejected"}
\* public: the identity the create alias keeps, "provider" for the provider's
\* own and "gateway" for one made because that collided.
Row == [state : States, task : Requests \cup {None},
        public : {"none", "provider", "gateway"}]
NoRow == [state |-> "none", task |-> None, public |-> "none"]

Inside == {"second", "reserve", "send", "answer", "wait", "project", "alias", "media", "mark"}
Answers == {"none", "accepted", "failed", "replayed", "conflict", "refused", "error", "legacy"}
Request == [pc : {"idle", "first", "resolve", "join", "waiting", "done"} \cup Inside,
            at : Processes \cup {None}, route : Routes \cup {None}, body : Bodies \cup {None},
            looked : 0 .. 2, op : Operations \cup {None}, lock : Requests \cup {None},
            waits : BOOLEAN, outcome : {"none", "ok", "unknown", "rejected", "failed"},
            public : {"none", "provider", "gateway"},
            answer : Answers, task : Requests \cup {None}, late : BOOLEAN]
Fresh == [pc |-> "idle", at |-> None, route |-> None, body |-> None, looked |-> 0,
          op |-> None, lock |-> None, waits |-> FALSE, outcome |-> "none",
          public |-> "none", answer |-> "none", task |-> None, late |-> FALSE]

Init ==
    /\ bound \in SUBSET Operations
    /\ row = [i \in Ids |-> NoRow]
    /\ table = [p \in Processes |-> [o \in Operations |-> None]]
    /\ refs = [r \in Requests |-> 0]
    /\ holder = [r \in Requests |-> None]
    /\ req = [r \in Requests |-> Fresh]
    /\ sent = {} /\ made = {}
    /\ crashes = 0 /\ rebinds = 0

-----------------------------------------------------------------------------
(* The keyed lock of a process.                                            *)

GoTo(r, pc) == req' = [req EXCEPT ![r].pc = pc]

\* The request is over; what it learned on the way is forgotten.
Over(r, rec) ==
    [rec EXCEPT !.pc = "done", !.looked = 0, !.waits = FALSE, !.outcome = "none",
                !.lock = None, !.op = IF r \in sent THEN @ ELSE None]
Ends(r, rec) == req' = [req EXCEPT ![r] = Over(r, rec)]

\* acquire, up to the wait for the semaphore.
Join(r) ==
    /\ req[r].pc = "join"
    /\ LET p == req[r].at
           o == req[r].op
           item == IF table[p][o] = None THEN r ELSE table[p][o]
       IN /\ table' = [table EXCEPT ![p][o] = item]
          /\ refs' = [refs EXCEPT ![item] = @ + 1]
          /\ req' = [req EXCEPT ![r].pc = "waiting", ![r].lock = item]
    /\ UNCHANGED <<bound, row, holder, provider, counts>>

Enter(r) ==
    /\ req[r].pc = "waiting"
    /\ holder[req[r].lock] = None
    /\ holder' = [holder EXCEPT ![req[r].lock] = r]
    /\ GoTo(r, "second")
    /\ UNCHANGED <<bound, row, table, refs, provider, counts>>

\* Seeded bug: the holder deletes the lock others wait for.
DropItem(r, rec) ==
    LET item == req[r].lock
    IN /\ refs' = [refs EXCEPT ![item] = @ - 1]
       /\ table' = [table EXCEPT ![req[r].at][req[r].op] = None]
       /\ Ends(r, rec)

\* Seeded bug: a reference is dropped by the unlock and by the deferred call.
DropTwice(r, rec) ==
    LET item == req[r].lock
    IN /\ refs' = [refs EXCEPT ![item] = @ - 2]
       /\ table' = IF refs[item] <= 2
                   THEN [table EXCEPT ![req[r].at][req[r].op] = None] ELSE table
       /\ Ends(r, rec)

\* dropReference, and the end of the request with it.
DropReference(r, rec) ==
    LET item == req[r].lock
        p == req[r].at
        o == req[r].op
    IN /\ refs' = [refs EXCEPT ![item] = @ - 1]
       /\ table' = IF refs[item] = 1 THEN [table EXCEPT ![p][o] = None] ELSE table
       /\ Ends(r, rec)

\* unlock: every return of the handler once it has the lock.
Unlock(r, rec) ==
    /\ holder' = [holder EXCEPT ![req[r].lock] = None]
    /\ DropReference(r, rec)

\* The context ends before the semaphore is free.
GiveUp(r) ==
    /\ req[r].pc = "waiting"
    /\ DropReference(r, [req[r] EXCEPT !.answer = "error"])
    /\ UNCHANGED <<bound, row, holder, provider, counts>>

-----------------------------------------------------------------------------
(* The lookups.                                                            *)

Rows(o) == {b \in Bodies : row[<<o, b>>].state # "none"}
Reusable(i) == row[i].state = "accepted" /\ row[i].task # None

\* profileReplayTaskID: the create alias, or the provider's ID without one.
ReplayID(i) == IF row[i].public = "none" THEN "provider" ELSE row[i].public

\* Seeded bug: the row of the key is taken, whatever its fingerprint.
FoundAny(r, o) ==
    LET b == CHOOSE b \in Rows(o) : TRUE
    IN IF Reusable(<<o, b>>)
       THEN [req[r] EXCEPT !.answer = "replayed", !.task = row[<<o, b>>].task,
                           !.public = ReplayID(<<o, b>>)]
       ELSE [req[r] EXCEPT !.answer = "refused"]

\* What a lookup under operation o answers: several rows or one of another
\* request are a conflict, and only an accepted one is replayed.
Found(r, o) ==
    IF Rows(o) # {req[r].body}
    THEN [req[r] EXCEPT !.answer = "conflict"]
    ELSE IF Reusable(<<o, req[r].body>>)
    THEN [req[r] EXCEPT !.answer = "replayed", !.task = row[<<o, req[r].body>>].task,
                        !.public = ReplayID(<<o, req[r].body>>)]
    ELSE [req[r] EXCEPT !.answer = "refused"]

\* A request arrives; `late` notes that an earlier one, alike, was accepted.
Alike(r, route, body) ==
    {q \in Requests \ {r} : req[q].route = route /\ req[q].body = body}
Arrive(r, p, route, body) ==
    /\ req[r].pc = "idle"
    /\ req' = [req EXCEPT ![r] =
          [Fresh EXCEPT !.pc = "first", !.at = p, !.route = route, !.body = body,
             !.late = \E q \in Alike(r, route, body) : req[q].answer = "accepted"]]
    /\ UNCHANGED <<bound, row, locks, provider, counts>>

Fails(r) == Ends(r, [req[r] EXCEPT !.answer = "error"])

\* FindProfileTaskRunByIdempotencyKey, before any channel is resolved.
FirstLook(r) ==
    /\ req[r].pc = "first"
    /\ LET o == Lookups(req[r].route)[req[r].looked + 1]
           last == req[r].looked + 1 = Len(Lookups(req[r].route))
       IN \/ /\ o \in Operations /\ Rows(o) # {}
             /\ Ends(r, Found(r, o))
          \/ /\ o \in Operations => Rows(o) = {}
             /\ req' = [req EXCEPT ![r].looked = @ + 1,
                                   ![r].pc = IF last THEN "resolve" ELSE "first"]
          \/ Fails(r)
    /\ UNCHANGED <<bound, row, locks, provider, counts>>

\* ResolveProfileCandidates and FindChannelProtocolBinding: the most wanted
\* operation with a binding, or the legacy adapters.  The revision may have
\* been retired since.
Resolve(r) ==
    /\ req[r].pc = "resolve"
    /\ LET names == Wanted(req[r].route)
           found == {n \in DOMAIN names : names[n] \in bound}
       IN \/ /\ found = {}
             /\ Ends(r, [req[r] EXCEPT !.answer = "legacy"])
          \/ \E n \in found, waits \in BOOLEAN :
                /\ \A k \in found : n <= k
                /\ req' = [req EXCEPT ![r].pc = "join", ![r].op = names[n], ![r].waits = waits]
          \/ Fails(r)
    /\ UNCHANGED <<bound, row, locks, provider, counts>>

\* Seeded bug: the lookup before the lock is trusted.
NoSecondLook(r) ==
    /\ req[r].pc = "second"
    /\ GoTo(r, "reserve")
    /\ UNCHANGED <<bound, row, locks, provider, counts>>

\* FindProfileTaskRunByIdempotency, again under the lock.
SecondLook(r) ==
    /\ req[r].pc = "second"
    /\ \/ /\ Rows(req[r].op) # {}
          /\ Unlock(r, Found(r, req[r].op))
       \/ /\ Rows(req[r].op) = {}
          /\ GoTo(r, "reserve")
          /\ UNCHANGED locks
       \/ Unlock(r, [req[r] EXCEPT !.answer = "error"])
    /\ UNCHANGED <<bound, row, provider, counts>>

-----------------------------------------------------------------------------
(* The submission.                                                         *)

Id(r) == <<req[r].op, req[r].body>>

\* Seeded bug: a reservation that is there already is taken over.
ReserveAgain(r) ==
    /\ req[r].pc = "reserve"
    /\ row' = [row EXCEPT ![Id(r)] = [NoRow EXCEPT !.state = "submitting"]]
    /\ GoTo(r, "send")
    /\ UNCHANGED <<bound, locks, provider, counts>>

\* reserveProfileTaskRun: the row's key lets one request through.
Reserve(r) ==
    /\ req[r].pc = "reserve"
    /\ \/ /\ row[Id(r)].state = "none"
          /\ row' = [row EXCEPT ![Id(r)].state = "submitting"]
          /\ GoTo(r, "send")
          /\ UNCHANGED locks
       \/ /\ row[Id(r)].state # "none"
          /\ Unlock(r, [req[r] EXCEPT !.answer = "refused"])
          /\ UNCHANGED row
       \/ /\ Unlock(r, [req[r] EXCEPT !.answer = "error"])
          /\ UNCHANGED row
    /\ UNCHANGED <<bound, provider, counts>>

\* ProfileExecutor.Submit: the breaker refuses or the request cannot be built,
\* or it goes out, once.
Send(r) ==
    /\ req[r].pc = "send"
    /\ \/ /\ sent' = sent \cup {r}
          /\ GoTo(r, "answer")
       \/ /\ req' = [req EXCEPT ![r].pc = "mark", ![r].outcome = "rejected"]
          /\ UNCHANGED sent
    /\ UNCHANGED <<bound, row, locks, made, counts>>

\* What doJSON, readJSONResponse and Submit make of the exchange, and with
\* profileSubmissionErrorState what the row is to say of it; `taken` is what
\* the provider did.  A body that cannot be read, or has no task ID where the
\* gateway waits, counts as rejected.
Reading(r, reply) ==
    CASE reply = "task"       -> "ok"
      [] reply = "refusal"    -> "rejected"
      [] reply = "lost"       -> "unknown"
      [] reply = "unreadable" -> "rejected"
      [] reply = "no task"    -> IF req[r].waits THEN "rejected" ELSE "unknown"

Answer(r) ==
    /\ req[r].pc = "answer"
    /\ \E reply \in {"task", "refusal", "lost", "unreadable", "no task"}, taken \in BOOLEAN :
          /\ reply = "task" => taken
          /\ reply = "refusal" => ~taken
          /\ made' = IF taken THEN made \cup {r} ELSE made
          /\ LET outcome == Reading(r, reply)
             IN req' = [req EXCEPT ![r].outcome = outcome,
                          ![r].pc = IF outcome # "ok" THEN "mark"
                                    ELSE IF req[r].waits THEN "wait" ELSE "project"]
    /\ UNCHANGED <<bound, row, locks, sent, counts>>

\* AsyncEngine.wait: the task ends well, badly, or not in time.
Wait(r) ==
    /\ req[r].pc = "wait"
    /\ \E outcome \in {"ok", "failed"} :
          req' = [req EXCEPT ![r].pc = "project", ![r].outcome = outcome]
    /\ UNCHANGED <<bound, row, locks, provider, counts>>

\* Seeded bug: a failed submission gives the key back.
MarkFree(r) ==
    /\ req[r].pc = "mark"
    /\ row' = [row EXCEPT ![Id(r)] = NoRow]
    /\ Unlock(r, [req[r] EXCEPT !.answer = "error"])
    /\ UNCHANGED <<bound, provider, counts>>

\* UpdateTaskRunSubmissionState, whose own failure is ignored.
Mark(r) ==
    /\ req[r].pc = "mark"
    /\ LET state == IF req[r].outcome = "unknown" THEN "submission_unknown" ELSE "rejected"
       IN row' \in {row, [row EXCEPT ![Id(r)].state = state]}
    /\ Unlock(r, [req[r] EXCEPT !.answer = "error"])
    /\ UNCHANGED <<bound, provider, counts>>

-----------------------------------------------------------------------------
(* The projection of an accepted task.                                     *)

\* What the projection writes into the row of an accepted task.
Projected(r) == [NoRow EXCEPT !.state = "accepted", !.task = r]

\* UpdateProfileTaskRunProjection.  The mapping was looked at before it: when
\* the provider's ID is taken, the gateway makes one.  A failed wait projects
\* as well, and goes on without the row if that fails.
Project(r) ==
    /\ req[r].pc = "project"
    /\ \E public \in {"provider", "gateway"} :
          \/ /\ row' = [row EXCEPT ![Id(r)] = Projected(r)]
             /\ req' = [req EXCEPT ![r].pc = "alias", ![r].public = public]
             /\ UNCHANGED locks
          \/ /\ Unlock(r, [req[r] EXCEPT !.answer = "error"])
             /\ UNCHANGED row
    /\ UNCHANGED <<bound, provider, counts>>

\* persistProfileTaskAliases: RecordTaskAlias, whose failure is logged.
RecordAlias(r) ==
    /\ req[r].pc = "alias"
    /\ row' \in {row, [row EXCEPT ![Id(r)].public = req[r].public]}
    /\ GoTo(r, "media")
    /\ UNCHANGED <<bound, locks, provider, counts>>

\* prepareProfileAsyncMedia and retainMediaResponse may fail; then the answer.
Respond(r) ==
    /\ req[r].pc = "media"
    /\ \E answer \in IF req[r].outcome = "ok" THEN {"accepted", "error"} ELSE {"failed"} :
          Unlock(r, [req[r] EXCEPT !.answer = answer, !.task = r])
    /\ UNCHANGED <<bound, row, provider, counts>>

-----------------------------------------------------------------------------
(* The world around.                                                       *)

\* Bindings are enabled and disabled, channels too.
Rebind ==
    /\ rebinds < MaxRebinds
    /\ rebinds' = rebinds + 1
    /\ bound' \in SUBSET Operations \ {bound}
    /\ UNCHANGED <<row, locks, req, provider, crashes>>

\* A process dies with its requests and its locks; a submission that is out
\* may still become a task.
Crash(p) ==
    /\ crashes < MaxCrashes
    /\ crashes' = crashes + 1
    /\ LET gone == {r \in Requests : req[r].at = p /\ req[r].pc \notin {"idle", "done"}}
       IN /\ gone # {}
          /\ req' = [r \in Requests |->
                       IF r \in gone THEN Over(r, req[r]) ELSE req[r]]
          /\ holder' = [r \in Requests |-> IF req[r].at = p THEN None ELSE holder[r]]
          /\ refs' = [r \in Requests |-> IF req[r].at = p THEN 0 ELSE refs[r]]
          /\ \E late \in SUBSET {r \in gone : req[r].pc = "answer"} : made' = made \cup late
    /\ table' = [table EXCEPT ![p] = [o \in Operations |-> None]]
    /\ UNCHANGED <<bound, row, sent, rebinds>>

RequestStep(r) ==
    \/ FirstLook(r) \/ Resolve(r) \/ Join(r) \/ Enter(r) \/ GiveUp(r)
    \/ SecondLook(r) \/ Reserve(r) \/ Send(r) \/ Answer(r) \/ Wait(r) \/ Mark(r)
    \/ Project(r) \/ RecordAlias(r) \/ Respond(r)

Next ==
    \/ \E r \in Requests : RequestStep(r)
    \/ \E r \in Requests, p \in Processes, route \in Routes, body \in Bodies :
          Arrive(r, p, route, body)
    \/ Rebind
    \/ \E p \in Processes : Crash(p)

Spec == Init /\ [][Next]_vars

-----------------------------------------------------------------------------
(* Properties.                                                             *)

TypeOK ==
    /\ bound \subseteq Operations
    /\ row \in [Ids -> Row]
    /\ table \in [Processes -> [Operations -> Requests \cup {None}]]
    /\ refs \in [Requests -> 0 .. Cardinality(Requests)]
    /\ holder \in [Requests -> Requests \cup {None}]
    /\ req \in [Requests -> Request]
    /\ made \subseteq sent /\ sent \subseteq Requests
    /\ crashes \in 0 .. MaxCrashes /\ rebinds \in 0 .. MaxRebinds

\* "This lock only prevents two goroutines in this process from both reaching
\* the provider": one request at a time is between the second lookup and the
\* answer.  A lock stays in the table as long as somebody holds it or waits
\* for it, no longer, and nobody waits for one that has left it.
LockExclusive ==
    /\ \A r, q \in Requests :
          req[r].pc \in Inside /\ req[q].pc \in Inside
             /\ req[r].at = req[q].at /\ req[r].op = req[q].op => r = q
    /\ \A r \in Requests :
          req[r].lock # None => table[req[r].at][req[r].op] = req[r].lock
    /\ \A p \in Processes, o \in Operations :
          table[p][o] # None => \E r \in Requests : req[r].at = p /\ req[r].lock = table[p][o]

\* The database row is the source of truth across restarts and processes: one
\* operation and body is submitted once, whatever dies or fails, in whichever
\* process the retries arrive.
SubmitOnce == \A r, q \in sent : Id(r) = Id(q) => r = q

\* On one process a key is submitted once for an operation, whatever bodies
\* come with it: the second lookup is under the lock.
KeyOnce ==
    \A r, q \in sent : req[r].at = req[q].at /\ req[r].op = req[q].op => r = q

\* A task the provider may have made is never forgotten: a row remembers the
\* submission, so that no retry takes the key for unused.
SentIsRemembered == \A r \in sent : row[Id(r)].state # "none"

\* A replay names a task that the provider made for the same body.
ReplayIsTheTask ==
    \A r \in Requests : req[r].answer = "replayed" =>
        req[r].task \in made /\ req[req[r].task].body = req[r].body

\* "The create alias is the public identity returned by the original submit
\* and must survive replay" (profileReplayTaskID).
ReplayIsTheSame ==
    \A r \in Requests : req[r].answer = "replayed" =>
        req[r].public = req[req[r].task].public

\* A retry stays "bound to the original accepted TaskRun even if its channel
\* is temporarily disabled or its priority changes"
\* (FindProfileTaskRunByIdempotencyKeyContext): it submits nothing.
RetryStaysBound == \A r \in sent : ~req[r].late
=============================================================================
