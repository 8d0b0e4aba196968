---------------------------- MODULE TaskMappings ----------------------------
(***************************************************************************)
(* Where an accepted task lives: the mapping from a lookup ID to its       *)
(* channel (db/db.go), the cache before it (db/task_mapping_cache.go), the *)
(* run and the aliases that repeat it (router/legacy_task_lifecycle.go),   *)
(* and the journal that keeps a mapping the database would not take        *)
(* (router/async_task_recovery.go).                                        *)
(*                                                                         *)
(* Creations, status polls, the recovery worker, a reader of the cache and *)
(* the deletion of a channel interleave; one statement, transaction or     *)
(* critical section is one action.  The kind is video.  A creation r also  *)
(* names the ID the gateway makes for it, so that IDs are those of the     *)
(* providers and the creations.                                            *)
(***************************************************************************)
EXTENDS Integers, SequencesExt

CONSTANTS Creates,      \* creations, each by a request of its own
          Polls,        \* status queries
          Channels,
          ProviderIds,  \* IDs the providers hand out, of any channel
          Replies,      \* the IDs of a creation's answer: sequences of them
          Engines,      \* of the creations
          Worker, None,
          MaxFaults,    \* bound: local writes that fail
          MaxCrashes,   \* bound: deaths of the process
          MaxDeletes    \* bound: deletions of a channel

Ids == ProviderIds \cup Creates
Actors == Creates \cup Polls \cup {Worker}
Mapping == [channel : Channels, alias : Ids, origin : Creates]
\* asyncTaskMappingRegistration; its recoveryKey is the registration itself.
Registration ==
    [engine : {"legacy", "profile"}, channel : Channels, alias : Ids, origin : Creates,
     ids : Replies \cup {<<i>> : i \in Ids} \cup {<<i, j>> : i, j \in Ids}]
\* A task run; engine, alias and origin are its key.
Run == [engine : {"legacy", "profile"}, channel : Channels, alias : Ids, origin : Creates]

TaskMappingsAssumption ==
    /\ Replies \subseteq Seq(ProviderIds) \ {<<>>}
    /\ Engines \subseteq {"legacy", "profile"}
    /\ Creates \cap ProviderIds = {} /\ Creates \cap Polls = {}
    /\ Worker \notin Creates \cup Polls
    /\ None \notin Channels \cup Ids \cup Mapping
    /\ MaxFaults \in Nat /\ MaxCrashes \in Nat /\ MaxDeletes \in Nat

VARIABLES
    mapping,   \* the table of mappings
    cache,     \* videoTaskCache
    runs,      \* async_task_runs
    aliases,   \* the run of a lookup ID
    journal,   \* registrations a load of the journal would find
    torn,      \* the last line of the journal is incomplete
    swallowed, \* history: pending registrations whose line a torn one took in
    loaded,    \* q.loaded
    pending,   \* q.pending ...
    durable,   \* ... and those of them with `journaled`
    actor,     \* the routines at work
    given,     \* IDs in use on a channel: its provider's, which it does not
               \* repeat, and those the gateway made instead
    answer,    \* X-Relay-Task-Mapping of a creation
    reader,    \* a row on its way into the cache
    deleting,  \* a channel that is deleted and still cached
    deleted,   \* channels that have been deleted
    moved,     \* history: IDs whose stored channel a status query changed
    faults, crashes

tables == <<mapping, runs, aliases>>
queue == <<journal, torn, swallowed, loaded, pending, durable>>
world == <<given, reader, deleting, deleted, moved, crashes>>
vars == <<tables, cache, queue, actor, answer, faults, world>>

NoRegistration ==
    [engine |-> "legacy", channel |-> None, alias |-> None, origin |-> None, ids |-> <<>>]
Idle == [pc |-> "idle", reg |-> NoRegistration, run |-> None, left |-> 1, again |-> FALSE,
         fresh |-> {}, id |-> None, batch |-> {}, known |-> {}]

Init ==
    /\ mapping = [i \in Ids |-> None] /\ cache = [i \in Ids |-> None]
    /\ runs = {} /\ aliases = [i \in Ids |-> None]
    /\ journal = {} /\ torn = FALSE /\ swallowed = {}
    /\ loaded = FALSE /\ pending = {} /\ durable = {}
    /\ actor = [a \in Actors |-> Idle]
    /\ answer = [r \in Creates |-> "none"]
    /\ given = {} /\ reader = None /\ deleting = None /\ deleted = {}
    /\ moved = {}
    /\ faults = 0 /\ crashes = 0

-----------------------------------------------------------------------------
(* Lookups.                                                                *)

\* getTaskMappingExactContext, without what a miss does to the cache (Load).
Lookup(i) == IF cache[i] # None THEN cache[i] ELSE mapping[i]

\* isTaskIDRegisteredToOtherChannel.
Elsewhere(i, c) ==
    \/ Lookup(i) # None /\ Lookup(i).channel # c
    \/ aliases[i] # None /\ aliases[i].channel # c

\* registrationHasProfileTaskRun.
HasProfileTaskRun(reg) ==
    \E i \in ToSet(reg.ids) \cup {reg.alias} :
        aliases[i] # None /\ aliases[i].engine = "profile" /\ aliases[i].channel = reg.channel

\* legacyTaskRunID, or the run that a known ID of the registration has.
RunFor(reg) ==
    LET known == {n \in DOMAIN reg.ids :
                    /\ aliases[reg.ids[n]] # None
                    /\ aliases[reg.ids[n]].engine = "legacy"
                    /\ aliases[reg.ids[n]].channel = reg.channel}
    IN IF known # {}
       THEN aliases[reg.ids[CHOOSE n \in known : \A k \in known : n <= k]]
       ELSE [engine |-> "legacy", channel |-> reg.channel, alias |-> reg.alias,
             origin |-> reg.origin]

MappingOf(reg) == [channel |-> reg.channel, alias |-> reg.alias, origin |-> reg.origin]

\* The first step of persistAsyncTaskMappingRegistration.
Entry(reg) == IF reg.engine = "profile" THEN "ensure" ELSE "run"

Set(a, rec) == actor' = [actor EXCEPT ![a] = rec]
Ends(a) == Set(a, Idle)
Fault == faults < MaxFaults /\ faults' = faults + 1

\* What follows the routine in each of the actors.
Succeeds(a) ==
    LET rec == [actor[a] EXCEPT !.fresh = {}, !.left = 1]
    IN Set(a, CASE a = Worker -> [rec EXCEPT !.pc = "ack"]
                [] a \in Polls -> [rec EXCEPT !.pc = "record"]
                [] a \in Creates /\ rec.reg.engine = "legacy" ->
                     [rec EXCEPT !.pc = "run", !.again = TRUE]
                [] OTHER -> [rec EXCEPT !.pc = "project"])
Fails(a, conflict) ==
    LET rec == [actor[a] EXCEPT !.fresh = {}, !.left = 1, !.run = None]
    IN Set(a, CASE a = Worker -> [rec EXCEPT !.pc = "next", !.reg = NoRegistration]
                [] ~conflict -> [rec EXCEPT !.pc = "enqueue"]
                [] a \in Polls -> [rec EXCEPT !.pc = "record"]
                [] a \in Creates /\ rec.reg.engine = "legacy" -> [rec EXCEPT !.pc = "over"]
                [] OTHER -> [rec EXCEPT !.pc = "project"])
Answered(a, how) == answer' = IF a \in Creates THEN [answer EXCEPT ![a] = how] ELSE answer

-----------------------------------------------------------------------------
(* persistAsyncTaskMappingRegistration, for whoever calls it.              *)

\* ensureLegacyTaskRunContext: the profile engine owns the task, or there is a
\* run to find or to make ...
Choose(a) ==
    /\ actor[a].pc = "run"
    /\ LET reg == actor[a].reg
       IN Set(a, IF HasProfileTaskRun(reg)
                 THEN [actor[a] EXCEPT !.pc = IF actor[a].again THEN "over" ELSE "ensure"]
                 ELSE [actor[a] EXCEPT !.pc = "freeze", !.run = RunFor(reg)])
    /\ UNCHANGED <<tables, cache, queue, answer, faults, world>>

\* Seeded bug: the aliases follow although the run could not be written.
FreezeUnwritten(a) ==
    /\ actor[a].pc = "freeze"
    /\ Set(a, [actor[a] EXCEPT !.pc = "look", !.left = 1])
    /\ UNCHANGED <<tables, cache, queue, answer, faults, world>>

\* ... which is made unless another has made it by then.
Freeze(a) ==
    /\ actor[a].pc = "freeze"
    /\ runs' = runs \cup {actor[a].run}
    /\ Set(a, [actor[a] EXCEPT !.pc = "look", !.left = 1])
    /\ UNCHANGED <<mapping, aliases, cache, queue, answer, faults, world>>

\* The next ID, or the mappings once there is none left.
Advanced(a) ==
    LET last == actor[a].left = Len(actor[a].reg.ids)
        rec == [actor[a] EXCEPT !.left = IF last THEN 1 ELSE @ + 1]
    IN [rec EXCEPT !.pc = IF ~last THEN "look" ELSE IF rec.again THEN "over" ELSE "ensure"]

Look(a) ==
    /\ actor[a].pc = "look"
    /\ Set(a, IF Elsewhere(actor[a].reg.ids[actor[a].left], actor[a].reg.channel)
              THEN Advanced(a) ELSE [actor[a] EXCEPT !.pc = "alias"])
    /\ UNCHANGED <<tables, cache, queue, answer, faults, world>>

\* RecordTaskAliasContext: an ID keeps its run.
RecordTaskAlias(a) ==
    /\ actor[a].pc = "alias"
    /\ LET i == actor[a].reg.ids[actor[a].left]
       IN \/ /\ aliases[i] \in {None, actor[a].run}
             /\ aliases' = [aliases EXCEPT ![i] = actor[a].run]
             /\ Set(a, Advanced(a))
          \/ /\ aliases[i] \notin {None, actor[a].run}
             /\ IF actor[a].again
                THEN Set(a, [actor[a] EXCEPT !.pc = "over"]) ELSE Fails(a, FALSE)
             /\ UNCHANGED aliases
    /\ UNCHANGED <<mapping, runs, cache, queue, answer, faults, world>>

\* Seeded bug: a row of another channel is replaced.
EnsureByReplacing(a) ==
    /\ actor[a].pc = "ensure"
    /\ LET ids == ToSet(actor[a].reg.ids)
       IN /\ mapping' = [i \in Ids |-> IF i \in ids THEN MappingOf(actor[a].reg) ELSE mapping[i]]
          /\ Set(a, [actor[a] EXCEPT !.pc = "publish", !.fresh = ids])
    /\ Answered(a, "stored")
    /\ UNCHANGED <<runs, aliases, cache, queue, faults, world>>

\* EnsureTaskMappingsContext: the transaction, which repoints nothing ...
EnsureTaskMappings(a) ==
    /\ actor[a].pc = "ensure"
    /\ LET reg == actor[a].reg
           taken == {i \in ToSet(reg.ids) :
                        mapping[i] # None /\ mapping[i].channel # reg.channel}
           missing == {i \in ToSet(reg.ids) : mapping[i] = None}
           renamed == {i \in ToSet(reg.ids) \ missing :
                          mapping[i].alias = i /\ reg.alias # i}
       IN IF taken # {}
          THEN /\ Fails(a, TRUE)
               /\ Answered(a, "conflict")
               /\ UNCHANGED mapping
          ELSE /\ mapping' = [i \in Ids |->
                     CASE i \in missing -> MappingOf(reg)
                       [] i \in renamed -> [mapping[i] EXCEPT !.alias = reg.alias]
                       [] OTHER -> mapping[i]]
               /\ Answered(a, "stored")
               /\ Set(a, [actor[a] EXCEPT !.pc = "publish", !.fresh = missing \cup renamed])
    /\ UNCHANGED <<runs, aliases, cache, queue, faults, world>>

\* ... and, once it has committed, the cache.
Publish(a) ==
    /\ actor[a].pc = "publish"
    /\ cache' = [i \in Ids |->
                   IF i \in actor[a].fresh THEN MappingOf(actor[a].reg) ELSE cache[i]]
    /\ Succeeds(a)
    /\ UNCHANGED <<tables, queue, answer, faults, world>>

\* A statement fails, or the 250 ms are over; a status poll goes on without its run.
Interrupted(a) ==
    /\ actor[a].pc \in {"run", "freeze", "alias", "ensure"}
    /\ Fault
    /\ IF actor[a].again THEN Set(a, [actor[a] EXCEPT !.pc = "over"]) ELSE Fails(a, FALSE)
    /\ UNCHANGED <<tables, cache, queue, answer, world>>

-----------------------------------------------------------------------------
(* The journal.                                                            *)

\* loadLocked: what the file says joins what the process knows.
LoadedPending == IF loaded THEN pending ELSE pending \cup journal
LoadedDurable == IF loaded THEN durable ELSE durable \cup journal

\* appendAsyncTaskMappingJournal: the line of an entry, which is part of a torn
\* one before it, and an append that wrote none of its line or only a part.
Lands(reg) ==
    /\ journal' = IF torn THEN journal ELSE journal \cup {reg}
    /\ swallowed' = IF torn THEN swallowed \cup ({reg} \ journal) ELSE swallowed \ {reg}
    /\ torn' = FALSE
Breaks == torn' \in {torn, TRUE} /\ UNCHANGED <<journal, swallowed>>

\* Seeded bug: an entry counts as written before it is.
JournalsUnwritten(reg, ok) ==
    /\ loaded' = TRUE
    /\ pending' = LoadedPending \cup {reg} /\ durable' = LoadedDurable \cup {reg}
    /\ \/ ok /\ Lands(reg) /\ UNCHANGED faults
       \/ ~ok /\ Fault /\ Breaks

\* Enqueue and ensureJournaled, with the outcome.  The load, the write or the
\* sync may fail: a line that was not synced is there and not relied upon, nor
\* is one appended after a failed load.
Journals(reg, ok) ==
    \/ /\ ok /\ loaded' = TRUE
       /\ pending' = LoadedPending \cup {reg} /\ durable' = LoadedDurable \cup {reg}
       /\ IF reg \in LoadedDurable THEN UNCHANGED <<journal, torn, swallowed>> ELSE Lands(reg)
       /\ UNCHANGED faults
    \/ /\ ~ok /\ Fault
       /\ loaded' = TRUE
       /\ pending' = LoadedPending \cup {reg} /\ durable' = LoadedDurable
       /\ reg \notin LoadedDurable
       /\ Lands(reg) \/ Breaks
    \/ /\ ~ok /\ Fault
       /\ ~loaded /\ UNCHANGED <<loaded, durable>>
       /\ pending' = pending \cup {reg}
       /\ Lands(reg) \/ Breaks

\* Seeded bug: the cache is told although the journal was not written.
EnqueueUnsure(a) ==
    /\ actor[a].pc = "enqueue"
    /\ \E ok \in BOOLEAN : Journals(actor[a].reg, ok)
    /\ Set(a, [actor[a] EXCEPT !.pc = "announce"])
    /\ UNCHANGED <<tables, cache, answer, world>>

\* deferAsyncTaskMappingPersistence.
Enqueue(a) ==
    /\ actor[a].pc = "enqueue"
    /\ \/ /\ Journals(actor[a].reg, TRUE)
          /\ Set(a, [actor[a] EXCEPT !.pc = "announce"])
          /\ UNCHANGED answer
       \/ /\ Journals(actor[a].reg, FALSE)
          /\ Answered(a, "failed")
          /\ Set(a, [actor[a] EXCEPT !.pc =
                       IF a \in Polls THEN "record"
                       ELSE IF actor[a].reg.engine = "legacy" THEN "over" ELSE "project"])
    /\ UNCHANGED <<tables, cache, world>>

\* PublishTaskMappingCache for every mapping of the registration.
Announced(reg) ==
    [i \in Ids |-> IF i \in ToSet(reg.ids) THEN MappingOf(reg) ELSE cache[i]]
Announce(a) ==
    /\ actor[a].pc = "announce"
    /\ cache' = Announced(actor[a].reg)
    /\ Answered(a, "pending")
    /\ Set(a, [actor[a] EXCEPT !.pc =
                 IF a = Worker THEN Entry(actor[a].reg)
                 ELSE IF a \in Polls THEN "record"
                 ELSE IF actor[a].reg.engine = "legacy" THEN "over" ELSE "project"])
    /\ UNCHANGED <<tables, queue, faults, world>>

\* Seeded bug: only the start of the process looks into the journal.
ReconcileOnce ==
    /\ actor[Worker].pc = "idle" /\ ~loaded
    /\ loaded' = TRUE /\ pending' = LoadedPending /\ durable' = LoadedDurable
    /\ Set(Worker, IF LoadedPending = {} THEN Idle
                   ELSE [Idle EXCEPT !.pc = "next", !.batch = LoadedPending,
                                     !.known = LoadedDurable])
    /\ UNCHANGED <<tables, cache, journal, torn, swallowed, answer, faults, world>>

\* reconcile: a copy of what is pending ...
Reconcile ==
    /\ actor[Worker].pc = "idle"
    /\ LoadedPending # {} \/ ~loaded
    /\ loaded' = TRUE /\ pending' = LoadedPending /\ durable' = LoadedDurable
    /\ Set(Worker, IF LoadedPending = {} THEN Idle
                   ELSE [Idle EXCEPT !.pc = "next", !.batch = LoadedPending,
                                     !.known = LoadedDurable])
    /\ UNCHANGED <<tables, cache, journal, torn, swallowed, answer, faults, world>>

\* ... one after the other, journaled first where it is not yet.
RecoverNext ==
    /\ actor[Worker].pc = "next"
    /\ IF actor[Worker].batch = {}
       THEN Ends(Worker) /\ UNCHANGED <<queue, faults>>
       ELSE \E reg \in actor[Worker].batch :
              LET rec == [actor[Worker] EXCEPT !.reg = reg, !.batch = @ \ {reg}]
              IN \/ /\ reg \in rec.known
                    /\ Set(Worker, [rec EXCEPT !.pc = Entry(reg)])
                    /\ UNCHANGED <<queue, faults>>
                 \/ /\ reg \notin rec.known
                    /\ Journals(reg, TRUE)
                    /\ Set(Worker, [rec EXCEPT !.pc = "announce"])
                 \/ /\ reg \notin rec.known
                    /\ Journals(reg, FALSE)
                    /\ Set(Worker, [rec EXCEPT !.reg = NoRegistration])
    /\ UNCHANGED <<tables, cache, answer, world>>

\* The line of an acknowledgement, which a torn one takes in too.
Acked == IF torn THEN journal ELSE journal \ {actor[Worker].reg}

\* Seeded bug: the journal is emptied after the last of the batch.
AcknowledgeBatch ==
    /\ actor[Worker].pc = "ack"
    /\ pending' = pending \ {actor[Worker].reg}
    /\ durable' = durable \ {actor[Worker].reg}
    /\ swallowed' = swallowed \ {actor[Worker].reg}
    /\ journal' = IF actor[Worker].batch = {} THEN {} ELSE Acked
    /\ torn' = FALSE
    /\ Set(Worker, [actor[Worker] EXCEPT !.pc = "next", !.reg = NoRegistration, !.run = None])
    /\ UNCHANGED <<tables, cache, loaded, answer, faults, world>>

\* acknowledge; with nothing pending, the journal is emptied, unless that fails.
\* A line that was written and not synced is in the file, though the entry
\* stays pending.
Acknowledge ==
    /\ actor[Worker].pc = "ack"
    /\ \/ /\ pending' = pending \ {actor[Worker].reg}
          /\ durable' = durable \ {actor[Worker].reg}
          /\ swallowed' = swallowed \ {actor[Worker].reg}
          /\ torn' = FALSE
          /\ \/ journal' = (IF pending' = {} THEN {} ELSE Acked) /\ UNCHANGED faults
             \/ pending' = {} /\ Fault /\ journal' = Acked
       \/ /\ Fault
          /\ UNCHANGED <<pending, durable>>
          /\ Breaks \/ (journal' = Acked /\ torn' = FALSE /\ UNCHANGED swallowed)
    /\ Set(Worker, [actor[Worker] EXCEPT !.pc = "next", !.reg = NoRegistration, !.run = None])
    /\ UNCHANGED <<tables, cache, loaded, answer, world>>

-----------------------------------------------------------------------------
(* Creations and status polls.                                             *)

\* The provider has accepted a task and named it.
Accept(r) ==
    /\ actor[r] = Idle /\ answer[r] = "none"
    /\ \E c \in Channels \ deleted, engine \in Engines, ids \in Replies :
          /\ \A i \in ToSet(ids) : <<c, i>> \notin given
          /\ given' = given \cup {<<c, i>> : i \in ToSet(ids)}
          /\ Set(r, [Idle EXCEPT !.pc = "names",
                     !.reg = [engine |-> engine, channel |-> c, alias |-> ids[1],
                              origin |-> r, ids |-> ids]])
    /\ UNCHANGED <<tables, cache, queue, answer, faults,
                   reader, deleting, deleted, moved, crashes>>

\* disambiguateAsyncTaskIDs: an ID of another channel is not used.
Disambiguate(r) ==
    /\ actor[r].pc = "names"
    /\ LET reg == actor[r].reg
           named == IF \E i \in ToSet(reg.ids) : Elsewhere(i, reg.channel)
                    THEN [reg EXCEPT !.ids = <<r>>] ELSE reg
       IN /\ Set(r, [actor[r] EXCEPT !.reg = named, !.pc = Entry(named)])
          /\ given' = given \cup {<<reg.channel, i>> : i \in ToSet(named.ids)}
    /\ UNCHANGED <<tables, cache, queue, answer, faults,
                   reader, deleting, deleted, moved, crashes>>

\* The projection of a profile task, and persistProfileTaskAliases: an alias
\* that another run has, and a failure, are logged.
Project(r) ==
    /\ actor[r].pc = "project"
    /\ \/ /\ LET run == [engine |-> "profile", channel |-> actor[r].reg.channel,
                         alias |-> actor[r].reg.alias, origin |-> r]
             IN /\ runs' = runs \cup {run}
                /\ Set(r, [actor[r] EXCEPT !.pc = "attach", !.run = run, !.left = 1])
          /\ UNCHANGED faults
       \/ /\ Fault
          /\ Set(r, [actor[r] EXCEPT !.pc = "over"])
          /\ UNCHANGED runs
    /\ UNCHANGED <<mapping, aliases, cache, queue, answer, world>>
Attach(r) ==
    /\ actor[r].pc = "attach"
    /\ LET i == actor[r].reg.ids[actor[r].left]
       IN \/ /\ aliases' = IF aliases[i] = None
                           THEN [aliases EXCEPT ![i] = actor[r].run] ELSE aliases
             /\ UNCHANGED faults
          \/ Fault /\ UNCHANGED aliases
    /\ Set(r, IF actor[r].left = Len(actor[r].reg.ids)
              THEN [actor[r] EXCEPT !.pc = "over"] ELSE [actor[r] EXCEPT !.left = @ + 1])
    /\ UNCHANGED <<mapping, runs, cache, queue, answer, world>>

\* The routine of a creation, of a poll or of the worker returns.
Over(a) ==
    /\ actor[a].pc = "over"
    /\ Ends(a)
    /\ UNCHANGED <<tables, cache, queue, answer, faults, world>>

\* What the row of an ID was, if it is another channel's now.
Moves == moved' = moved \cup {i \in Ids : /\ mapping[i] # None /\ mapping'[i] # None
                                          /\ mapping'[i].channel # mapping[i].channel}

\* A client that was answered `i` asks, and the provider, unless it was asked
\* by a name the gateway replaces, calls the task `seen`: persistVideoTaskAliases, and where
\* the name is another channel's, recordVideoTaskConflictAlias.
Poll(p, i, seen) ==
    /\ actor[p].pc = "idle" /\ actor[p].id = None
    /\ Lookup(i) # None /\ Lookup(i).channel \notin deleted
    /\ actor[Lookup(i).origin].pc = "idle"
    /\ IF i \in Creates THEN seen = i
       ELSE seen = i \/ (seen \in ProviderIds /\ <<Lookup(i).channel, seen>> \notin given)
    /\ given' = IF i \in Creates THEN given ELSE given \cup {<<Lookup(i).channel, seen>>}
    /\ LET m == Lookup(i)
           reg(alias, j) == [engine |-> "legacy", channel |-> m.channel, alias |-> alias,
                             origin |-> m.origin, ids |-> <<j>>]
           asked == [Idle EXCEPT !.id = i]
       IN Set(p, IF Elsewhere(seen, m.channel)
                 THEN IF seen # i /\ m.alias = i
                      THEN [asked EXCEPT !.pc = "rename", !.reg = reg(seen, i)]
                      ELSE [asked EXCEPT !.pc = "record"]
                 ELSE IF seen = i \/ Lookup(seen) # None
                 THEN [asked EXCEPT !.pc = "record"]
                 ELSE [asked EXCEPT !.pc = "run", !.reg = reg(m.alias, seen)])
    /\ UNCHANGED <<tables, cache, queue, answer, faults,
                   reader, deleting, deleted, moved, crashes>>

\* recordLegacyTaskPoll: the mapping, read again, is written back ...
Record(p) ==
    /\ actor[p].pc = "record"
    /\ LET m == Lookup(actor[p].id)
           i == actor[p].id
           reg == [engine |-> "legacy", channel |-> m.channel, alias |-> m.alias,
                   origin |-> m.origin,
                   ids |-> IF m.alias # i /\ ~Elsewhere(m.alias, m.channel)
                           THEN <<i, m.alias>> ELSE <<i>>]
       IN Set(p, IF m = None \/ HasProfileTaskRun(reg)
                 THEN [Idle EXCEPT !.pc = "over"]
                 ELSE [actor[p] EXCEPT !.pc = "compare", !.reg = reg, !.left = 1])
    /\ UNCHANGED <<tables, cache, queue, answer, faults, world>>

\* ... for each of its IDs that is not another channel's.
Compared(p) ==
    LET last == actor[p].left = Len(actor[p].reg.ids)
    IN [actor[p] EXCEPT !.left = IF last THEN 1 ELSE @ + 1, !.again = last,
                        !.pc = IF last THEN "run" ELSE "compare"]
Compare(p) ==
    /\ actor[p].pc = "compare"
    /\ Set(p, IF Elsewhere(actor[p].reg.ids[actor[p].left], actor[p].reg.channel)
              THEN Compared(p) ELSE [actor[p] EXCEPT !.pc = "save"])
    /\ UNCHANGED <<tables, cache, queue, answer, faults, world>>

\* RecordTaskMappingContext, of a changed alias or of an ID compared: the row,
\* whose failure is logged or ignored, and then the cache.
Saved(p) ==
    IF actor[p].pc \in {"rename", "renamed"}
    THEN [Idle EXCEPT !.pc = "record", !.id = actor[p].id] ELSE Compared(p)
Save(p) ==
    /\ actor[p].pc \in {"save", "rename"}
    /\ \/ /\ mapping' = [mapping EXCEPT ![actor[p].reg.ids[actor[p].left]] =
                            MappingOf(actor[p].reg)]
          /\ Set(p, [actor[p] EXCEPT !.pc = IF @ = "save" THEN "saved" ELSE "renamed"])
          /\ UNCHANGED faults
       \/ /\ Fault
          /\ Set(p, Saved(p))
          /\ UNCHANGED mapping
    /\ Moves
    /\ UNCHANGED <<runs, aliases, cache, queue, answer,
                   given, reader, deleting, deleted, crashes>>
Refresh(p) ==
    /\ actor[p].pc \in {"saved", "renamed"}
    /\ cache' = [cache EXCEPT ![actor[p].reg.ids[actor[p].left]] = MappingOf(actor[p].reg)]
    /\ Set(p, Saved(p))
    /\ UNCHANGED <<tables, queue, answer, faults, world>>

-----------------------------------------------------------------------------
(* The cache, channels and the process.                                    *)

\* A lookup that misses: it reads the row, and publishes it after.
Load(i) ==
    /\ reader = None /\ cache[i] = None /\ mapping[i] # None
    /\ reader' = [id |-> i, mapping |-> mapping[i]]
    /\ UNCHANGED <<tables, cache, queue, actor, answer, faults,
                   given, deleting, deleted, moved, crashes>>
Loaded ==
    /\ reader # None
    /\ cache' = [cache EXCEPT ![reader.id] = reader.mapping]
    /\ reader' = None
    /\ UNCHANGED <<tables, queue, actor, answer, faults, given, deleting, deleted, moved, crashes>>

\* purge, and publish at capacity: an entry may go at any time.
Evict(i) ==
    /\ cache[i] # None
    /\ cache' = [cache EXCEPT ![i] = None]
    /\ UNCHANGED <<tables, queue, actor, answer, faults, world>>

\* DeleteChannelContext: the transaction, and then the cache.
DeleteChannel(c) ==
    /\ deleting = None /\ c \notin deleted
    /\ Cardinality(deleted) < MaxDeletes
    /\ deleting' = c /\ deleted' = deleted \cup {c}
    /\ mapping' = [i \in Ids |->
                     IF mapping[i] # None /\ mapping[i].channel = c THEN None ELSE mapping[i]]
    /\ UNCHANGED <<runs, aliases, cache, queue, actor, answer, faults,
                   given, reader, moved, crashes>>
InvalidateChannel ==
    /\ deleting # None
    /\ deleting' = None
    /\ cache' = [i \in Ids |->
                   IF cache[i] # None /\ cache[i].channel = deleting THEN None ELSE cache[i]]
    /\ UNCHANGED <<tables, queue, actor, answer, faults, given, reader, deleted, moved, crashes>>

\* The process dies and starts again: tables and journal remain.
Crash ==
    /\ crashes < MaxCrashes
    /\ crashes' = crashes + 1
    /\ torn' \in {torn, \E a \in Actors : actor[a].pc \in {"enqueue", "ack", "next"} \/ torn}
    /\ cache' = [i \in Ids |-> None]
    /\ loaded' = FALSE /\ pending' = {} /\ durable' = {} /\ swallowed' = {}
    /\ actor' = [a \in Actors |-> Idle]
    /\ answer' = [r \in Creates |->
                    IF actor[r].pc # "idle" /\ answer[r] = "none" THEN "lost" ELSE answer[r]]
    /\ reader' = None /\ deleting' = None
    /\ UNCHANGED <<tables, journal, given, deleted, moved, faults>>

RoutineStep(a) ==
    \/ Choose(a) \/ Freeze(a) \/ Look(a) \/ RecordTaskAlias(a) \/ EnsureTaskMappings(a)
    \/ Publish(a) \/ Enqueue(a) \/ Announce(a) \/ Over(a)
CreateStep(r) == Disambiguate(r) \/ Project(r) \/ Attach(r)
PollStep(p) == Record(p) \/ Compare(p) \/ Save(p) \/ Refresh(p)
WorkerStep == Reconcile \/ RecoverNext \/ Acknowledge

Next ==
    \/ \E a \in Actors : RoutineStep(a) \/ Interrupted(a)
    \/ \E r \in Creates : Accept(r) \/ CreateStep(r)
    \/ \E p \in Polls : PollStep(p)
    \/ \E p \in Polls, i, j \in Ids : Poll(p, i, j)
    \/ WorkerStep
    \/ \E i \in Ids : Load(i) \/ Evict(i)
    \/ Loaded
    \/ \E c \in Channels : DeleteChannel(c)
    \/ InvalidateChannel
    \/ Crash

Spec == Init /\ [][Next]_vars

\* The worker's ticker runs for as long as the process does, and a routine
\* that was begun is finished.
Fairness ==
    /\ WF_vars(WorkerStep \/ RoutineStep(Worker))
    /\ \A r \in Creates : WF_vars(RoutineStep(r) \/ CreateStep(r))
    /\ \A p \in Polls : WF_vars(RoutineStep(p) \/ PollStep(p))
    /\ WF_vars(InvalidateChannel)
FairSpec == Spec /\ Fairness

-----------------------------------------------------------------------------
(* Properties.                                                             *)

TypeOK ==
    /\ mapping \in [Ids -> Mapping \cup {None}]
    /\ cache \in [Ids -> Mapping \cup {None}]
    /\ runs \subseteq Run
    /\ \A i \in Ids : aliases[i] \in runs \cup {None}
    /\ journal \subseteq Registration /\ pending \subseteq Registration
    /\ torn \in BOOLEAN /\ loaded \in BOOLEAN
    /\ durable \cup swallowed \subseteq pending
    /\ \A a \in Actors : actor[a].reg \in Registration \cup {NoRegistration}
    /\ answer \in [Creates -> {"none", "stored", "pending", "conflict", "failed", "lost"}]
    /\ faults \in 0 .. MaxFaults /\ crashes \in 0 .. MaxCrashes

\* Two channels have the ID.
Collision(i) == \E c, d \in Channels : c # d /\ {<<c, i>>, <<d, i>>} \subseteq given

\* "Only publish it after the recovery record is fsync'd, so a process crash
\* cannot leave an authorization-only phantom mapping behind": what the cache
\* says of an ID is in the table or would be found in the journal, and what the
\* queue takes for durable a load would find or has been stored.  Excused are a
\* channel deleted under an ID, an ID a status query moved, and, as long as the
\* process lives, an entry whose line a torn one took in.
Stands(i, c) == (mapping[i] # None /\ mapping[i].channel = c) \/ c \in deleted \/ i \in moved
Explained(i, c) ==
    \/ Stands(i, c)
    \/ \E reg \in journal \cup swallowed : i \in ToSet(reg.ids) /\ reg.channel = c
PublishedIsRecoverable ==
    /\ \A i \in Ids : cache[i] # None => Explained(i, cache[i].channel)
    /\ \A reg \in durable \ (journal \cup swallowed), i \in Ids :
          i \in ToSet(reg.ids) => Stands(i, reg.channel)

\* A registration leaves the journal, by an acknowledgement or because the file
\* is emptied, only when its IDs are stored for its channel, unless the channel
\* was deleted or a status query moved the ID.
RecoveredBeforeForgotten ==
    [][\A reg \in journal \ journal', i \in Ids :
          i \in ToSet(reg.ids) => Stands(i, reg.channel)]_vars

\* A stored mapping keeps its channel, whichever creation, replay or cached row
\* would write it; a status query changes it at most for an ID of two channels.
PinKept ==
    [][\A i \in Ids :
          mapping[i] # None /\ mapping'[i] # None =>
             \/ mapping'[i].channel = mapping[i].channel
             \/ i \in moved' /\ Collision(i)]_vars

\* The worker goes on until every registration is recovered, but for those whose
\* IDs belong to another channel or run, or move between channels with status
\* queries.
Blocked(reg) ==
    \E i \in ToSet(reg.ids) :
        \/ i \in moved
        \/ mapping[i] # None /\ mapping[i].channel # reg.channel
        \/ aliases[i] # None /\ aliases[i] # RunFor(reg)
RecoveryEnds == <>[](loaded /\ \A reg \in pending : Blocked(reg))

\* "Never place a conflicting mapping in the cache where it could override the
\* durable channel pin" (deferAsyncTaskMappingPersistence).
PinNotOverridden ==
    [][\A i \in Ids :
          cache'[i] \notin {None, cache[i]} /\ mapping[i] # None =>
             cache'[i].channel = mapping[i].channel \/ cache'[i].channel \in deleted]_vars
=============================================================================
