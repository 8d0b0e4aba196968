------------------------------- MODULE Catalog -------------------------------
(***************************************************************************)
(* The profile catalog and the channel bindings: db/profile.go and         *)
(* db/profile_snapshot.go below the console's handlers                     *)
(* (router/profile_routes.go, profile_binding_routes.go,                   *)
(* profile_binding_defaults.go), and the submissions that capture a        *)
(* revision (router/profile_execution.go).                                 *)
(*                                                                         *)
(* One profile, custom or built in, and one channel.  A content stands for *)
(* the canonical JSON of a revision and for its digest; what the           *)
(* properties see of it is the operations it offers.  A statement, or a    *)
(* transaction, is one action; the handlers that read, check and write in  *)
(* separate statements are editors, with a step for each.                  *)
(***************************************************************************)
EXTENDS Integers, FiniteSetsExt, Functions

CONSTANTS MaxRevision,  \* bound: revision numbers
          Contents, Offers,  \* Offers[c]: the operations of content c
          Preset,       \* the content of the preset a built-in profile starts with
          Patterns,     \* model patterns; "*" is the global one
          Precedences,  \* of explicit bindings
          MaxBindings,  \* bound: binding rows at one time
          Editors,      \* console requests in several statements
          Tasks,        \* submissions
          None

CatalogAssumption ==
    /\ MaxRevision \in Nat \ {0} /\ MaxBindings \in Nat
    /\ Preset \in Contents
    /\ Precedences \subseteq Int
    /\ None \notin Contents

Revisions == 1 .. MaxRevision
Ids == 1 .. MaxBindings
Operations == UNION {Offers[c] : c \in Contents}
Default == -100

VARIABLES
    source,    \* of the profile
    alone,     \* the console is used by one administrator
    there,     \* the profile's row
    latest,    \* its latest_revision
    revision,  \* protocol_profile_revisions, by number
    binding,   \* channel_protocol_bindings, by ID
    archive,   \* protocol_profile_snapshots, by digest
    task,      \* submissions and their async_task_runs rows
    edit       \* the editors

given == <<source, alone>>
vars == <<given, there, latest, revision, binding, archive, task, edit>>
catalog == <<there, latest, revision, archive>>

NoRevision == [state |-> "none", content |-> None]
Revision == {NoRevision} \cup
            [state : {"draft", "published", "retired"}, content : Contents]
NoBinding == [op |-> None, pattern |-> "", precedence |-> 0, revision |-> 0, enabled |-> FALSE]
Binding == [op : Operations, pattern : Patterns \cup {"*"},
            precedence : Precedences \cup {Default, 0}, revision : Revisions, enabled : BOOLEAN]
\* attached and digest are the row's; content is what the submission ran
\* with, and orphan says that the revision was gone when the row was written.
Task == [pc : {"idle", "bound", "loaded", "running", "done"}, op : Operations \cup {None},
         attached : 0 .. MaxRevision, digest : Contents \cup {None},
         content : Contents \cup {None}, orphan : BOOLEAN]
NoTask == [pc |-> "idle", op |-> None, attached |-> 0, digest |-> None,
           content |-> None, orphan |-> FALSE]
\* row: what the editor is going to write; todo: the operations of a reconciliation.
Edit == [pc : {"idle", "draft", "validate", "peers", "write", "bind", "toggle", "reconcile"},
         number : 0 .. MaxRevision, content : Contents \cup {None}, id : 0 .. MaxBindings,
         row : Binding \cup {NoBinding}, todo : SUBSET Operations]
NoEdit == [pc |-> "idle", number |-> 0, content |-> None, id |-> 0,
           row |-> NoBinding, todo |-> {}]

Exists(n) == revision[n] # NoRevision
Published(n) == revision[n].state = "published"
Immutable(n) == revision[n].state \in {"published", "retired"}
Highest(rows) == Max({n \in Revisions : rows[n] # NoRevision} \cup {0})
Free(e) == edit[e].pc = "idle"
\* The console's own requests, when one administrator sends them one by one.
Turn == alone => \A e \in Editors : Free(e)

\* A custom profile is created later, or there is one with a finished task
\* from before profile_digest.
Older(o) == [NoTask EXCEPT !.pc = "done", !.attached = 1, !.content = Preset, !.op = o]
Init ==
    /\ source \in {"custom", "builtin"} /\ alone \in BOOLEAN
    /\ \/ there = FALSE /\ latest = 0 /\ revision = [n \in Revisions |-> NoRevision]
          /\ task = [t \in Tasks |-> NoTask]
       \/ /\ source = "custom" /\ there = TRUE /\ latest = 1
          /\ revision = [n \in Revisions |->
                 IF n = 1 THEN [state |-> "published", content |-> Preset] ELSE NoRevision]
          /\ \E t \in Tasks, o \in Offers[Preset] :
                 task = [u \in Tasks |-> IF u = t THEN Older(o) ELSE NoTask]
    /\ binding = [i \in Ids |-> NoBinding]
    /\ archive = {}
    /\ edit = [e \in Editors |-> NoEdit]

-----------------------------------------------------------------------------
(* Profiles and revisions.                                                 *)

\* CreateProtocolProfileWithInitialRevisionContext: one transaction.
CreateProfile(n, c) ==
    /\ Turn /\ source = "custom" /\ ~there
    /\ there' = TRUE
    /\ latest' = n
    /\ revision' = [revision EXCEPT ![n] = [state |-> "draft", content |-> c]]
    /\ UNCHANGED <<binding, archive, task, edit>>

\* ensureBuiltinProfile at start: created and published in one transaction, or
\* left as it is.
EnsureBuiltin ==
    /\ source = "builtin" /\ ~there
    /\ there' = TRUE
    /\ latest' = 1
    /\ revision' = [revision EXCEPT ![1] = [state |-> "published", content |-> Preset]]
    /\ UNCHANGED <<binding, archive, task, edit>>

\* Seeded bug: the number is taken from the row without a look at the revisions.
CreateRevisionOver(asked, c) ==
    /\ Turn /\ there
    /\ LET n == IF asked = 0 THEN latest + 1 ELSE asked
       IN /\ n \in Revisions
          /\ latest' = Max({latest, n})
          /\ revision' = [revision EXCEPT ![n] = [state |-> "draft", content |-> c]]
    /\ UNCHANGED <<there, binding, archive, task, edit>>

\* CreateProtocolProfileRevisionContext: the next number, or the one asked for
\* unless it is taken.
CreateRevision(asked, c) ==
    /\ Turn /\ there
    /\ LET n == IF asked = 0 THEN Max({latest, Highest(revision)}) + 1 ELSE asked
       IN /\ n \in Revisions
          /\ ~Exists(n)
          /\ latest' = Max({latest, n})
          /\ revision' = [revision EXCEPT ![n] = [state |-> "draft", content |-> c]]
    /\ UNCHANGED <<there, binding, archive, task, edit>>

\* handleUpdateProtocolProfileRevision reads a draft ...
ReadDraft(e, n, c) ==
    /\ Turn /\ Free(e)
    /\ revision[n].state = "draft"
    /\ edit' = [edit EXCEPT ![e] = [NoEdit EXCEPT !.pc = "draft", !.number = n, !.content = c]]
    /\ UNCHANGED <<catalog, binding, task>>

Leave(e) == edit' = [edit EXCEPT ![e] = NoEdit]

\* Seeded bug: what was read as a draft is written without another look.
SaveDraftUnchecked(e) ==
    /\ edit[e].pc = "draft"
    /\ LET n == edit[e].number
       IN IF there
          THEN /\ revision' = [revision EXCEPT ![n] = [state |-> "draft", content |-> edit[e].content]]
               /\ latest' = Max({latest, n})
          ELSE UNCHANGED <<revision, latest>>
    /\ Leave(e)
    /\ UNCHANGED <<there, archive, binding, task>>

\* ... and SaveProtocolProfileRevisionContext writes it: into a draft, or as a
\* new one when it was deleted meanwhile; never into what has been published.
SaveDraft(e) ==
    /\ edit[e].pc = "draft"
    /\ LET n == edit[e].number
       IN IF there /\ ~Immutable(n)
          THEN /\ revision' = [revision EXCEPT ![n] = [state |-> "draft", content |-> edit[e].content]]
               /\ latest' = Max({latest, n})
          ELSE UNCHANGED <<revision, latest>>
    /\ Leave(e)
    /\ UNCHANGED <<there, archive, binding, task>>

\* PublishProtocolProfileRevisionContext; a retired one may come back.
Publish(n) ==
    /\ Turn
    /\ revision[n].state \in {"draft", "retired"}
    /\ revision' = [revision EXCEPT ![n].state = "published"]
    /\ latest' = IF n >= latest \/ latest <= 0 THEN n ELSE latest
    /\ UNCHANGED <<there, archive, binding, task, edit>>

Bound(n) == \E i \in Ids : binding[i] # NoBinding /\ binding[i].revision = n

\* Seeded bug: enabled bindings are not counted.
RetireBound(n) ==
    /\ Turn
    /\ Published(n)
    /\ revision' = [revision EXCEPT ![n].state = "retired"]
    /\ UNCHANGED <<there, latest, archive, binding, task, edit>>

\* RetireProtocolProfileRevisionContext.
Retire(n) ==
    /\ Turn
    /\ Published(n)
    /\ \A i \in Ids : binding[i].enabled => binding[i].revision # n
    /\ revision' = [revision EXCEPT ![n].state = "retired"]
    /\ UNCHANGED <<there, latest, archive, binding, task, edit>>

\* Rows of async_task_runs that refer to the revision.
Users(n) == {t \in Tasks : task[t].pc \in {"running", "done"} /\ task[t].attached = n}
Terminal(t) == task[t].pc = "done"

\* archiveProfileTaskRevisions fails on a user whose revision is missing,
\* not immutable or of another content ...
Archivable(ns) ==
    \A n \in ns : Users(n) # {} =>
        /\ Immutable(n)
        /\ \A t \in Users(n) : task[t].digest \in {None, revision[n].content}

\* Seeded bug: the archive is not filled.
ArchivedNothing(ns) == archive

\* ... archives the content of those that have users ...
Archived(ns) == archive \cup {revision[n].content : n \in {m \in ns : Users(m) # {}}}

\* Seeded bug: the digest of older tasks stays blank.
DetachedBlank(ns) ==
    [t \in Tasks |-> IF \E n \in ns : t \in Users(n)
                     THEN [task[t] EXCEPT !.attached = 0] ELSE task[t]]

\* ... and fills their digests before they are detached.
Detached(ns) ==
    [t \in Tasks |->
        IF \E n \in ns : t \in Users(n)
        THEN [task[t] EXCEPT !.digest = revision[task[t].attached].content, !.attached = 0]
        ELSE task[t]]

\* Seeded bug: latest_revision keeps the number that is gone.
DeleteRevisionStale(n) ==
    /\ Turn
    /\ there /\ Exists(n) /\ source # "builtin"
    /\ ~Bound(n)
    /\ \A t \in Users(n) : Terminal(t)
    /\ Archivable({n})
    /\ archive' = Archived({n})
    /\ task' = Detached({n})
    /\ revision' = [revision EXCEPT ![n] = NoRevision]
    /\ UNCHANGED <<there, latest, binding, edit>>

\* DeleteProtocolProfileRevisionContext: one transaction.
DeleteRevision(n) ==
    /\ Turn
    /\ there /\ Exists(n) /\ source # "builtin"
    /\ ~Bound(n)
    /\ \A t \in Users(n) : Terminal(t)
    /\ Archivable({n})
    /\ archive' = Archived({n})
    /\ task' = Detached({n})
    /\ LET left == [revision EXCEPT ![n] = NoRevision]
       IN revision' = left /\ latest' = Highest(left)
    /\ UNCHANGED <<there, binding, edit>>

\* DeleteProtocolProfileContext: one transaction.
DeleteProfile ==
    /\ Turn
    /\ there /\ source # "builtin"
    /\ \A i \in Ids : binding[i] = NoBinding
    /\ \A n \in Revisions, t \in Tasks : t \in Users(n) => Terminal(t)
    /\ Archivable(Revisions)
    /\ archive' = Archived(Revisions)
    /\ task' = Detached(Revisions)
    /\ there' = FALSE /\ latest' = 0
    /\ revision' = [n \in Revisions |-> NoRevision]
    /\ UNCHANGED <<binding, edit>>

-----------------------------------------------------------------------------
(* Bindings.                                                               *)

Overlap(p, q) == p = q \/ p = "*" \/ q = "*"

\* SaveChannelProtocolBindingContext looks for peers among the rows ...
Peers(rows, id, row) ==
    {i \in Ids \ {id} : /\ rows[i] # NoBinding
                        /\ rows[i].op = row.op /\ rows[i].precedence = row.precedence
                        /\ Overlap(rows[i].pattern, row.pattern)}
\* ... and writes: id 0 is a new row.  Save on an ID that was deleted inserts it
\* again.  An ID is not used twice, so one an editor remembers is not free.
FreeIds(rows) == {i \in Ids : rows[i] = NoBinding /\ \A e \in Editors : edit[e].id # i}
Written(rows, id, row) == [rows EXCEPT ![id] = row]

\* handleUpdateChannelProtocolBinding reads the row; creation starts without.
StartBinding(e, id) ==
    /\ Turn /\ Free(e)
    /\ id # 0 => binding[id] # NoBinding
    /\ edit' = [edit EXCEPT ![e] = [NoEdit EXCEPT !.pc = "validate", !.id = id]]
    /\ UNCHANGED <<catalog, binding, task>>

\* Seeded bug: any revision of the profile can be bound.
ValidateAny(e, row) ==
    /\ edit[e].pc = "validate"
    /\ IF there /\ Exists(row.revision) /\ row.op \in Offers[revision[row.revision].content]
       THEN edit' = [edit EXCEPT ![e].pc = "peers", ![e].row = row]
       ELSE Leave(e)
    /\ UNCHANGED <<catalog, binding, task>>

\* validateBindingRequest; enabled is the request's, or that of the row it read.
Validate(e, row) ==
    /\ edit[e].pc = "validate"
    /\ IF there /\ Published(row.revision) /\ row.op \in Offers[revision[row.revision].content]
       THEN edit' = [edit EXCEPT ![e].pc = "peers", ![e].row = row]
       ELSE Leave(e)
    /\ UNCHANGED <<catalog, binding, task>>

\* Seeded bug: a row that exists is not compared with the others.
CheckNewPeers(e) ==
    /\ edit[e].pc = "peers"
    /\ IF edit[e].id # 0 \/ Peers(binding, edit[e].id, edit[e].row) = {}
       THEN edit' = [edit EXCEPT ![e].pc = "write"]
       ELSE Leave(e)
    /\ UNCHANGED <<catalog, binding, task>>

CheckPeers(e) ==
    /\ edit[e].pc = "peers"
    /\ IF Peers(binding, edit[e].id, edit[e].row) = {}
       THEN edit' = [edit EXCEPT ![e].pc = "write"]
       ELSE Leave(e)
    /\ UNCHANGED <<catalog, binding, task>>

\* The write; a reconciliation goes on with its next operation.
WriteBinding(e) ==
    /\ edit[e].pc = "write"
    /\ \E id \in IF edit[e].id # 0 THEN {edit[e].id} ELSE FreeIds(binding) :
           binding' = Written(binding, id, edit[e].row)
    /\ IF edit[e].todo = {} THEN Leave(e)
       ELSE edit' = [edit EXCEPT ![e].pc = "reconcile", ![e].id = 0, ![e].row = NoBinding]
    /\ UNCHANGED <<catalog, task>>

DeleteBinding(id) ==
    /\ Turn
    /\ binding[id] # NoBinding
    /\ binding' = [binding EXCEPT ![id] = NoBinding]
    /\ UNCHANGED <<catalog, task, edit>>

\* handleToggleChannelProtocolBinding reads the row ...
ReadToggle(e, id) ==
    /\ Turn /\ Free(e)
    /\ binding[id] # NoBinding
    /\ edit' = [edit EXCEPT ![e] = [NoEdit EXCEPT !.pc = "toggle", !.id = id,
                    !.row = [binding[id] EXCEPT !.enabled = ~@]]]
    /\ UNCHANGED <<catalog, binding, task>>

\* Seeded bug: the revision is not looked at again.
SetEnabledUnchecked(e) ==
    /\ edit[e].pc = "toggle"
    /\ LET id == edit[e].id
       IN binding' = IF binding[id] = NoBinding THEN binding
                     ELSE [binding EXCEPT ![id].enabled = edit[e].row.enabled]
    /\ Leave(e)
    /\ UNCHANGED <<catalog, task>>

\* ... and SetChannelProtocolBindingEnabledContext writes the other value, TRUE
\* only while the revision of the row is published.
SetEnabled(e) ==
    /\ edit[e].pc = "toggle"
    /\ LET id == edit[e].id
           enabled == edit[e].row.enabled
       IN binding' = IF binding[id] # NoBinding /\ (enabled => Published(binding[id].revision))
                     THEN [binding EXCEPT ![id].enabled = enabled] ELSE binding
    /\ Leave(e)
    /\ UNCHANGED <<catalog, task>>

\* handleBindChannelProfile reads a published revision, the latest when asked
\* for none (0) ...
ReadRevision(e, asked) ==
    /\ Turn /\ Free(e)
    /\ there
    /\ LET from == {n \in Revisions : Published(n) /\ asked \in {0, n}}
       IN /\ from # {}
          /\ edit' = [edit EXCEPT ![e] = [NoEdit EXCEPT !.pc = "bind", !.number = Max(from),
                                              !.content = revision[Max(from)].content]]
    /\ UNCHANGED <<catalog, binding, task>>

Slot(rows, op, precedence) ==
    {i \in Ids : /\ rows[i] # NoBinding /\ rows[i].op = op
                 /\ rows[i].pattern = "*" /\ rows[i].precedence = precedence}
Wildcard(op, precedence, n) ==
    [op |-> op, pattern |-> "*", precedence |-> precedence, revision |-> n, enabled |-> TRUE]

\* Each operation has its row at that place, or gets a new one.
Places(rows, ops, precedence) ==
    {place \in [ops -> Ids] :
        /\ IsInjective(place)
        /\ \A op \in ops : LET own == Slot(rows, op, precedence)
                           IN  place[op] \in IF own # {} THEN {Min(own)} ELSE FreeIds(rows)}
Placed(rows, place, precedence, n) ==
    [i \in Ids |-> IF i \in Range(place)
                   THEN Wildcard(CHOOSE op \in DOMAIN place : place[op] = i, precedence, n)
                   ELSE rows[i]]
Conflicts(rows, ops, precedence) ==
    \E op \in ops : LET own == Slot(rows, op, precedence)
                    IN Peers(rows, IF own # {} THEN Min(own) ELSE 0, Wildcard(op, precedence, 0)) # {}

\* ... and binds all its operations in one transaction, which a conflict undoes.
Bind(e) ==
    /\ edit[e].pc = "bind"
    /\ LET ops == Offers[edit[e].content]
           kept == [i \in Ids |-> IF /\ binding[i].pattern = "*" /\ binding[i].precedence = 0
                                     /\ binding[i].op \notin ops
                                  THEN NoBinding ELSE binding[i]]
       IN \E place \in Places(kept, ops, 0) :
             binding' = IF Conflicts(kept, ops, 0) THEN binding
                        ELSE Placed(kept, place, 0, edit[e].number)
    /\ Leave(e)
    /\ UNCHANGED <<catalog, task>>

\* handleBindChannelProfile without a profile.
Unbind ==
    /\ Turn
    /\ \E i \in Ids : binding[i] # NoBinding /\ binding[i].pattern = "*" /\ binding[i].precedence = 0
    /\ binding' = [i \in Ids |-> IF binding[i].pattern = "*" /\ binding[i].precedence = 0
                                 THEN NoBinding ELSE binding[i]]
    /\ UNCHANGED <<catalog, task, edit>>

\* ensureDefaultProfileBindings, in the transaction of a channel that is created
\* or gets the built-in's type; slots that are taken are kept.
EnsureDefaults ==
    /\ Turn /\ source = "builtin"
    /\ there /\ latest > 0 /\ Published(latest)
    /\ LET ops == {op \in Offers[Preset] : Slot(binding, op, Default) = {}}
       IN /\ ops # {} /\ ~Conflicts(binding, ops, Default)
          /\ \E place \in Places(binding, ops, Default) :
                binding' = Placed(binding, place, Default, latest)
    /\ UNCHANGED <<catalog, task, edit>>

\* removeDefaultProfileBindingsForType, when the channel gets another type.
RemoveDefaults ==
    /\ Turn /\ source = "builtin" /\ there
    /\ \E op \in Operations : Slot(binding, op, Default) # {}
    /\ binding' = [i \in Ids |-> IF binding[i].pattern = "*" /\ binding[i].precedence = Default
                                 THEN NoBinding ELSE binding[i]]
    /\ UNCHANGED <<catalog, task, edit>>

\* ReconcileChannelProfileBindings reads the latest revision, published or not
\* at all ...
ReadLatest(e) ==
    /\ Turn /\ Free(e) /\ source = "builtin"
    /\ there /\ latest > 0 /\ Published(latest)
    /\ edit' = [edit EXCEPT ![e] = [NoEdit EXCEPT !.pc = "reconcile", !.number = latest,
                                                  !.todo = Offers[Preset]]]
    /\ UNCHANGED <<catalog, binding, task>>

\* ... and compares operation by operation.
Reconcile(e) ==
    /\ edit[e].pc = "reconcile"
    /\ \E op \in edit[e].todo :
           LET own == Slot(binding, op, Default)
               row == Wildcard(op, Default, edit[e].number)
               left == edit[e].todo \ {op}
           IN IF own # {} /\ binding[Min(own)] = row
              THEN IF left = {} THEN Leave(e) ELSE edit' = [edit EXCEPT ![e].todo = left]
              ELSE edit' = [edit EXCEPT ![e].pc = "peers", ![e].todo = left, ![e].row = row,
                                        ![e].id = IF own # {} THEN Min(own) ELSE 0]
    /\ UNCHANGED <<catalog, binding, task>>

-----------------------------------------------------------------------------
(* Submissions and their tasks.                                            *)

\* FindChannelProtocolBindingContext: precedence DESC, id ASC.
Matching(op, model) ==
    {i \in Ids : binding[i].enabled /\ binding[i].op = op /\ Overlap(binding[i].pattern, model)}
Before(i, j) == \/ binding[i].precedence > binding[j].precedence
                \/ binding[i].precedence = binding[j].precedence /\ i <= j
Find(t, op, model) ==
    /\ task[t].pc = "idle"
    /\ \E i \in Matching(op, model) :
           /\ \A j \in Matching(op, model) : Before(i, j)
           /\ task' = [task EXCEPT ![t].pc = "bound", ![t].op = op, ![t].attached = binding[i].revision]
    /\ UNCHANGED <<catalog, binding, edit>>

\* loadPublishedProfileOperation.
Load(t) ==
    /\ task[t].pc = "bound"
    /\ LET n == task[t].attached
           content == revision[n].content
       IN IF Published(n) /\ task[t].op \in Offers[content]
          THEN task' = [task EXCEPT ![t].pc = "loaded", ![t].digest = content, ![t].content = content]
          ELSE task' = [task EXCEPT ![t] = NoTask]
    /\ UNCHANGED <<catalog, binding, edit>>

\* The row is written: by reserveProfileTaskRun, or, without an Idempotency-Key,
\* by the projection when the provider has answered.
Store(t) ==
    /\ task[t].pc = "loaded"
    /\ task' = [task EXCEPT ![t].pc = "running",
                            ![t].orphan = ~(/\ Immutable(task[t].attached)
                                            /\ revision[task[t].attached].content = task[t].content)]
    /\ UNCHANGED <<catalog, binding, edit>>

\* The task reaches a terminal status.
Finish(t) ==
    /\ task[t].pc = "running"
    /\ task' = [task EXCEPT ![t].pc = "done"]
    /\ UNCHANGED <<catalog, binding, edit>>

-----------------------------------------------------------------------------
EditStep(e) ==
    \/ \E n \in Revisions, c \in Contents : ReadDraft(e, n, c)
    \/ SaveDraft(e)
    \/ \E id \in Ids \cup {0} : StartBinding(e, id)
    \/ \E op \in Operations, p \in Patterns, q \in Precedences, n \in Revisions,
          enabled \in BOOLEAN :
           Validate(e, [op |-> op, pattern |-> p, precedence |-> q, revision |-> n, enabled |-> enabled])
    \/ CheckPeers(e)
    \/ WriteBinding(e)
    \/ \E id \in Ids : ReadToggle(e, id)
    \/ SetEnabled(e)
    \/ \E n \in Revisions \cup {0} : ReadRevision(e, n)
    \/ Bind(e)
    \/ ReadLatest(e)
    \/ Reconcile(e)

TaskStep(t) ==
    \/ \E op \in Operations, m \in Patterns \ {"*"} : Find(t, op, m)
    \/ Load(t)
    \/ Store(t)
    \/ Finish(t)

Next ==
    /\ UNCHANGED given
    /\ \/ \E n \in Revisions, c \in Contents : CreateProfile(n, c)
       \/ EnsureBuiltin
       \/ \E n \in Revisions \cup {0}, c \in Contents : CreateRevision(n, c)
       \/ \E n \in Revisions : Publish(n) \/ Retire(n) \/ DeleteRevision(n)
       \/ DeleteProfile
       \/ \E id \in Ids : DeleteBinding(id)
       \/ Unbind
       \/ EnsureDefaults
       \/ RemoveDefaults
       \/ \E e \in Editors : EditStep(e)
       \/ \E t \in Tasks : TaskStep(t)

Spec == Init /\ [][Next]_vars

-----------------------------------------------------------------------------
TypeOK ==
    /\ source \in {"custom", "builtin"} /\ alone \in BOOLEAN
    /\ there \in BOOLEAN /\ latest \in 0 .. MaxRevision
    /\ revision \in [Revisions -> Revision]
    /\ binding \in [Ids -> Binding \cup {NoBinding}]
    /\ archive \subseteq Contents
    /\ task \in [Tasks -> Task]
    /\ edit \in [Editors -> Edit]

\* getTaskProfileSnapshot: the content a stored task gets, None if it fails.
Loaded(t) ==
    LET n == task[t].attached
        digest == task[t].digest
    IN IF n > 0 /\ revision[n] # NoRevision
       THEN IF Immutable(n) /\ digest \in {None, revision[n].content}
            THEN revision[n].content ELSE None
       ELSE IF digest \in archive THEN digest ELSE None

\* A task whose row was written while its revision stood can always be polled
\* with the content it was submitted with: whatever is retired, deleted,
\* created again under the same number or edited afterwards.
TasksKeepTheirProfile ==
    \A t \in Tasks : task[t].pc \in {"running", "done"} /\ ~task[t].orphan =>
                         Loaded(t) = task[t].content

\* What latest_revision names is the highest revision there is: the defaults of
\* a channel are bound to it, and the next number is made from it.
LatestIsHighest == /\ latest = Highest(revision)
                   /\ ~there => latest = 0

\* A revision that was published is never edited, also by an editor that read
\* it as a draft; it can only disappear.
PublishedIsFrozen ==
    [][\A n \in Revisions : Immutable(n) =>
           \/ revision'[n] = NoRevision
           \/ revision'[n].content = revision[n].content
              /\ revision'[n].state \in {"published", "retired"}]_vars

\* One administrator leaves no binding behind that a request would trip over:
\* every binding has its revision, an enabled one a published one that offers
\* the operation, and no two of a precedence select the same model.  Two
\* administrators can break each part.
BindingsStand ==
    alone => \A i \in Ids : binding[i] # NoBinding =>
        LET b == binding[i]
        IN /\ Immutable(b.revision)
           /\ b.enabled => Published(b.revision)
           /\ source = "custom" => b.op \in Offers[revision[b.revision].content]
           /\ Peers(binding, i, b) = {}
=============================================================================
