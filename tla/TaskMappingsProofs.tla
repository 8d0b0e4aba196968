-------------------------- MODULE TaskMappingsProofs --------------------------
(* Proofs about TaskMappings, for any number of creations, status queries,   *)
(* channels, IDs, failures, crashes and deletions.                           *)
EXTENDS TaskMappings, WellFoundedInduction, TLAPS

-----------------------------------------------------------------------------
(* The inductive invariants. *)

PCs == {"idle", "names", "run", "freeze", "look", "alias", "ensure", "publish", "enqueue",
        "announce", "ack", "next", "project", "attach", "over", "record", "compare", "save",
        "saved", "rename", "renamed"}
Routine ==
    [pc : PCs, reg : Registration \cup {NoRegistration}, run : Run \cup {None}, left : Nat,
     again : BOOLEAN, fresh : SUBSET Ids, id : Ids \cup {None},
     batch : SUBSET Registration, known : SUBSET Registration]

\* What a routine of actor `a` holds where it needs it: a registration, a place
\* in its IDs, a run of `stored`, the IDs it wrote, the ID that was asked for.
Proper(stored, a, rec) ==
    /\ rec.pc \notin {"idle", "next", "over", "record"} => rec.reg \in Registration
    /\ rec.pc \in {"look", "alias", "attach", "compare", "save", "saved", "rename", "renamed"} =>
          rec.left \in DOMAIN rec.reg.ids
    /\ rec.pc = "freeze" => rec.run \in Run
    /\ rec.pc \in {"look", "alias", "attach"} => rec.run \in stored
    /\ rec.pc = "publish" => rec.fresh \subseteq ToSet(rec.reg.ids)
    /\ a \in Polls /\ rec.pc \notin {"idle", "over"} => rec.id \in Ids

Tables ==
    /\ mapping \in [Ids -> Mapping \cup {None}]
    /\ cache \in [Ids -> Mapping \cup {None}]
    /\ reader \in [id : Ids, mapping : Mapping] \cup {None}
    /\ runs \subseteq Run
    /\ aliases \in [Ids -> runs \cup {None}]
Queued ==
    /\ journal \subseteq Registration /\ pending \subseteq Registration
    /\ torn \in BOOLEAN /\ loaded \in BOOLEAN
    /\ durable \cup swallowed \subseteq pending
Counted ==
    /\ answer \in [Creates -> {"none", "stored", "pending", "conflict", "failed", "lost"}]
    /\ faults \in 0 .. MaxFaults /\ crashes \in 0 .. MaxCrashes
Working ==
    /\ actor \in [Actors -> Routine]
    /\ \A a \in Actors : Proper(runs, a, actor[a])
TInv == Tables /\ Queued /\ Counted /\ Working

\* The channel of a row has the row's ID, and its alias, among its own: there
\* is no channel that has an ID only because the gateway wrote so.
Owns(pairs, row, i) ==
    row # None => {<<row.channel, i>>, <<row.channel, row.alias>>} \subseteq pairs
OwnsAll(pairs, reg) ==
    /\ <<reg.channel, reg.alias>> \in pairs
    /\ \A i \in ToSet(reg.ids) : <<reg.channel, i>> \in pairs
OwnedRows ==
    /\ \A i \in Ids : Owns(given, mapping[i], i) /\ Owns(given, cache[i], i)
    /\ reader # None => Owns(given, reader.mapping, reader.id)
OwnedQueue == \A reg \in journal \cup pending : OwnsAll(given, reg)
OwnedWork ==
    \A a \in Actors :
        /\ actor[a].reg \in Registration => OwnsAll(given, actor[a].reg)
        /\ \A reg \in actor[a].batch : OwnsAll(given, reg)
Owned == OwnedRows /\ OwnedQueue /\ OwnedWork

\* What the process knows of the file, once it has read it: an entry there that it
\* does not know any more is stored; and what it takes for durable has a line, be
\* it one that a torn line took in, or is stored.
Stored(reg) == \A i \in ToSet(reg.ids) : Stands(i, reg.channel)
Journaled ==
    /\ actor[Worker].pc # "idle" => loaded
    /\ loaded => \A reg \in journal \ pending : Stored(reg)
Durables == \A reg \in durable \ (journal \cup swallowed) : Stored(reg)

\* A registration that was just written is stored, and so is the ID of a status
\* query that was; one that is about to be announced is stored or has a line ...
Ready(a) ==
    /\ actor[a].pc \in {"publish", "ack"} => Stored(actor[a].reg)
    /\ actor[a].pc \in {"saved", "renamed"} =>
          Stands(actor[a].reg.ids[actor[a].left], actor[a].reg.channel)
    /\ actor[a].pc = "announce" =>
          \A i \in ToSet(actor[a].reg.ids) : Explained(i, actor[a].reg.channel)
AllReady == \A a \in Actors : Ready(a)

\* ... and so is what is cached, or on its way there.
CachedRow(i) == cache[i] # None => Explained(i, cache[i].channel)
Reading == reader # None => Explained(reader.id, reader.mapping.channel)
Cached == (\A i \in Ids : CachedRow(i)) /\ Reading

JInv == Journaled /\ Durables /\ AllReady /\ Cached

-----------------------------------------------------------------------------
(* What the helpers return. *)

LEMMA LeastElement ==
    ASSUME NEW S \in SUBSET Nat, S # {}
    PROVE  \E n \in S : \A k \in S : n <= k
<1>1. PICK n \in S : \A k \in S : <<k, n>> \notin OpToRel(<, Nat)
  BY NatLessThanWellFounded, WFMin, Zenon
<1>2. \A k \in S : ~(k < n)
  BY <1>1, Zenon DEF OpToRel
<1>3. QED
  BY <1>2

LEMMA RegistrationIds ==
    ASSUME TaskMappingsAssumption, NEW reg \in Registration
    PROVE  /\ reg.ids \in Seq(Ids) /\ DOMAIN reg.ids = 1 .. Len(reg.ids)
           /\ Len(reg.ids) \in Nat /\ 1 \in DOMAIN reg.ids
           /\ \A n \in DOMAIN reg.ids : reg.ids[n] \in Ids
           /\ ToSet(reg.ids) \subseteq Ids
<1>1. reg.ids \in Seq(Ids) /\ Len(reg.ids) >= 1
  <2>1. CASE reg.ids \in Replies
    <3>1. reg.ids \in Seq(ProviderIds) /\ reg.ids # <<>>
      BY <2>1 DEF TaskMappingsAssumption
    <3>2. reg.ids \in Seq(Ids)
      BY <3>1 DEF Ids
    <3>3. Len(reg.ids) # 0
      BY <3>1
    <3>4. QED
      BY <3>2, <3>3
  <2>2. ASSUME NEW i \in Ids PROVE <<i>> \in Seq(Ids) /\ Len(<<i>>) = 1
    OBVIOUS
  <2>3. ASSUME NEW i \in Ids, NEW j \in Ids PROVE <<i, j>> \in Seq(Ids) /\ Len(<<i, j>>) = 2
    OBVIOUS
  <2>4. \/ reg.ids \in Replies
        \/ \E i \in Ids : reg.ids = <<i>>
        \/ \E i, j \in Ids : reg.ids = <<i, j>>
    BY DEF Registration
  <2>5. CASE \E i \in Ids : reg.ids = <<i>>
    BY <2>2, <2>5
  <2>6. CASE \E i, j \in Ids : reg.ids = <<i, j>>
    BY <2>3, <2>6
  <2>7. QED
    BY <2>1, <2>4, <2>5, <2>6
<1>2. \A n \in DOMAIN reg.ids : reg.ids[n] \in Ids
  BY <1>1
<1>3. QED
  BY <1>1, <1>2 DEF ToSet

LEMMA RegistrationRow ==
    ASSUME TaskMappingsAssumption, NEW reg \in Registration
    PROVE  /\ reg # NoRegistration
           /\ MappingOf(reg) \in Mapping /\ MappingOf(reg) # None
           /\ MappingOf(reg).channel = reg.channel /\ MappingOf(reg).alias = reg.alias
BY DEF TaskMappingsAssumption, Registration, NoRegistration, MappingOf, Mapping

LEMMA LookupTyped ==
    ASSUME Tables, NEW i \in Ids
    PROVE  Lookup(i) \in Mapping \cup {None}
BY DEF Tables, Lookup

LEMMA RunForTyped ==
    ASSUME TaskMappingsAssumption, Tables, NEW reg \in Registration
    PROVE  RunFor(reg) \in Run
<1> DEFINE known == {n \in DOMAIN reg.ids :
                       /\ aliases[reg.ids[n]] # None
                       /\ aliases[reg.ids[n]].engine = "legacy"
                       /\ aliases[reg.ids[n]].channel = reg.channel}
           first == CHOOSE n \in known : \A k \in known : n <= k
<1>1. CASE known = {}
  <2>1. RunFor(reg) = [engine |-> "legacy", channel |-> reg.channel, alias |-> reg.alias,
                       origin |-> reg.origin]
    BY <1>1 DEF RunFor
  <2>2. QED
    BY <2>1 DEF Run, Registration
<1>2. CASE known # {}
  <2>1. known \subseteq Nat
    BY RegistrationIds
  <2>2. \E n \in known : \A k \in known : n <= k
    BY <1>2, <2>1, LeastElement
  <2>3. first \in known
    BY <2>2
  <2>4. RunFor(reg) = aliases[reg.ids[first]]
    BY <1>2 DEF RunFor
  <2>5. reg.ids[first] \in Ids /\ aliases[reg.ids[first]] # None
    BY <2>3, RegistrationIds
  <2>6. QED
    BY <2>4, <2>5 DEF Tables
<1>3. QED
  BY <1>1, <1>2

-----------------------------------------------------------------------------
(* Types: what every action leaves of them. *)

LEMMA Held ==
    ASSUME Working, NEW a \in Actors
    PROVE  actor[a] \in Routine /\ Proper(runs, a, actor[a])
BY DEF Working

LEMMA Steps ==
    ASSUME Working, NEW a \in Actors, NEW rec \in Routine,
           Set(a, rec), runs \subseteq runs', Proper(runs', a, rec)
    PROVE  Working'
<1>1. actor' \in [Actors -> Routine]
  BY DEF Set, Working
<1>2. ASSUME NEW b \in Actors PROVE Proper(runs', b, actor'[b])
  <2>1. CASE b = a
    BY <2>1 DEF Set, Working
  <2>2. CASE b # a
    <3>1. actor'[b] = actor[b]
      BY <2>2 DEF Set, Working
    <3>2. QED
      BY <3>1, Held DEF Proper
  <2>3. QED
    BY <2>1, <2>2
<1>3. QED
  BY <1>1, <1>2 DEF Working

LEMMA EndsTyped ==
    ASSUME Working, NEW a \in Actors, Ends(a), UNCHANGED runs
    PROVE  Working'
<1>1. Idle \in Routine /\ Proper(runs', a, Idle)
  BY DEF Idle, Routine, PCs, Proper
<1>2. QED
  BY <1>1, Steps DEF Ends

LEMMA AdvancedTyped ==
    ASSUME TaskMappingsAssumption, Working, NEW a \in Actors, actor[a].pc \in {"look", "alias"}
    PROVE  Advanced(a) \in Routine /\ Proper(runs, a, Advanced(a))
<1> DEFINE act == actor[a]
           last == act.left = Len(act.reg.ids)
           place == IF last THEN 1 ELSE act.left + 1
           pc == IF ~last THEN "look" ELSE IF act.again THEN "over" ELSE "ensure"
<1>1. act \in Routine /\ Proper(runs, a, act)
  BY Held
<1>2. act.reg \in Registration /\ act.left \in DOMAIN act.reg.ids /\ act.run \in runs
  BY <1>1 DEF Proper
<1>3. /\ DOMAIN act.reg.ids = 1 .. Len(act.reg.ids) /\ Len(act.reg.ids) \in Nat
      /\ 1 \in DOMAIN act.reg.ids
  BY <1>2, RegistrationIds
<1>4. place \in DOMAIN act.reg.ids
  BY <1>2, <1>3
<1>5. Advanced(a) = [[act EXCEPT !.left = place] EXCEPT !.pc = pc]
  <2>1. [act EXCEPT !.left = IF last THEN 1 ELSE @ + 1] = [act EXCEPT !.left = place]
    BY <1>1 DEF Routine
  <2>2. [act EXCEPT !.left = place].again = act.again
    BY <1>1 DEF Routine
  <2>3. QED
    BY <2>1, <2>2 DEF Advanced
<1>6. Advanced(a) \in Routine
  <2>1. place \in Nat /\ pc \in PCs
    BY <1>3, <1>4 DEF PCs
  <2>2. [act EXCEPT !.left = place] \in Routine
    BY <1>1, <2>1 DEF Routine
  <2>3. QED
    BY <1>5, <2>1, <2>2 DEF Routine
<1>7. /\ Advanced(a).reg = act.reg /\ Advanced(a).left = place /\ Advanced(a).run = act.run
      /\ Advanced(a).pc \in {"look", "over", "ensure"} /\ Advanced(a).id = act.id
  BY <1>1, <1>5 DEF Routine
<1>8. a \in Polls => act.id \in Ids
  BY <1>1 DEF Proper
<1>9. QED
  BY <1>2, <1>4, <1>6, <1>7, <1>8 DEF Proper

LEMMA SucceedsTyped ==
    ASSUME Working, NEW a \in Actors, actor[a].pc = "publish", Succeeds(a), UNCHANGED runs
    PROVE  Working'
<1> DEFINE act == actor[a]
           rec == [act EXCEPT !.fresh = {}, !.left = 1]
<1>1. act \in Routine /\ act.reg \in Registration /\ (a \in Polls => act.id \in Ids)
  BY Held DEF Proper
<1>2. PICK pc \in {"ack", "record", "project", "run"}, again \in BOOLEAN :
         Set(a, [rec EXCEPT !.pc = pc, !.again = again])
  <2>1. [rec EXCEPT !.pc = "ack"] = [rec EXCEPT !.pc = "ack", !.again = act.again]
    BY <1>1 DEF Routine
  <2>2. [rec EXCEPT !.pc = "record"] = [rec EXCEPT !.pc = "record", !.again = act.again]
    BY <1>1 DEF Routine
  <2>3. [rec EXCEPT !.pc = "project"] = [rec EXCEPT !.pc = "project", !.again = act.again]
    BY <1>1 DEF Routine
  <2>4. act.again \in BOOLEAN
    BY <1>1 DEF Routine
  <2>5. QED
    BY <2>1, <2>2, <2>3, <2>4 DEF Succeeds
<1> DEFINE new == [rec EXCEPT !.pc = pc, !.again = again]
<1>3. new \in Routine
  BY <1>1, <1>2 DEF Routine, PCs
<1>4. new.pc = pc /\ new.reg = act.reg /\ new.id = act.id
  BY <1>1 DEF Routine
<1>5. Proper(runs', a, new)
  BY <1>1, <1>2, <1>4 DEF Proper
<1>6. QED
  BY <1>2, <1>3, <1>5, Steps

LEMMA FailsTyped ==
    ASSUME Working, NEW a \in Actors, actor[a].pc \in {"run", "freeze", "alias", "ensure"},
           NEW conflict \in BOOLEAN, Fails(a, conflict), UNCHANGED runs
    PROVE  Working'
<1> DEFINE act == actor[a]
           rec == [act EXCEPT !.fresh = {}, !.left = 1, !.run = None]
<1>1. act \in Routine /\ act.reg \in Registration /\ (a \in Polls => act.id \in Ids)
  BY Held DEF Proper
<1>2. PICK pc \in {"next", "enqueue", "record", "over", "project"},
           reg \in Registration \cup {NoRegistration} :
         /\ Set(a, [rec EXCEPT !.pc = pc, !.reg = reg])
         /\ pc # "next" => reg \in Registration
  <2>1. rec.reg = act.reg
    BY <1>1 DEF Routine
  <2>2. ASSUME NEW pc PROVE [rec EXCEPT !.pc = pc] = [rec EXCEPT !.pc = pc, !.reg = act.reg]
    BY <1>1 DEF Routine
  <2>3. QED
    BY <1>1, <2>1, <2>2 DEF Fails
<1> DEFINE new == [rec EXCEPT !.pc = pc, !.reg = reg]
<1>3. new \in Routine
  BY <1>1, <1>2 DEF Routine, PCs
<1>4. new.pc = pc /\ new.reg = reg /\ new.id = act.id
  BY <1>1 DEF Routine
<1>5. Proper(runs', a, new)
  BY <1>1, <1>2, <1>4 DEF Proper
<1>6. QED
  BY <1>2, <1>3, <1>5, Steps

LEMMA FaultCounted ==
    ASSUME TaskMappingsAssumption, Counted, Fault
    PROVE  faults' \in 0 .. MaxFaults
BY DEF TaskMappingsAssumption, Counted, Fault

LEMMA JournalsTyped ==
    ASSUME TaskMappingsAssumption, Queued, Counted, NEW reg \in Registration, NEW ok \in BOOLEAN,
           Journals(reg, ok)
    PROVE  Queued' /\ faults' \in 0 .. MaxFaults
<1>1. /\ LoadedPending \subseteq Registration /\ pending \subseteq LoadedPending
      /\ LoadedDurable \subseteq LoadedPending /\ swallowed \subseteq pending
  BY DEF Queued, LoadedPending, LoadedDurable
<1>2. faults' \in 0 .. MaxFaults
  BY FaultCounted DEF Journals, Counted
<1>3. /\ \/ UNCHANGED <<journal, torn, swallowed>>
         \/ Lands(reg)
         \/ Breaks
      /\ \/ /\ pending' = LoadedPending \cup {reg} /\ loaded' = TRUE
            /\ durable' = LoadedDurable \cup {reg} \/ durable' = LoadedDurable
         \/ pending' = pending \cup {reg} /\ UNCHANGED <<loaded, durable>>
  BY DEF Journals
<1>4. /\ torn' \in BOOLEAN /\ journal' \subseteq Registration
      /\ swallowed' \subseteq swallowed \cup {reg}
  BY <1>3 DEF Queued, Lands, Breaks
<1>5. Queued'
  BY <1>1, <1>3, <1>4 DEF Queued
<1>6. QED
  BY <1>2, <1>5

LEMMA AnsweredTyped ==
    ASSUME Counted, NEW a, NEW how \in {"stored", "pending", "conflict", "failed"},
           Answered(a, how)
    PROVE  answer' \in [Creates -> {"none", "stored", "pending", "conflict", "failed", "lost"}]
BY DEF Counted, Answered
LEMMA TypesByPersisting ==
    ASSUME TaskMappingsAssumption, TInv, NEW a \in Actors,
           \/ Choose(a) \/ Freeze(a) \/ Look(a) \/ RecordTaskAlias(a)
           \/ EnsureTaskMappings(a) \/ Publish(a) \/ Interrupted(a)
    PROVE  TInv'
<1> DEFINE act == actor[a]
<1>1. /\ Tables /\ Queued /\ Counted /\ Working
      /\ act \in Routine /\ Proper(runs, a, act)
  BY Held DEF TInv
<1>2. act.pc \in {"run", "freeze", "look", "alias", "ensure", "publish"}
  BY DEF Choose, Freeze, Look, RecordTaskAlias, EnsureTaskMappings, Publish, Interrupted
<1>3. act.reg \in Registration /\ (a \in Polls => act.id \in Ids)
  BY <1>1, <1>2 DEF Proper
<1>4. /\ DOMAIN act.reg.ids = 1 .. Len(act.reg.ids) /\ 1 \in DOMAIN act.reg.ids
      /\ \A n \in DOMAIN act.reg.ids : act.reg.ids[n] \in Ids
      /\ ToSet(act.reg.ids) \subseteq Ids
  BY <1>3, RegistrationIds
<1>5. CASE Choose(a)
  <2> DEFINE new == [act EXCEPT !.pc = "freeze", !.run = RunFor(act.reg)]
  <2>1. UNCHANGED <<tables, cache, queue, answer, faults, world>>
    BY <1>5 DEF Choose
  <2>2. Set(a, new) \/ \E pc \in {"over", "ensure"} : Set(a, [act EXCEPT !.pc = pc])
    BY <1>5 DEF Choose
  <2>3. ASSUME NEW pc \in {"over", "ensure"}
        PROVE  [act EXCEPT !.pc = pc] \in Routine /\ Proper(runs, a, [act EXCEPT !.pc = pc])
    BY <1>1, <1>3 DEF Routine, PCs, Proper
  <2>4. RunFor(act.reg) \in Run
    BY <1>1, <1>3, RunForTyped
  <2>5. new \in Routine /\ Proper(runs, a, new)
    <3>1. new \in Routine
      BY <1>1, <2>4 DEF Routine, PCs
    <3>2. /\ new.pc = "freeze" /\ new.run = RunFor(act.reg)
          /\ new.reg = act.reg /\ new.id = act.id
      BY <1>1 DEF Routine
    <3>3. QED
      BY <1>3, <2>4, <3>1, <3>2 DEF Proper
  <2>6. Working'
    BY <1>1, <2>1, <2>2, <2>3, <2>5, Steps DEF tables
  <2>7. QED
    BY <1>1, <2>1, <2>6 DEF TInv, Tables, Queued, Counted, tables, queue, world
<1>12. CASE Freeze(a)
  <2> DEFINE new == [act EXCEPT !.pc = "look", !.left = 1]
  <2>1. /\ runs' = runs \cup {act.run} /\ Set(a, new) /\ act.pc = "freeze"
        /\ UNCHANGED <<mapping, aliases, cache, queue, answer, faults, world>>
    BY <1>12 DEF Freeze
  <2>2. act.run \in Run
    BY <1>1, <2>1 DEF Proper
  <2>3. new \in Routine
    BY <1>1 DEF Routine, PCs
  <2>4. Proper(runs', a, new)
    BY <1>1, <1>3, <1>4, <2>1 DEF Routine, Proper
  <2>5. Working'
    BY <1>1, <2>1, <2>3, <2>4, Steps
  <2>6. Tables'
    BY <1>1, <2>1, <2>2 DEF Tables, world
  <2>7. QED
    BY <1>1, <2>1, <2>5, <2>6 DEF TInv, Queued, Counted, queue, world
<1>6. CASE Look(a)
  <2>1. /\ Set(a, Advanced(a)) \/ Set(a, [act EXCEPT !.pc = "alias"])
        /\ UNCHANGED <<tables, cache, queue, answer, faults, world>>
        /\ act.pc = "look"
    BY <1>6 DEF Look
  <2>2. [act EXCEPT !.pc = "alias"] \in Routine /\ Proper(runs, a, [act EXCEPT !.pc = "alias"])
    BY <1>1, <2>1 DEF Routine, PCs, Proper
  <2>3. Advanced(a) \in Routine /\ Proper(runs, a, Advanced(a))
    BY <1>1, <2>1, AdvancedTyped
  <2>4. runs' = runs
    BY <2>1 DEF tables
  <2>5. Working'
    BY <1>1, <2>1, <2>2, <2>3, <2>4, Steps
  <2>6. QED
    BY <1>1, <2>1, <2>5 DEF TInv, Tables, Queued, Counted, tables, queue, world
<1>7. CASE RecordTaskAlias(a)
  <2> DEFINE i == act.reg.ids[act.left]
  <2>1. /\ act.pc = "alias" /\ UNCHANGED <<mapping, runs, cache, queue, answer, faults, world>>
        /\ aliases' = [aliases EXCEPT ![i] = act.run] \/ aliases' = aliases
        /\ \/ Set(a, Advanced(a)) \/ Set(a, [act EXCEPT !.pc = "over"]) \/ Fails(a, FALSE)
    BY <1>7 DEF RecordTaskAlias
  <2>2. act.run \in runs /\ i \in Ids
    BY <1>1, <1>4, <2>1 DEF Proper
  <2>3. aliases' \in [Ids -> runs' \cup {None}]
    BY <1>1, <2>1, <2>2 DEF Tables
  <2>4. Advanced(a) \in Routine /\ Proper(runs, a, Advanced(a))
    BY <1>1, <2>1, AdvancedTyped
  <2>5. [act EXCEPT !.pc = "over"] \in Routine /\ Proper(runs, a, [act EXCEPT !.pc = "over"])
    BY <1>1 DEF Routine, PCs, Proper
  <2>6. Working'
    BY <1>1, <2>1, <2>4, <2>5, Steps, FailsTyped
  <2>7. QED
    BY <1>1, <2>1, <2>3, <2>6 DEF TInv, Tables, Queued, Counted, queue, world
<1>8. CASE EnsureTaskMappings(a)
  <2> DEFINE missing == {i \in ToSet(act.reg.ids) : mapping[i] = None}
             renamed == {i \in ToSet(act.reg.ids) \ missing :
                            mapping[i].alias = i /\ act.reg.alias # i}
             new == [act EXCEPT !.pc = "publish", !.fresh = missing \cup renamed]
  <2>1. /\ act.pc = "ensure" /\ UNCHANGED <<runs, aliases, cache, queue, faults, world>>
        /\ \/ Fails(a, TRUE) /\ Answered(a, "conflict") /\ UNCHANGED mapping
           \/ /\ mapping' = [i \in Ids |->
                    CASE i \in missing -> MappingOf(act.reg)
                      [] i \in renamed -> [mapping[i] EXCEPT !.alias = act.reg.alias]
                      [] OTHER -> mapping[i]]
              /\ Answered(a, "stored") /\ Set(a, new)
    BY <1>8 DEF EnsureTaskMappings
  <2>2. MappingOf(act.reg) \in Mapping /\ act.reg.alias \in Ids
    BY <1>3, RegistrationRow DEF Registration
  <2>3. \A i \in renamed : [mapping[i] EXCEPT !.alias = act.reg.alias] \in Mapping
    <3>1. \A i \in renamed : mapping[i] \in Mapping
      BY <1>1, <1>4 DEF Tables
    <3>2. QED
      BY <2>2, <3>1 DEF Mapping
  <2>4. mapping' \in [Ids -> Mapping \cup {None}]
    <3> DEFINE row(i) == CASE i \in missing -> MappingOf(act.reg)
                           [] i \in renamed -> [mapping[i] EXCEPT !.alias = act.reg.alias]
                           [] OTHER -> mapping[i]
    <3>1. \A i \in Ids : row(i) \in Mapping \cup {None}
      BY <1>1, <2>2, <2>3 DEF Tables
    <3>2. mapping' = mapping \/ mapping' = [i \in Ids |-> row(i)]
      BY <2>1
    <3> HIDE DEF row
    <3>3. QED
      BY <1>1, <3>1, <3>2 DEF Tables
  <2>5. new \in Routine /\ Proper(runs, a, new)
    <3>1. missing \cup renamed \subseteq ToSet(act.reg.ids)
      OBVIOUS
    <3>2. new \in Routine
      BY <1>1, <1>4, <3>1 DEF Routine, PCs
    <3>3. new.pc = "publish" /\ new.reg = act.reg /\ new.id = act.id /\ new.fresh = missing \cup renamed
      BY <1>1 DEF Routine
    <3>4. QED
      BY <1>3, <3>1, <3>2, <3>3 DEF Proper
  <2>6. Working'
    BY <1>1, <2>1, <2>5, Steps, FailsTyped
  <2>7. answer' \in [Creates -> {"none", "stored", "pending", "conflict", "failed", "lost"}]
    BY <1>1, <2>1, AnsweredTyped
  <2>8. Tables'
    BY <1>1, <2>1, <2>4 DEF Tables, world
  <2>9. QED
    BY <1>1, <2>1, <2>6, <2>7, <2>8 DEF TInv, Queued, Counted, queue, world
<1>9. CASE Publish(a)
  <2>1. /\ act.pc = "publish" /\ Succeeds(a) /\ UNCHANGED <<tables, queue, answer, faults, world>>
        /\ cache' = [i \in Ids |-> IF i \in act.fresh THEN MappingOf(act.reg) ELSE cache[i]]
    BY <1>9 DEF Publish
  <2>2. MappingOf(act.reg) \in Mapping
    BY <1>3, RegistrationRow
  <2>3. cache' \in [Ids -> Mapping \cup {None}]
    BY <1>1, <2>1, <2>2 DEF Tables
  <2>4. Working'
    BY <1>1, <2>1, SucceedsTyped DEF tables
  <2>5. QED
    BY <1>1, <2>1, <2>3, <2>4 DEF TInv, Tables, Queued, Counted, tables, queue, world
<1>10. CASE Interrupted(a)
  <2>1. /\ act.pc \in {"run", "freeze", "alias", "ensure"} /\ Fault
        /\ Fails(a, FALSE) \/ Set(a, [act EXCEPT !.pc = "over"])
        /\ UNCHANGED <<tables, cache, queue, answer, world>>
    BY <1>10 DEF Interrupted
  <2>2. [act EXCEPT !.pc = "over"] \in Routine /\ Proper(runs, a, [act EXCEPT !.pc = "over"])
    BY <1>1 DEF Routine, PCs, Proper
  <2>3. Working'
    BY <1>1, <2>1, <2>2, Steps, FailsTyped DEF tables
  <2>4. faults' \in 0 .. MaxFaults
    BY <1>1, <2>1, FaultCounted
  <2>5. QED
    BY <1>1, <2>1, <2>3, <2>4 DEF TInv, Tables, Queued, Counted, tables, queue, world
<1>11. QED
  BY <1>5, <1>6, <1>7, <1>8, <1>9, <1>10, <1>12

LEMMA TypesByJournaling ==
    ASSUME TaskMappingsAssumption, TInv, NEW a \in Actors, Enqueue(a) \/ Announce(a) \/ Over(a)
    PROVE  TInv'
<1> DEFINE act == actor[a]
<1>1. /\ Tables /\ Queued /\ Counted /\ Working
      /\ act \in Routine /\ Proper(runs, a, act)
  BY Held DEF TInv
<1>2. ASSUME NEW pc \in {"record", "over", "project", "announce", "run", "ensure"},
             act.pc \in {"enqueue", "announce"}
      PROVE  [act EXCEPT !.pc = pc] \in Routine /\ Proper(runs, a, [act EXCEPT !.pc = pc])
  BY <1>1, <1>2 DEF Routine, PCs, Proper
<1>3. CASE Enqueue(a)
  <2>1. act.pc = "enqueue" /\ act.reg \in Registration
    BY <1>1, <1>3 DEF Enqueue, Proper
  <2>2. PICK ok \in BOOLEAN, pc \in {"record", "over", "project", "announce"} :
          Journals(act.reg, ok) /\ Set(a, [act EXCEPT !.pc = pc])
    BY <1>3 DEF Enqueue
  <2>3. UNCHANGED <<tables, cache, world>> /\ (answer' = answer \/ Answered(a, "failed"))
    BY <1>3 DEF Enqueue
  <2>4. Queued' /\ faults' \in 0 .. MaxFaults
    BY <1>1, <2>1, <2>2, JournalsTyped
  <2>5. answer' \in [Creates -> {"none", "stored", "pending", "conflict", "failed", "lost"}]
    BY <1>1, <2>3, AnsweredTyped DEF Counted
  <2>6. Working'
    BY <1>1, <1>2, <2>1, <2>2, <2>3, Steps DEF tables
  <2>7. QED
    BY <1>1, <2>3, <2>4, <2>5, <2>6 DEF TInv, Tables, Counted, tables, world
<1>4. CASE Announce(a)
  <2>1. act.pc = "announce" /\ act.reg \in Registration
    BY <1>1, <1>4 DEF Announce, Proper
  <2>2. /\ cache' = Announced(act.reg) /\ Answered(a, "pending")
        /\ UNCHANGED <<tables, queue, faults, world>>
    BY <1>4 DEF Announce
  <2>3. PICK pc \in {"record", "over", "project", "run", "ensure"} :
          Set(a, [act EXCEPT !.pc = pc])
    BY <1>4 DEF Announce, Entry
  <2>4. MappingOf(act.reg) \in Mapping
    BY <2>1, RegistrationRow
  <2>5. cache' \in [Ids -> Mapping \cup {None}]
    BY <1>1, <2>2, <2>4 DEF Tables, Announced
  <2>6. answer' \in [Creates -> {"none", "stored", "pending", "conflict", "failed", "lost"}]
    BY <1>1, <2>2, AnsweredTyped
  <2>7. Working'
    BY <1>1, <1>2, <2>1, <2>2, <2>3, Steps DEF tables
  <2>8. QED
    BY <1>1, <2>2, <2>5, <2>6, <2>7 DEF TInv, Tables, Queued, Counted, tables, queue, world
<1>5. CASE Over(a)
  <2>1. Ends(a) /\ UNCHANGED <<tables, cache, queue, answer, faults, world>>
    BY <1>5 DEF Over
  <2>2. Working'
    BY <1>1, <2>1, EndsTyped DEF tables
  <2>3. QED
    BY <1>1, <2>1, <2>2 DEF TInv, Tables, Queued, Counted, tables, queue, world
<1>6. QED
  BY <1>3, <1>4, <1>5

LEMMA TypesByCreation ==
    ASSUME TaskMappingsAssumption, TInv, NEW r \in Creates,
           Accept(r) \/ Disambiguate(r) \/ Project(r) \/ Attach(r)
    PROVE  TInv'
<1> DEFINE act == actor[r]
<1>1. /\ Tables /\ Queued /\ Counted /\ Working
      /\ r \in Actors /\ r \notin Polls /\ r \in Ids
      /\ act \in Routine /\ Proper(runs, r, act)
  BY Held DEF TInv, Actors, Ids, TaskMappingsAssumption
<1>2. CASE Accept(r)
  <2>1. PICK c \in Channels \ deleted, engine \in Engines, ids \in Replies :
          Set(r, [Idle EXCEPT !.pc = "names",
                     !.reg = [engine |-> engine, channel |-> c, alias |-> ids[1],
                              origin |-> r, ids |-> ids]])
    BY <1>2 DEF Accept
  <2>2. UNCHANGED <<tables, cache, queue, answer, faults,
                    reader, deleting, deleted, moved, crashes>>
    BY <1>2 DEF Accept
  <2> DEFINE reg == [engine |-> engine, channel |-> c, alias |-> ids[1],
                     origin |-> r, ids |-> ids]
             new == [Idle EXCEPT !.pc = "names", !.reg = reg]
  <2>3. ids[1] \in Ids
    <3>1. ids \in Seq(ProviderIds) /\ ids # <<>>
      BY DEF TaskMappingsAssumption
    <3>2. QED
      BY <3>1 DEF Ids
  <2>4. reg \in Registration
    BY <2>3 DEF Registration, TaskMappingsAssumption
  <2>5. new \in Routine /\ Proper(runs, r, new)
    <3>1. Idle \in Routine
      BY DEF Idle, Routine, PCs
    <3>2. new \in Routine
      BY <2>4, <3>1 DEF Routine, PCs
    <3>3. new.pc = "names" /\ new.reg = reg
      BY DEF Idle
    <3> HIDE DEF new
    <3>4. QED
      BY <1>1, <2>4, <3>2, <3>3 DEF Proper
  <2>6. Working'
    BY <1>1, <2>1, <2>2, <2>5, Steps DEF tables
  <2>7. QED
    BY <1>1, <2>2, <2>6 DEF TInv, Tables, Queued, Counted, tables, queue
<1>3. CASE Disambiguate(r)
  <2>1. act.pc = "names" /\ act.reg \in Registration
    BY <1>1, <1>3 DEF Disambiguate, Proper
  <2>2. PICK named \in {act.reg, [act.reg EXCEPT !.ids = <<r>>]} :
          Set(r, [act EXCEPT !.reg = named, !.pc = Entry(named)])
    BY <1>3 DEF Disambiguate
  <2>3. UNCHANGED <<tables, cache, queue, answer, faults,
                    reader, deleting, deleted, moved, crashes>>
    BY <1>3 DEF Disambiguate
  <2>4. named \in Registration
    BY <1>1, <2>1 DEF Registration
  <2>5. PICK pc \in {"ensure", "run"} : pc = Entry(named)
    BY DEF Entry
  <2>6. [act EXCEPT !.reg = named, !.pc = pc] \in Routine
    BY <1>1, <2>4 DEF Routine, PCs
  <2>7. Proper(runs, r, [act EXCEPT !.reg = named, !.pc = pc])
    BY <1>1, <2>4 DEF Routine, Proper
  <2>8. Working'
    BY <1>1, <2>2, <2>3, <2>5, <2>6, <2>7, Steps DEF tables
  <2>9. QED
    BY <1>1, <2>3, <2>8 DEF TInv, Tables, Queued, Counted, tables, queue
<1>4. CASE Project(r)
  <2>1. act.pc = "project" /\ act.reg \in Registration
    BY <1>1, <1>4 DEF Project, Proper
  <2> DEFINE run == [engine |-> "profile", channel |-> act.reg.channel,
                     alias |-> act.reg.alias, origin |-> r]
             new == [act EXCEPT !.pc = "attach", !.run = run, !.left = 1]
             over == [act EXCEPT !.pc = "over"]
  <2>2. /\ UNCHANGED <<mapping, aliases, cache, queue, answer, world>>
        /\ \/ runs' = runs \cup {run} /\ Set(r, new) /\ faults' = faults
           \/ Fault /\ Set(r, over) /\ runs' = runs
    BY <1>4 DEF Project
  <2>3. run \in Run
    BY <2>1 DEF Run, Registration
  <2>4. 1 \in DOMAIN act.reg.ids
    BY <2>1, RegistrationIds
  <2>5. new \in Routine /\ Proper(runs \cup {run}, r, new)
    BY <1>1, <2>1, <2>3, <2>4 DEF Routine, PCs, Proper
  <2>6. over \in Routine /\ Proper(runs, r, over)
    BY <1>1 DEF Routine, PCs, Proper
  <2>7. Working'
    BY <1>1, <2>2, <2>5, <2>6, Steps
  <2>8. faults' \in 0 .. MaxFaults
    BY <1>1, <2>2, FaultCounted DEF Counted
  <2>9. Tables'
    BY <1>1, <2>2, <2>3 DEF Tables, world
  <2>10. QED
    BY <1>1, <2>2, <2>7, <2>8, <2>9 DEF TInv, Queued, Counted, queue, world
<1>5. CASE Attach(r)
  <2>1. /\ act.pc = "attach" /\ act.reg \in Registration /\ act.run \in runs
        /\ act.left \in DOMAIN act.reg.ids
    BY <1>1, <1>5 DEF Attach, Proper
  <2>2. /\ DOMAIN act.reg.ids = 1 .. Len(act.reg.ids) /\ Len(act.reg.ids) \in Nat
        /\ act.reg.ids[act.left] \in Ids
    BY <2>1, RegistrationIds
  <2> DEFINE next == [act EXCEPT !.left = act.left + 1]
             over == [act EXCEPT !.pc = "over"]
  <2>3. /\ UNCHANGED <<mapping, runs, cache, queue, answer, world>>
        /\ \/ aliases' = [aliases EXCEPT ![act.reg.ids[act.left]] = act.run] /\ faults' = faults
           \/ aliases' = aliases /\ faults' = faults
           \/ aliases' = aliases /\ Fault
        /\ \/ act.left = Len(act.reg.ids) /\ Set(r, over)
           \/ act.left # Len(act.reg.ids) /\ Set(r, next)
    BY <1>5 DEF Attach
  <2>4. over \in Routine /\ Proper(runs, r, over)
    BY <1>1 DEF Routine, PCs, Proper
  <2>5. ASSUME act.left # Len(act.reg.ids) PROVE Working'
    <3>1. act.left + 1 \in DOMAIN act.reg.ids /\ act.left + 1 \in Nat
      BY <2>1, <2>2, <2>5
    <3>2. next \in Routine
      BY <1>1, <3>1 DEF Routine
    <3>3. next.pc = act.pc /\ next.reg = act.reg /\ next.run = act.run /\ next.left = act.left + 1
      BY <1>1 DEF Routine
    <3>4. Proper(runs, r, next)
      BY <1>1, <2>1, <3>1, <3>3 DEF Proper
    <3>5. Set(r, next) /\ runs' = runs
      BY <2>3, <2>5
    <3>6. QED
      BY <1>1, <3>2, <3>4, <3>5, Steps
  <2>6. Working'
    BY <1>1, <2>3, <2>4, <2>5, Steps
  <2>7. faults' \in 0 .. MaxFaults
    BY <1>1, <2>3, FaultCounted DEF Counted
  <2>8. Tables'
    BY <1>1, <2>1, <2>2, <2>3 DEF Tables, world
  <2>9. QED
    BY <1>1, <2>3, <2>6, <2>7, <2>8 DEF TInv, Queued, Counted, queue, world
<1>6. QED
  BY <1>2, <1>3, <1>4, <1>5

LEMMA ComparedTyped ==
    ASSUME TaskMappingsAssumption, Working, NEW p \in Polls,
           actor[p].pc \in {"compare", "save", "saved"}
    PROVE  Compared(p) \in Routine /\ Proper(runs, p, Compared(p))
<1> DEFINE act == actor[p]
           last == act.left = Len(act.reg.ids)
           place == IF last THEN 1 ELSE act.left + 1
           pc == IF last THEN "run" ELSE "compare"
<1>1. p \in Actors /\ act \in Routine /\ Proper(runs, p, act)
  BY Held DEF Actors
<1>2. act.reg \in Registration /\ act.left \in DOMAIN act.reg.ids /\ act.id \in Ids
  BY <1>1 DEF Proper
<1>3. /\ DOMAIN act.reg.ids = 1 .. Len(act.reg.ids) /\ Len(act.reg.ids) \in Nat
      /\ 1 \in DOMAIN act.reg.ids
  BY <1>2, RegistrationIds
<1>4. place \in DOMAIN act.reg.ids /\ place \in Nat
  BY <1>2, <1>3
<1>5. Compared(p) = [act EXCEPT !.left = place, !.again = last, !.pc = pc]
  <2>1. [act EXCEPT !.left = IF last THEN 1 ELSE @ + 1] = [act EXCEPT !.left = place]
    BY <1>1 DEF Routine
  <2>2. QED
    BY <1>1, <2>1 DEF Compared, Routine
<1>6. Compared(p) \in Routine
  <2>1. pc \in PCs /\ last \in BOOLEAN
    BY DEF PCs
  <2>2. QED
    BY <1>1, <1>4, <1>5, <2>1 DEF Routine
<1>7. /\ Compared(p).pc \in {"run", "compare"} /\ Compared(p).reg = act.reg
      /\ Compared(p).left = place /\ Compared(p).id = act.id
  BY <1>1, <1>5 DEF Routine
<1>8. QED
  BY <1>2, <1>4, <1>6, <1>7 DEF Proper

LEMMA SavedTyped ==
    ASSUME TaskMappingsAssumption, Working, NEW p \in Polls,
           actor[p].pc \in {"save", "saved", "rename", "renamed"}
    PROVE  Saved(p) \in Routine /\ Proper(runs, p, Saved(p))
<1>1. actor[p].id \in Ids
  BY Held DEF Actors, Proper
<1>2. CASE actor[p].pc \in {"rename", "renamed"}
  <2> DEFINE record == [Idle EXCEPT !.pc = "record", !.id = actor[p].id]
  <2>1. Saved(p) = record
    BY <1>2 DEF Saved
  <2>2. record \in Routine /\ Proper(runs, p, record)
    BY <1>1 DEF Idle, Routine, PCs, Proper
  <2>3. QED
    BY <2>1, <2>2
<1>3. CASE actor[p].pc \in {"save", "saved"}
  BY <1>3, ComparedTyped DEF Saved
<1>4. QED
  BY <1>2, <1>3

LEMMA TypesByPoll ==
    ASSUME TaskMappingsAssumption, TInv, NEW p \in Polls,
           PollStep(p) \/ \E i, j \in Ids : Poll(p, i, j)
    PROVE  TInv'
<1> DEFINE act == actor[p]
<1>1. /\ Tables /\ Queued /\ Counted /\ Working
      /\ p \in Actors /\ act \in Routine /\ Proper(runs, p, act)
  BY Held DEF TInv, Actors
<1>2. CASE Record(p)
  <2> DEFINE m == Lookup(act.id)
             i == act.id
             reg == [engine |-> "legacy", channel |-> m.channel, alias |-> m.alias,
                     origin |-> m.origin,
                     ids |-> IF m.alias # i /\ ~Elsewhere(m.alias, m.channel)
                             THEN <<i, m.alias>> ELSE <<i>>]
             over == [Idle EXCEPT !.pc = "over"]
             new == [act EXCEPT !.pc = "compare", !.reg = reg, !.left = 1]
  <2>1. act.pc = "record" /\ act.id \in Ids
    BY <1>1, <1>2 DEF Record, Proper
  <2>2. /\ UNCHANGED <<tables, cache, queue, answer, faults, world>>
        /\ \/ Set(p, over)
           \/ m # None /\ Set(p, new)
    BY <1>2 DEF Record
  <2>3. over \in Routine /\ Proper(runs, p, over)
    BY DEF Idle, Routine, PCs, Proper
  <2>4. ASSUME m # None PROVE new \in Routine /\ Proper(runs, p, new)
    <3>1. m \in Mapping
      BY <1>1, <2>1, <2>4, LookupTyped
    <3>2. reg \in Registration
      BY <2>1, <3>1 DEF Mapping, Registration
    <3>3. 1 \in DOMAIN reg.ids
      BY <3>2, RegistrationIds
    <3> HIDE DEF reg
    <3>4. QED
      BY <1>1, <2>1, <3>2, <3>3 DEF Routine, PCs, Proper
  <2>5. Working'
    BY <1>1, <2>2, <2>3, <2>4, Steps DEF tables
  <2>6. QED
    BY <1>1, <2>2, <2>5 DEF TInv, Tables, Queued, Counted, tables, queue, world
<1>3. CASE Compare(p)
  <2>1. /\ act.pc = "compare" /\ UNCHANGED <<tables, cache, queue, answer, faults, world>>
        /\ Set(p, Compared(p)) \/ Set(p, [act EXCEPT !.pc = "save"])
    BY <1>3 DEF Compare
  <2>2. [act EXCEPT !.pc = "save"] \in Routine /\ Proper(runs, p, [act EXCEPT !.pc = "save"])
    BY <1>1, <2>1 DEF Routine, PCs, Proper
  <2>3. Compared(p) \in Routine /\ Proper(runs, p, Compared(p))
    BY <1>1, <2>1, ComparedTyped
  <2>4. Working'
    BY <1>1, <2>1, <2>2, <2>3, Steps DEF tables
  <2>5. QED
    BY <1>1, <2>1, <2>4 DEF TInv, Tables, Queued, Counted, tables, queue, world
<1>4. CASE Save(p)
  <2> DEFINE i == act.reg.ids[act.left]
  <2>1. /\ act.pc \in {"save", "rename"} /\ act.reg \in Registration
        /\ act.left \in DOMAIN act.reg.ids
    BY <1>1, <1>4 DEF Save, Proper
  <2>2. PICK pc \in {"saved", "renamed"} :
           /\ \/ /\ mapping' = [mapping EXCEPT ![i] = MappingOf(act.reg)]
                 /\ Set(p, [act EXCEPT !.pc = pc]) /\ faults' = faults
              \/ mapping' = mapping /\ Set(p, Saved(p)) /\ Fault
           /\ UNCHANGED <<runs, aliases, cache, queue, answer,
                          given, reader, deleting, deleted, crashes>>
    BY <1>4, <2>1 DEF Save
  <2>3. i \in Ids /\ MappingOf(act.reg) \in Mapping
    BY <2>1, RegistrationIds, RegistrationRow
  <2>4. Tables'
    BY <1>1, <2>2, <2>3 DEF Tables
  <2>5. Saved(p) \in Routine /\ Proper(runs, p, Saved(p))
    BY <1>1, <2>1, SavedTyped
  <2>6. [act EXCEPT !.pc = pc] \in Routine /\ Proper(runs, p, [act EXCEPT !.pc = pc])
    BY <1>1, <2>1 DEF Routine, PCs, Proper
  <2>7. Working'
    BY <1>1, <2>2, <2>5, <2>6, Steps
  <2>8. faults' \in 0 .. MaxFaults
    BY <1>1, <2>2, FaultCounted DEF Counted
  <2>9. QED
    BY <1>1, <2>2, <2>4, <2>7, <2>8 DEF TInv, Queued, Counted, queue
<1>7. CASE Refresh(p)
  <2> DEFINE i == act.reg.ids[act.left]
  <2>1. /\ act.pc \in {"saved", "renamed"} /\ act.reg \in Registration
        /\ act.left \in DOMAIN act.reg.ids
    BY <1>1, <1>7 DEF Refresh, Proper
  <2>2. /\ cache' = [cache EXCEPT ![i] = MappingOf(act.reg)] /\ Set(p, Saved(p))
        /\ UNCHANGED <<tables, queue, answer, faults, world>>
    BY <1>7 DEF Refresh
  <2>3. i \in Ids /\ MappingOf(act.reg) \in Mapping
    BY <2>1, RegistrationIds, RegistrationRow
  <2>4. Tables'
    BY <1>1, <2>2, <2>3 DEF Tables, tables, world
  <2>5. Saved(p) \in Routine /\ Proper(runs, p, Saved(p))
    BY <1>1, <2>1, SavedTyped
  <2>6. Working'
    BY <1>1, <2>2, <2>5, Steps DEF tables
  <2>7. QED
    BY <1>1, <2>2, <2>4, <2>6 DEF TInv, Queued, Counted, queue, world
<1>5. ASSUME NEW i \in Ids, NEW seen \in Ids, Poll(p, i, seen) PROVE TInv'
  <2> DEFINE m == Lookup(i)
             reg(alias, j) == [engine |-> "legacy", channel |-> m.channel, alias |-> alias,
                               origin |-> m.origin, ids |-> <<j>>]
             record == [Idle EXCEPT !.id = i, !.pc = "record"]
             other(pc, new) == [Idle EXCEPT !.id = i, !.pc = pc, !.reg = new]
  <2>1. /\ m # None
        /\ UNCHANGED <<tables, cache, queue, answer, faults, reader, deleting, deleted, crashes>>
        /\ \/ Set(p, record) \/ Set(p, other("rename", reg(seen, i)))
           \/ Set(p, other("run", reg(m.alias, seen)))
    BY <1>5 DEF Poll
  <2>2. m \in Mapping
    BY <1>1, <2>1, LookupTyped
  <2>3. Tables'
    BY <1>1, <2>1 DEF Tables, tables
  <2>4. ASSUME NEW alias \in Ids, NEW j \in Ids
        PROVE  reg(alias, j) \in Registration /\ 1 \in DOMAIN reg(alias, j).ids
    <3>1. reg(alias, j) \in Registration
      BY <2>2 DEF Mapping, Registration
    <3>2. QED
      BY <3>1, RegistrationIds
  <2>5. record \in Routine /\ Proper(runs, p, record)
    BY DEF Idle, Routine, PCs, Proper
  <2>6. ASSUME NEW pc \in {"run", "rename"}, NEW new \in Registration, 1 \in DOMAIN new.ids
        PROVE  other(pc, new) \in Routine /\ Proper(runs, p, other(pc, new))
    BY <2>6 DEF Idle, Routine, PCs, Proper
  <2>7. m.alias \in Ids
    BY <2>2 DEF Mapping
  <2> HIDE DEF m, reg, record, other
  <2>8. \E rec \in Routine : Set(p, rec) /\ Proper(runs, p, rec)
    <3>1. CASE Set(p, record)
      BY <2>5, <3>1
    <3>2. CASE Set(p, other("rename", reg(seen, i)))
      BY <2>4, <2>6, <3>2
    <3>3. CASE Set(p, other("run", reg(m.alias, seen)))
      BY <2>4, <2>6, <2>7, <3>3
    <3>4. QED
      BY <2>1, <3>1, <3>2, <3>3
  <2>9. Working'
    BY <1>1, <2>1, <2>8, Steps DEF tables
  <2>10. QED
    BY <1>1, <2>1, <2>3, <2>9 DEF TInv, Queued, Counted, queue
<1>6. QED
  BY <1>2, <1>3, <1>4, <1>5, <1>7 DEF PollStep

LEMMA TypesByWorker ==
    ASSUME TaskMappingsAssumption, TInv, WorkerStep
    PROVE  TInv'
<1> DEFINE act == actor[Worker]
<1>1. /\ Tables /\ Queued /\ Counted /\ Working
      /\ Worker \in Actors /\ Worker \notin Polls
      /\ act \in Routine /\ Proper(runs, Worker, act)
  BY Held DEF TInv, Actors, TaskMappingsAssumption
<1>2. CASE Reconcile
  <2> DEFINE next == [Idle EXCEPT !.pc = "next", !.batch = LoadedPending,
                                  !.known = LoadedDurable]
  <2>1. /\ pending' = LoadedPending /\ durable' = LoadedDurable /\ loaded' = TRUE
        /\ Set(Worker, Idle) \/ Set(Worker, next)
        /\ UNCHANGED <<tables, cache, journal, torn, swallowed, answer, faults, world>>
    BY <1>2 DEF Reconcile
  <2>2. /\ LoadedPending \subseteq Registration /\ LoadedDurable \subseteq LoadedPending
        /\ pending \subseteq LoadedPending
    BY <1>1 DEF Queued, LoadedPending, LoadedDurable
  <2>3. Idle \in Routine /\ Proper(runs, Worker, Idle)
    BY DEF Idle, Routine, PCs, Proper
  <2>4. next \in Routine /\ Proper(runs, Worker, next)
    <3>1. LoadedPending \in SUBSET Registration /\ LoadedDurable \in SUBSET Registration
      BY <2>2
    <3>2. next \in Routine
      BY <2>3, <3>1 DEF Routine, PCs
    <3>3. next.pc = "next"
      BY DEF Idle
    <3> HIDE DEF next
    <3>4. QED
      BY <1>1, <3>2, <3>3 DEF Proper
  <2>5. Working'
    <3>1. runs' = runs
      BY <2>1 DEF tables
    <3> HIDE DEF next
    <3>2. PICK rec \in {Idle, next} : Set(Worker, rec)
      BY <2>1
    <3>3. rec \in Routine /\ Proper(runs', Worker, rec)
      BY <2>3, <2>4, <3>1
    <3>4. QED
      BY <1>1, <3>1, <3>2, <3>3, Steps
  <2>6. Queued'
    BY <1>1, <2>1, <2>2 DEF Queued
  <2>7. QED
    BY <1>1, <2>1, <2>5, <2>6 DEF TInv, Tables, Counted, tables, world
<1>3. CASE RecoverNext
  <2>1. CASE act.batch = {}
    <3>1. Ends(Worker) /\ UNCHANGED <<queue, faults, tables, cache, answer, world>>
      BY <1>3, <2>1 DEF RecoverNext
    <3>2. Working'
      BY <1>1, <3>1, EndsTyped DEF tables
    <3>3. QED
      BY <1>1, <3>1, <3>2 DEF TInv, Tables, Queued, Counted, tables, queue, world
  <2>2. ASSUME NEW reg \in act.batch,
               LET rec == [act EXCEPT !.reg = reg, !.batch = @ \ {reg}]
               IN  \/ /\ reg \in rec.known
                      /\ Set(Worker, [rec EXCEPT !.pc = Entry(reg)])
                      /\ UNCHANGED <<queue, faults>>
                   \/ /\ reg \notin rec.known
                      /\ Journals(reg, TRUE)
                      /\ Set(Worker, [rec EXCEPT !.pc = "announce"])
                   \/ /\ reg \notin rec.known
                      /\ Journals(reg, FALSE)
                      /\ Set(Worker, [rec EXCEPT !.reg = NoRegistration])
        PROVE  TInv'
    <3> DEFINE rec == [act EXCEPT !.reg = reg, !.batch = @ \ {reg}]
    <3>1. act.pc = "next" /\ UNCHANGED <<tables, cache, answer, world>>
      BY <1>3 DEF RecoverNext
    <3>2. reg \in Registration
      BY <1>1 DEF Routine
    <3>3. rec \in Routine /\ rec.reg = reg
      BY <1>1, <3>2 DEF Routine
    <3>4. ASSUME NEW pc \in {"ensure", "run", "announce"}
          PROVE  [rec EXCEPT !.pc = pc] \in Routine /\ Proper(runs, Worker, [rec EXCEPT !.pc = pc])
      BY <1>1, <3>2, <3>3 DEF Routine, PCs, Proper
    <3>5. /\ [rec EXCEPT !.reg = NoRegistration] \in Routine
          /\ Proper(runs, Worker, [rec EXCEPT !.reg = NoRegistration])
      BY <1>1, <3>1 DEF Routine, Proper
    <3>6. PICK pc \in {"ensure", "run"} : pc = Entry(reg)
      BY DEF Entry
    <3>7. /\ \/ UNCHANGED <<queue, faults>>
             \/ \E ok \in BOOLEAN : Journals(reg, ok)
          /\ \/ Set(Worker, [rec EXCEPT !.pc = pc])
             \/ Set(Worker, [rec EXCEPT !.pc = "announce"])
             \/ Set(Worker, [rec EXCEPT !.reg = NoRegistration])
      BY <2>2, <3>6
    <3>8. Working'
      BY <1>1, <3>1, <3>4, <3>5, <3>7, Steps DEF tables
    <3>9. Queued' /\ faults' \in 0 .. MaxFaults
      BY <1>1, <3>2, <3>7, JournalsTyped DEF Queued, Counted, queue
    <3>10. QED
      BY <1>1, <3>1, <3>8, <3>9 DEF TInv, Tables, Counted, tables, world
  <2>3. QED
    BY <1>3, <2>1, <2>2 DEF RecoverNext
<1>4. CASE Acknowledge
  <2> DEFINE next == [act EXCEPT !.pc = "next", !.reg = NoRegistration, !.run = None]
  <2>1. Set(Worker, next) /\ UNCHANGED <<tables, cache, loaded, answer, world>>
    BY <1>4 DEF Acknowledge
  <2>2. next \in Routine /\ Proper(runs, Worker, next)
    BY <1>1 DEF Routine, PCs, Proper
  <2>3. Working'
    BY <1>1, <2>1, <2>2, Steps DEF tables
  <2>4. Queued'
    BY <1>1, <1>4 DEF Acknowledge, Queued, Acked, Breaks
  <2>5. faults' \in 0 .. MaxFaults
    BY <1>1, <1>4, FaultCounted DEF Acknowledge, Counted
  <2>6. QED
    BY <1>1, <2>1, <2>3, <2>4, <2>5 DEF TInv, Tables, Counted, tables, world
<1>5. QED
  BY <1>2, <1>3, <1>4 DEF WorkerStep

LEMMA TypesByOthers ==
    ASSUME TaskMappingsAssumption, TInv,
           \/ \E i \in Ids : Load(i) \/ Evict(i)
           \/ Loaded \/ InvalidateChannel \/ Crash
           \/ \E c \in Channels : DeleteChannel(c)
    PROVE  TInv'
<1>1. Tables /\ Queued /\ Counted /\ Working
  BY DEF TInv
<1>2. ASSUME NEW i \in Ids, Load(i) PROVE TInv'
  <2>1. Tables'
    BY <1>1, <1>2 DEF Tables, Load, tables
  <2>2. QED
    BY <1>1, <1>2, <2>1 DEF TInv, Queued, Counted, Working, Load, tables, queue
<1>3. ASSUME NEW i \in Ids, Evict(i) PROVE TInv'
  BY <1>1, <1>3 DEF TInv, Tables, Queued, Counted, Working, Evict, tables, queue, world
<1>4. CASE Loaded
  <2>1. Tables'
    BY <1>1, <1>4 DEF Tables, Loaded, tables
  <2>2. QED
    BY <1>1, <1>4, <2>1 DEF TInv, Queued, Counted, Working, Loaded, tables, queue
<1>5. CASE InvalidateChannel
  BY <1>1, <1>5 DEF TInv, Tables, Queued, Counted, Working, InvalidateChannel, tables, queue
<1>6. ASSUME NEW c \in Channels, DeleteChannel(c) PROVE TInv'
  BY <1>1, <1>6 DEF TInv, Tables, Queued, Counted, Working, DeleteChannel, queue
<1>7. CASE Crash
  <2>1. Idle \in Routine /\ \A a \in Actors : Proper(runs, a, Idle)
    BY DEF Idle, Routine, PCs, Proper
  <2>2. Working'
    BY <1>7, <2>1 DEF Crash, Working, tables
  <2>3. crashes' \in 0 .. MaxCrashes
    BY <1>1, <1>7 DEF Crash, Counted, TaskMappingsAssumption
  <2>4. answer' \in [Creates -> {"none", "stored", "pending", "conflict", "failed", "lost"}]
    BY <1>1, <1>7 DEF Crash, Counted
  <2>5. torn' \in BOOLEAN
    BY <1>1, <1>7 DEF Crash, Queued
  <2>6. QED
    BY <1>1, <1>7, <2>2, <2>3, <2>4, <2>5 DEF TInv, Crash, Tables, Queued, Counted, tables
<1>8. QED
  BY <1>2, <1>3, <1>4, <1>5, <1>6, <1>7

LEMMA TypesAtFirst == ASSUME TaskMappingsAssumption, Init PROVE TInv
<1>1. Idle \in Routine /\ \A a \in Actors : Proper(runs, a, Idle)
  BY DEF Idle, Routine, PCs, Proper
<1>2. Working
  BY <1>1 DEF Init, Working
<1>3. Tables /\ Queued
  BY DEF Init, Tables, Queued
<1>4. Counted
  <2>1. MaxFaults \in Nat /\ MaxCrashes \in Nat
    BY DEF TaskMappingsAssumption
  <2>2. faults = 0 /\ crashes = 0 /\ answer = [r \in Creates |-> "none"]
    BY DEF Init
  <2>3. QED
    BY <2>1, <2>2 DEF Counted
<1>5. QED
  BY <1>2, <1>3, <1>4 DEF TInv

\* The steps of Next, by who takes them.
LEMMA StepCases ==
    ASSUME Next
    PROVE  \/ \E a \in Actors : Choose(a) \/ Freeze(a) \/ Look(a) \/ RecordTaskAlias(a)
                                \/ EnsureTaskMappings(a) \/ Publish(a) \/ Interrupted(a)
           \/ \E a \in Actors : Enqueue(a) \/ Announce(a) \/ Over(a)
           \/ \E r \in Creates : Accept(r) \/ Disambiguate(r) \/ Project(r) \/ Attach(r)
           \/ \E p \in Polls : PollStep(p) \/ \E i, j \in Ids : Poll(p, i, j)
           \/ WorkerStep
           \/ \E i \in Ids : Load(i) \/ Evict(i)
           \/ Loaded \/ InvalidateChannel \/ Crash
           \/ \E c \in Channels : DeleteChannel(c)
<1>1. CASE \E a \in Actors : RoutineStep(a) \/ Interrupted(a)
  BY <1>1 DEF RoutineStep
<1>2. CASE \E r \in Creates : Accept(r) \/ CreateStep(r)
  BY <1>2 DEF CreateStep
<1>3. QED
  BY <1>1, <1>2 DEF Next

LEMMA TypesKept ==
    ASSUME TaskMappingsAssumption, TInv, [Next]_vars
    PROVE  TInv'
<1>1. CASE Next
  BY <1>1, StepCases, TypesByPersisting, TypesByJournaling, TypesByCreation, TypesByPoll,
     TypesByWorker, TypesByOthers
<1>2. CASE UNCHANGED vars
  BY <1>2 DEF TInv, Tables, Queued, Counted, Working, vars, tables, queue, world
<1>3. QED
  BY <1>1, <1>2

LEMMA TypesInvariant == ASSUME TaskMappingsAssumption PROVE Spec => []TInv
BY TypesAtFirst, TypesKept, PTL DEF Spec

\* Rows, registrations and runs are what the code makes, whoever writes them; an
\* ID's run is one that was stored before it.
THEOREM TypesHold == ASSUME TaskMappingsAssumption PROVE Spec => []TypeOK
<1>1. TInv => TypeOK
  <2> SUFFICES ASSUME TInv PROVE TypeOK
    OBVIOUS
  <2>1. \A a \in Actors : actor[a].reg \in Registration \cup {NoRegistration}
    BY DEF TInv, Working, Routine
  <2>2. QED
    BY <2>1 DEF TInv, Tables, Queued, Counted, TypeOK
<1>2. QED
  BY <1>1, TypesInvariant, PTL

-----------------------------------------------------------------------------
(* What a step of a routine leaves of its record. *)

\* The record of `a` is replaced by one with the registration it had, or none,
\* and with no more in its batch; and which step it is at next.
Goes(a, pcs) ==
    /\ actor' = [actor EXCEPT ![a] = actor'[a]]
    /\ actor'[a].pc \in pcs
    /\ actor'[a].reg \in {actor[a].reg, NoRegistration}
    /\ actor'[a].batch \subseteq actor[a].batch

LEMMA SetGoes ==
    ASSUME Working, NEW a \in Actors, NEW rec, Set(a, rec), NEW pcs, rec.pc \in pcs,
           rec.reg \in {actor[a].reg, NoRegistration}, rec.batch \subseteq actor[a].batch
    PROVE  Goes(a, pcs)
<1>1. actor'[a] = rec /\ actor' = [actor EXCEPT ![a] = rec]
  BY DEF Working, Set
<1>2. QED
  BY <1>1 DEF Goes

LEMMA FailsGoes ==
    ASSUME Working, NEW a \in Actors, NEW conflict \in BOOLEAN, Fails(a, conflict)
    PROVE  Goes(a, {"next", "enqueue", "record", "over", "project"})
<1> DEFINE act == actor[a]
           rec == [act EXCEPT !.fresh = {}, !.left = 1, !.run = None]
           pcs == {"next", "enqueue", "record", "over", "project"}
<1>1. act \in Routine
  BY Held
<1>2. rec.reg = act.reg /\ rec.batch = act.batch
  BY <1>1 DEF Routine
<1>3. \/ Set(a, [rec EXCEPT !.pc = "next", !.reg = NoRegistration])
      \/ \E pc \in pcs : Set(a, [rec EXCEPT !.pc = pc])
  BY DEF Fails
<1>4. ASSUME NEW pc \in pcs
      PROVE  LET new == [rec EXCEPT !.pc = pc]
             IN  new.pc \in pcs /\ new.reg = act.reg /\ new.batch = act.batch
  BY <1>1 DEF Routine
<1>5. LET new == [rec EXCEPT !.pc = "next", !.reg = NoRegistration]
      IN  new.pc \in pcs /\ new.reg = NoRegistration /\ new.batch = act.batch
  BY <1>1 DEF Routine
<1>6. QED
  BY <1>3, <1>4, <1>5, SetGoes

LEMMA SucceedsGoes ==
    ASSUME Working, NEW a \in Actors, Succeeds(a)
    PROVE  /\ Goes(a, {"ack", "record", "run", "project"})
           /\ actor'[a].reg = actor[a].reg
<1> DEFINE act == actor[a]
           rec == [act EXCEPT !.fresh = {}, !.left = 1]
           pcs == {"ack", "record", "run", "project"}
<1>1. act \in Routine
  BY Held
<1>2. \/ Set(a, [rec EXCEPT !.pc = "run", !.again = TRUE])
      \/ \E pc \in pcs : Set(a, [rec EXCEPT !.pc = pc])
  BY DEF Succeeds
<1>3. ASSUME NEW pc \in pcs
      PROVE  LET new == [rec EXCEPT !.pc = pc]
             IN  new.pc \in pcs /\ new.reg = act.reg /\ new.batch = act.batch
  BY <1>1 DEF Routine
<1>4. LET new == [rec EXCEPT !.pc = "run", !.again = TRUE]
      IN  new.pc \in pcs /\ new.reg = act.reg /\ new.batch = act.batch
  BY <1>1 DEF Routine
<1>5. \A new : Set(a, new) => actor'[a] = new
  BY DEF Set, Working
<1>6. QED
  BY <1>2, <1>3, <1>4, <1>5, SetGoes

LEMMA AdvancedGoes ==
    ASSUME Working, NEW a \in Actors, Set(a, Advanced(a))
    PROVE  Goes(a, {"look", "over", "ensure"})
<1> DEFINE act == actor[a]
           last == act.left = Len(act.reg.ids)
           rec == [act EXCEPT !.left = IF last THEN 1 ELSE @ + 1]
           pc == IF ~last THEN "look" ELSE IF rec.again THEN "over" ELSE "ensure"
<1>1. act \in Routine
  BY Held
<1>2. Advanced(a) = [rec EXCEPT !.pc = pc]
  BY DEF Advanced
<1>3. /\ [rec EXCEPT !.pc = pc].pc = pc /\ [rec EXCEPT !.pc = pc].reg = act.reg
      /\ [rec EXCEPT !.pc = pc].batch = act.batch
  BY <1>1 DEF Routine
<1>4. pc \in {"look", "over", "ensure"}
  OBVIOUS
<1>5. /\ Advanced(a).pc \in {"look", "over", "ensure"}
      /\ Advanced(a).reg = act.reg /\ Advanced(a).batch = act.batch
  BY <1>2, <1>3, <1>4
<1> HIDE DEF pc, rec, last
<1>6. QED
  BY <1>5, SetGoes

LEMMA FieldGoes ==
    ASSUME Working, NEW a \in Actors, NEW pc, Set(a, [actor[a] EXCEPT !.pc = pc])
    PROVE  Goes(a, {pc}) /\ actor'[a].reg = actor[a].reg
<1> DEFINE new == [actor[a] EXCEPT !.pc = pc]
<1>1. new.pc = pc /\ new.reg = actor[a].reg /\ new.batch = actor[a].batch
  BY Held DEF Routine
<1>2. actor'[a] = new
  BY DEF Set, Working
<1>3. QED
  BY <1>1, <1>2, SetGoes

LEMMA IdleGoes ==
    ASSUME Working, NEW a \in Actors, NEW pc, Set(a, [Idle EXCEPT !.pc = pc])
    PROVE  Goes(a, {pc})
<1> DEFINE new == [Idle EXCEPT !.pc = pc]
<1>1. new.pc = pc /\ new.reg = NoRegistration /\ new.batch = {}
  BY DEF Idle
<1>2. QED
  BY <1>1, SetGoes

LEMMA EndsGoes ==
    ASSUME Working, NEW a \in Actors, Ends(a)
    PROVE  Goes(a, {"idle"})
<1>1. Idle.pc = "idle" /\ Idle.reg = NoRegistration /\ Idle.batch = {}
  BY DEF Idle
<1>2. QED
  BY <1>1, SetGoes DEF Ends

LEMMA RoutineGoes ==
    ASSUME Working, NEW a \in Actors
    PROVE  /\ Choose(a) => Goes(a, {"over", "ensure", "freeze"})
           /\ Freeze(a) => Goes(a, {"look"})
           /\ Look(a) => Goes(a, {"look", "over", "ensure", "alias"})
           /\ RecordTaskAlias(a) =>
                 Goes(a, {"look", "ensure", "next", "enqueue", "record", "over", "project"})
           /\ Publish(a) => /\ Goes(a, {"ack", "record", "run", "project"})
                            /\ actor'[a].reg = actor[a].reg
           /\ Interrupted(a) => Goes(a, {"next", "enqueue", "record", "over", "project"})
           /\ Announce(a) => Goes(a, {"ensure", "run", "record", "over", "project"})
           /\ Over(a) => Goes(a, {"idle"})
<1> DEFINE act == actor[a]
<1>1. ASSUME Choose(a) PROVE Goes(a, {"over", "ensure", "freeze"})
  <2> DEFINE new == [act EXCEPT !.pc = "freeze", !.run = RunFor(act.reg)]
  <2>1. \/ Set(a, [act EXCEPT !.pc = "over"]) \/ Set(a, [act EXCEPT !.pc = "ensure"])
        \/ Set(a, new)
    BY <1>1 DEF Choose
  <2>2. new.pc = "freeze" /\ new.reg = act.reg /\ new.batch = act.batch
    BY Held DEF Routine
  <2> HIDE DEF new
  <2>3. ASSUME Set(a, new) PROVE Goes(a, {"over", "ensure", "freeze"})
    <3>1. new.pc \in {"over", "ensure", "freeze"}
      BY <2>2
    <3>2. QED
      BY <2>2, <2>3, <3>1, SetGoes
  <2>4. QED
    BY <2>1, <2>3, FieldGoes DEF Goes
<1>2. ASSUME Freeze(a) PROVE Goes(a, {"look"})
  <2> DEFINE new == [act EXCEPT !.pc = "look", !.left = 1]
  <2>1. Set(a, new)
    BY <1>2 DEF Freeze
  <2>2. new.pc = "look" /\ new.reg = act.reg /\ new.batch = act.batch
    BY Held DEF Routine
  <2> HIDE DEF new
  <2>3. QED
    BY <2>1, <2>2, SetGoes
<1>3. ASSUME Look(a) PROVE Goes(a, {"look", "over", "ensure", "alias"})
  <2>1. Set(a, Advanced(a)) \/ Set(a, [act EXCEPT !.pc = "alias"])
    BY <1>3 DEF Look
  <2>2. QED
    BY <2>1, AdvancedGoes, FieldGoes DEF Goes
<1>4. ASSUME RecordTaskAlias(a)
      PROVE  Goes(a, {"look", "ensure", "next", "enqueue", "record", "over", "project"})
  <2>1. Set(a, Advanced(a)) \/ Set(a, [act EXCEPT !.pc = "over"]) \/ Fails(a, FALSE)
    BY <1>4 DEF RecordTaskAlias
  <2>2. QED
    BY <2>1, AdvancedGoes, FieldGoes, FailsGoes DEF Goes
<1>5. ASSUME Announce(a) PROVE Goes(a, {"ensure", "run", "record", "over", "project"})
  <2>1. \E pc \in {"ensure", "run", "record", "over", "project"} : Set(a, [act EXCEPT !.pc = pc])
    BY <1>5 DEF Announce, Entry
  <2>2. QED
    BY <2>1, FieldGoes DEF Goes
<1>6. Publish(a) => Succeeds(a)
  BY DEF Publish
<1>7. ASSUME Interrupted(a) PROVE Goes(a, {"next", "enqueue", "record", "over", "project"})
  <2>1. Fails(a, FALSE) \/ Set(a, [act EXCEPT !.pc = "over"])
    BY <1>7 DEF Interrupted
  <2>2. QED
    BY <2>1, FieldGoes, FailsGoes DEF Goes
<1>8. Over(a) => Ends(a)
  BY DEF Over
<1>9. QED
  BY <1>1, <1>2, <1>3, <1>4, <1>5, <1>6, <1>7, <1>8, SucceedsGoes, EndsGoes

\* EnsureTaskMappings ends one way or the other: it stores nothing, or every
\* ID of the registration has a row of its channel; a row that was there keeps
\* its channel.
LEMMA EnsureResult ==
    ASSUME TaskMappingsAssumption, Tables, Working, NEW a \in Actors, EnsureTaskMappings(a)
    PROVE  \/ UNCHANGED mapping /\ Goes(a, {"next", "enqueue", "record", "over", "project"})
           \/ /\ Goes(a, {"publish"}) /\ actor'[a].reg = actor[a].reg
              /\ \A i \in ToSet(actor[a].reg.ids) :
                    /\ mapping'[i] # None
                    /\ mapping'[i].channel = actor[a].reg.channel
                    /\ \/ mapping'[i].alias = actor[a].reg.alias
                       \/ mapping'[i] = mapping[i]
              /\ \A i \in Ids \ ToSet(actor[a].reg.ids) : mapping'[i] = mapping[i]
              /\ \A i \in Ids : mapping[i] # None =>
                    /\ mapping'[i] # None
                    /\ mapping'[i].channel = mapping[i].channel
<1> DEFINE act == actor[a]
           ids == ToSet(act.reg.ids)
           taken == {i \in ids : mapping[i] # None /\ mapping[i].channel # act.reg.channel}
           missing == {i \in ids : mapping[i] = None}
           renamed == {i \in ids \ missing : mapping[i].alias = i /\ act.reg.alias # i}
           new == [act EXCEPT !.pc = "publish", !.fresh = missing \cup renamed]
           row(i) == CASE i \in missing -> MappingOf(act.reg)
                       [] i \in renamed -> [mapping[i] EXCEPT !.alias = act.reg.alias]
                       [] OTHER -> mapping[i]
<1>1. act.reg \in Registration /\ ids \subseteq Ids
  <2>1. act.reg \in Registration
    BY Held DEF EnsureTaskMappings, Proper
  <2>2. QED
    BY <2>1, RegistrationIds
<1>2. /\ MappingOf(act.reg) # None /\ MappingOf(act.reg).channel = act.reg.channel
      /\ MappingOf(act.reg).alias = act.reg.alias
  BY <1>1, RegistrationRow
<1>3. CASE taken # {}
  <2>1. Fails(a, TRUE) /\ UNCHANGED mapping
    BY <1>3 DEF EnsureTaskMappings
  <2>2. QED
    BY <2>1, FailsGoes
<1>4. CASE taken = {}
  <2>1. mapping' = [i \in Ids |-> row(i)] /\ Set(a, new)
    BY <1>4 DEF EnsureTaskMappings
  <2>2. new.pc = "publish" /\ new.reg = act.reg /\ new.batch = act.batch
    BY Held DEF Routine
  <2>3. Goes(a, {"publish"}) /\ actor'[a].reg = act.reg
    <3>1. actor'[a] = new
      BY <2>1 DEF Set, Working
    <3> HIDE DEF new
    <3>2. QED
      BY <2>1, <2>2, <3>1, SetGoes
  <2>4. ASSUME NEW i \in ids
        PROVE  /\ row(i) # None /\ row(i).channel = act.reg.channel
               /\ row(i).alias = act.reg.alias \/ row(i) = mapping[i]
    <3>1. CASE i \in missing
      BY <1>2, <3>1
    <3>2. CASE i \notin missing
      <4>1. mapping[i] # None /\ mapping[i].channel = act.reg.channel
        BY <1>4, <3>2
      <4>2. mapping[i] \in Mapping
        BY <1>1, <4>1 DEF Tables
      <4>3. act.reg.alias \in Ids
        BY <1>1 DEF Registration
      <4>4. LET r == [mapping[i] EXCEPT !.alias = act.reg.alias]
            IN  r \in Mapping /\ r.channel = mapping[i].channel /\ r.alias = act.reg.alias
        BY <4>2, <4>3 DEF Mapping
      <4>5. None \notin Mapping
        BY DEF TaskMappingsAssumption
      <4>6. row(i) = mapping[i] \/ row(i) = [mapping[i] EXCEPT !.alias = act.reg.alias]
        BY <3>2
      <4>7. QED
        BY <4>1, <4>4, <4>5, <4>6
    <3>3. QED
      BY <3>1, <3>2
  <2>5. \A i \in Ids \ ids : row(i) = mapping[i]
    OBVIOUS
  <2>6. \A i \in ids : mapping[i] # None => mapping[i].channel = act.reg.channel
    BY <1>4
  <2> HIDE DEF row, taken, missing, renamed
  <2>7. \A i \in Ids : mapping'[i] = row(i)
    BY <2>1
  <2>8. QED
    BY <1>1, <2>3, <2>4, <2>5, <2>6, <2>7
<1>5. QED
  BY <1>3, <1>4

-----------------------------------------------------------------------------
(* Ownership: a channel is written only for the IDs it has. *)

LEMMA OwnsMore ==
    ASSUME NEW G, NEW H, G \subseteq H
    PROVE  /\ \A row, i : Owns(G, row, i) => Owns(H, row, i)
           /\ \A reg : OwnsAll(G, reg) => OwnsAll(H, reg)
BY DEF Owns, OwnsAll

LEMMA OwnedWorkKept ==
    ASSUME TaskMappingsAssumption, Working, OwnedWork, NEW a \in Actors, NEW pcs,
           Goes(a, pcs), given \subseteq given'
    PROVE  OwnedWork'
<1>1. NoRegistration \notin Registration
  BY DEF NoRegistration, Registration, TaskMappingsAssumption
<1>2. ASSUME NEW b \in Actors
      PROVE  /\ actor'[b].reg \in Registration => OwnsAll(given', actor'[b].reg)
             /\ \A reg \in actor'[b].batch : OwnsAll(given', reg)
  <2>1. actor'[b].reg \in {actor[b].reg, NoRegistration} /\ actor'[b].batch \subseteq actor[b].batch
    <3>1. CASE b = a
      BY <3>1 DEF Goes
    <3>2. CASE b # a
      <4>1. actor'[b] = actor[b]
        BY <3>2 DEF Goes, Working
      <4>2. QED
        BY <4>1
    <3>3. QED
      BY <3>1, <3>2
  <2>2. QED
    BY <1>1, <2>1, OwnsMore DEF OwnedWork
<1>3. QED
  BY <1>2 DEF OwnedWork

LEMMA LookupOwned ==
    ASSUME OwnedRows, NEW i \in Ids, Lookup(i) # None
    PROVE  Owns(given, Lookup(i), i)
BY DEF OwnedRows, Lookup

LEMMA RowOwned ==
    ASSUME TaskMappingsAssumption, NEW reg \in Registration, NEW G, OwnsAll(G, reg),
           NEW i \in ToSet(reg.ids)
    PROVE  Owns(G, MappingOf(reg), i)
BY RegistrationRow DEF OwnsAll, Owns

LEMMA OwnedByPersisting ==
    ASSUME TaskMappingsAssumption, TInv, Owned, NEW a \in Actors,
           \/ Choose(a) \/ Freeze(a) \/ Look(a) \/ RecordTaskAlias(a)
           \/ EnsureTaskMappings(a) \/ Publish(a) \/ Interrupted(a) \/ Announce(a) \/ Over(a)
    PROVE  Owned'
<1> DEFINE act == actor[a]
<1>1. Tables /\ Working /\ OwnedRows /\ OwnedQueue /\ OwnedWork
  BY DEF TInv, Owned
<1>2. act.reg \in Registration => OwnsAll(given, act.reg)
  BY <1>1 DEF OwnedWork
<1>3. /\ UNCHANGED <<given, reader, journal, pending>>
  BY DEF Choose, Freeze, Look, RecordTaskAlias, EnsureTaskMappings, Publish, Interrupted,
     Announce, Over, queue, world
<1>4. OwnedQueue'
  BY <1>1, <1>3 DEF OwnedQueue
<1>5. ASSUME NEW pcs, Goes(a, pcs) PROVE OwnedWork'
  BY <1>1, <1>3, <1>5, OwnedWorkKept
<1>6. CASE \/ Choose(a) \/ Freeze(a) \/ Look(a) \/ RecordTaskAlias(a) \/ Interrupted(a)
           \/ Over(a)
  <2>1. UNCHANGED <<mapping, cache>>
    BY <1>6 DEF Choose, Freeze, Look, RecordTaskAlias, Interrupted, Over, tables
  <2>2. OwnedWork'
    BY <1>1, <1>5, <1>6, RoutineGoes
  <2>3. OwnedRows'
    BY <1>1, <1>3, <2>1 DEF OwnedRows
  <2>4. QED
    BY <1>4, <2>2, <2>3 DEF Owned
<1>7. CASE EnsureTaskMappings(a)
  <2>1. cache' = cache /\ act.reg \in Registration
    BY <1>1, <1>7, Held DEF EnsureTaskMappings, Proper
  <2>2. OwnedWork'
    BY <1>1, <1>5, <1>7, EnsureResult
  <2>3. ASSUME NEW i \in Ids PROVE Owns(given, mapping'[i], i)
    <3>1. CASE mapping'[i] = mapping[i]
      BY <1>1, <3>1 DEF OwnedRows
    <3>2. CASE mapping'[i] # mapping[i]
      <4>1. /\ i \in ToSet(act.reg.ids)
            /\ mapping'[i].channel = act.reg.channel /\ mapping'[i].alias = act.reg.alias
        BY <1>1, <1>7, <3>2, EnsureResult
      <4>2. QED
        BY <1>2, <2>1, <4>1 DEF Owns, OwnsAll
    <3>3. QED
      BY <3>1, <3>2
  <2>4. OwnedRows'
    BY <1>1, <1>3, <2>1, <2>3 DEF OwnedRows
  <2>5. QED
    BY <1>4, <2>2, <2>4 DEF Owned
<1>8. CASE Publish(a) \/ Announce(a)
  <2>1. /\ mapping' = mapping /\ act.pc \in {"publish", "announce"}
        /\ \/ cache' = [i \in Ids |-> IF i \in act.fresh THEN MappingOf(act.reg) ELSE cache[i]]
           \/ cache' = [i \in Ids |->
                          IF i \in ToSet(act.reg.ids) THEN MappingOf(act.reg) ELSE cache[i]]
        /\ act.pc = "announce" =>
              cache' = [i \in Ids |->
                          IF i \in ToSet(act.reg.ids) THEN MappingOf(act.reg) ELSE cache[i]]
    BY <1>8 DEF Publish, Announce, Announced, tables
  <2>2. act.reg \in Registration /\ (act.pc = "publish" => act.fresh \subseteq ToSet(act.reg.ids))
    BY <1>1, <2>1, Held DEF Proper
  <2>3. \A i \in ToSet(act.reg.ids) : Owns(given, MappingOf(act.reg), i)
    BY <1>2, <2>2, RowOwned
  <2>4. \A i \in Ids : Owns(given, cache'[i], i)
    BY <1>1, <2>1, <2>2, <2>3 DEF OwnedRows
  <2>5. OwnedWork'
    BY <1>1, <1>5, <1>8, RoutineGoes
  <2>6. OwnedRows'
    BY <1>1, <1>3, <2>1, <2>4 DEF OwnedRows
  <2>7. QED
    BY <1>4, <2>5, <2>6 DEF Owned
<1>9. QED
  BY <1>6, <1>7, <1>8

LEMMA JournalsOwned ==
    ASSUME OwnedQueue, NEW reg, OwnsAll(given, reg), NEW ok \in BOOLEAN, Journals(reg, ok),
           given' = given
    PROVE  OwnedQueue'
<1>1. pending' \subseteq LoadedPending \cup {reg}
  BY DEF Journals, LoadedPending
<1>2. journal' \subseteq journal \cup {reg}
  BY DEF Journals, Lands, Breaks
<1>3. LoadedPending \subseteq journal \cup pending
  BY DEF LoadedPending
<1>4. QED
  BY <1>1, <1>2, <1>3 DEF OwnedQueue

LEMMA OwnedByEnqueue ==
    ASSUME TaskMappingsAssumption, TInv, Owned, NEW a \in Actors, Enqueue(a)
    PROVE  Owned'
<1> DEFINE act == actor[a]
<1>1. Tables /\ Working /\ OwnedRows /\ OwnedQueue /\ OwnedWork
  BY DEF TInv, Owned
<1>2. act.reg \in Registration /\ OwnsAll(given, act.reg)
  BY <1>1, Held DEF OwnedWork, Enqueue, Proper
<1>3. /\ \E ok \in BOOLEAN : Journals(act.reg, ok)
      /\ \E pc \in {"record", "over", "project", "announce"} : Set(a, [act EXCEPT !.pc = pc])
      /\ UNCHANGED <<mapping, cache, given, reader>>
  BY DEF Enqueue, tables, world
<1>4. OwnedQueue'
  BY <1>1, <1>2, <1>3, JournalsOwned
<1>5. OwnedWork'
  BY <1>1, <1>3, FieldGoes, OwnedWorkKept
<1>6. OwnedRows'
  BY <1>1, <1>3 DEF OwnedRows
<1>7. QED
  BY <1>4, <1>5, <1>6 DEF Owned

LEMMA OwnedWorkSet ==
    ASSUME Working, OwnedWork, NEW a \in Actors, NEW rec, Set(a, rec), given \subseteq given',
           rec.reg \in Registration => OwnsAll(given', rec.reg),
           \A reg \in rec.batch : OwnsAll(given', reg)
    PROVE  OwnedWork'
<1>1. ASSUME NEW b \in Actors
      PROVE  /\ actor'[b].reg \in Registration => OwnsAll(given', actor'[b].reg)
             /\ \A reg \in actor'[b].batch : OwnsAll(given', reg)
  <2>1. CASE b = a
    <3>1. actor'[b] = rec
      BY <2>1 DEF Set, Working
    <3>2. QED
      BY <3>1
  <2>2. CASE b # a
    <3>1. actor'[b] = actor[b]
      BY <2>2 DEF Set, Working
    <3>2. QED
      BY <3>1, OwnsMore DEF OwnedWork
  <2>3. QED
    BY <2>1, <2>2
<1>2. QED
  BY <1>1 DEF OwnedWork

LEMMA OwnedRowsMore ==
    ASSUME OwnedRows, UNCHANGED <<mapping, cache, reader>>, given \subseteq given'
    PROVE  OwnedRows'
BY OwnsMore DEF OwnedRows

LEMMA OwnedQueueMore ==
    ASSUME OwnedQueue, UNCHANGED <<journal, pending>>, given \subseteq given'
    PROVE  OwnedQueue'
BY OwnsMore DEF OwnedQueue

LEMMA OwnedByCreation ==
    ASSUME TaskMappingsAssumption, TInv, Owned, NEW r \in Creates,
           Accept(r) \/ Disambiguate(r) \/ Project(r) \/ Attach(r)
    PROVE  Owned'
<1> DEFINE act == actor[r]
<1>1. Working /\ OwnedRows /\ OwnedQueue /\ OwnedWork /\ r \in Actors
  BY DEF TInv, Owned, Actors
<1>2. act \in Routine /\ (act.pc \notin {"idle", "next", "over", "record"} =>
                             act.reg \in Registration /\ OwnsAll(given, act.reg))
  BY <1>1, Held DEF OwnedWork, Proper
<1>3. UNCHANGED <<mapping, cache, reader, journal, pending>> /\ given \subseteq given'
  BY DEF Accept, Disambiguate, Project, Attach, tables, queue, world
<1>4. OwnedRows' /\ OwnedQueue'
  BY <1>1, <1>3, OwnedRowsMore, OwnedQueueMore
<1>5. CASE Accept(r)
  <2>1. PICK c \in Channels \ deleted, engine \in Engines, ids \in Replies :
          /\ given' = given \cup {<<c, i>> : i \in ToSet(ids)}
          /\ Set(r, [Idle EXCEPT !.pc = "names",
                     !.reg = [engine |-> engine, channel |-> c, alias |-> ids[1],
                              origin |-> r, ids |-> ids]])
    BY <1>5 DEF Accept
  <2> DEFINE reg == [engine |-> engine, channel |-> c, alias |-> ids[1],
                     origin |-> r, ids |-> ids]
             new == [Idle EXCEPT !.pc = "names", !.reg = reg]
  <2>2. ids[1] \in ToSet(ids)
    <3>1. ids \in Seq(ProviderIds) /\ ids # <<>>
      BY DEF TaskMappingsAssumption
    <3>2. QED
      BY <3>1 DEF ToSet
  <2>3. OwnsAll(given', reg)
    BY <2>1, <2>2 DEF OwnsAll
  <2>4. new.reg = reg /\ new.batch = {}
    BY DEF Idle
  <2>5. OwnedWork'
    BY <1>1, <1>3, <2>1, <2>3, <2>4, OwnedWorkSet
  <2>6. QED
    BY <1>4, <2>5 DEF Owned
<1>6. CASE Disambiguate(r)
  <2>1. PICK named \in {act.reg, [act.reg EXCEPT !.ids = <<r>>]} :
          /\ Set(r, [act EXCEPT !.reg = named, !.pc = Entry(named)])
          /\ given' = given \cup {<<act.reg.channel, i>> : i \in ToSet(named.ids)}
    BY <1>6 DEF Disambiguate
  <2> DEFINE new == [act EXCEPT !.reg = named, !.pc = Entry(named)]
  <2>2. act.reg \in Registration /\ OwnsAll(given, act.reg)
    BY <1>2, <1>6 DEF Disambiguate
  <2>3. named.channel = act.reg.channel /\ named.alias = act.reg.alias
    BY <2>2 DEF Registration
  <2>4. OwnsAll(given', named)
    BY <2>1, <2>2, <2>3 DEF OwnsAll
  <2>5. new.reg = named /\ new.batch = act.batch
    BY <1>2 DEF Routine
  <2>6. \A reg \in act.batch : OwnsAll(given', reg)
    BY <1>1, <1>3, OwnsMore DEF OwnedWork
  <2>7. OwnedWork'
    BY <1>1, <1>3, <2>1, <2>4, <2>5, <2>6, OwnedWorkSet
  <2>8. QED
    BY <1>4, <2>7 DEF Owned
<1>7. CASE Project(r) \/ Attach(r)
  <2> DEFINE run == [engine |-> "profile", channel |-> act.reg.channel,
                     alias |-> act.reg.alias, origin |-> r]
             attach == [act EXCEPT !.pc = "attach", !.run = run, !.left = 1]
             next == [act EXCEPT !.left = act.left + 1]
             over == [act EXCEPT !.pc = "over"]
  <2>1. Set(r, attach) \/ Set(r, next) \/ Set(r, over)
    BY <1>7 DEF Project, Attach
  <2>2. \A new \in {attach, next, over} : new.reg = act.reg /\ new.batch = act.batch
    BY <1>2 DEF Routine
  <2>3. /\ act.reg \in Registration => OwnsAll(given', act.reg)
        /\ \A reg \in act.batch : OwnsAll(given', reg)
    BY <1>1, <1>3, OwnsMore DEF OwnedWork
  <2> HIDE DEF attach, next, over
  <2>4. OwnedWork'
    BY <1>1, <1>3, <2>1, <2>2, <2>3, OwnedWorkSet
  <2>5. QED
    BY <1>4, <2>4 DEF Owned
<1>8. QED
  BY <1>5, <1>6, <1>7

LEMMA OwnedByPoll ==
    ASSUME TaskMappingsAssumption, TInv, Owned, NEW p \in Polls,
           PollStep(p) \/ \E i, j \in Ids : Poll(p, i, j)
    PROVE  Owned'
<1> DEFINE act == actor[p]
<1>1. /\ Tables /\ Working /\ OwnedRows /\ OwnedQueue /\ OwnedWork
      /\ p \in Actors /\ act \in Routine /\ Proper(runs, p, act)
  BY Held DEF TInv, Owned, Actors
<1>2. act.reg \in Registration => OwnsAll(given, act.reg)
  BY <1>1 DEF OwnedWork
<1>3. CASE Record(p)
  <2> DEFINE m == Lookup(act.id)
             i == act.id
             reg == [engine |-> "legacy", channel |-> m.channel, alias |-> m.alias,
                     origin |-> m.origin,
                     ids |-> IF m.alias # i /\ ~Elsewhere(m.alias, m.channel)
                             THEN <<i, m.alias>> ELSE <<i>>]
             over == [Idle EXCEPT !.pc = "over"]
             new == [act EXCEPT !.pc = "compare", !.reg = reg, !.left = 1]
  <2>1. act.pc = "record" /\ act.id \in Ids
    BY <1>1, <1>3 DEF Record, Proper
  <2>2. UNCHANGED <<mapping, cache, reader, journal, pending, given>>
    BY <1>3 DEF Record, tables, queue, world
  <2>3. Set(p, over) \/ (m # None /\ Set(p, new))
    BY <1>3 DEF Record
  <2>4. ASSUME m # None PROVE OwnsAll(given, reg)
    <3>1. {<<m.channel, i>>, <<m.channel, m.alias>>} \subseteq given
      BY <1>1, <2>1, <2>4, LookupOwned DEF Owns
    <3>2. \A j \in ToSet(reg.ids) : j = i \/ j = m.alias
      BY DEF ToSet
    <3>3. reg.channel = m.channel /\ reg.alias = m.alias
      OBVIOUS
    <3> HIDE DEF reg
    <3>4. QED
      BY <3>1, <3>2, <3>3 DEF OwnsAll
  <2>5. new.reg = reg /\ new.batch = act.batch
    BY <1>1 DEF Routine
  <2>6. \A q \in act.batch : OwnsAll(given, q)
    BY <1>1 DEF OwnedWork
  <2> HIDE DEF reg, new
  <2>7. OwnedWork'
    BY <1>1, <2>2, <2>3, <2>4, <2>5, <2>6, OwnedWorkSet, IdleGoes, OwnedWorkKept
  <2>8. QED
    BY <1>1, <2>2, <2>7, OwnedRowsMore, OwnedQueueMore DEF Owned
<1>4. ASSUME Set(p, Compared(p)), act.pc \in {"compare", "save", "saved"}, given' = given
      PROVE  OwnedWork'
  <2> DEFINE last == act.left = Len(act.reg.ids)
             pc == IF last THEN "run" ELSE "compare"
             new == [act EXCEPT !.left = IF last THEN 1 ELSE @ + 1, !.again = last, !.pc = pc]
  <2>1. Compared(p) = new
    BY DEF Compared
  <2>2. new.pc = pc /\ new.reg = act.reg /\ new.batch = act.batch
    BY <1>1 DEF Routine
  <2> HIDE DEF new
  <2>3. Goes(p, {pc})
    BY <1>1, <1>4, <2>1, <2>2, SetGoes
  <2>4. QED
    BY <1>1, <1>4, <2>3, OwnedWorkKept
<1>5. CASE Compare(p)
  <2>1. /\ UNCHANGED <<mapping, cache, reader, journal, pending, given>> /\ act.pc = "compare"
        /\ Set(p, Compared(p)) \/ Set(p, [act EXCEPT !.pc = "save"])
    BY <1>5 DEF Compare, tables, queue, world
  <2>2. OwnedWork'
    BY <1>1, <1>4, <2>1, FieldGoes, OwnedWorkKept
  <2>3. QED
    BY <1>1, <2>1, <2>2, OwnedRowsMore, OwnedQueueMore DEF Owned
<1>6. ASSUME Set(p, Saved(p)), act.pc \in {"save", "saved", "rename", "renamed"}, given' = given
      PROVE  OwnedWork'
  <2> DEFINE record == [Idle EXCEPT !.pc = "record", !.id = act.id]
  <2>1. record.reg = NoRegistration /\ record.batch = {} /\ NoRegistration \notin Registration
    BY DEF Idle, NoRegistration, Registration, TaskMappingsAssumption
  <2>2. act.pc \in {"rename", "renamed"} => Saved(p) = record
    BY DEF Saved
  <2>3. act.pc \in {"save", "saved"} => Saved(p) = Compared(p)
    BY DEF Saved
  <2> HIDE DEF record
  <2>4. CASE act.pc \in {"rename", "renamed"}
    BY <1>1, <1>6, <2>1, <2>2, <2>4, OwnedWorkSet
  <2>5. CASE act.pc \in {"save", "saved"}
    BY <1>4, <1>6, <2>3, <2>5
  <2>6. QED
    BY <1>6, <2>4, <2>5
<1>7. ASSUME act.pc \in {"save", "saved", "rename", "renamed"}
      PROVE  /\ act.reg.ids[act.left] \in Ids
             /\ Owns(given, MappingOf(act.reg), act.reg.ids[act.left])
  <2>1. act.reg \in Registration /\ act.left \in DOMAIN act.reg.ids
    BY <1>1, <1>7 DEF Proper
  <2>2. act.reg.ids[act.left] \in ToSet(act.reg.ids) /\ act.reg.ids[act.left] \in Ids
    BY <2>1, RegistrationIds DEF ToSet
  <2>3. QED
    BY <1>2, <2>1, <2>2, RowOwned
<1>8. CASE Save(p)
  <2> DEFINE i == act.reg.ids[act.left]
  <2>1. PICK pc \in {"saved", "renamed"} :
           /\ act.pc \in {"save", "rename"} /\ UNCHANGED <<cache, journal, pending, given, reader>>
           /\ \/ /\ mapping' = [mapping EXCEPT ![i] = MappingOf(act.reg)]
                 /\ Set(p, [act EXCEPT !.pc = pc])
              \/ mapping' = mapping /\ Set(p, Saved(p))
    BY <1>8 DEF Save, queue
  <2>2. \A j \in Ids : Owns(given, mapping'[j], j)
    BY <1>1, <1>7, <2>1 DEF OwnedRows, Tables
  <2>3. OwnedRows'
    BY <1>1, <2>1, <2>2 DEF OwnedRows
  <2>4. OwnedWork'
    BY <1>1, <1>6, <2>1, FieldGoes, OwnedWorkKept
  <2>5. QED
    BY <1>1, <2>1, <2>3, <2>4, OwnedQueueMore DEF Owned
<1>9. CASE Refresh(p)
  <2> DEFINE i == act.reg.ids[act.left]
  <2>1. /\ act.pc \in {"saved", "renamed"} /\ UNCHANGED <<mapping, journal, pending, given, reader>>
        /\ cache' = [cache EXCEPT ![i] = MappingOf(act.reg)] /\ Set(p, Saved(p))
    BY <1>9 DEF Refresh, tables, queue, world
  <2>2. \A j \in Ids : Owns(given, cache'[j], j)
    BY <1>1, <1>7, <2>1 DEF OwnedRows, Tables
  <2>3. OwnedRows'
    BY <1>1, <2>1, <2>2 DEF OwnedRows
  <2>4. QED
    BY <1>1, <1>6, <2>1, <2>3, OwnedQueueMore DEF Owned
<1>10. ASSUME NEW i \in Ids, NEW seen \in Ids, Poll(p, i, seen) PROVE Owned'
  <2> DEFINE m == Lookup(i)
             reg(alias, j) == [engine |-> "legacy", channel |-> m.channel, alias |-> alias,
                               origin |-> m.origin, ids |-> <<j>>]
             record == [Idle EXCEPT !.id = i, !.pc = "record"]
             other(pc, new) == [Idle EXCEPT !.id = i, !.pc = pc, !.reg = new]
  <2>1. /\ m # None /\ given \subseteq given'
        /\ UNCHANGED <<mapping, cache, reader, journal, pending>>
        /\ seen # i => <<m.channel, seen>> \in given'
        /\ \/ Set(p, record)
           \/ Set(p, other("rename", reg(seen, i))) /\ seen # i
           \/ Set(p, other("run", reg(m.alias, seen))) /\ seen # i
    BY <1>10 DEF Poll, queue, tables
  <2>2. {<<m.channel, i>>, <<m.channel, m.alias>>} \subseteq given
    BY <1>1, <2>1, LookupOwned DEF Owns
  <2>3. seen # i => OwnsAll(given', reg(seen, i)) /\ OwnsAll(given', reg(m.alias, seen))
    BY <2>1, <2>2 DEF OwnsAll, ToSet
  <2>4. record.reg = NoRegistration /\ record.batch = {} /\ NoRegistration \notin Registration
    BY DEF Idle, NoRegistration, Registration, TaskMappingsAssumption
  <2>5. \A pc, new : other(pc, new).reg = new /\ other(pc, new).batch = {}
    BY DEF Idle
  <2> HIDE DEF m, reg, record, other
  <2>6. OwnedWork'
    <3>1. CASE Set(p, record)
      BY <1>1, <2>1, <2>4, <3>1, OwnedWorkSet
    <3>2. CASE Set(p, other("rename", reg(seen, i))) /\ seen # i
      BY <1>1, <2>1, <2>3, <2>5, <3>2, OwnedWorkSet
    <3>3. CASE Set(p, other("run", reg(m.alias, seen))) /\ seen # i
      BY <1>1, <2>1, <2>3, <2>5, <3>3, OwnedWorkSet
    <3>4. QED
      BY <2>1, <3>1, <3>2, <3>3
  <2>7. QED
    BY <1>1, <2>1, <2>6, OwnedRowsMore, OwnedQueueMore DEF Owned
<1>11. QED
  BY <1>3, <1>5, <1>8, <1>9, <1>10 DEF PollStep

LEMMA OwnedByWorker ==
    ASSUME TaskMappingsAssumption, TInv, Owned, WorkerStep
    PROVE  Owned'
<1> DEFINE act == actor[Worker]
<1>1. /\ Working /\ OwnedRows /\ OwnedQueue /\ OwnedWork
      /\ Worker \in Actors /\ act \in Routine
  BY Held DEF TInv, Owned, Actors
<1>2. UNCHANGED <<mapping, cache, reader, given>>
  BY DEF WorkerStep, Reconcile, RecoverNext, Acknowledge, tables, world
<1>3. OwnedRows'
  BY <1>1, <1>2, OwnedRowsMore
<1>4. NoRegistration \notin Registration
  BY DEF NoRegistration, Registration, TaskMappingsAssumption
<1>5. \A reg \in LoadedPending : OwnsAll(given, reg)
  BY <1>1 DEF OwnedQueue, LoadedPending
<1>6. CASE Reconcile
  <2> DEFINE next == [Idle EXCEPT !.pc = "next", !.batch = LoadedPending,
                                  !.known = LoadedDurable]
  <2>1. /\ Set(Worker, Idle) \/ Set(Worker, next)
        /\ pending' = LoadedPending /\ journal' = journal
    BY <1>6 DEF Reconcile
  <2>2. /\ Idle.reg = NoRegistration /\ Idle.batch = {}
        /\ next.reg = NoRegistration /\ next.batch = LoadedPending
    BY DEF Idle
  <2> HIDE DEF next
  <2>3. OwnedWork'
    BY <1>1, <1>2, <1>4, <1>5, <2>1, <2>2, OwnedWorkSet
  <2>4. OwnedQueue'
    BY <1>1, <1>2, <1>5, <2>1 DEF OwnedQueue
  <2>5. QED
    BY <1>3, <2>3, <2>4 DEF Owned
<1>7. CASE RecoverNext
  <2>1. CASE act.batch = {}
    <3>1. Ends(Worker) /\ UNCHANGED <<journal, pending>>
      BY <1>7, <2>1 DEF RecoverNext, queue
    <3>2. OwnedWork'
      BY <1>1, <1>2, <3>1, EndsGoes, OwnedWorkKept
    <3>3. QED
      BY <1>1, <1>2, <1>3, <3>1, <3>2, OwnedQueueMore DEF Owned
  <2>2. ASSUME NEW reg \in act.batch,
               LET rec == [act EXCEPT !.reg = reg, !.batch = @ \ {reg}]
               IN  \/ /\ Set(Worker, [rec EXCEPT !.pc = Entry(reg)])
                      /\ UNCHANGED queue
                   \/ /\ Journals(reg, TRUE)
                      /\ Set(Worker, [rec EXCEPT !.pc = "announce"])
                   \/ /\ Journals(reg, FALSE)
                      /\ Set(Worker, [rec EXCEPT !.reg = NoRegistration])
        PROVE  Owned'
    <3> DEFINE rec == [act EXCEPT !.reg = reg, !.batch = @ \ {reg}]
               entry == [rec EXCEPT !.pc = Entry(reg)]
               announce == [rec EXCEPT !.pc = "announce"]
               none == [rec EXCEPT !.reg = NoRegistration]
    <3>1. OwnsAll(given, reg) /\ \A q \in act.batch : OwnsAll(given, q)
      BY <1>1 DEF OwnedWork
    <3>2. \A new \in {entry, announce, none} :
            new.reg \in {reg, NoRegistration} /\ new.batch \subseteq act.batch
      BY <1>1 DEF Routine
    <3>3. Set(Worker, entry) \/ Set(Worker, announce) \/ Set(Worker, none)
      BY <2>2
    <3>4. UNCHANGED queue \/ \E ok \in BOOLEAN : Journals(reg, ok)
      BY <2>2
    <3> HIDE DEF rec, entry, announce, none
    <3>5. OwnedWork'
      BY <1>1, <1>2, <1>4, <3>1, <3>2, <3>3, OwnedWorkSet
    <3>6. OwnedQueue'
      BY <1>1, <1>2, <3>1, <3>4, JournalsOwned, OwnedQueueMore DEF queue
    <3>7. QED
      BY <1>3, <3>5, <3>6 DEF Owned
  <2>3. QED
    BY <1>7, <2>1, <2>2 DEF RecoverNext
<1>8. CASE Acknowledge
  <2> DEFINE next == [act EXCEPT !.pc = "next", !.reg = NoRegistration, !.run = None]
  <2>1. Set(Worker, next) /\ journal' \subseteq journal /\ pending' \subseteq pending
    BY <1>8 DEF Acknowledge, Acked, Breaks
  <2>2. next.reg = NoRegistration /\ next.batch = act.batch
    BY <1>1 DEF Routine
  <2>3. \A reg \in act.batch : OwnsAll(given, reg)
    BY <1>1 DEF OwnedWork
  <2> HIDE DEF next
  <2>4. OwnedWork'
    BY <1>1, <1>2, <1>4, <2>1, <2>2, <2>3, OwnedWorkSet
  <2>5. OwnedQueue'
    BY <1>1, <1>2, <2>1 DEF OwnedQueue
  <2>6. QED
    BY <1>3, <2>4, <2>5 DEF Owned
<1>9. QED
  BY <1>6, <1>7, <1>8 DEF WorkerStep

LEMMA OwnedByOthers ==
    ASSUME TaskMappingsAssumption, TInv, Owned,
           \/ \E i \in Ids : Load(i) \/ Evict(i)
           \/ Loaded \/ InvalidateChannel \/ Crash
           \/ \E c \in Channels : DeleteChannel(c)
    PROVE  Owned'
<1>1. Tables /\ Working /\ OwnedRows /\ OwnedQueue /\ OwnedWork
  BY DEF TInv, Owned
<1>2. given' = given /\ journal' = journal /\ pending' \subseteq pending
  BY DEF Load, Evict, Loaded, InvalidateChannel, Crash, DeleteChannel, queue, world
<1>3. OwnedQueue'
  BY <1>1, <1>2 DEF OwnedQueue
<1>4. OwnedWork'
  <2>1. CASE actor' = actor
    BY <1>1, <1>2, <2>1 DEF OwnedWork
  <2>2. CASE Crash
    <3>1. NoRegistration \notin Registration
      BY DEF NoRegistration, Registration, TaskMappingsAssumption
    <3>2. \A a \in Actors : actor'[a].reg = NoRegistration /\ actor'[a].batch = {}
      BY <2>2 DEF Crash, Idle
    <3>3. QED
      BY <3>1, <3>2 DEF OwnedWork
  <2>3. QED
    BY <2>1, <2>2 DEF Load, Evict, Loaded, InvalidateChannel, DeleteChannel
<1>5. \A i \in Ids : Owns(given, mapping'[i], i)
  <2>1. \A i \in Ids : mapping'[i] \in {mapping[i], None}
    BY DEF Load, Evict, Loaded, InvalidateChannel, Crash, DeleteChannel, tables
  <2>2. QED
    BY <1>1, <2>1 DEF OwnedRows, Owns
<1>6. reader' # None => Owns(given, reader'.mapping, reader'.id)
  <2>1. ASSUME NEW i \in Ids, Load(i) PROVE Owns(given, reader'.mapping, reader'.id)
    <3>1. reader'.mapping = mapping[i] /\ reader'.id = i
      BY <2>1 DEF Load
    <3>2. QED
      BY <1>1, <3>1 DEF OwnedRows
  <2>2. (\E i \in Ids : Load(i)) \/ reader' \in {reader, None}
    BY DEF Evict, Loaded, InvalidateChannel, Crash, DeleteChannel, world
  <2>3. QED
    BY <1>1, <2>1, <2>2 DEF OwnedRows
<1>7. \A i \in Ids : Owns(given, cache'[i], i)
  <2>1. CASE Loaded
    <3>1. reader # None /\ cache' = [cache EXCEPT ![reader.id] = reader.mapping]
      BY <2>1 DEF Loaded
    <3>2. QED
      BY <1>1, <3>1 DEF OwnedRows, Tables
  <2>2. ASSUME NEW i \in Ids, Evict(i) PROVE \A j \in Ids : cache'[j] \in {cache[j], None}
    BY <1>1, <2>2 DEF Evict, Tables
  <2>3. CASE InvalidateChannel \/ Crash
    <3>1. \A j \in Ids : cache'[j] \in {cache[j], None}
      BY <2>3 DEF InvalidateChannel, Crash
    <3>2. QED
      BY <1>1, <3>1 DEF OwnedRows, Owns
  <2>4. ASSUME (\E i \in Ids : Load(i)) \/ (\E c \in Channels : DeleteChannel(c))
        PROVE  cache' = cache
    BY <2>4 DEF Load, DeleteChannel
  <2>5. QED
    BY <1>1, <2>1, <2>2, <2>3, <2>4 DEF OwnedRows, Owns
<1>8. QED
  BY <1>2, <1>3, <1>4, <1>5, <1>6, <1>7 DEF Owned, OwnedRows

LEMMA OwnedAtFirst == ASSUME TaskMappingsAssumption, Init PROVE Owned
<1>1. NoRegistration \notin Registration
  BY DEF NoRegistration, Registration, TaskMappingsAssumption
<1>2. OwnedRows /\ OwnedQueue
  BY DEF Init, OwnedRows, OwnedQueue, Owns
<1>3. \A a \in Actors : actor[a].reg = NoRegistration /\ actor[a].batch = {}
  BY DEF Init, Idle
<1>4. QED
  BY <1>1, <1>2, <1>3 DEF Owned, OwnedWork

LEMMA OwnedKept ==
    ASSUME TaskMappingsAssumption, TInv, Owned, [Next]_vars
    PROVE  Owned'
<1>1. CASE Next
  BY <1>1, StepCases, OwnedByPersisting, OwnedByEnqueue, OwnedByCreation, OwnedByPoll,
     OwnedByWorker, OwnedByOthers
<1>2. CASE UNCHANGED vars
  BY <1>2 DEF Owned, OwnedRows, OwnedQueue, OwnedWork, vars, tables, queue, world
<1>3. QED
  BY <1>1, <1>2

-----------------------------------------------------------------------------
(* The rows. *)

LEMMA Collides ==
    ASSUME Tables, OwnedRows, NEW i \in Ids, mapping[i] # None, NEW c \in Channels,
           <<c, i>> \in given, c # mapping[i].channel
    PROVE  Collision(i)
<1>1. mapping[i] \in Mapping /\ <<mapping[i].channel, i>> \in given
  BY DEF Tables, OwnedRows, Owns
<1>2. mapping[i].channel \in Channels
  BY <1>1 DEF Mapping
<1>3. QED
  BY <1>1, <1>2 DEF Collision

\* What a step makes of a row: it stays with its channel, or the channel is
\* deleted, or a status query has moved an ID that two channels have.
LEMMA RowSteps ==
    ASSUME TaskMappingsAssumption, TInv, Owned, Next, NEW i \in Ids, mapping[i] # None
    PROVE  \/ mapping'[i] # None /\ mapping'[i].channel = mapping[i].channel
           \/ mapping'[i] = None /\ mapping[i].channel \in deleted'
           \/ i \in moved' /\ Collision(i)
<1> DEFINE Goal == \/ mapping'[i] # None /\ mapping'[i].channel = mapping[i].channel
                   \/ mapping'[i] = None /\ mapping[i].channel \in deleted'
                   \/ i \in moved' /\ Collision(i)
<1>1. Tables /\ Working /\ OwnedRows /\ OwnedWork
  BY DEF TInv, Owned
<1>2. CASE mapping' = mapping
  BY <1>2
<1>3. ASSUME NEW a \in Actors, EnsureTaskMappings(a) PROVE Goal
  BY <1>1, <1>3, EnsureResult
<1>4. ASSUME NEW p \in Polls, Save(p) PROVE Goal
  <2> DEFINE act == actor[p]
             j == act.reg.ids[act.left]
  <2>1. p \in Actors /\ act.reg \in Registration /\ act.left \in DOMAIN act.reg.ids
    BY <1>1, <1>4, Held DEF Save, Proper, Actors
  <2> SUFFICES ASSUME mapping' # mapping PROVE Goal
    BY <1>2
  <2>2. mapping' = [mapping EXCEPT ![j] = MappingOf(act.reg)] /\ Moves
    BY <1>4 DEF Save
  <2>3. MappingOf(act.reg) # None /\ MappingOf(act.reg).channel = act.reg.channel
    BY <2>1, RegistrationRow
  <2>4. OwnsAll(given, act.reg) /\ j \in ToSet(act.reg.ids) /\ act.reg.channel \in Channels
    BY <1>1, <2>1 DEF OwnedWork, ToSet, Registration
  <2>5. CASE i # j
    BY <1>1, <2>2, <2>5 DEF Tables
  <2>6. CASE i = j /\ act.reg.channel # mapping[i].channel
    <3>1. mapping'[i] = MappingOf(act.reg)
      BY <1>1, <2>2, <2>6 DEF Tables
    <3>2. i \in moved'
      BY <2>2, <2>3, <2>6, <3>1 DEF Moves
    <3>3. Collision(i)
      BY <1>1, <2>4, <2>6, Collides DEF OwnsAll
    <3>4. QED
      BY <3>2, <3>3
  <2>7. CASE i = j /\ act.reg.channel = mapping[i].channel
    BY <1>1, <2>2, <2>3, <2>7 DEF Tables
  <2>8. QED
    BY <2>5, <2>6, <2>7
<1>5. ASSUME NEW p \in Polls, NEW j \in Ids, NEW seen \in Ids, Poll(p, j, seen)
      PROVE  mapping' = mapping
  BY <1>5 DEF Poll, tables
<1>6. ASSUME NEW c \in Channels, DeleteChannel(c) PROVE Goal
  BY <1>1, <1>6 DEF DeleteChannel, Tables
<1>7. ASSUME NEW a \in Actors,
             \/ Choose(a) \/ Freeze(a) \/ Look(a) \/ RecordTaskAlias(a) \/ Publish(a)
             \/ Interrupted(a) \/ Enqueue(a) \/ Announce(a) \/ Over(a)
      PROVE  mapping' = mapping
  BY <1>7 DEF Choose, Freeze, Look, RecordTaskAlias, Publish, Interrupted, Enqueue, Announce,
     Over, tables
<1>8. ASSUME \/ \E r \in Creates : Accept(r) \/ Disambiguate(r) \/ Project(r) \/ Attach(r)
             \/ \E p \in Polls : Record(p) \/ Compare(p) \/ Refresh(p)
             \/ WorkerStep
             \/ \E j \in Ids : Load(j) \/ Evict(j)
             \/ Loaded \/ InvalidateChannel \/ Crash
      PROVE  mapping' = mapping
  BY <1>8 DEF Accept, Disambiguate, Project, Attach, Record, Compare, Refresh,
     WorkerStep, Reconcile,
     RecoverNext, Acknowledge, Load, Evict, Loaded, InvalidateChannel, Crash, tables
<1>9. Goal
  BY <1>2, <1>3, <1>4, <1>5, <1>6, <1>7, <1>8, StepCases DEF PollStep
<1>10. QED
  BY <1>9

LEMMA HistoryGrows ==
    ASSUME Next
    PROVE  moved \subseteq moved' /\ deleted \subseteq deleted'
<1>1. ASSUME NEW a \in Actors,
             \/ Choose(a) \/ Freeze(a) \/ Look(a) \/ RecordTaskAlias(a)
             \/ EnsureTaskMappings(a) \/ Publish(a) \/ Interrupted(a)
             \/ Enqueue(a) \/ Announce(a) \/ Over(a)
      PROVE  UNCHANGED <<moved, deleted>>
  BY <1>1 DEF Choose, Freeze, Look, RecordTaskAlias, EnsureTaskMappings, Publish, Interrupted,
     Enqueue, Announce, Over, world
<1>2. ASSUME NEW r \in Creates, Accept(r) \/ Disambiguate(r) \/ Project(r) \/ Attach(r)
      PROVE  UNCHANGED <<moved, deleted>>
  BY <1>2 DEF Accept, Disambiguate, Project, Attach, world
<1>3. ASSUME NEW p \in Polls, PollStep(p) \/ \E i, j \in Ids : Poll(p, i, j)
      PROVE  moved \subseteq moved' /\ deleted' = deleted
  BY <1>3 DEF PollStep, Record, Compare, Save, Refresh, Poll, Moves, world
<1>4. ASSUME WorkerStep PROVE UNCHANGED <<moved, deleted>>
  BY <1>4 DEF WorkerStep, Reconcile, RecoverNext, Acknowledge, world
<1>5. ASSUME \/ \E i \in Ids : Load(i) \/ Evict(i)
             \/ Loaded \/ InvalidateChannel \/ Crash
             \/ \E c \in Channels : DeleteChannel(c)
      PROVE  moved' = moved /\ deleted \subseteq deleted'
  BY <1>5 DEF Load, Evict, Loaded, InvalidateChannel, Crash, DeleteChannel, world
<1>6. QED
  BY <1>1, <1>2, <1>3, <1>4, <1>5, StepCases

\* A stored mapping keeps its channel, whichever creation, replay or cached row
\* would write it; a status query moves at most an ID that two channels have.
THEOREM PinsHold == ASSUME TaskMappingsAssumption PROVE Spec => PinKept
<1>1. ASSUME TInv, Owned, [Next]_vars
      PROVE  \A i \in Ids :
                mapping[i] # None /\ mapping'[i] # None =>
                   \/ mapping'[i].channel = mapping[i].channel
                   \/ i \in moved' /\ Collision(i)
  <2>1. CASE Next
    BY <1>1, <2>1, RowSteps
  <2>2. CASE UNCHANGED vars
    BY <2>2 DEF vars, tables
  <2>3. QED
    BY <1>1, <2>1, <2>2
<1>2. Init => TInv /\ Owned
  BY TypesAtFirst, OwnedAtFirst
<1>3. TInv /\ Owned /\ [Next]_vars => (TInv /\ Owned)'
  BY TypesKept, OwnedKept
<1>4. QED
  BY <1>1, <1>2, <1>3, PTL DEF Spec, PinKept

-----------------------------------------------------------------------------
(* The journal: what is forgotten there is stored, and what is cached is      *)
(* stored or has a line, which a torn one may have taken in.                  *)

LEMMA StoredStays ==
    ASSUME TaskMappingsAssumption, TInv, Owned, Next
    PROVE  \A i \in Ids : \A c : Stands(i, c) => Stands(i, c)'
<1> SUFFICES ASSUME NEW i \in Ids, NEW c, Stands(i, c) PROVE Stands(i, c)'
  OBVIOUS
<1>1. moved \subseteq moved' /\ deleted \subseteq deleted'
  BY HistoryGrows
<1>2. CASE mapping[i] # None /\ mapping[i].channel = c
  BY <1>2, RowSteps DEF Stands
<1>3. QED
  BY <1>1, <1>2 DEF Stands

\* Who leaves the queue alone.
LEMMA QueueKept ==
    /\ \A a \in Actors :
          Choose(a) \/ Freeze(a) \/ Look(a) \/ RecordTaskAlias(a) \/ EnsureTaskMappings(a)
          \/ Publish(a) \/ Interrupted(a) \/ Announce(a) \/ Over(a)
          => UNCHANGED queue
    /\ \A r \in Creates :
          Accept(r) \/ Disambiguate(r) \/ Project(r) \/ Attach(r) => UNCHANGED queue
    /\ \A p \in Polls :
          PollStep(p) \/ (\E i, j \in Ids : Poll(p, i, j)) => UNCHANGED queue
    /\ (\E i \in Ids : Load(i) \/ Evict(i)) \/ Loaded \/ InvalidateChannel
       \/ (\E c \in Channels : DeleteChannel(c))
       => UNCHANGED queue
<1>1. ASSUME NEW a \in Actors,
             \/ Choose(a) \/ Freeze(a) \/ Look(a) \/ RecordTaskAlias(a)
             \/ EnsureTaskMappings(a) \/ Publish(a) \/ Interrupted(a) \/ Announce(a) \/ Over(a)
      PROVE  UNCHANGED queue
  BY <1>1 DEF Choose, Freeze, Look, RecordTaskAlias, EnsureTaskMappings, Publish, Interrupted,
     Announce, Over
<1>2. ASSUME NEW r \in Creates, Accept(r) \/ Disambiguate(r) \/ Project(r) \/ Attach(r)
      PROVE  UNCHANGED queue
  BY <1>2 DEF Accept, Disambiguate, Project, Attach
<1>3. ASSUME NEW p \in Polls, PollStep(p) PROVE UNCHANGED queue
  BY <1>3 DEF PollStep, Record, Compare, Save, Refresh
<1>4. ASSUME NEW p \in Polls, NEW i \in Ids, NEW j \in Ids, Poll(p, i, j) PROVE UNCHANGED queue
  BY <1>4 DEF Poll
<1>5. ASSUME \/ \E i \in Ids : Load(i) \/ Evict(i)
             \/ Loaded \/ InvalidateChannel
             \/ \E c \in Channels : DeleteChannel(c)
      PROVE  UNCHANGED queue
  BY <1>5 DEF Load, Evict, Loaded, InvalidateChannel, DeleteChannel
<1>6. QED
  BY <1>1, <1>2, <1>3, <1>4, <1>5

\* What the journal and the queue are after a registration was journaled.
LEMMA JournalsResult ==
    ASSUME NEW reg, NEW ok \in BOOLEAN, Journals(reg, ok)
    PROVE  /\ loaded => loaded'
           /\ loaded' => journal' \ pending' \subseteq IF loaded THEN journal \ pending ELSE {}
           /\ journal \subseteq journal' /\ swallowed \subseteq journal' \cup swallowed'
           /\ durable' \subseteq durable \cup journal' \cup swallowed'
           /\ ok => reg \in durable \cup journal' \cup swallowed'
<1>1. Lands(reg) => /\ journal \subseteq journal' /\ journal' \subseteq journal \cup {reg}
                    /\ swallowed \subseteq journal' \cup swallowed'
                    /\ reg \in journal' \cup swallowed'
  BY DEF Lands
<1>2. Breaks => journal' = journal /\ swallowed' = swallowed
  BY DEF Breaks
<1>3. /\ LoadedDurable \subseteq durable \cup journal
      /\ pending \subseteq LoadedPending /\ (~loaded => journal \subseteq LoadedPending)
  BY DEF LoadedDurable, LoadedPending
<1>4. CASE /\ ok /\ loaded' = TRUE
           /\ pending' = LoadedPending \cup {reg} /\ durable' = LoadedDurable \cup {reg}
           /\ IF reg \in LoadedDurable
              THEN UNCHANGED <<journal, torn, swallowed>> ELSE Lands(reg)
  BY <1>1, <1>3, <1>4
<1>5. CASE /\ ~ok /\ loaded' = TRUE
           /\ pending' = LoadedPending \cup {reg} /\ durable' = LoadedDurable
           /\ Lands(reg) \/ Breaks
  BY <1>1, <1>2, <1>3, <1>5
<1>6. CASE /\ ~ok /\ ~loaded /\ UNCHANGED <<loaded, durable>>
           /\ Lands(reg) \/ Breaks
  BY <1>1, <1>2, <1>6
<1>7. QED
  BY <1>4, <1>5, <1>6 DEF Journals

\* The lines that go are those of registrations that are stored, and so are those
\* the process does not know any more; and what it takes for durable it did before,
\* or there is a line.
LEMMA LinesKept ==
    ASSUME TaskMappingsAssumption, TInv, JInv, Next, ~Crash
    PROVE  /\ \A reg \in (journal \cup swallowed) \ (journal' \cup swallowed') : Stored(reg)
           /\ \A reg \in journal \ journal' : Stored(reg)
           /\ loaded' => \A reg \in journal' \ pending' : Stored(reg)
           /\ durable' \subseteq durable \cup journal \cup journal' \cup swallowed'
           /\ loaded => loaded'
<1> DEFINE act == actor[Worker]
           grows == /\ journal \subseteq journal' /\ swallowed \subseteq journal' \cup swallowed'
                    /\ loaded' => \A reg \in journal' \ pending' : Stored(reg)
                    /\ durable' \subseteq durable \cup journal \cup journal' \cup swallowed'
                    /\ loaded => loaded'
           gone == {act.reg}
<1>1. Worker \in Actors /\ Journaled
  BY DEF JInv, Actors
<1>2. ASSUME Acknowledge
      PROVE  /\ \A reg \in (journal \cup swallowed) \ (journal' \cup swallowed') : Stored(reg)
             /\ \A reg \in journal \ journal' : Stored(reg)
             /\ \A reg \in journal' \ pending' : Stored(reg)
             /\ durable' \subseteq durable /\ loaded' = loaded
  <2>1. /\ Stored(act.reg) /\ \A reg \in journal \ pending : Stored(reg)
        /\ loaded' = loaded
    BY <1>1, <1>2 DEF Acknowledge, JInv, Journaled, AllReady, Ready
  <2>2. Acked \in {journal, journal \ gone}
    BY DEF Acked
  <2>3. CASE /\ pending' = pending \ gone /\ durable' = durable \ gone
             /\ swallowed' = swallowed \ gone
             /\ (journal' = {} /\ pending' = {}) \/ journal' = Acked
    BY <2>1, <2>2, <2>3
  <2>4. CASE /\ UNCHANGED <<pending, durable>>
             /\ Breaks \/ (journal' = Acked /\ UNCHANGED swallowed)
    BY <2>1, <2>2, <2>4 DEF Breaks
  <2>5. QED
    BY <1>2, <2>3, <2>4 DEF Acknowledge
<1>3. ASSUME NEW r, NEW ok \in BOOLEAN, Journals(r, ok) PROVE grows
  BY <1>1, <1>3, JournalsResult DEF Journaled
<1>4. UNCHANGED queue => grows
  BY <1>1 DEF queue, Journaled
<1>5. CASE Reconcile
  BY <1>1, <1>5 DEF Reconcile, LoadedDurable, LoadedPending, Journaled
<1>6. CASE RecoverNext
  <2>1. UNCHANGED queue \/ \E r \in act.batch, ok \in BOOLEAN : Journals(r, ok)
    BY <1>6 DEF RecoverNext
  <2> HIDE DEF grows
  <2>2. grows
    BY <1>3, <1>4, <2>1
  <2>3. QED
    BY <2>2 DEF grows
<1>7. ASSUME NEW a \in Actors, Enqueue(a) PROVE grows
  <2>1. \E ok \in BOOLEAN : Journals(actor[a].reg, ok)
    BY <1>7 DEF Enqueue
  <2> HIDE DEF grows
  <2>2. QED
    BY <1>3, <2>1
<1>8. CASE Acknowledge
  BY <1>2, <1>8
<1>9. grows \/ Reconcile \/ RecoverNext \/ Acknowledge
  <2> HIDE DEF grows
  <2>1. QED
    BY <1>4, <1>7, QueueKept, StepCases DEF WorkerStep
<1>10. QED
  BY <1>5, <1>6, <1>8, <1>9

LEMMA RegistrationStays ==
    ASSUME TaskMappingsAssumption, TInv, Owned, Next, NEW reg \in Registration, Stored(reg)
    PROVE  Stored(reg)'
<1>1. ToSet(reg.ids) \subseteq Ids
  BY RegistrationIds
<1>2. \A i \in ToSet(reg.ids) : Stands(i, reg.channel)'
  BY <1>1, StoredStays DEF Stored
<1>3. QED
  BY <1>2 DEF Stored, Stands

LEMMA DurablesKept ==
    ASSUME TaskMappingsAssumption, TInv, Owned, JInv, Next, ~Crash
    PROVE  Durables'
<1> SUFFICES ASSUME NEW reg \in durable' \ (journal' \cup swallowed') PROVE Stored(reg)'
  BY DEF Durables
<1>1. reg \in durable \cup journal
  BY LinesKept
<1>2. reg \in Registration
  BY <1>1 DEF TInv, Queued
<1>3. Stored(reg)
  <2>1. CASE reg \in journal \cup swallowed
    BY <2>1, LinesKept
  <2>2. CASE reg \in durable \ (journal \cup swallowed)
    BY <2>2 DEF JInv, Durables
  <2>3. QED
    BY <1>1, <2>1, <2>2
<1>4. QED
  BY <1>2, <1>3, RegistrationStays

LEMMA ExplainedStays ==
    ASSUME TaskMappingsAssumption, TInv, Owned, JInv, Next, ~Crash
    PROVE  \A i \in Ids : \A c : Explained(i, c) => Explained(i, c)'
<1> SUFFICES ASSUME NEW i \in Ids, NEW c, Explained(i, c) PROVE Explained(i, c)'
  OBVIOUS
<1>1. Stands(i, c) => Explained(i, c)'
  BY StoredStays DEF Stands, Explained
<1>2. ASSUME NEW reg \in journal \cup swallowed, i \in ToSet(reg.ids), reg.channel = c
      PROVE  Explained(i, c)'
  <2>1. CASE reg \in journal' \cup swallowed'
    BY <1>2, <2>1 DEF Explained
  <2>2. CASE reg \notin journal' \cup swallowed'
    BY <1>1, <1>2, <2>2, LinesKept DEF Stored
  <2>3. QED
    BY <2>1, <2>2
<1>3. QED
  BY <1>1, <1>2 DEF Explained

\* What is stored, or has a line, stays so while the record of `b` does not change.
LEMMA ReadyStays ==
    ASSUME TaskMappingsAssumption, TInv, Owned, JInv, Next, ~Crash, NEW b \in Actors,
           actor'[b] = actor[b],
           actor[b].pc \in {"publish", "ack", "saved", "renamed", "announce"}
    PROVE  Ready(b)'
<1> DEFINE reg == actor[b].reg
<1>1. Ready(b) /\ reg \in Registration
  BY Held DEF TInv, Proper, JInv, AllReady
<1>2. ToSet(reg.ids) \subseteq Ids
  BY <1>1, RegistrationIds
<1>3. CASE actor[b].pc \in {"publish", "ack"}
  BY <1>1, <1>3, RegistrationStays DEF Ready, Stored, Stands
<1>4. CASE actor[b].pc = "announce"
  <2>1. \A i \in ToSet(reg.ids) : Explained(i, reg.channel)'
    BY <1>1, <1>2, <1>4, ExplainedStays DEF Ready
  <2>2. QED
    BY <1>4, <2>1 DEF Ready, Explained, Stands
<1>5. CASE actor[b].pc \in {"saved", "renamed"}
  <2>1. reg.ids[actor[b].left] \in Ids
    BY <1>1, <1>5, RegistrationIds, Held DEF TInv, Proper
  <2>2. Stands(reg.ids[actor[b].left], reg.channel)'
    BY <1>1, <1>5, <2>1, StoredStays DEF Ready
  <2>3. QED
    BY <1>5, <2>2 DEF Ready, Stands
<1>6. QED
  BY <1>3, <1>4, <1>5

LEMMA OthersReady ==
    ASSUME TaskMappingsAssumption, TInv, Owned, JInv, Next, ~Crash, NEW a \in Actors,
           actor' = [actor EXCEPT ![a] = actor'[a]], Ready(a)'
    PROVE  AllReady'
<1> SUFFICES ASSUME NEW b \in Actors PROVE Ready(b)'
  BY DEF AllReady
<1>1. CASE b = a
  BY <1>1
<1>2. CASE b # a
  <2>1. actor'[b] = actor[b] /\ Ready(b)
    BY <1>2 DEF TInv, Working, JInv, AllReady
  <2>2. CASE actor[b].pc \notin {"publish", "ack", "saved", "renamed", "announce"}
    BY <2>1, <2>2 DEF Ready
  <2>3. CASE actor[b].pc \in {"publish", "ack", "saved", "renamed", "announce"}
    BY <1>2, <2>1, <2>3, ReadyStays
  <2>4. QED
    BY <2>2, <2>3
<1>3. QED
  BY <1>1, <1>2

LEMMA QuietReady ==
    ASSUME TaskMappingsAssumption, TInv, Owned, JInv, Next, ~Crash, NEW a \in Actors,
           actor' = [actor EXCEPT ![a] = actor'[a]],
           actor'[a].pc \notin {"publish", "ack", "saved", "renamed", "announce"}
    PROVE  AllReady'
<1>1. Ready(a)'
  BY DEF Ready
<1>2. QED
  BY <1>1, OthersReady

LEMMA ReadyByPersisting ==
    ASSUME TaskMappingsAssumption, TInv, Owned, JInv, Next, ~Crash, NEW a \in Actors,
           \/ Choose(a) \/ Freeze(a) \/ Look(a) \/ RecordTaskAlias(a)
           \/ EnsureTaskMappings(a) \/ Publish(a)
           \/ Interrupted(a) \/ Announce(a) \/ Over(a)
    PROVE  AllReady'
<1> DEFINE act == actor[a]
<1>1. Tables /\ Working /\ Ready(a)
  BY DEF TInv, JInv, AllReady
<1>2. ASSUME NEW pcs, Goes(a, pcs),
             pcs \cap {"publish", "ack", "saved", "renamed", "announce"} = {}
      PROVE  AllReady'
  BY <1>2, QuietReady DEF Goes
<1>3. CASE EnsureTaskMappings(a)
  <2>1. CASE Goes(a, {"publish"})
    <3>1. actor' = [actor EXCEPT ![a] = actor'[a]] /\ actor'[a].pc = "publish"
      BY <2>1 DEF Goes
    <3>2. /\ actor'[a].reg = act.reg
          /\ \A i \in ToSet(act.reg.ids) :
                mapping'[i] # None /\ mapping'[i].channel = act.reg.channel
      BY <1>1, <1>3, <2>1, EnsureResult DEF Goes
    <3>3. Ready(a)'
      BY <3>1, <3>2 DEF Ready, Stored, Stands
    <3>4. QED
      BY <3>1, <3>3, OthersReady
  <2>2. CASE Goes(a, {"next", "enqueue", "record", "over", "project"})
    BY <1>2, <2>2
  <2>3. QED
    BY <1>1, <1>3, <2>1, <2>2, EnsureResult
<1>4. CASE Publish(a)
  <2>1. /\ actor' = [actor EXCEPT ![a] = actor'[a]] /\ actor'[a].reg = act.reg
        /\ actor'[a].pc \in {"ack", "record", "run", "project"}
    BY <1>1, <1>4, RoutineGoes DEF Goes
  <2>2. act.pc = "publish" /\ act.reg \in Registration
    BY <1>1, <1>4, Held DEF Publish, Proper
  <2>3. PICK reg \in Registration : reg = act.reg
    BY <2>2
  <2>4. Stored(reg)'
    BY <1>1, <2>2, <2>3, RegistrationStays DEF Ready
  <2>5. Ready(a)'
    BY <2>1, <2>3, <2>4 DEF Ready, Stored, Stands
  <2>6. QED
    BY <2>1, <2>5, OthersReady
<1>5. QED
  BY <1>1, <1>2, <1>3, <1>4, RoutineGoes

\* A registration that was journaled with success is stored or has a line.
LEMMA JournaledExplained ==
    ASSUME TaskMappingsAssumption, TInv, Owned, JInv, Next, ~Crash,
           NEW reg \in Registration, Journals(reg, TRUE)
    PROVE  \A i \in ToSet(reg.ids) : Explained(i, reg.channel)'
<1>1. reg \in durable \cup journal' \cup swallowed'
  BY JournalsResult
<1>2. CASE reg \in journal' \cup swallowed'
  BY <1>2 DEF Explained
<1>3. CASE reg \in durable \ (journal' \cup swallowed')
  <2>1. Stored(reg)
    BY <1>3, LinesKept DEF JInv, Durables
  <2>2. Stored(reg)'
    BY <2>1, RegistrationStays
  <2>3. QED
    BY <2>2 DEF Stored, Stands, Explained
<1>4. QED
  BY <1>1, <1>2, <1>3

LEMMA ReadyByEnqueue ==
    ASSUME TaskMappingsAssumption, TInv, Owned, JInv, Next, ~Crash, NEW a \in Actors,
           Enqueue(a)
    PROVE  AllReady'
<1> DEFINE act == actor[a]
<1>1. Working /\ Journaled
  BY DEF TInv, JInv
<1>2. CASE Journals(act.reg, TRUE) /\ Set(a, [act EXCEPT !.pc = "announce"])
  <2>1. actor' = [actor EXCEPT ![a] = actor'[a]] /\ actor'[a].pc = "announce"
        /\ actor'[a].reg = act.reg
    BY <1>1, <1>2, FieldGoes DEF Goes
  <2>2. PICK reg \in Registration : reg = act.reg
    BY <1>1, Held DEF Enqueue, Proper
  <2>3. \A i \in ToSet(reg.ids) : Explained(i, reg.channel)'
    BY <1>2, <2>2, JournaledExplained
  <2>4. Ready(a)'
    BY <2>1, <2>2, <2>3 DEF Ready, Explained, Stands
  <2>5. QED
    BY <2>1, <2>4, OthersReady
<1>3. ASSUME NEW pc \in {"record", "over", "project"}, Set(a, [act EXCEPT !.pc = pc])
      PROVE  AllReady'
  BY <1>1, <1>3, FieldGoes, QuietReady DEF Goes
<1>4. QED
  BY <1>2, <1>3 DEF Enqueue

LEMMA ReadyByRequests ==
    ASSUME TaskMappingsAssumption, TInv, Owned, JInv, Next, ~Crash, NEW a \in Creates \cup Polls,
           \/ a \in Creates /\ (Accept(a) \/ Disambiguate(a) \/ Project(a) \/ Attach(a))
           \/ a \in Polls /\ (PollStep(a) \/ \E i, j \in Ids : Poll(a, i, j))
    PROVE  AllReady'
<1> DEFINE act == actor[a]
           quiet == {"names", "run", "ensure", "attach", "over", "compare", "save", "record",
                     "rename"}
<1>1. a \in Actors /\ act \in Routine /\ Working
  BY Held DEF Actors, TInv
<1>2. ASSUME NEW rec, Set(a, rec), rec.pc \in quiet PROVE AllReady'
  <2>1. actor' = [actor EXCEPT ![a] = actor'[a]] /\ actor'[a] = rec
    BY <1>1, <1>2 DEF Set, Working
  <2>2. QED
    BY <1>1, <1>2, <2>1, QuietReady
<1>3. CASE Accept(a)
  <2>1. PICK reg : Set(a, [Idle EXCEPT !.pc = "names", !.reg = reg])
    BY <1>3 DEF Accept
  <2>2. [Idle EXCEPT !.pc = "names", !.reg = reg].pc = "names"
    BY DEF Idle
  <2>3. QED
    BY <1>2, <2>1, <2>2
<1>4. CASE Disambiguate(a)
  <2>1. PICK reg : Set(a, [act EXCEPT !.reg = reg, !.pc = Entry(reg)])
    BY <1>4 DEF Disambiguate
  <2>2. [act EXCEPT !.reg = reg, !.pc = Entry(reg)].pc \in quiet
    BY <1>1 DEF Routine, Entry
  <2>3. QED
    BY <1>2, <2>1, <2>2
<1>5. CASE Project(a)
  <2>1. \/ Set(a, [act EXCEPT !.pc = "over"])
        \/ \E run : Set(a, [act EXCEPT !.pc = "attach", !.run = run, !.left = 1])
    BY <1>5 DEF Project
  <2>2. /\ [act EXCEPT !.pc = "over"].pc \in quiet
        /\ \A run : [act EXCEPT !.pc = "attach", !.run = run, !.left = 1].pc \in quiet
    BY <1>1 DEF Routine
  <2>3. QED
    BY <1>2, <2>1, <2>2
<1>6. CASE Attach(a)
  <2>1. \/ Set(a, [act EXCEPT !.pc = "over"])
        \/ Set(a, [act EXCEPT !.left = @ + 1])
    BY <1>6 DEF Attach
  <2>2. act.pc = "attach"
    BY <1>6 DEF Attach
  <2>3. [act EXCEPT !.pc = "over"].pc \in quiet /\ [act EXCEPT !.left = @ + 1].pc \in quiet
    BY <1>1, <2>2 DEF Routine
  <2>4. QED
    BY <1>2, <2>1, <2>3
<1>7. CASE Record(a)
  <2>1. \/ Set(a, [Idle EXCEPT !.pc = "over"])
        \/ \E reg : Set(a, [act EXCEPT !.pc = "compare", !.reg = reg, !.left = 1])
    BY <1>7 DEF Record
  <2>2. /\ [Idle EXCEPT !.pc = "over"].pc \in quiet
        /\ \A reg : [act EXCEPT !.pc = "compare", !.reg = reg, !.left = 1].pc \in quiet
    BY <1>1 DEF Routine, Idle
  <2>3. QED
    BY <1>2, <2>1, <2>2
<1>8. Compared(a).pc \in quiet /\ Saved(a).pc \in quiet
  BY <1>1 DEF Routine, Compared, Saved, Idle
<1>9. CASE Compare(a)
  <2>1. Set(a, Compared(a)) \/ Set(a, [act EXCEPT !.pc = "save"])
    BY <1>9 DEF Compare
  <2>2. [act EXCEPT !.pc = "save"].pc \in quiet
    BY <1>1 DEF Routine
  <2> HIDE DEF quiet
  <2>3. QED
    BY <1>2, <1>8, <2>1, <2>2
<1>10. CASE Refresh(a)
  BY <1>2, <1>8, <1>10 DEF Refresh
<1>11. CASE Save(a)
  <2> DEFINE j == act.reg.ids[act.left]
             pc == IF act.pc = "save" THEN "saved" ELSE "renamed"
             new == [act EXCEPT !.pc = pc]
  <2>1. CASE Set(a, Saved(a))
    BY <1>2, <1>8, <2>1
  <2>2. CASE mapping' = [mapping EXCEPT ![j] = MappingOf(act.reg)] /\ Set(a, new)
    <3>1. act.reg \in Registration /\ act.left \in DOMAIN act.reg.ids
      BY <1>1, <1>11, Held DEF Save, Proper
    <3>2. /\ j \in Ids /\ MappingOf(act.reg) # None
          /\ MappingOf(act.reg).channel = act.reg.channel
      BY <3>1, RegistrationIds, RegistrationRow
    <3>3. mapping'[j] = MappingOf(act.reg)
      BY <2>2, <3>2 DEF TInv, Tables
    <3>4. /\ new.pc \in {"saved", "renamed"} /\ new.reg = act.reg
          /\ new.left = act.left
      BY <1>1 DEF Routine
    <3>5. actor' = [actor EXCEPT ![a] = actor'[a]] /\ actor'[a] = new
      BY <1>1, <2>2 DEF Set, Working
    <3> HIDE DEF new
    <3>6. Ready(a)'
      BY <3>2, <3>3, <3>4, <3>5 DEF Ready, Stands
    <3>7. QED
      BY <1>1, <3>5, <3>6, OthersReady
  <2>3. QED
    BY <1>11, <2>1, <2>2 DEF Save
<1>12. ASSUME NEW i \in Ids, NEW j \in Ids, Poll(a, i, j) PROVE AllReady'
  <2> DEFINE asked == [Idle EXCEPT !.id = i]
  <2>1. \/ Set(a, [asked EXCEPT !.pc = "record"])
        \/ \E reg : Set(a, [asked EXCEPT !.pc = "run", !.reg = reg])
        \/ \E reg : Set(a, [asked EXCEPT !.pc = "rename", !.reg = reg])
    BY <1>12 DEF Poll
  <2>2. /\ [asked EXCEPT !.pc = "record"].pc \in quiet
        /\ \A reg : [asked EXCEPT !.pc = "run", !.reg = reg].pc \in quiet
        /\ \A reg : [asked EXCEPT !.pc = "rename", !.reg = reg].pc \in quiet
    BY DEF Idle
  <2>3. QED
    BY <1>2, <2>1, <2>2
<1>13. QED
  BY <1>3, <1>4, <1>5, <1>6, <1>7, <1>9, <1>10, <1>11, <1>12 DEF PollStep

LEMMA ReadyByWorker ==
    ASSUME TaskMappingsAssumption, TInv, Owned, JInv, Next, ~Crash, WorkerStep
    PROVE  AllReady'
<1> DEFINE act == actor[Worker]
           quiet == {"idle", "next", "run", "ensure"}
<1>1. Worker \in Actors /\ act \in Routine /\ Working /\ Journaled
  BY Held DEF Actors, TInv, JInv
<1>2. ASSUME NEW rec, Set(Worker, rec), rec.pc \in quiet PROVE AllReady'
  <2>1. actor' = [actor EXCEPT ![Worker] = actor'[Worker]] /\ actor'[Worker] = rec
    BY <1>1, <1>2 DEF Set, Working
  <2>2. QED
    BY <1>1, <1>2, <2>1, QuietReady
<1>3. Idle.pc \in quiet
  BY DEF Idle
<1>4. CASE Reconcile
  <2> DEFINE next == [Idle EXCEPT !.pc = "next", !.batch = LoadedPending,
                                  !.known = LoadedDurable]
  <2>1. Set(Worker, Idle) \/ Set(Worker, next)
    BY <1>4 DEF Reconcile
  <2>2. next.pc \in quiet
    BY DEF Idle
  <2> HIDE DEF next, quiet
  <2>3. QED
    BY <1>2, <1>3, <2>1, <2>2
<1>5. CASE Acknowledge
  <2> DEFINE next == [act EXCEPT !.pc = "next", !.reg = NoRegistration, !.run = None]
  <2>1. Set(Worker, next)
    BY <1>5 DEF Acknowledge
  <2>2. next.pc \in quiet
    BY <1>1 DEF Routine
  <2> HIDE DEF next, quiet
  <2>3. QED
    BY <1>2, <2>1, <2>2
<1>6. CASE RecoverNext
  <2>1. CASE act.batch = {}
    <3>1. Set(Worker, Idle)
      BY <1>6, <2>1 DEF RecoverNext, Ends
    <3>2. QED
      BY <1>2, <1>3, <3>1
  <2>2. ASSUME NEW reg \in act.batch,
               LET rec == [act EXCEPT !.reg = reg, !.batch = @ \ {reg}]
               IN  \/ Set(Worker, [rec EXCEPT !.pc = Entry(reg)])
                   \/ /\ Journals(reg, TRUE)
                      /\ Set(Worker, [rec EXCEPT !.pc = "announce"])
                   \/ Set(Worker, [rec EXCEPT !.reg = NoRegistration])
        PROVE  AllReady'
    <3> DEFINE rec == [act EXCEPT !.reg = reg, !.batch = @ \ {reg}]
               entry == [rec EXCEPT !.pc = Entry(reg)]
               announce == [rec EXCEPT !.pc = "announce"]
               none == [rec EXCEPT !.reg = NoRegistration]
    <3>1. act.pc = "next"
      BY <1>6 DEF RecoverNext
    <3>2. entry.pc \in quiet /\ none.pc \in quiet
      BY <1>1, <3>1 DEF Routine, Entry
    <3>3. announce.pc = "announce" /\ announce.reg = reg
      BY <1>1 DEF Routine
    <3> HIDE DEF quiet, entry, announce, none
    <3>4. CASE Journals(reg, TRUE) /\ Set(Worker, announce)
      <4>1. actor' = [actor EXCEPT ![Worker] = actor'[Worker]] /\ actor'[Worker] = announce
        BY <1>1, <3>4 DEF Set, Working
      <4>2. reg \in Registration
        BY <1>1, <2>2 DEF Routine
      <4>3. \A i \in ToSet(reg.ids) : Explained(i, reg.channel)'
        BY <3>4, <4>2, JournaledExplained
      <4>4. Ready(Worker)'
        BY <3>3, <4>1, <4>3 DEF Ready, Explained, Stands
      <4>5. QED
        BY <1>1, <4>1, <4>4, OthersReady
    <3>5. Set(Worker, entry) \/ Set(Worker, none) \/ (Journals(reg, TRUE) /\ Set(Worker, announce))
      BY <2>2 DEF entry, announce, none
    <3>6. QED
      BY <1>2, <3>2, <3>4, <3>5
  <2>3. QED
    BY <1>6, <2>1, <2>2 DEF RecoverNext
<1>7. QED
  BY <1>4, <1>5, <1>6 DEF WorkerStep

LEMMA ReadyByOthers ==
    ASSUME TaskMappingsAssumption, TInv, Owned, JInv, Next, ~Crash,
           \/ \E i \in Ids : Load(i) \/ Evict(i)
           \/ Loaded \/ InvalidateChannel
           \/ \E c \in Channels : DeleteChannel(c)
    PROVE  AllReady'
<1>1. actor' = actor
  BY DEF Load, Evict, Loaded, InvalidateChannel, DeleteChannel
<1>2. ASSUME NEW b \in Actors PROVE Ready(b)'
  <2>1. CASE actor[b].pc \notin {"publish", "ack", "saved", "renamed", "announce"}
    BY <1>1, <2>1 DEF Ready
  <2>2. CASE actor[b].pc \in {"publish", "ack", "saved", "renamed", "announce"}
    BY <1>1, <2>2, ReadyStays
  <2>3. QED
    BY <2>1, <2>2
<1>3. QED
  BY <1>2 DEF AllReady

\* The worker's routine begins with Reconcile.
LEMMA WorkerRests ==
    ASSUME TaskMappingsAssumption, TInv, Next, actor[Worker].pc = "idle", ~Reconcile
    PROVE  actor'[Worker].pc = "idle"
<1>1. Worker \in Actors /\ Worker \notin Creates \cup Polls /\ Working /\ Tables
  BY DEF Actors, TaskMappingsAssumption, TInv
<1>2. ASSUME NEW a \in Actors, NEW rec, a # Worker, Set(a, rec) PROVE actor'[Worker] = actor[Worker]
  BY <1>1, <1>2 DEF Set, Working
<1>3. ASSUME NEW a \in Actors, NEW pcs, a # Worker, Goes(a, pcs)
      PROVE  actor'[Worker] = actor[Worker]
  BY <1>1, <1>3 DEF Goes, Working
<1>4. ASSUME NEW a \in Actors,
             \/ Choose(a) \/ Freeze(a) \/ Look(a) \/ RecordTaskAlias(a)
             \/ EnsureTaskMappings(a) \/ Publish(a) \/ Interrupted(a)
      PROVE  actor'[Worker] = actor[Worker]
  <2>1. a # Worker
    BY <1>4 DEF Choose, Freeze, Look, RecordTaskAlias, EnsureTaskMappings, Publish, Interrupted
  <2>2. \E pcs : Goes(a, pcs)
    BY <1>1, <1>4, RoutineGoes, EnsureResult
  <2>3. QED
    BY <1>3, <2>1, <2>2
<1>5. ASSUME NEW a \in Actors, Enqueue(a) \/ Announce(a) \/ Over(a)
      PROVE  actor'[Worker] = actor[Worker]
  <2>1. a # Worker
    BY <1>5 DEF Enqueue, Announce, Over
  <2>2. \E rec : Set(a, rec)
    BY <1>5 DEF Enqueue, Announce, Over, Ends
  <2>3. QED
    BY <1>2, <2>1, <2>2
<1>6. ASSUME NEW r \in Creates, Accept(r) \/ Disambiguate(r) \/ Project(r) \/ Attach(r)
      PROVE  actor'[Worker] = actor[Worker]
  <2>1. r \in Actors /\ r # Worker
    BY <1>1 DEF Actors
  <2>2. \E rec : Set(r, rec)
    BY <1>6 DEF Accept, Disambiguate, Project, Attach
  <2>3. QED
    BY <1>2, <2>1, <2>2
<1>7. ASSUME NEW p \in Polls, PollStep(p) \/ \E i, j \in Ids : Poll(p, i, j)
      PROVE  actor'[Worker] = actor[Worker]
  <2>1. p \in Actors /\ p # Worker
    BY <1>1 DEF Actors
  <2>2. PollStep(p) => \E rec : Set(p, rec)
    BY DEF PollStep, Record, Compare, Save, Refresh
  <2>3. ASSUME NEW i \in Ids, NEW j \in Ids, Poll(p, i, j) PROVE \E rec : Set(p, rec)
    BY <2>3 DEF Poll
  <2>4. QED
    BY <1>2, <1>7, <2>1, <2>2, <2>3
<1>8. ~WorkerStep
  BY DEF WorkerStep, RecoverNext, Acknowledge
<1>9. ASSUME \/ \E i \in Ids : Load(i) \/ Evict(i)
             \/ Loaded \/ InvalidateChannel
             \/ \E c \in Channels : DeleteChannel(c)
      PROVE  actor' = actor
  BY <1>9 DEF Load, Evict, Loaded, InvalidateChannel, DeleteChannel
<1>10. Crash => actor'[Worker].pc = "idle"
  BY <1>1 DEF Crash, Idle
<1>11. QED
  BY <1>4, <1>5, <1>6, <1>7, <1>8, <1>9, <1>10, StepCases

LEMMA JournaledKept ==
    ASSUME TaskMappingsAssumption, TInv, Owned, JInv, Next, ~Crash
    PROVE  Journaled'
<1>1. actor'[Worker].pc # "idle" => loaded'
  <2>1. CASE actor[Worker].pc # "idle"
    BY <2>1, LinesKept DEF JInv, Journaled
  <2>2. Reconcile => loaded'
    BY DEF Reconcile
  <2>3. QED
    BY <2>1, <2>2, WorkerRests
<1>2. ASSUME loaded', NEW reg \in journal' \ pending' PROVE Stored(reg)'
  <2>1. reg \in Registration
    <3>1. TInv'
      BY TypesKept
    <3>2. QED
      BY <3>1 DEF TInv, Queued
  <2>2. QED
    BY <1>2, <2>1, LinesKept, RegistrationStays
<1>3. QED
  BY <1>1, <1>2 DEF Journaled

LEMMA ReaderKept == Next => reader' \in {reader, None} \/ \E i \in Ids : Load(i)
<1> SUFFICES ASSUME Next PROVE reader' \in {reader, None} \/ \E i \in Ids : Load(i)
  OBVIOUS
<1>1. ASSUME NEW a \in Actors,
             \/ Choose(a) \/ Freeze(a) \/ Look(a) \/ RecordTaskAlias(a)
             \/ EnsureTaskMappings(a) \/ Publish(a) \/ Interrupted(a)
             \/ Enqueue(a) \/ Announce(a) \/ Over(a)
      PROVE  reader' = reader
  BY <1>1 DEF Choose, Freeze, Look, RecordTaskAlias, EnsureTaskMappings, Publish, Interrupted,
     Enqueue, Announce, Over, world
<1>2. ASSUME \/ \E r \in Creates : Accept(r) \/ Disambiguate(r) \/ Project(r) \/ Attach(r)
             \/ WorkerStep
      PROVE  reader' = reader
  BY <1>2 DEF Accept, Disambiguate, Project, Attach, WorkerStep, Reconcile, RecoverNext,
     Acknowledge, world
<1>3. ASSUME NEW p \in Polls, PollStep(p) \/ \E i, j \in Ids : Poll(p, i, j)
      PROVE  reader' = reader
  BY <1>3 DEF PollStep, Record, Compare, Save, Refresh, Poll, world
<1>4. ASSUME \/ \E i \in Ids : Evict(i)
             \/ Loaded \/ InvalidateChannel \/ Crash
             \/ \E c \in Channels : DeleteChannel(c)
      PROVE  reader' \in {reader, None}
  BY <1>4 DEF Evict, Loaded, InvalidateChannel, Crash, DeleteChannel, world
<1>5. QED
  BY <1>1, <1>2, <1>3, <1>4, StepCases

LEMMA CachedKept ==
    ASSUME TaskMappingsAssumption, TInv, Owned, JInv, Next, ~Crash
    PROVE  Cached'
<1>1. Tables /\ Working /\ Cached /\ AllReady
  BY DEF TInv, JInv
<1>2. ASSUME NEW i \in Ids, cache'[i] \in {cache[i], None} PROVE CachedRow(i)'
  BY <1>1, <1>2, ExplainedStays DEF Cached, CachedRow, Explained
<1>3. Reading'
  <2>1. CASE reader' = reader
    <3>1. reader # None => reader.id \in Ids
      BY <1>1 DEF Tables
    <3>2. QED
      BY <1>1, <2>1, <3>1, ExplainedStays DEF Cached, Reading, Explained
  <2>2. CASE reader' = None
    BY <2>2 DEF Reading
  <2>3. ASSUME NEW i \in Ids, Load(i) PROVE Reading'
    <3>1. /\ reader' = [id |-> i, mapping |-> mapping[i]]
          /\ mapping' = mapping /\ mapping[i] # None
      BY <2>3 DEF Load, tables
    <3>2. reader'.id = i /\ reader'.mapping = mapping[i]
      BY <3>1
    <3>3. QED
      BY <3>1, <3>2 DEF Reading, Explained, Stands
  <2>4. QED
    BY <2>1, <2>2, <2>3, ReaderKept
<1>4. ASSUME NEW a \in Actors, Publish(a) PROVE \A i \in Ids : CachedRow(i)'
  <2> DEFINE act == actor[a]
  <2>1. act.pc = "publish" /\ act.reg \in Registration
        /\ act.fresh \subseteq ToSet(act.reg.ids) /\ Ready(a)
    BY <1>1, <1>4, Held DEF Publish, Proper, AllReady
  <2>2. MappingOf(act.reg).channel = act.reg.channel
    BY <2>1, RegistrationRow
  <2>3. \A i \in Ids : cache'[i] = IF i \in act.fresh THEN MappingOf(act.reg) ELSE cache[i]
    BY <1>4 DEF Publish
  <2>4. ASSUME NEW i \in Ids, i \in act.fresh PROVE CachedRow(i)'
    <3>1. Stands(i, act.reg.channel)
      BY <2>1, <2>4 DEF Ready, Stored
    <3>2. \A c : Stands(i, c) => Stands(i, c)'
      BY StoredStays
    <3>3. QED
      BY <2>2, <2>3, <2>4, <3>1, <3>2 DEF CachedRow, Stands, Explained
  <2>5. QED
    BY <1>2, <2>3, <2>4
<1>5. ASSUME NEW a \in Actors, Announce(a) PROVE \A i \in Ids : CachedRow(i)'
  <2> DEFINE act == actor[a]
  <2>1. act.pc = "announce" /\ act.reg \in Registration /\ Ready(a)
    BY <1>1, <1>5, Held DEF Announce, Proper, AllReady
  <2>2. MappingOf(act.reg).channel = act.reg.channel
    BY <2>1, RegistrationRow
  <2>3. \A i \in Ids :
          cache'[i] = IF i \in ToSet(act.reg.ids) THEN MappingOf(act.reg) ELSE cache[i]
    BY <1>5 DEF Announce, Announced
  <2>4. ASSUME NEW i \in Ids, i \in ToSet(act.reg.ids) PROVE CachedRow(i)'
    <3>1. Explained(i, act.reg.channel)
      BY <2>1, <2>4 DEF Ready
    <3>2. \A c : Explained(i, c) => Explained(i, c)'
      BY ExplainedStays
    <3>3. QED
      BY <2>2, <2>3, <2>4, <3>1, <3>2 DEF CachedRow, Explained
  <2>5. QED
    BY <1>2, <2>3, <2>4
<1>6. ASSUME NEW p \in Polls, Refresh(p) PROVE \A i \in Ids : CachedRow(i)'
  <2> DEFINE act == actor[p]
             j == act.reg.ids[act.left]
             row == MappingOf(act.reg)
  <2>1. /\ act.reg \in Registration /\ act.left \in DOMAIN act.reg.ids
        /\ act.pc \in {"saved", "renamed"} /\ Ready(p)
    BY <1>1, <1>6, Held DEF Refresh, Proper, Actors, AllReady
  <2>2. j \in Ids /\ row.channel = act.reg.channel
    BY <2>1, RegistrationIds, RegistrationRow
  <2>3. Stands(j, row.channel)
    BY <2>1, <2>2 DEF Ready
  <2>4. cache' = [cache EXCEPT ![j] = row]
    BY <1>6 DEF Refresh
  <2> HIDE DEF j, row
  <2>5. ASSUME NEW i \in Ids PROVE CachedRow(i)'
    <3>1. CASE i # j
      <4>1. cache'[i] = cache[i]
        BY <1>1, <2>4, <3>1 DEF Tables
      <4>2. QED
        BY <1>2, <4>1
    <3>2. CASE i = j
      <4>1. cache'[i] = row
        BY <1>1, <2>4, <3>2 DEF Tables
      <4>2. \A c : Stands(i, c) => Stands(i, c)'
        BY StoredStays
      <4>3. QED
        BY <2>3, <3>2, <4>1, <4>2 DEF CachedRow, Stands, Explained
    <3>3. QED
      BY <3>1, <3>2
  <2>6. QED
    BY <2>5
<1>7. ASSUME Loaded PROVE \A i \in Ids : CachedRow(i)'
  <2>1. /\ reader # None /\ cache' = [cache EXCEPT ![reader.id] = reader.mapping]
        /\ reader.id \in Ids
    BY <1>1, <1>7 DEF Loaded, Tables
  <2>2. Explained(reader.id, reader.mapping.channel)
    BY <1>1, <2>1 DEF Cached, Reading
  <2>3. ASSUME NEW i \in Ids PROVE CachedRow(i)'
    <3>1. CASE i = reader.id
      <4>1. cache'[i] = reader.mapping
        BY <1>1, <2>1, <3>1 DEF Tables
      <4>2. Explained(i, reader.mapping.channel)
        BY <2>2, <3>1 DEF Explained
      <4>3. \A c : Explained(i, c) => Explained(i, c)'
        BY ExplainedStays
      <4>4. QED
        BY <4>1, <4>2, <4>3 DEF CachedRow, Explained
    <3>2. CASE i # reader.id
      <4>1. cache'[i] = cache[i]
        BY <1>1, <2>1, <3>2 DEF Tables
      <4>2. QED
        BY <1>2, <4>1
    <3>3. QED
      BY <3>1, <3>2
  <2>4. QED
    BY <2>3
<1>8. ASSUME \/ \E i \in Ids : Load(i) \/ Evict(i)
              \/ InvalidateChannel
              \/ \E c \in Channels : DeleteChannel(c)
       PROVE  \A i \in Ids : cache'[i] \in {cache[i], None}
  <2>1. ASSUME NEW i \in Ids, Evict(i) PROVE \A j \in Ids : cache'[j] \in {cache[j], None}
    BY <1>1, <2>1 DEF Evict, Tables
  <2>2. ASSUME InvalidateChannel PROVE \A j \in Ids : cache'[j] \in {cache[j], None}
    BY <2>2 DEF InvalidateChannel
  <2>3. ASSUME (\E i \in Ids : Load(i)) \/ (\E c \in Channels : DeleteChannel(c))
        PROVE  cache' = cache
    BY <2>3 DEF Load, DeleteChannel
  <2>4. QED
    BY <1>8, <2>1, <2>2, <2>3
<1>9. ASSUME NEW a \in Actors,
              \/ Choose(a) \/ Freeze(a) \/ Look(a) \/ RecordTaskAlias(a)
              \/ EnsureTaskMappings(a) \/ Interrupted(a) \/ Enqueue(a) \/ Over(a)
       PROVE  cache' = cache
  BY <1>9 DEF Choose, Freeze, Look, RecordTaskAlias, EnsureTaskMappings, Interrupted, Enqueue, Over
<1>10. ASSUME \/ \E r \in Creates : Accept(r) \/ Disambiguate(r) \/ Project(r) \/ Attach(r)
              \/ \E p \in Polls :
                    Record(p) \/ Compare(p) \/ Save(p) \/ \E i, j \in Ids : Poll(p, i, j)
              \/ WorkerStep
       PROVE  cache' = cache
  BY <1>10 DEF Accept, Disambiguate, Project, Attach, Record, Compare, Save, Poll, WorkerStep,
     Reconcile, RecoverNext, Acknowledge
<1>11. cache' = cache => \A i \in Ids : CachedRow(i)'
  BY <1>2
<1>12. \A i \in Ids : CachedRow(i)'
  <2>1. CASE \/ \E a \in Actors : Choose(a) \/ Freeze(a) \/ Look(a) \/ RecordTaskAlias(a)
                                  \/ EnsureTaskMappings(a) \/ Publish(a) \/ Interrupted(a)
             \/ \E a \in Actors : Enqueue(a) \/ Announce(a) \/ Over(a)
    BY <1>4, <1>5, <1>9, <1>11, <2>1
  <2>2. CASE \/ \E r \in Creates : Accept(r) \/ Disambiguate(r) \/ Project(r) \/ Attach(r)
             \/ WorkerStep
    BY <1>10, <1>11, <2>2
  <2>3. CASE \E p \in Polls : PollStep(p) \/ \E i, j \in Ids : Poll(p, i, j)
    BY <1>6, <1>10, <1>11, <2>3 DEF PollStep
  <2>4. CASE \/ \E i \in Ids : Load(i) \/ Evict(i)
             \/ Loaded \/ InvalidateChannel
             \/ \E c \in Channels : DeleteChannel(c)
    <3>1. CASE Loaded
      BY <1>7, <3>1
    <3>2. CASE ~Loaded
      <4>1. \A i \in Ids : cache'[i] \in {cache[i], None}
        BY <1>8, <2>4, <3>2
      <4>2. QED
        BY <1>2, <4>1
    <3>3. QED
      BY <3>1, <3>2
  <2>5. QED
    BY <2>1, <2>2, <2>3, <2>4, StepCases
<1>13. QED
  BY <1>3, <1>12 DEF Cached

LEMMA JInvAtFirst == ASSUME TaskMappingsAssumption, Init PROVE JInv
<1>1. \A a \in Actors : actor[a].pc = "idle"
  BY DEF Init, Idle
<1>2. AllReady
  BY <1>1 DEF AllReady, Ready
<1>3. Worker \in Actors
  BY DEF Actors
<1>4. Journaled
  BY <1>1, <1>3 DEF Init, Journaled
<1>5. Durables
  BY DEF Init, Durables
<1>6. Cached
  BY DEF Init, Cached, CachedRow, Reading
<1>7. QED
  BY <1>2, <1>4, <1>5, <1>6 DEF JInv

\* A process that begins knows nothing, and has nothing cached.
LEMMA JInvByCrash == ASSUME Crash PROVE JInv'
<1>1. /\ \A a \in Actors : actor'[a].pc = "idle"
      /\ loaded' = FALSE /\ durable' = {} /\ reader' = None /\ \A i \in Ids : cache'[i] = None
  BY DEF Crash, Idle
<1>2. Worker \in Actors
  BY DEF Actors
<1>3. Journaled' /\ Durables'
  BY <1>1, <1>2 DEF Journaled, Durables
<1>4. AllReady'
  BY <1>1 DEF AllReady, Ready
<1>5. Cached'
  BY <1>1 DEF Cached, CachedRow, Reading
<1>6. QED
  BY <1>3, <1>4, <1>5 DEF JInv

LEMMA JInvKept ==
    ASSUME TaskMappingsAssumption, TInv, Owned, JInv, [Next]_vars
    PROVE  JInv'
<1>1. CASE Next /\ ~Crash
  <2>1. AllReady'
    BY <1>1, StepCases, ReadyByPersisting, ReadyByEnqueue, ReadyByRequests, ReadyByWorker,
       ReadyByOthers
  <2>2. QED
    BY <1>1, <2>1, JournaledKept, DurablesKept, CachedKept DEF JInv
<1>2. CASE UNCHANGED vars
  BY <1>2 DEF JInv, Journaled, Durables, Stored, AllReady, Ready, Stands, Explained, Cached,
     CachedRow, Reading, vars, tables, queue, world
<1>3. QED
  BY <1>1, <1>2, JInvByCrash

\* What the cache says of an ID is in the table or would be found in the journal,
\* and what the queue takes for durable a load would find or has been stored;
\* unless the channel was deleted, a status query moved the ID, or a torn line of
\* the journal has taken in the entry of a process that still lives.
THEOREM PublicationsHold ==
    ASSUME TaskMappingsAssumption
    PROVE  Spec => []PublishedIsRecoverable
<1>1. Init => TInv /\ Owned /\ JInv
  BY TypesAtFirst, OwnedAtFirst, JInvAtFirst
<1>2. TInv /\ Owned /\ JInv /\ [Next]_vars => (TInv /\ Owned /\ JInv)'
  BY TypesKept, OwnedKept, JInvKept
<1>3. JInv => PublishedIsRecoverable
  BY DEF JInv, Durables, Stored, Cached, CachedRow, PublishedIsRecoverable
<1>4. QED
  BY <1>1, <1>2, <1>3, PTL DEF Spec

\* No registration is forgotten before its IDs are stored for its channel, be it
\* by its acknowledgement, whether synced or not, or with the file that is emptied,
\* unless the channel was deleted or a status query moved the ID.
THEOREM RecoveryHolds ==
    ASSUME TaskMappingsAssumption
    PROVE  Spec => RecoveredBeforeForgotten
<1>1. ASSUME TInv, Owned, JInv, [Next]_vars
      PROVE  \A reg \in journal \ journal', i \in Ids :
                i \in ToSet(reg.ids) => Stands(i, reg.channel)
  <2>1. CASE Next /\ ~Crash
    BY <1>1, <2>1, LinesKept DEF Stored
  <2>2. CASE Crash \/ UNCHANGED vars
    BY <2>2 DEF Crash, vars, queue
  <2>3. QED
    BY <1>1, <2>1, <2>2
<1>2. Init => TInv /\ Owned /\ JInv
  BY TypesAtFirst, OwnedAtFirst, JInvAtFirst
<1>3. TInv /\ Owned /\ JInv /\ [Next]_vars => (TInv /\ Owned /\ JInv)'
  BY TypesKept, OwnedKept, JInvKept
<1>4. QED
  BY <1>1, <1>2, <1>3, PTL DEF Spec, RecoveredBeforeForgotten
=============================================================================
