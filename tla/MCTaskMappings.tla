----------------------------- MODULE MCTaskMappings -----------------------------
(***************************************************************************)
(* TaskMappings with creations, a query and channels of which TLC sees     *)
(* the behaviours that use one part.                                       *)
(*   race    two creations, of both engines and on two channels whose      *)
(*           providers use the same ID; a crash                            *)
(*   asked   one creation, a client that asks for it and learns a second   *)
(*           ID; a channel that is deleted, or a crash                     *)
(*   moved   two creations of the legacy engine race for an ID, and a      *)
(*           client asks for it; no row is on its way into the cache       *)
(*           when or after a write fails                                   *)
(*   named   two creations on two channels, and a client that asks for the *)
(*           first, which its provider calls as the other calls the second *)
(*           (no write fails, nor is a row on its way into the cache)      *)
(*   torn    one creation, whose entry meets a torn line; a crash          *)
(* One local write fails, and in the last part three.                      *)
(***************************************************************************)
EXTENDS TaskMappings

CONSTANTS t2, p1, c2, y   \* those that not every part has

VARIABLE part

FirstReplies == {<<i>> : i \in ProviderIds}

ASSUME TaskMappingsAssumption

\* Creations and channels are alike: the first task is another channel's than c2,
\* and t2 does not come before c2 has one.
InTurn ==
    LET has(c) == \E i \in Ids : <<c, i>> \in given
    IN  /\ has(c2) => \E c \in Channels \ {c2} : has(c)
        /\ ~has(c2) => actor[t2] = Idle /\ answer[t2] = "none"

\* What a behaviour of each part stays within.
WithinPart ==
    /\ InTurn
    /\ part # "asked" => deleted = {}
    /\ part \notin {"asked", "named"} => \A c \in Channels : <<c, y>> \notin given
    /\ part # "named" => \A r \in Creates : y \notin ToSet(actor[r].reg.ids)
    /\ part # "torn" => faults <= 1
    /\ part \in {"race", "torn"} => actor[p1] = Idle
    /\ part \in {"asked", "torn"} => actor[t2] = Idle /\ \A i \in Ids : <<c2, i>> \notin given
    /\ part = "asked" => crashes + Cardinality(deleted) <= 1
    /\ part = "named" =>
          /\ \A i \in ProviderIds \ {y} : <<c2, i>> \notin given
          /\ faults = 0 /\ reader = None
    /\ part \in {"moved", "named"} =>
          /\ crashes = 0
          /\ faults = 0 \/ reader = None
          /\ \A r \in Creates : actor[r].reg.engine = "legacy"

MappingsInit == Init /\ part \in {"race", "asked", "moved", "named", "torn"}
MappingsNext == Next /\ UNCHANGED part /\ WithinPart'
MappingsSpec == MappingsInit /\ [][MappingsNext]_<<part, vars>> /\ Fairness
=============================================================================
