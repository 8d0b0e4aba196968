------------------------------- MODULE Routing -------------------------------
(***************************************************************************)
(* Which channel serves a request, and what happens when it does not       *)
(* (service/dispatcher.go, router/profile_direct.go, the executors of      *)
(* protocol/executor.go and adapter/openai.go).                            *)
(*                                                                         *)
(* A request for a model is first offered to the profile engine, which     *)
(* takes the channels with a binding of the operation, and otherwise to    *)
(* the legacy engine, which takes those with an adapter.  Channels that    *)
(* know the model go before the others, one priority after the other, and  *)
(* inside a priority by smooth weighted round robin.  The turns are kept   *)
(* for each set of healthy channels, for the MaxPools used last.           *)
(*                                                                         *)
(* One model and one operation; the breakers (ChannelBreaker) refuse and   *)
(* admit as they like here, and one exchange with a provider is one step.  *)
(***************************************************************************)
EXTENDS Integers, Sequences, FiniteSets, Functions

CONSTANTS Requests,
          Order,       \* the channels, in the order of the cache: by priority and weight
          Fleets,      \* the configurations they may have
          Replies,     \* the outcomes of an exchange
          MaxWeight,   \* the weight that counts, 100 in the code
          MaxPools,    \* maxSchedulingPools
          MaxTurns,    \* bound: turns taken between two saved channels
          MaxChanges   \* bound: changes of the configuration

Channels == Range(Order)
Channel == [active : BOOLEAN, tier : Int, weight : Int,
            allows : BOOLEAN,                          \* AllowsModel
            offers : {"listed", "star", "unlisted"},   \* how it names the model
            binding : {"none", "direct", "async"},
            adapter : BOOLEAN,                         \* of the route's protocol
            keys : Nat \ {0}]
Rejections == {"auth", "quota", "absent", "timeout", "refused"}
MayHaveRun == {"answered", "failed", "lost"}

RoutingAssumption ==
    /\ Order \in Seq(Channels) /\ IsInjective(Order)
    /\ Fleets # {} /\ Fleets \subseteq [Channels -> Channel]
    /\ Replies \subseteq Rejections \cup MayHaveRun
    /\ MaxWeight \in Nat \ {0} /\ MaxPools \in Nat \ {0}
    /\ MaxTurns \in Nat /\ MaxChanges \in Nat

VARIABLES
    fleet,    \* the channels of the cache and the bindings of the tables
    open,     \* channels whose breaker refuses
    pools,    \* schedulingPools: the next turn of a set, when it was used last,
              \* and how often each channel was first
    clock,    \* schedulingClock
    request,
    recent,   \* the MaxPools sets used last, the last one first
    changes

store == <<fleet, open, changes>>
turns == <<pools, clock, recent>>
vars == <<store, turns, request>>

\* A request: where it is, the channels it has read, those still to be ordered
\* and the candidates still to be tried, whether the profile engine has
\* taken it, the keys of the candidate left, the exchanges, and those of them
\* that may have been executed.
NoRequest(f) == [at |-> "done", engine |-> "profile", gone |-> FALSE, fleet |-> f,
            rest |-> {}, list |-> <<>>, bound |-> FALSE, keys |-> 0,
            asked |-> <<>>, ran |-> {}]

Init ==
    /\ fleet \in Fleets /\ open = {} /\ changes = 0
    /\ pools = <<>> /\ clock = 0 /\ recent = <<>>
    /\ request = [r \in Requests |-> NoRequest(fleet)]

-----------------------------------------------------------------------------
(* The order of a set of channels.                                         *)

AtLeastOne(n) == IF n <= 0 THEN 1 ELSE n
Weight(w) == IF AtLeastOne(w) > MaxWeight THEN MaxWeight ELSE AtLeastOne(w)
Sum(weights) ==
    LET sum[n \in 0 .. Len(weights)] == IF n = 0 THEN 0 ELSE sum[n - 1] + weights[n]
    IN  sum[Len(weights)]

\* The first of the largest.
Largest(raised) ==
    CHOOSE n \in DOMAIN raised : /\ \A m \in DOMAIN raised : raised[m] <= raised[n]
                                 /\ \A m \in 1 .. n - 1 : raised[m] < raised[n]
Raised(current, weights) == [n \in DOMAIN weights |-> current[n] + weights[n]]

\* The place in a turn of the cycle: each place's weight is added to it, and the
\* first of the largest pays the total.
SmoothPlace(weights, turn) ==
    LET current[i \in 0 .. turn] ==
            IF i = 0 THEN [n \in DOMAIN weights |-> 0]
            ELSE LET raised == Raised(current[i - 1], weights)
                 IN  [raised EXCEPT ![Largest(raised)] = @ - Sum(weights)]
    IN  Largest(Raised(current[turn], weights))

\* The weights are compared before they are cut.
SameWeights(f, list) ==
    \A n \in DOMAIN list : AtLeastOne(f[list[n]].weight) = AtLeastOne(f[list[1]].weight)

\* Seeded bug: the channel with the largest weight is always first.
HeaviestFirst(f, list, index) ==
    CHOOSE n \in DOMAIN list :
        \A m \in DOMAIN list : Weight(f[list[m]].weight) <= Weight(f[list[n]].weight)

\* scheduleHealthyChannels: the place that is first in a turn.
FirstPlace(f, list, index) ==
    IF SameWeights(f, list) THEN 1 + (index % Len(list))
    ELSE LET weights == [n \in DOMAIN list |-> Weight(f[list[n]].weight)]
         IN  SmoothPlace(weights, index % Sum(weights))
From(list, place) == [n \in DOMAIN list |-> list[1 + ((place + n - 2) % Len(list))]]

\* A pool is known by its channels and their weights.
PoolKey(f, list) == [n \in DOMAIN list |-> <<list[n], Weight(f[list[n]].weight)>>]
Fresh(key) == [next |-> 0, used |-> 0, led |-> [n \in DOMAIN key |-> 0]]
\* Seeded bug: the set with the fewest turns makes room.
LeastUsed ==
    CHOOSE k \in DOMAIN pools : \A other \in DOMAIN pools : pools[k].next <= pools[other].next

Oldest == CHOOSE k \in DOMAIN pools : \A other \in DOMAIN pools : pools[k].used <= pools[other].used

\* nextSchedulingIndex: with all pools in use, a new one takes the place of the
\* one used longest ago.
NextTurn(key, place) ==
    LET kept == IF key \in DOMAIN pools \/ Cardinality(DOMAIN pools) < MaxPools
                THEN DOMAIN pools ELSE DOMAIN pools \ {Oldest}
        pool == IF key \in DOMAIN pools THEN pools[key] ELSE Fresh(key)
    IN  /\ clock' = clock + 1
        /\ pools' = [k \in kept \cup {key} |->
                        IF k # key THEN pools[k]
                        ELSE [next |-> pool.next + 1, led |-> [pool.led EXCEPT ![place] = @ + 1],
                              used |-> clock + 1]]
Turn(key) == IF key \in DOMAIN pools THEN pools[key].next ELSE 0
LatestFirst(key) ==
    LET known == \E n \in DOMAIN recent : recent[n] = key
        gone == IF known THEN CHOOSE n \in DOMAIN recent : recent[n] = key
                ELSE IF Len(recent) < MaxPools THEN Len(recent) + 1 ELSE Len(recent)
    IN  [n \in 1 .. (IF known THEN Len(recent) ELSE gone) |->
            IF n = 1 THEN key ELSE IF n <= gone THEN recent[n - 1] ELSE recent[n]]

-----------------------------------------------------------------------------
(* The candidates of a request.                                            *)

Active(f) == {c \in Channels : f[c].active}
Eligible(f, engine) ==
    {c \in Active(f) : IF engine = "profile" THEN f[c].allows /\ f[c].binding # "none"
                                            ELSE f[c].adapter}

\* orderCandidatePool: those that list the model, else those with "*", else all.
Matched(f, set) ==
    LET Offering(how) == {c \in set : f[c].offers = how}
    IN  IF Offering("listed") # {} THEN Offering("listed")
        ELSE IF Offering("star") # {} THEN Offering("star") ELSE set

\* The channels of the next priority, and a set of channels in the order of the
\* cache.
NextTier(f, set) ==
    {c \in set : \A other \in set : AtLeastOne(f[c].tier) <= AtLeastOne(f[other].tier)}
InOrder(set) ==
    LET kept[n \in 0 .. Len(Order)] ==
            IF n = 0 THEN <<>>
            ELSE IF Order[n] \in set THEN Append(kept[n - 1], Order[n]) ELSE kept[n - 1]
    IN  kept[Len(Order)]

Set(r, changed) == request' = [request EXCEPT ![r] = changed]
End(r, q) == Set(r, [NoRequest(q.fleet) EXCEPT !.asked = q.asked, !.ran = q.ran])

\* A client asks; the profile engine is left out where it is switched off or
\* the body is not JSON.
Arrive(r) ==
    /\ request[r].at = "done"
    /\ \E engine \in {"profile", "legacy"} :
          Set(r, [NoRequest(fleet) EXCEPT !.at = "resolve", !.engine = engine])
    /\ UNCHANGED <<store, turns>>

\* The client leaves; what is asked then is cancelled.
Leave(r) ==
    /\ request[r].at # "done" /\ ~request[r].gone
    /\ Set(r, [request[r] EXCEPT !.gone = TRUE])
    /\ UNCHANGED <<store, turns>>

\* A model that no channel has selected ends the request in either engine; the
\* profile engine hands over whatever else it has no candidates for, an error
\* of its tables included.
Resolve(r) ==
    LET engine == request[r].engine
        eligible == Eligible(fleet, engine)
        allowed == {c \in eligible : fleet[c].allows}
        found == [request[r] EXCEPT !.at = "order", !.fleet = fleet,
                                    !.rest = Matched(fleet, allowed)]
        legacy == [request[r] EXCEPT !.engine = "legacy"]
        NobodyAllows == \A c \in Active(fleet) : ~fleet[c].allows
    IN  /\ request[r].at = "resolve"
        /\ \/ engine = "profile" /\ Set(r, legacy)
           \/ /\ engine = "profile" /\ ~request[r].gone /\ Active(fleet) # {}
              /\ \/ NobodyAllows /\ End(r, request[r])
                 \/ eligible # {} /\ Set(r, found)
           \/ engine = "legacy" /\ allowed = {} /\ End(r, request[r])
           \/ engine = "legacy" /\ allowed # {} /\ Set(r, found)
        /\ UNCHANGED <<store, turns>>

\* The channels of the next priority whose breaker admits are ordered; the last
\* priority ends the list.
OrderTier(r) ==
    LET q == request[r]
        tier == NextTier(q.fleet, q.rest)
        healthy == InOrder(tier \ open)
        key == PoolKey(q.fleet, healthy)
        place == FirstPlace(q.fleet, healthy, Turn(key))
        Listed(list) == Set(r, [q EXCEPT !.rest = @ \ tier, !.list = @ \o list])
    IN  /\ q.at = "order" /\ q.rest # {}
        /\ \/ Len(healthy) < 2 /\ Listed(healthy) /\ UNCHANGED turns
           \/ /\ Len(healthy) >= 2 /\ clock < MaxTurns
              /\ NextTurn(key, place) /\ recent' = LatestFirst(key)
              /\ Listed(From(healthy, place))
        /\ UNCHANGED store

\* With no candidate, the profile engine hands the request over.
Ordered(r) ==
    LET q == request[r]
    IN  /\ q.at = "order" /\ q.rest = {}
        /\ \/ q.list # <<>> /\ Set(r, [q EXCEPT !.at = "try"])
           \/ q.list = <<>> /\ q.engine = "legacy" /\ End(r, request[r])
           \/ /\ q.list = <<>> /\ q.engine = "profile"
              /\ Set(r, [q EXCEPT !.at = "resolve", !.engine = "legacy"])
        /\ UNCHANGED <<store, turns>>

-----------------------------------------------------------------------------
(* The candidates are tried one after the other.                           *)

Pass(q) == [q EXCEPT !.at = "try", !.list = Tail(@), !.keys = 0]

\* The profile engine reads the binding again, and leaves out a channel without
\* one or with one for another mode; a channel that cools down is passed over.
Try(r) ==
    LET q == request[r]
        c == Head(q.list)
        taken == [q EXCEPT !.bound = q.engine = "profile"]
    IN  /\ q.at = "try" /\ q.list # <<>> /\ ~q.gone
        /\ \/ /\ q.engine = "profile" /\ fleet[c].binding # "direct"
              /\ Set(r, Pass(q))
           \/ /\ q.engine = "profile" => fleet[c].binding = "direct"
              /\ \/ c \in open /\ Set(r, Pass(taken))
                 \/ c \notin open /\ Set(r, [taken EXCEPT !.at = "ask", !.keys = q.fleet[c].keys])
           \/ q.engine = "profile" /\ End(r, request[r])   \* the binding or its profile cannot be read
        /\ UNCHANGED <<store, turns>>

\* Seeded bug: the request is handed over after channels were asked.
ExhaustedToLegacy(r) ==
    LET q == request[r]
    IN  /\ q.at = "try" /\ q.list = <<>> /\ ~q.gone
        /\ IF q.engine = "legacy" THEN End(r, request[r])
           ELSE Set(r, [q EXCEPT !.at = "resolve", !.engine = "legacy"])
        /\ UNCHANGED <<store, turns>>

\* When none is left the client gets the last error, unless the profile engine
\* has taken none of them.
Exhausted(r) ==
    LET q == request[r]
    IN  /\ q.at = "try" /\ q.list = <<>> /\ ~q.gone
        /\ IF q.engine = "legacy" \/ q.bound THEN End(r, request[r])
           ELSE Set(r, [q EXCEPT !.at = "resolve", !.engine = "legacy"])
        /\ UNCHANGED <<store, turns>>

\* A request whose client has left asks nobody.
Cancelled(r) ==
    /\ request[r].at \in {"try", "ask"} /\ request[r].gone
    /\ End(r, request[r])
    /\ UNCHANGED <<store, turns>>

\* The next key is used after a refusal of the key; the legacy executor also
\* counts a quota as one (ExecuteWithKeyRotation, ExecuteRaw).
Rotates(engine, answer) == answer \in IF engine = "legacy" THEN {"auth", "quota"} ELSE {"auth"}

\* Seeded bug: a failure of the provider is retried elsewhere.
RetriesFailures(engine, answer) == answer \in {"auth", "absent", "quota", "failed"}

\* The next channel is asked after a refusal that says nothing of the request.
\* isFailoverEligibleForPolicy leaves the time-out out, profileDirectFailoverEligible
\* does not.
FailoverEligible(engine, answer) ==
    answer \in {"auth", "absent", "quota"} \cup (IF engine = "profile" THEN {"timeout"} ELSE {})

\* An exchange with the provider. A 5xx, a lost connection and a 2xx, even if
\* its body is cut off or holds an error, may have run the request, and end it.
Ask(r, answer) ==
    LET q == request[r]
        exchange == <<Head(q.list), q.keys>>
        asked == [q EXCEPT !.asked = Append(@, exchange),
                           !.ran = IF answer \in MayHaveRun THEN @ \cup {Len(q.asked) + 1} ELSE @]
    IN  /\ q.at = "ask" /\ ~q.gone
        /\ \/ Rotates(q.engine, answer) /\ q.keys > 1 /\ Set(r, [asked EXCEPT !.keys = @ - 1])
           \/ /\ ~(Rotates(q.engine, answer) /\ q.keys > 1)
              /\ \/ FailoverEligible(q.engine, answer) /\ Set(r, Pass(asked))
                 \/ ~FailoverEligible(q.engine, answer) /\ End(r, asked)
        /\ UNCHANGED <<store, turns>>

-----------------------------------------------------------------------------
(* What happens to the channels meanwhile.                                 *)

\* A breaker opens, or admits again.
Cool(c) == /\ open' = IF c \in open THEN open \ {c} ELSE open \cup {c}
           /\ UNCHANGED <<fleet, changes, turns, request>>

\* Bindings are edited. Channels and turns stay.
Bind ==
    /\ changes < MaxChanges /\ changes' = changes + 1
    /\ \E f \in Fleets \ {fleet} :
          /\ \A c \in Channels : f[c] = [fleet[c] EXCEPT !.binding = f[c].binding]
          /\ fleet' = f
    /\ UNCHANGED <<open, turns, request>>

\* A channel is saved: its breaker is reset and all turns are forgotten
\* (InvalidateChannel); requests keep the channels they have read.
SaveChannel(c) ==
    /\ changes < MaxChanges /\ changes' = changes + 1
    /\ \E f \in Fleets \ {fleet} :
          (\A other \in Channels \ {c} : f[other] = fleet[other]) /\ fleet' = f
    /\ open' = open \ {c}
    /\ pools' = <<>> /\ clock' = 0 /\ recent' = <<>>
    /\ UNCHANGED request

RequestStep(r) ==
    \/ Arrive(r) \/ Leave(r) \/ Resolve(r) \/ OrderTier(r) \/ Ordered(r)
    \/ Try(r) \/ Exhausted(r) \/ Cancelled(r)

Next ==
    \/ \E r \in Requests : RequestStep(r) \/ \E answer \in Replies : Ask(r, answer)
    \/ \E c \in Channels : Cool(c) \/ SaveChannel(c)
    \/ Bind

Spec == Init /\ [][Next]_vars

-----------------------------------------------------------------------------
TypeOK ==
    /\ fleet \in Fleets /\ open \subseteq Channels /\ changes \in 0 .. MaxChanges
    /\ clock \in 0 .. MaxTurns
    /\ \A k \in DOMAIN pools : /\ pools[k].next \in 1 .. clock /\ pools[k].used \in 1 .. clock
                              /\ pools[k].led \in [DOMAIN k -> 0 .. clock]
    /\ \A r \in Requests :
          LET q == request[r]
          IN  /\ q.at \in {"done", "resolve", "order", "try", "ask"}
              /\ q.engine \in {"profile", "legacy"} /\ {q.gone, q.bound} \subseteq BOOLEAN
              /\ q.fleet \in Fleets /\ q.list \in Seq(Channels) /\ q.rest \subseteq Channels
              /\ IsInjective(q.list) /\ q.at = "ask" => q.list # <<>> /\ q.keys > 0

\* A provider is given the request once: every key of every channel is asked at
\* most once by the two engines together, and nobody is asked after an exchange
\* that may have run it (isFailoverEligibleForPolicy, profileDirectFailoverEligible,
\* ExecuteWithKeyRotation, ExecuteRaw).
SubmittedOnce ==
    \A r \in Requests :
        LET q == request[r]
        IN  /\ IsInjective(q.asked)
            /\ q.ran # {} => q.at = "done" /\ q.ran = {Len(q.asked)}

\* The MaxPools sets used last keep their turns, and no other set does
\* (nextSchedulingIndex).
TurnsKept == DOMAIN pools = Range(recent) /\ Len(recent) <= MaxPools

\* In the turns of a set each channel was first as often as its weight says, give
\* or take one (scheduleHealthyChannels).
TurnsFair ==
    \A key \in DOMAIN pools :
        LET weights == [n \in DOMAIN key |-> key[n][2]]
            pool == pools[key]
            due(n) == pool.next * weights[n]
            had(n) == pool.led[n] * Sum(weights)
        IN  \A n \in DOMAIN key : /\ had(n) - due(n) < Sum(weights)
                                  /\ due(n) - had(n) < Sum(weights)
=============================================================================
