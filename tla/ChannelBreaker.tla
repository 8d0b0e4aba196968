--------------------------- MODULE ChannelBreaker ---------------------------
(***************************************************************************)
(* The circuit breaker of one upstream channel (service/dispatcher.go and  *)
(* service/profile_executor.go): requests take a lease on the breaker,     *)
(* call the provider, and report the outcome under the breaker's mutex,    *)
(* while administrators save or remove the channel.                        *)
(*                                                                         *)
(* One critical section is one action; looking the breaker up in the map,  *)
(* reading the configuration generation and locking the breaker are three. *)
(* A breaker removed from the map lives on for the requests that hold it,  *)
(* so breakers are numbered in the order they were made.  failCount is     *)
(* cut at Threshold, the only value it is compared with.                   *)
(***************************************************************************)
EXTENDS Integers

CONSTANTS Requests,    \* concurrent requests on the channel
          None,        \* no breaker in the map
          Threshold,   \* consecutive failures that open the circuit
          Cooldown,    \* ticks an open circuit refuses everybody
          Window,      \* ticks after which an old failure is forgotten
          MaxBreakers, \* bound: breakers ever made for the channel
          MaxSaves,    \* bound: saves and removals
          MaxEpoch,    \* bound: epochs in which new requests start
          MaxProbes    \* bound: probes of one breaker

Breakers == 1..MaxBreakers

ASSUME BreakerAssumption ==
    /\ None \notin Breakers
    /\ Threshold \in Nat \ {0}
    /\ Cooldown \in Nat \ {0}
    /\ Window \in Nat \ {0}
    /\ MaxBreakers \in Nat \ {0}
    /\ MaxSaves \in Nat
    /\ MaxEpoch \in Nat
    /\ MaxProbes \in Nat

VARIABLES
    failCount,   \* per breaker, as are the next five
    recent,      \* ticks until the last failure is forgotten
    cooldown,    \* Closed, or ticks to cooldownUntil, 0 when it has passed
    halfOpen,    \* a probe is reserved
    epoch,
    probeID,
    turns,       \* history: times the circuit was opened or reset
    current,     \* the breaker in the map
    made,        \* breakers made so far
    generation,  \* modelGeneration of the channel
    saver,       \* where the running save or removal is
    saves,       \* saves and removals begun
    request      \* what each request holds

health == <<failCount, recent, cooldown, halfOpen, epoch, probeID, turns>>
channel == <<current, made, generation, saver, saves>>
vars == <<health, channel, request>>

Closed == -1
Open(b) == cooldown[b] # Closed

PCs == {"idle", "begun", "looked", "held", "judged"}
Outcomes == {"ignored", "succeeded", "failed"}
\* `generation' is -1 for a request of the legacy dispatcher, which does not
\* compare generations.
Request == [pc : PCs, generation : Nat \cup {-1}, breaker : Breakers,
            epoch : Nat, probe : Nat, turn : Nat, outcome : Outcomes]
IdleRequest == [pc |-> "idle", generation |-> -1, breaker |-> 1, epoch |-> 0,
                probe |-> 0, turn |-> 0, outcome |-> "ignored"]

Init ==
    /\ failCount = [b \in Breakers |-> 0]
    /\ recent = [b \in Breakers |-> 0]
    /\ cooldown = [b \in Breakers |-> Closed]
    /\ halfOpen = [b \in Breakers |-> FALSE]
    /\ epoch = [b \in Breakers |-> 0]
    /\ probeID = [b \in Breakers |-> 0]
    /\ turns = [b \in Breakers |-> 0]
    /\ current = None
    /\ made = 0
    /\ generation = 0
    /\ saver = "idle"
    /\ saves = 0
    /\ request = [r \in Requests |-> IdleRequest]

-----------------------------------------------------------------------------
(* A request. *)

\* beginProfileAttempt reads the generation; ExecuteWithPolicy starts without.
Begin(r) ==
    /\ request[r].pc = "idle"
    /\ \E g \in {generation, -1} :
         request' = [request EXCEPT ![r].pc = "begun", ![r].generation = g]
    /\ UNCHANGED <<health, channel>>

\* GetBreaker: load the channel's breaker, or store a new one.
GetBreaker(r) ==
    /\ request[r].pc = "begun"
    /\ IF current = None
         THEN /\ made < MaxBreakers
              /\ made' = made + 1
              /\ current' = made'
         ELSE UNCHANGED <<current, made>>
    /\ request' = [request EXCEPT ![r].pc = "looked", ![r].breaker = current']
    /\ UNCHANGED <<health, generation, saver, saves>>

Hold(r, b, probe) ==
    request' = [request EXCEPT ![r].pc = "held", ![r].epoch = epoch[b],
                               ![r].probe = probe, ![r].turn = turns[b]]
Leave(r) == request' = [request EXCEPT ![r] = IdleRequest]

\* tryAcquireChannel: an ordinary lease on a closed circuit; the one probe of
\* an open circuit after its cooldown; otherwise a refusal.
TryAcquire(r) ==
    LET b == request[r].breaker
    IN  /\ request[r].pc = "looked"
        /\ epoch[b] < MaxEpoch
        /\ \/ /\ ~Open(b)
              /\ Hold(r, b, 0)
              /\ UNCHANGED <<halfOpen, probeID>>
           \/ /\ Open(b) /\ (cooldown[b] > 0 \/ halfOpen[b])
              /\ Leave(r)
              /\ UNCHANGED <<halfOpen, probeID>>
           \/ /\ cooldown[b] = 0 /\ ~halfOpen[b]
              /\ probeID[b] < MaxProbes
              /\ halfOpen' = [halfOpen EXCEPT ![b] = TRUE]
              /\ probeID' = [probeID EXCEPT ![b] = @ + 1]
              /\ Hold(r, b, probeID[b] + 1)
        /\ UNCHANGED <<failCount, recent, cooldown, epoch, turns, channel>>

\* The provider has answered, or the caller went away; a changed generation
\* makes a profile attempt say nothing about the new configuration.
Judge(r) ==
    /\ request[r].pc = "held"
    /\ \E o \in Outcomes :
         /\ request[r].generation \notin {-1, generation} => o = "ignored"
         /\ request' = [request EXCEPT ![r].pc = "judged", ![r].outcome = o]
    /\ UNCHANGED <<health, channel>>

\* recordFailureLocked
Failures(b) == IF recent[b] = 0 THEN 1
               ELSE IF failCount[b] < Threshold THEN failCount[b] + 1 ELSE Threshold
\* Seeded bug: opening the circuit does not start a new epoch.
RecordWithoutEpoch(b, failedProbe) ==
    /\ failCount' = [failCount EXCEPT ![b] = Failures(b)]
    /\ recent' = [recent EXCEPT ![b] = Window]
    /\ halfOpen' = [halfOpen EXCEPT ![b] = FALSE]
    /\ IF failedProbe \/ Failures(b) >= Threshold
         THEN /\ cooldown' = [cooldown EXCEPT ![b] = Cooldown]
              /\ turns' = [turns EXCEPT ![b] = @ + 1]
         ELSE UNCHANGED <<cooldown, turns>>
    /\ UNCHANGED epoch
RecordFailure(b, failedProbe) ==
    /\ failCount' = [failCount EXCEPT ![b] = Failures(b)]
    /\ recent' = [recent EXCEPT ![b] = Window]
    /\ halfOpen' = [halfOpen EXCEPT ![b] = FALSE]
    /\ IF failedProbe \/ Failures(b) >= Threshold
         THEN /\ cooldown' = [cooldown EXCEPT ![b] = Cooldown]
              /\ epoch' = [epoch EXCEPT ![b] = @ + 1]
              /\ turns' = [turns EXCEPT ![b] = @ + 1]
         ELSE UNCHANGED <<cooldown, epoch, turns>>

RecordSuccess(b, probe) ==
    /\ failCount' = [failCount EXCEPT ![b] = 0]
    /\ cooldown' = [cooldown EXCEPT ![b] = Closed]
    /\ halfOpen' = [halfOpen EXCEPT ![b] = FALSE]
    /\ epoch' = IF probe THEN [epoch EXCEPT ![b] = @ + 1] ELSE epoch
    /\ UNCHANGED <<recent, turns>>

\* Seeded bug: an abandoned probe keeps its reservation.
KeepProbe(b, probe) ==
    UNCHANGED <<failCount, recent, cooldown, halfOpen, epoch, turns>>
RecordIgnored(b, probe) ==
    /\ halfOpen' = IF probe THEN [halfOpen EXCEPT ![b] = FALSE] ELSE halfOpen
    /\ UNCHANGED <<failCount, recent, cooldown, epoch, turns>>

\* The lease still belongs to the breaker's cycle.
Valid(r) ==
    LET b == request[r].breaker
    IN  /\ epoch[b] = request[r].epoch
        /\ request[r].probe # 0 => halfOpen[b] /\ probeID[b] = request[r].probe

\* channelAttempt.finish, once per lease.
Finish(r) ==
    LET b == request[r].breaker
        probe == request[r].probe # 0
    IN  /\ request[r].pc = "judged"
        /\ IF Valid(r)
             THEN CASE request[r].outcome = "succeeded" -> RecordSuccess(b, probe)
                    [] request[r].outcome = "failed"    -> RecordFailure(b, probe)
                    [] OTHER                            -> RecordIgnored(b, probe)
             ELSE UNCHANGED <<failCount, recent, cooldown, halfOpen, epoch, turns>>
        /\ Leave(r)
        /\ UNCHANGED <<probeID, channel>>

-----------------------------------------------------------------------------
(* The channel is saved (InvalidateChannel) or removed (RemoveChannel). *)

\* Seeded bug: a reset keeps the epoch.
ResetKeepingEpoch ==
    /\ failCount' = [failCount EXCEPT ![current] = 0]
    /\ recent' = [recent EXCEPT ![current] = 0]
    /\ cooldown' = [cooldown EXCEPT ![current] = Closed]
    /\ halfOpen' = [halfOpen EXCEPT ![current] = FALSE]
    /\ turns' = [turns EXCEPT ![current] = @ + 1]
    /\ UNCHANGED <<epoch, probeID>>
ResetBreaker ==
    /\ failCount' = [failCount EXCEPT ![current] = 0]
    /\ recent' = [recent EXCEPT ![current] = 0]
    /\ cooldown' = [cooldown EXCEPT ![current] = Closed]
    /\ halfOpen' = [halfOpen EXCEPT ![current] = FALSE]
    /\ epoch' = [epoch EXCEPT ![current] = @ + 1]
    /\ turns' = [turns EXCEPT ![current] = @ + 1]
    /\ UNCHANGED probeID

StartSave ==
    /\ saver = "idle"
    /\ saves < MaxSaves
    /\ saves' = saves + 1
    /\ saver' \in {"saving", "removing"}
    /\ IF current = None THEN UNCHANGED health ELSE ResetBreaker
    /\ UNCHANGED <<current, made, generation, request>>

\* The model list is dropped and the generation moves on.
NextGeneration ==
    /\ saver \in {"saving", "removing"}
    /\ generation' = generation + 1
    /\ saver' = IF saver = "removing" THEN "deleting" ELSE "idle"
    /\ UNCHANGED <<health, current, made, saves, request>>

DeleteBreaker ==
    /\ saver = "deleting"
    /\ saver' = "idle"
    /\ current' = None
    /\ UNCHANGED <<health, made, generation, saves, request>>

\* Seeded bug: a cooldown that has passed is taken for none.
CountdownToClosed(n) == n - 1
Countdown(n) == IF n > 0 THEN n - 1 ELSE n
Tick ==
    /\ \E b \in Breakers : cooldown[b] > 0 \/ recent[b] > 0
    /\ cooldown' = [b \in Breakers |-> Countdown(cooldown[b])]
    /\ recent' = [b \in Breakers |-> Countdown(recent[b])]
    /\ UNCHANGED <<failCount, halfOpen, epoch, probeID, turns, channel, request>>

-----------------------------------------------------------------------------
Next ==
    \/ \E r \in Requests :
         Begin(r) \/ GetBreaker(r) \/ TryAcquire(r) \/ Judge(r) \/ Finish(r)
    \/ StartSave \/ NextGeneration \/ DeleteBreaker
    \/ Tick

Spec == Init /\ [][Next]_vars

\* A request that holds a lease ends: the provider answers, its transfer
\* breaks, or the caller's context does.  Nobody has to start a request.
Fairness == \A r \in Requests : WF_vars(Judge(r) \/ Finish(r))
FairSpec == Spec /\ Fairness

-----------------------------------------------------------------------------
(* What must hold. *)

TypeOK ==
    /\ failCount \in [Breakers -> 0..Threshold]
    /\ recent \in [Breakers -> 0..Window]
    /\ cooldown \in [Breakers -> Closed..Cooldown]
    /\ halfOpen \in [Breakers -> BOOLEAN]
    /\ epoch \in [Breakers -> Nat]
    /\ probeID \in [Breakers -> Nat]
    /\ turns \in [Breakers -> Nat]
    /\ current \in Breakers \cup {None}
    /\ made \in 0..MaxBreakers
    /\ generation \in Nat
    /\ saver \in {"idle", "saving", "removing", "deleting"}
    /\ saves \in 0..MaxSaves
    /\ request \in [Requests -> Request]

Holds(r) == request[r].pc \in {"held", "judged"}
Probes(r, b) == Holds(r) /\ request[r].breaker = b /\ request[r].probe # 0 /\ Valid(r)

\* A reserved probe belongs to exactly one request that will report it, so a
\* half-open circuit is neither forgotten nor probed twice, whatever leases of
\* earlier cycles report in between and however often the channel is saved
\* (candidateAvailable says what would happen otherwise).
ProbeOwned ==
    \A b \in Breakers :
        /\ halfOpen[b] => \E r \in Requests : Probes(r, b)
        /\ \A r, q \in Requests : Probes(r, b) /\ Probes(q, b) => r = q

\* An open circuit judges by the probe alone: no other lease is valid.
OpenTrustsProbe ==
    \A r \in Requests :
        Holds(r) /\ Valid(r) /\ Open(request[r].breaker) => request[r].probe # 0

\* "Older requests cannot close a newly opened circuit or release another
\* probe" (channelAttempt): a request whose lease is older than the last
\* opening or reset of the circuit leaves no trace.
OldRequestsHarmless ==
    [][ \A r \in Requests :
          (request[r].pc = "judged" /\ request'[r].pc = "idle"
             /\ request[r].turn # turns[request[r].breaker])
              => UNCHANGED <<failCount, recent, cooldown, halfOpen, epoch>> ]_vars

\* A half-open circuit is decided: it never stays half-open for ever.
HalfOpenEnds == \A b \in Breakers : halfOpen[b] ~> ~halfOpen[b]
=============================================================================
