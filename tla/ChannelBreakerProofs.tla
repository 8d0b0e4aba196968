------------------------ MODULE ChannelBreakerProofs ------------------------
(* Proofs about ChannelBreaker, for any requests, threshold and durations. *)
EXTENDS ChannelBreaker, TLAPS

USE BreakerAssumption

-----------------------------------------------------------------------------
(* The inductive invariant. *)

\* Whether the circuit is open is a matter of the epoch: a lease of the
\* current epoch is an ordinary one on a closed circuit, or the reserved probe
\* of an open one, and was taken after the last opening or reset.
LeaseOK(r, b) ==
    /\ request[r].epoch <= epoch[b]
    /\ request[r].epoch = epoch[b] =>
         /\ request[r].turn = turns[b]
         /\ request[r].probe = 0 => ~Open(b)
         /\ request[r].probe # 0 => /\ Open(b) /\ halfOpen[b]
                                    /\ probeID[b] = request[r].probe
LeasesOK == \A r \in Requests : Holds(r) => LeaseOK(r, request[r].breaker)

IInv == TypeOK /\ LeasesOK /\ ProbeOwned

\* The probe of an open circuit is the holder of its current epoch.
LEMMA ProbesOfEpoch ==
    ASSUME LeasesOK, NEW r \in Requests, NEW b
    PROVE  Probes(r, b) <=> /\ Holds(r) /\ request[r].breaker = b
                            /\ request[r].probe # 0 /\ request[r].epoch = epoch[b]
BY DEF LeasesOK, LeaseOK, Probes, Valid

LEMMA InitEstablishes == Init => IInv
<1> SUFFICES ASSUME Init PROVE IInv
  OBVIOUS
<1>1. IdleRequest \in Request
  BY DEF IdleRequest, Request, PCs, Outcomes, Breakers
<1>2. TypeOK
  BY <1>1 DEF Init, TypeOK, Closed
<1>3. LeasesOK
  BY DEF Init, LeasesOK, Holds, IdleRequest
<1>4. ProbeOwned
  BY DEF Init, ProbeOwned, Probes, Holds, IdleRequest
<1>5. QED
  BY <1>2, <1>3, <1>4 DEF IInv

-----------------------------------------------------------------------------
(* Steps that touch no breaker and no lease. *)

\* A request that holds no lease before and after the step, and does not
\* disturb the others, keeps what is said of leases.
LEMMA FreeRequestMoves ==
    ASSUME IInv, UNCHANGED health, NEW r \in Requests, ~Holds(r), ~Holds(r)',
           \A q \in Requests \ {r} : request'[q] = request[q]
    PROVE  LeasesOK' /\ ProbeOwned'
<1>1. \A q \in Requests \ {r} : request'[q] = request[q]
  OBVIOUS
<1>2. UNCHANGED <<cooldown, halfOpen, epoch, probeID, turns>>
  BY DEF health
<1>3. LeasesOK'
  BY <1>1, <1>2 DEF IInv, LeasesOK, LeaseOK, Holds, Open
<1>4. ASSUME NEW b \in Breakers, NEW q \in Requests
      PROVE  Probes(q, b)' <=> Probes(q, b)
  BY <1>1, <1>2 DEF Probes, Holds, Valid
<1>5. ProbeOwned'
  BY <1>2, <1>4 DEF IInv, ProbeOwned
<1>6. QED
  BY <1>3, <1>5

LEMMA BeginKeeps ==
    ASSUME IInv, NEW r \in Requests, Begin(r)
    PROVE  IInv'
<1>1. PICK g \in {generation, -1} :
        request' = [request EXCEPT ![r].pc = "begun", ![r].generation = g]
  BY DEF Begin
<1>2. request \in [Requests -> Request] /\ g \in Nat \cup {-1}
  BY DEF IInv, TypeOK
<1>3. [[request[r] EXCEPT !.pc = "begun"] EXCEPT !.generation = g] \in Request
  BY <1>2 DEF Request, PCs
<1>4. TypeOK'
  BY <1>1, <1>2, <1>3 DEF IInv, TypeOK, Begin, health, channel
<1>5. LeasesOK' /\ ProbeOwned'
  BY <1>1, <1>2, FreeRequestMoves DEF Begin, Holds, Request
<1>6. QED
  BY <1>4, <1>5 DEF IInv

LEMMA GetBreakerKeeps ==
    ASSUME IInv, NEW r \in Requests, GetBreaker(r)
    PROVE  IInv'
<1>1. request \in [Requests -> Request] /\ made \in 0..MaxBreakers
  BY DEF IInv, TypeOK
<1>2. current' \in Breakers /\ made' \in 0..MaxBreakers
  BY <1>1 DEF GetBreaker, IInv, TypeOK, Breakers
<1>3. [[request[r] EXCEPT !.pc = "looked"] EXCEPT !.breaker = current'] \in Request
  BY <1>1, <1>2 DEF Request, PCs
<1>4. TypeOK'
  BY <1>1, <1>2, <1>3 DEF IInv, TypeOK, GetBreaker, health
<1>5. LeasesOK' /\ ProbeOwned'
  BY <1>1, FreeRequestMoves DEF GetBreaker, Holds, Request
<1>6. QED
  BY <1>4, <1>5 DEF IInv

LEMMA NextGenerationKeeps ==
    ASSUME IInv, NextGeneration \/ DeleteBreaker
    PROVE  IInv'
<1>1. UNCHANGED <<failCount, recent, cooldown, halfOpen, epoch, probeID, turns, request>>
  BY DEF NextGeneration, DeleteBreaker, health
<1>2. TypeOK'
  BY <1>1 DEF IInv, TypeOK, NextGeneration, DeleteBreaker
<1>3. LeasesOK' /\ ProbeOwned'
  BY <1>1 DEF IInv, LeasesOK, LeaseOK, Holds, Open, ProbeOwned, Probes, Valid
<1>4. QED
  BY <1>2, <1>3 DEF IInv

LEMMA TickKeeps ==
    ASSUME IInv, Tick
    PROVE  IInv'
<1>1. UNCHANGED <<failCount, halfOpen, epoch, probeID, turns, request>>
  BY DEF Tick
<1>2. cooldown' \in [Breakers -> Closed..Cooldown] /\ recent' \in [Breakers -> 0..Window]
  BY DEF IInv, TypeOK, Tick, Countdown, Closed
<1>3. ASSUME NEW b \in Breakers
      PROVE  Open(b)' <=> Open(b)
  BY DEF IInv, TypeOK, Tick, Countdown, Closed, Open
<1>4. TypeOK'
  BY <1>1, <1>2 DEF IInv, TypeOK, Tick, channel
<1>5. request \in [Requests -> Request]
  BY DEF IInv, TypeOK
<1>6. LeasesOK'
  BY <1>1, <1>3, <1>5 DEF IInv, LeasesOK, LeaseOK, Holds, Request
<1>7. ProbeOwned'
  BY <1>1 DEF IInv, ProbeOwned, Probes, Holds, Valid
<1>8. QED
  BY <1>4, <1>6, <1>7 DEF IInv

-----------------------------------------------------------------------------
(* Steps of a request that holds a lease, or takes one. *)

LEMMA JudgeKeeps ==
    ASSUME IInv, NEW r \in Requests, Judge(r)
    PROVE  IInv'
<1>1. PICK o \in Outcomes :
        request' = [request EXCEPT ![r].pc = "judged", ![r].outcome = o]
  BY DEF Judge
<1>2. request \in [Requests -> Request]
  BY DEF IInv, TypeOK
<1>3. [[request[r] EXCEPT !.pc = "judged"] EXCEPT !.outcome = o] \in Request
  BY <1>1, <1>2 DEF Request, PCs
<1>4. TypeOK'
  BY <1>1, <1>2, <1>3 DEF IInv, TypeOK, Judge, health, channel
<1>5. UNCHANGED <<cooldown, halfOpen, epoch, probeID, turns>>
  BY DEF Judge, health
<1>6. ASSUME NEW q \in Requests
      PROVE  /\ Holds(q)' <=> Holds(q)
             /\ request'[q].breaker = request[q].breaker
             /\ request'[q].epoch = request[q].epoch
             /\ request'[q].probe = request[q].probe
             /\ request'[q].turn = request[q].turn
  BY <1>1, <1>2 DEF Judge, Holds, Request
<1>7. LeasesOK'
  BY <1>5, <1>6 DEF IInv, LeasesOK, LeaseOK, Open
<1>8. ProbeOwned'
  BY <1>5, <1>6 DEF IInv, ProbeOwned, Probes, Valid
<1>9. QED
  BY <1>4, <1>7, <1>8 DEF IInv

LEMMA TryAcquireKeeps ==
    ASSUME IInv, NEW r \in Requests, TryAcquire(r)
    PROVE  IInv'
<1> DEFINE b == request[r].breaker
<1>1. request \in [Requests -> Request] /\ b \in Breakers /\ ~Holds(r)
  BY DEF IInv, TypeOK, Request, TryAcquire, Holds
<1>2. \A q \in Requests \ {r} : request'[q] = request[q]
  BY <1>1 DEF TryAcquire, Hold, Leave
<1>3. UNCHANGED <<failCount, recent, cooldown, epoch, turns, current, made,
                  generation, saver, saves>>
  BY DEF TryAcquire, channel
<1>4. epoch[b] \in Nat /\ probeID[b] \in Nat /\ turns[b] \in Nat
  BY <1>1 DEF IInv, TypeOK
<1>5. CASE ~Open(b) /\ Hold(r, b, 0) /\ UNCHANGED <<halfOpen, probeID>>
  <2>1. /\ request'[r] \in Request /\ request'[r].breaker = b
        /\ request'[r].epoch = epoch[b] /\ request'[r].probe = 0
        /\ request'[r].turn = turns[b]
    BY <1>1, <1>4, <1>5 DEF Hold, Request, PCs
  <2>2. TypeOK'
    BY <1>1, <1>2, <1>3, <1>5, <2>1 DEF IInv, TypeOK, Hold
  <2>3. LeasesOK'
    BY <1>2, <1>3, <1>4, <1>5, <2>1 DEF IInv, LeasesOK, LeaseOK, Holds, Open
  <2>4. ASSUME NEW q \in Requests, NEW d \in Breakers
        PROVE  Probes(q, d)' <=> Probes(q, d)
    BY <1>1, <1>2, <1>3, <1>5, <2>1 DEF Probes, Holds, Valid
  <2>5. ProbeOwned'
    BY <1>5, <2>4 DEF IInv, ProbeOwned
  <2>6. QED
    BY <2>2, <2>3, <2>5 DEF IInv
<1>6. CASE Leave(r) /\ UNCHANGED <<halfOpen, probeID>>
  <2>1. request'[r] = IdleRequest /\ IdleRequest \in Request
    BY <1>1, <1>6 DEF Leave, IdleRequest, Request, PCs, Outcomes, Breakers
  <2>2. TypeOK'
    BY <1>1, <1>3, <1>6, <2>1 DEF IInv, TypeOK, Leave
  <2>3. LeasesOK' /\ ProbeOwned'
    BY <1>1, <1>2, <1>3, <1>6, <2>1, FreeRequestMoves DEF Holds, IdleRequest, health
  <2>4. QED
    BY <2>2, <2>3 DEF IInv
<1>7. CASE /\ cooldown[b] = 0 /\ ~halfOpen[b]
           /\ halfOpen' = [halfOpen EXCEPT ![b] = TRUE]
           /\ probeID' = [probeID EXCEPT ![b] = @ + 1]
           /\ Hold(r, b, probeID[b] + 1)
  <2>1. /\ request'[r] \in Request /\ request'[r].breaker = b
        /\ request'[r].epoch = epoch[b] /\ request'[r].probe = probeID[b] + 1
        /\ request'[r].turn = turns[b] /\ request'[r].pc = "held"
    <3>1. probeID[b] + 1 \in Nat
      BY <1>4
    <3>2. Hold(r, b, probeID[b] + 1)
      BY <1>7
    <3>3. QED
      BY <1>1, <1>4, <3>1, <3>2 DEF Hold, Request, PCs
  <2>2. TypeOK'
    BY <1>1, <1>2, <1>3, <1>7, <2>1 DEF IInv, TypeOK, Hold
  <2>3. halfOpen'[b] /\ probeID'[b] = probeID[b] + 1
    BY <1>1, <1>7 DEF IInv, TypeOK
  <2>4. \A d \in Breakers \ {b} : halfOpen'[d] = halfOpen[d] /\ probeID'[d] = probeID[d]
    BY <1>7 DEF IInv, TypeOK
  <2>5. ASSUME NEW q \in Requests, Holds(q), request[q].breaker = b
        PROVE  request[q].probe # 0 => request[q].epoch # epoch[b]
    BY <1>7, <2>5 DEF IInv, LeasesOK, LeaseOK
  <2>6. ASSUME NEW q \in Requests \ {r}, Holds(q)
        PROVE  LeaseOK(q, request[q].breaker)'
    <3>1. LeaseOK(q, request[q].breaker) /\ request[q].breaker \in Breakers
      BY <1>1, <2>6 DEF IInv, LeasesOK, Request
    <3>2. CASE request[q].breaker = b
      BY <1>2, <1>3, <2>5, <2>6, <3>1, <3>2 DEF LeaseOK, Open
    <3>3. CASE request[q].breaker # b
      BY <1>2, <1>3, <2>4, <2>6, <3>1, <3>3 DEF LeaseOK, Open
    <3>4. QED
      BY <3>2, <3>3
  <2>7. LeaseOK(r, b)'
    BY <1>1, <1>3, <1>4, <1>7, <2>1, <2>3 DEF LeaseOK, Open, Closed
  <2>8. LeasesOK'
    BY <1>2, <2>1, <2>6, <2>7 DEF LeasesOK, Holds
  <2>9. ASSUME NEW q \in Requests \ {r}, NEW d \in Breakers
        PROVE  Probes(q, d)' <=> Probes(q, d) /\ d # b
    BY <1>1, <1>2, <1>3, <2>4, <2>5, <2>8, ProbesOfEpoch DEF IInv, Probes, Holds, Valid
  <2>10. ASSUME NEW d \in Breakers
         PROVE  Probes(r, d)' <=> d = b
    BY <1>3, <1>4, <2>1, <2>3 DEF Probes, Valid, Holds
  <2>11. ASSUME NEW d \in Breakers, halfOpen'[d]
         PROVE  \E q \in Requests : Probes(q, d)'
    <3>1. CASE d = b
      BY <2>10, <3>1
    <3>2. CASE d # b
      <4>1. PICK q \in Requests : Probes(q, d)
        BY <2>4, <2>11, <3>2 DEF IInv, ProbeOwned
      <4>2. q # r
        BY <1>1, <4>1 DEF Probes
      <4>3. QED
        BY <2>9, <3>2, <4>1, <4>2
    <3>3. QED
      BY <3>1, <3>2
  <2>12. ASSUME NEW d \in Breakers, NEW q \in Requests, NEW p \in Requests,
                Probes(q, d)', Probes(p, d)'
         PROVE  p = q
    BY <2>9, <2>10, <2>12 DEF IInv, ProbeOwned
  <2>13. ProbeOwned'
    BY <2>11, <2>12 DEF ProbeOwned
  <2>14. QED
    BY <2>2, <2>8, <2>13 DEF IInv
<1>8. QED
  BY <1>5, <1>6, <1>7 DEF TryAcquire

-----------------------------------------------------------------------------
(* Steps that end a lease or the whole cycle. *)

\* What a valid lease may do to its breaker b when it ends: b is no longer
\* half-open, and b stays as open as it was unless a new epoch begins.
LEMMA LeaseEnds ==
    ASSUME IInv, NEW r \in Requests, Holds(r), Valid(r), ~Holds(r)', UNCHANGED probeID,
           \A q \in Requests \ {r} : request'[q] = request[q],
           NEW b, b = request[r].breaker,
           \A d \in Breakers \ {b} : /\ cooldown'[d] = cooldown[d]
                                     /\ halfOpen'[d] = halfOpen[d]
                                     /\ epoch'[d] = epoch[d]
                                     /\ turns'[d] = turns[d],
           halfOpen'[b] = FALSE,
           \/ epoch'[b] = epoch[b] + 1
           \/ epoch'[b] = epoch[b] /\ turns'[b] = turns[b] /\ (Open(b)' <=> Open(b))
    PROVE  LeasesOK' /\ ProbeOwned'
<1>1. request \in [Requests -> Request] /\ b \in Breakers /\ epoch[b] \in Nat
  BY DEF IInv, TypeOK, Request
<1>2. request[r].epoch = epoch[b] /\ LeaseOK(r, b)
  BY DEF IInv, LeasesOK, Valid
<1>3. ASSUME NEW q \in Requests \ {r}, Holds(q), request[q].breaker = b,
             request[q].epoch = epoch[b]
      PROVE  request[q].probe = 0 /\ ~Open(b)
  <2>1. LeaseOK(q, b)
    BY <1>3 DEF IInv, LeasesOK
  <2>2. CASE Open(b)
    <3>1. request[q].probe # 0 /\ request[r].probe # 0
      BY <1>2, <1>3, <2>1, <2>2 DEF LeaseOK
    <3>2. Probes(q, b) /\ Probes(r, b)
      BY <1>2, <1>3, <3>1, ProbesOfEpoch DEF IInv
    <3>3. QED
      BY <1>1, <3>2 DEF IInv, ProbeOwned
  <2>3. QED
    BY <1>3, <2>1, <2>2 DEF LeaseOK
<1>4. ASSUME NEW q \in Requests \ {r}, Holds(q)
      PROVE  LeaseOK(q, request[q].breaker)'
  <2>1. LeaseOK(q, request[q].breaker) /\ request[q].breaker \in Breakers
        /\ request[q].epoch \in Nat
    BY <1>1, <1>4 DEF IInv, LeasesOK, Request
  <2>2. request'[q] = request[q]
    OBVIOUS
  <2>3. CASE request[q].breaker # b
    BY <2>1, <2>2, <2>3 DEF LeaseOK, Open
  <2>4. CASE request[q].breaker = b /\ epoch'[b] = epoch[b] + 1
    BY <1>1, <2>1, <2>2, <2>4 DEF LeaseOK
  <2>5. CASE request[q].breaker = b /\ epoch'[b] = epoch[b]
    BY <1>1, <1>3, <1>4, <2>1, <2>2, <2>5 DEF LeaseOK
  <2>6. QED
    BY <2>3, <2>4, <2>5
<1>5. LeasesOK'
  BY <1>4 DEF LeasesOK, Holds
<1>6. ASSUME NEW q \in Requests, NEW d \in Breakers
      PROVE  Probes(q, d)' <=> Probes(q, d) /\ d # b
  <2>1. CASE d = b
    BY <2>1 DEF Probes, Valid
  <2>2. CASE d # b /\ q = r
    BY <2>2 DEF Probes
  <2>3. CASE d # b /\ q # r
    BY <2>3 DEF Probes, Holds, Valid
  <2>4. QED
    BY <2>1, <2>2, <2>3
<1>7. ProbeOwned'
  BY <1>6 DEF IInv, ProbeOwned
<1>8. QED
  BY <1>5, <1>7

LEMMA FinishKeeps ==
    ASSUME IInv, NEW r \in Requests, Finish(r)
    PROVE  IInv'
<1> DEFINE b == request[r].breaker
           probe == request[r].probe # 0
<1>1. request \in [Requests -> Request] /\ b \in Breakers /\ Holds(r)
  BY DEF IInv, TypeOK, Request, Finish, Holds
<1>2. /\ request' = [request EXCEPT ![r] = IdleRequest] /\ IdleRequest \in Request
      /\ UNCHANGED <<probeID, current, made, generation, saver, saves>>
  BY DEF Finish, Leave, IdleRequest, Request, PCs, Outcomes, Breakers, channel
<1>3. ~Holds(r)' /\ \A q \in Requests \ {r} : request'[q] = request[q]
  BY <1>1, <1>2 DEF Holds, IdleRequest
<1>4. /\ failCount \in [Breakers -> 0..Threshold] /\ recent \in [Breakers -> 0..Window]
      /\ cooldown \in [Breakers -> Closed..Cooldown] /\ halfOpen \in [Breakers -> BOOLEAN]
      /\ epoch \in [Breakers -> Nat] /\ turns \in [Breakers -> Nat]
  BY DEF IInv, TypeOK
<1>5. Valid(r) => LeaseOK(r, b) /\ request[r].epoch = epoch[b]
  BY <1>1 DEF IInv, LeasesOK, Valid
<1>6. CASE ~Valid(r)
  <2>1. UNCHANGED <<failCount, recent, cooldown, halfOpen, epoch, turns>>
    BY <1>6 DEF Finish
  <2>2. TypeOK'
    BY <1>1, <1>2, <2>1 DEF IInv, TypeOK
  <2>3. LeasesOK'
    BY <1>1, <1>2, <1>3, <2>1 DEF IInv, LeasesOK, LeaseOK, Holds, Open
  <2>4. ASSUME NEW q \in Requests, NEW d \in Breakers
        PROVE  Probes(q, d)' <=> Probes(q, d)
    BY <1>2, <1>3, <1>6, <2>1 DEF Probes, Holds, Valid
  <2>5. ProbeOwned'
    BY <2>1, <2>4 DEF IInv, ProbeOwned
  <2>6. QED
    BY <2>2, <2>3, <2>5 DEF IInv
<1>7. CASE Valid(r) /\ RecordSuccess(b, probe)
  <2>1. TypeOK'
    BY <1>1, <1>2, <1>4, <1>7 DEF IInv, TypeOK, RecordSuccess, Closed
  <2>2. LeasesOK' /\ ProbeOwned'
    BY <1>1, <1>2, <1>3, <1>4, <1>5, <1>7, LeaseEnds DEF RecordSuccess, LeaseOK, Open
  <2>3. QED
    BY <2>1, <2>2 DEF IInv
<1>8. CASE Valid(r) /\ RecordFailure(b, probe)
  <2>1. Failures(b) \in 0..Threshold
    BY <1>1, <1>4 DEF Failures
  <2>2. TypeOK'
    BY <1>1, <1>2, <1>4, <1>8, <2>1 DEF IInv, TypeOK, RecordFailure, Closed
  <2>3. LeasesOK' /\ ProbeOwned'
    BY <1>1, <1>2, <1>3, <1>4, <1>8, LeaseEnds DEF RecordFailure, Open
  <2>4. QED
    BY <2>2, <2>3 DEF IInv
<1>9. CASE Valid(r) /\ RecordIgnored(b, probe)
  <2>1. TypeOK'
    BY <1>1, <1>2, <1>4, <1>9 DEF IInv, TypeOK, RecordIgnored
  <2>2. halfOpen'[b] = FALSE
    <3>1. CASE probe
      BY <1>1, <1>4, <1>9, <3>1 DEF RecordIgnored
    <3>2. CASE ~probe
      <4>1. ~Open(b)
        BY <1>5, <1>9, <3>2 DEF LeaseOK
      <4>2. ASSUME NEW q \in Requests, Probes(q, b)
            PROVE  FALSE
        BY <4>1, <4>2 DEF IInv, LeasesOK, LeaseOK, Probes, Valid
      <4>3. halfOpen[b] = FALSE
        BY <1>1, <1>4, <4>2 DEF IInv, ProbeOwned
      <4>4. QED
        BY <1>9, <3>2, <4>3 DEF RecordIgnored
    <3>3. QED
      BY <3>1, <3>2
  <2>3. LeasesOK' /\ ProbeOwned'
    BY <1>1, <1>2, <1>3, <1>4, <1>9, <2>2, LeaseEnds DEF RecordIgnored, Open
  <2>4. QED
    BY <2>1, <2>3 DEF IInv
<1>10. QED
  BY <1>6, <1>7, <1>8, <1>9 DEF Finish

LEMMA StartSaveKeeps ==
    ASSUME IInv, StartSave
    PROVE  IInv'
<1>1. UNCHANGED <<current, made, generation, request, probeID>> /\ saves' \in 0..MaxSaves
      /\ saver' \in {"saving", "removing"}
  BY DEF StartSave, ResetBreaker, health, IInv, TypeOK
<1>2. CASE UNCHANGED health
  <2>1. TypeOK'
    BY <1>1, <1>2 DEF IInv, TypeOK, health
  <2>2. LeasesOK' /\ ProbeOwned'
    BY <1>1, <1>2 DEF IInv, LeasesOK, LeaseOK, Holds, Open, ProbeOwned, Probes, Valid, health
  <2>3. QED
    BY <2>1, <2>2 DEF IInv
<1>3. CASE current # None /\ ResetBreaker
  <2>1. current \in Breakers /\ request \in [Requests -> Request] /\ epoch \in [Breakers -> Nat]
    BY <1>3 DEF IInv, TypeOK
  <2>2. TypeOK'
    BY <1>1, <1>3, <2>1 DEF IInv, TypeOK, ResetBreaker, Closed
  <2>3. epoch'[current] = epoch[current] + 1 /\ halfOpen'[current] = FALSE
    BY <1>3, <2>1 DEF ResetBreaker, IInv, TypeOK
  <2>4. ASSUME NEW d \in Breakers \ {current}
        PROVE  /\ cooldown'[d] = cooldown[d] /\ halfOpen'[d] = halfOpen[d]
               /\ epoch'[d] = epoch[d] /\ turns'[d] = turns[d]
    BY <1>3 DEF ResetBreaker, IInv, TypeOK
  <2>5. ASSUME NEW q \in Requests, Holds(q)
        PROVE  LeaseOK(q, request[q].breaker)'
    <3>1. /\ LeaseOK(q, request[q].breaker) /\ request[q].breaker \in Breakers
          /\ request[q].epoch \in Nat
      BY <2>1, <2>5 DEF IInv, LeasesOK, Request
    <3>2. CASE request[q].breaker = current
      BY <1>1, <2>1, <2>3, <3>1, <3>2 DEF LeaseOK
    <3>3. CASE request[q].breaker # current
      BY <1>1, <2>4, <3>1, <3>3 DEF LeaseOK, Open
    <3>4. QED
      BY <3>2, <3>3
  <2>6. LeasesOK'
    BY <1>1, <2>5 DEF LeasesOK, Holds
  <2>7. ASSUME NEW q \in Requests, NEW d \in Breakers
        PROVE  Probes(q, d)' <=> Probes(q, d) /\ d # current
    BY <1>1, <2>3, <2>4 DEF Probes, Holds, Valid
  <2>8. ProbeOwned'
    BY <2>3, <2>4, <2>7 DEF IInv, ProbeOwned
  <2>9. QED
    BY <2>2, <2>6, <2>8 DEF IInv
<1>4. QED
  BY <1>2, <1>3 DEF StartSave

-----------------------------------------------------------------------------
LEMMA NextKeeps == IInv /\ [Next]_vars => IInv'
<1> SUFFICES ASSUME IInv, [Next]_vars PROVE IInv'
  OBVIOUS
<1>1. CASE Next
  BY <1>1, BeginKeeps, GetBreakerKeeps, TryAcquireKeeps, JudgeKeeps, FinishKeeps,
     StartSaveKeeps, NextGenerationKeeps, TickKeeps DEF Next
<1>2. CASE UNCHANGED vars
  BY <1>2 DEF IInv, TypeOK, LeasesOK, LeaseOK, Holds, Open, ProbeOwned, Probes, Valid,
     vars, health, channel
<1>3. QED
  BY <1>1, <1>2

\* The inductive invariant holds in every behaviour.
THEOREM InvariantHolds == Spec => []IInv
BY InitEstablishes, NextKeeps, PTL DEF Spec

\* Circuits, cooldowns, turns and the requests' leases have their types, for
\* any number of requests, breakers and saves.
THEOREM TypesHold == Spec => []TypeOK
BY InvariantHolds, PTL DEF IInv

\* A half-open circuit has exactly one probe, and that probe will report.
THEOREM ProbeHolds == Spec => []ProbeOwned
<1>1. IInv => ProbeOwned
  BY DEF IInv
<1>2. QED
  BY <1>1, InvariantHolds, PTL

\* While the circuit is open no ordinary lease counts.
THEOREM ProbeTrusted == Spec => []OpenTrustsProbe
<1>1. IInv => OpenTrustsProbe
  BY DEF IInv, LeasesOK, LeaseOK, OpenTrustsProbe, Valid
<1>2. QED
  BY <1>1, InvariantHolds, PTL

\* A lease older than the last opening or reset leaves no trace.
THEOREM OldRequestsIgnored == Spec => OldRequestsHarmless
<1> DEFINE Harmless ==
      \A r \in Requests :
          (request[r].pc = "judged" /\ request'[r].pc = "idle"
             /\ request[r].turn # turns[request[r].breaker])
              => UNCHANGED <<failCount, recent, cooldown, halfOpen, epoch>>
<1>1. IInv /\ [Next]_vars => [Harmless]_vars
  <2> SUFFICES ASSUME IInv, Next, NEW r \in Requests,
                      request[r].pc = "judged", request'[r].pc = "idle",
                      request[r].turn # turns[request[r].breaker]
               PROVE  UNCHANGED <<failCount, recent, cooldown, halfOpen, epoch>>
    BY DEF Harmless
  <2>1. request \in [Requests -> Request]
    BY DEF IInv, TypeOK
  <2>2. ~Valid(r)
    BY DEF IInv, LeasesOK, LeaseOK, Holds, Valid
  <2>3. CASE \E q \in Requests : Begin(q) \/ GetBreaker(q) \/ Judge(q)
    BY <2>3 DEF Begin, GetBreaker, Judge, health
  <2>4. CASE \E q \in Requests : TryAcquire(q)
    <3>1. PICK q \in Requests : TryAcquire(q)
      BY <2>4
    <3>2. q # r /\ request'[r] = request[r]
      BY <2>1, <3>1 DEF TryAcquire, Hold, Leave
    <3>3. QED
      BY <3>2
  <2>5. CASE \E q \in Requests : Finish(q)
    <3>1. PICK q \in Requests : Finish(q)
      BY <2>5
    <3>2. q = r
      BY <2>1, <3>1 DEF Finish, Leave
    <3>3. QED
      BY <2>2, <3>1, <3>2 DEF Finish
  <2>6. CASE StartSave \/ NextGeneration \/ DeleteBreaker \/ Tick
    BY <2>6 DEF StartSave, NextGeneration, DeleteBreaker, Tick
  <2>7. QED
    BY <2>3, <2>4, <2>5, <2>6 DEF Next
<1>2. QED
  BY <1>1, InvariantHolds, PTL DEF Spec, OldRequestsHarmless
=============================================================================
