----------------------------- MODULE GatewayProofs -----------------------------
(* What holds of each component of Gateway holds of the composition: a step  *)
(* of one leaves the others alone.  The theorems about Submission and        *)
(* Accounts are those of their own modules; the wait loop and its delays,    *)
(* the log, the routing and the catalog are proved here.                     *)
EXTENDS Gateway, Sequences, FiniteSetTheorems, WellFoundedInduction, TLAPS

-----------------------------------------------------------------------------
(* A behaviour of the gateway is one of each component. *)

LEMMA Components ==
    Spec => /\ Submits!Spec /\ Waits!Spec /\ Admits!Spec
            /\ Logs!Spec /\ Serves!Spec /\ Keeps!Spec
<1>1. Init => /\ Submits!Init /\ Waits!Init /\ Admits!Init
              /\ Logs!Init /\ Serves!Init /\ Keeps!Init
  BY DEF Init
<1> USE DEF Next, SubmissionStep, WaitStep, AccountStep, LogStep, RoutingStep, CatalogStep, vars
<1>2. [Next]_vars => [Submits!Next]_(Submits!vars)
  BY DEF submission, Submits!vars, Submits!locks, Submits!provider, Submits!counts
<1>3. [Next]_vars => [Waits!Next]_(Waits!vars)
  BY DEF wait, Waits!vars, Waits!loop, Waits!store
<1>4. [Next]_vars => [Admits!Next]_(Admits!vars)
  BY DEF accounts, Admits!vars
<1>5. [Next]_vars => [Logs!Next]_(Logs!vars)
  BY DEF log, Logs!vars
<1>6. [Next]_vars => [Serves!Next]_(Serves!vars)
  BY DEF routing, Serves!vars, Serves!store, Serves!turns
<1>7. [Next]_vars => [Keeps!Next]_(Keeps!vars)
  BY DEF catalog, Keeps!vars, Keeps!given
<1> HIDE DEF Next, SubmissionStep, WaitStep, AccountStep, LogStep, RoutingStep, CatalogStep, vars
<1>8. QED
  BY <1>1, <1>2, <1>3, <1>4, <1>5, <1>6, <1>7, PTL
     DEF Spec, Submits!Spec, Waits!Spec, Admits!Spec, Logs!Spec, Serves!Spec, Keeps!Spec

-----------------------------------------------------------------------------
(* The wait loop: while it runs, it has polled once for each attempt before  *)
(* this one and seen no success.                                             *)

Looping == pc \in {"check", "poll", "sleep"}
Returned == pc \in {"project", "persist", "done"}
Polled ==
    /\ definition \in Definitions /\ (Looping \/ Returned)
    /\ attempt \in 1 .. definition.attempts
    /\ attempts \in Seq(Waits!Outcomes)
    /\ pc \in {"check", "poll"} => Len(attempts) = attempt - 1
    /\ pc = "sleep" => Len(attempts) = attempt /\ attempt < definition.attempts
    /\ pc = "poll" => ~Waits!Expired
Answered ==
    IF Looping
    THEN outcome = "none" /\ \A i \in DOMAIN attempts : attempts[i] # "success"
    ELSE /\ outcome # "none"
         /\ count = Len(attempts) /\ count <= definition.attempts
         /\ \A i \in 1 .. Len(attempts) - 1 : attempts[i] # "success"
         /\ outcome = "success" <=> attempts # <<>> /\ attempts[Len(attempts)] = "success"
Counted == counters \in Waits!Counters /\ logged \in Nat /\ Waits!CountersAgree
WaitInv == Polled /\ Answered /\ Counted

LEMMA DefinitionsTyped ==
    ASSUME GatewayAssumption, NEW d \in Definitions
    PROVE  d.attempts \in Nat \ {0}
BY DEF GatewayAssumption, Waits!GatewayWaitAssumption, Waits!Definition

LEMMA WaitStarts == GatewayAssumption /\ Waits!Init => WaitInv
<1> SUFFICES ASSUME GatewayAssumption, Waits!Init PROVE WaitInv
  OBVIOUS
<1>1. attempts \in Seq(Waits!Outcomes) /\ Len(attempts) = 0 /\ DOMAIN attempts = {}
  BY DEF Waits!Init
<1>2. Polled
  BY <1>1, DefinitionsTyped DEF Waits!Init, Polled, Looping
<1>3. Answered
  BY <1>1 DEF Waits!Init, Answered, Looping
<1>4. Counted
  BY DEF Waits!Init, Counted, Waits!Counters, Waits!CountersAgree
<1>5. QED
  BY <1>2, <1>3, <1>4 DEF WaitInv

LEMMA WaitCardinality == \A S : Waits!Cardinality(S) = Cardinality(S)
BY DEF Waits!Cardinality, Waits!IsFiniteSet, Cardinality, IsFiniteSet

\* PersistTaskPollBatchContext: at most the last poll is a success, so the
\* counters it writes are easily told.
LEMMA BatchCounted ==
    ASSUME WaitInv, pc = "persist", NEW start \in Nat
    PROVE  /\ Waits!Successes(attempts) \in 0 .. Len(attempts)
           /\ Waits!Consecutive(start, attempts) \in Nat
           /\ Waits!Consecutive(start, attempts) <= start + Len(attempts) - Waits!Successes(attempts)
<1>1. /\ attempts \in Seq(Waits!Outcomes) /\ Len(attempts) \in Nat
      /\ DOMAIN attempts = 1 .. Len(attempts)
      /\ \A i \in 1 .. Len(attempts) - 1 : attempts[i] # "success"
  BY DEF WaitInv, Polled, Answered, Looping
<1>2. CASE Waits!Wins(attempts) = {}
  <2>1. Waits!Successes(attempts) = 0
    BY <1>2, WaitCardinality, FS_EmptySet DEF Waits!Successes
  <2>2. QED
    BY <1>1, <1>2, <2>1 DEF Waits!Consecutive
<1>3. CASE Waits!Wins(attempts) # {}
  <2>1. Waits!Wins(attempts) = {Len(attempts)} /\ Len(attempts) >= 1
    BY <1>1, <1>3 DEF Waits!Wins
  <2>2. Waits!Successes(attempts) = 1
    BY <2>1, WaitCardinality, FS_Singleton DEF Waits!Successes
  <2>3. Waits!Consecutive(start, attempts) = 0
    BY <1>1, <2>1 DEF Waits!Consecutive
  <2>4. QED
    BY <1>1, <2>1, <2>2, <2>3
<1>4. QED
  BY <1>2, <1>3

LEMMA WaitKept ==
    ASSUME GatewayAssumption, WaitInv, [Waits!Next]_(Waits!vars)
    PROVE  WaitInv'
<1>1. /\ definition \in Definitions /\ definition.attempts \in Nat \ {0}
      /\ attempt \in 1 .. definition.attempts
      /\ attempts \in Seq(Waits!Outcomes) /\ Len(attempts) \in Nat
      /\ DOMAIN attempts = 1 .. Len(attempts)
  BY DefinitionsTyped DEF WaitInv, Polled
<1>2. CASE Waits!Check
  <2>1. Polled'
    BY <1>1, <1>2 DEF Waits!Check, Waits!Return, Waits!store, Waits!Expired, WaitInv, Polled,
                      Looping, Returned
  <2>2. Answered'
    BY <1>1, <1>2 DEF Waits!Check, Waits!Return, Waits!store, WaitInv, Polled, Answered, Looping
  <2>3. Counted'
    BY <1>2 DEF Waits!Check, Waits!store, WaitInv, Counted, Waits!CountersAgree
  <2>4. QED
    BY <2>1, <2>2, <2>3 DEF WaitInv
<1>3. CASE Waits!Poll
  <2>1. PICK answer \in {"success", "failure", "other", "error"} :
          /\ attempts' = Append(attempts,
                CASE answer = "success" -> "success"
                  [] answer = "other" -> "pending"
                  [] OTHER -> "failed")
          /\ CASE answer = "success" -> Waits!Return("success", attempt) /\ UNCHANGED <<delay, asked>>
               [] answer = "failure" -> Waits!Return("failed", attempt) /\ UNCHANGED <<delay, asked>>
               [] answer \in {"other", "error"} ->
                    IF attempt = definition.attempts
                    THEN /\ Waits!Return(IF lastErr' THEN "error" ELSE "timeout", definition.attempts)
                         /\ UNCHANGED <<delay, asked>>
                    ELSE pc' = "sleep" /\ UNCHANGED <<outcome, count>>
    BY <1>3 DEF Waits!Poll
  <2>2. /\ pc = "poll" /\ UNCHANGED <<definition, attempt, counters, logged>>
        /\ Len(attempts) = attempt - 1
        /\ outcome = "none" /\ \A i \in 1 .. Len(attempts) : attempts[i] # "success"
    BY <1>1, <1>3 DEF Waits!Poll, Waits!store, WaitInv, Polled, Answered, Looping
  <2> DEFINE seen == CASE answer = "success" -> "success"
                       [] answer = "other" -> "pending"
                       [] OTHER -> "failed"
  <2>3. /\ attempts' \in Seq(Waits!Outcomes) /\ Len(attempts') = attempt
        /\ DOMAIN attempts' = 1 .. attempt
        /\ \A i \in 1 .. attempt - 1 : attempts'[i] # "success"
        /\ attempts'[attempt] = seen /\ attempts' # <<>>
    <3>1. seen \in Waits!Outcomes
      BY <2>1 DEF Waits!Outcomes
    <3>2. attempts' = Append(attempts, seen)
      BY <2>1
    <3> HIDE DEF seen
    <3>3. QED
      BY <1>1, <2>2, <3>1, <3>2
  <2>4. CASE answer = "success"
    <3>1. outcome' = "success" /\ count' = attempt /\ pc' = "project" /\ seen = "success"
      BY <2>1, <2>4 DEF Waits!Return
    <3> HIDE DEF seen
    <3>2. Polled' /\ Answered'
      BY <1>1, <2>2, <2>3, <3>1 DEF Polled, Answered, Looping, Returned
    <3>3. QED
      BY <2>2, <3>2 DEF WaitInv, Counted, Waits!CountersAgree
  <2>5. CASE answer = "failure"
    <3>1. outcome' = "failed" /\ count' = attempt /\ pc' = "project" /\ seen = "failed"
      BY <2>1, <2>5 DEF Waits!Return
    <3> HIDE DEF seen
    <3>2. Polled' /\ Answered'
      BY <1>1, <2>2, <2>3, <3>1 DEF Polled, Answered, Looping, Returned
    <3>3. QED
      BY <2>2, <3>2 DEF WaitInv, Counted, Waits!CountersAgree
  <2>6. CASE answer \in {"other", "error"} /\ attempt = definition.attempts
    <3>1. outcome' \in {"error", "timeout"} /\ count' = attempt /\ pc' = "project" /\ seen # "success"
      BY <2>1, <2>6 DEF Waits!Return
    <3> HIDE DEF seen
    <3>2. Polled' /\ Answered'
      BY <1>1, <2>2, <2>3, <3>1 DEF Polled, Answered, Looping, Returned
    <3>3. QED
      BY <2>2, <3>2 DEF WaitInv, Counted, Waits!CountersAgree
  <2>7. CASE answer \in {"other", "error"} /\ attempt # definition.attempts
    <3>1. outcome' = "none" /\ pc' = "sleep" /\ seen # "success"
      BY <2>1, <2>2, <2>7
    <3> HIDE DEF seen
    <3>2. Polled' /\ Answered'
      BY <1>1, <2>2, <2>3, <2>7, <3>1 DEF Polled, Answered, Looping, Returned
    <3>3. QED
      BY <2>2, <3>2 DEF WaitInv, Counted, Waits!CountersAgree
  <2>8. QED
    BY <2>4, <2>5, <2>6, <2>7
<1>4. CASE Waits!Sleep
  <2>1. /\ pc = "sleep" /\ UNCHANGED <<definition, attempts, counters, logged>>
        /\ \/ attempt' = attempt + 1 /\ pc' = "check" /\ UNCHANGED <<outcome, count>>
           \/ Waits!Return("timeout", attempt) /\ UNCHANGED attempt
    BY <1>4 DEF Waits!Sleep, Waits!store
  <2>2. Polled'
    BY <1>1, <2>1 DEF Waits!Return, WaitInv, Polled, Looping, Returned
  <2>3. Answered'
    BY <1>1, <2>1 DEF Waits!Return, WaitInv, Polled, Answered, Looping
  <2>4. QED
    BY <2>1, <2>2, <2>3 DEF WaitInv, Counted, Waits!CountersAgree
<1>5. CASE Waits!Leave
  BY <1>5 DEF Waits!Leave, Waits!loop, Waits!store, WaitInv, Polled, Answered, Counted, Looping,
              Returned, Waits!Expired, Waits!CountersAgree
<1>6. CASE Waits!Project
  BY <1>1, <1>6 DEF Waits!Project, Waits!loop, Waits!store, WaitInv, Polled, Answered, Counted,
              Looping, Returned, Waits!CountersAgree
<1>7. CASE Waits!Persist
  <2>1. pc = "persist" /\ pc' = "done" /\ UNCHANGED <<definition, attempt, attempts, outcome, count>>
    BY <1>7 DEF Waits!Persist, Waits!loop
  <2>2. Polled' /\ Answered'
    BY <1>1, <2>1 DEF WaitInv, Polled, Answered, Looping, Returned
  <2>3. /\ counters.polls \in Nat /\ counters.successes \in Nat /\ counters.failures \in Nat
        /\ counters.consecutive \in Nat /\ counters.consecutive <= counters.failures
        /\ counters.polls = counters.successes + counters.failures
        /\ counters.polls = logged /\ logged \in Nat
    BY DEF WaitInv, Counted, Waits!Counters, Waits!CountersAgree
  <2> DEFINE won == Waits!Successes(attempts)
             run == Waits!Consecutive(counters.consecutive, attempts)
  <2>4. won \in 0 .. Len(attempts) /\ run \in Nat /\ run <= counters.consecutive + Len(attempts) - won
    BY <2>1, <2>3, BatchCounted
  <2>5. \/ /\ counters' = [polls |-> counters.polls + Len(attempts),
                           successes |-> counters.successes + won,
                           failures |-> counters.failures + Len(attempts) - won,
                           consecutive |-> run]
           /\ logged' = logged + Len(attempts)
        \/ UNCHANGED <<counters, logged>>
    BY <1>7 DEF Waits!Persist
  <2> HIDE DEF won, run
  <2>6. Counted'
    <3>1. CASE UNCHANGED <<counters, logged>>
      BY <3>1 DEF WaitInv, Counted, Waits!CountersAgree
    <3>2. CASE ~UNCHANGED <<counters, logged>>
      <4> DEFINE n == Len(attempts)
      <4>1. n \in Nat /\ won \in 0 .. n /\ run <= counters.consecutive + n - won
        BY <1>1, <2>4
      <4>2. /\ counters' = [polls |-> counters.polls + n, successes |-> counters.successes + won,
                            failures |-> counters.failures + n - won, consecutive |-> run]
            /\ logged' = logged + n
        BY <2>5, <3>2
      <4> HIDE DEF n
      <4>3. /\ counters.polls + n \in Nat /\ counters.successes + won \in Nat
            /\ counters.failures + n - won \in Nat /\ logged + n \in Nat
            /\ counters.polls + n = counters.successes + won + (counters.failures + n - won)
            /\ counters.polls + n = logged + n
            /\ run <= counters.failures + n - won
        <5> DEFINE f == counters.failures
                   s == counters.successes
                   c == counters.consecutive
                   p == counters.polls
        <5>1. f \in Nat /\ s \in Nat /\ c \in Nat /\ p \in Nat /\ c <= f /\ p = s + f /\ p = logged
          BY <2>3
        <5>2. run \in Nat /\ run <= c + n - won
          BY <2>4, <4>1
        <5> HIDE DEF f, s, c, p
        <5>3. /\ p + n \in Nat /\ s + won \in Nat /\ f + n - won \in Nat /\ logged + n \in Nat
              /\ p + n = s + won + (f + n - won) /\ p + n = logged + n
              /\ run <= f + n - won
          BY <4>1, <5>1, <5>2
        <5>4. QED
          BY <5>3 DEF f, s, p
      <4>4. counters' \in Waits!Counters
        BY <2>4, <4>2, <4>3 DEF Waits!Counters
      <4>5. Waits!CountersAgree'
        BY <4>2, <4>3 DEF Waits!CountersAgree
      <4>6. QED
        BY <4>2, <4>3, <4>4, <4>5 DEF Counted
    <3>3. QED
      BY <3>1, <3>2
  <2>7. QED
    BY <2>2, <2>6 DEF WaitInv
<1>8. CASE Waits!Ask
  <2>1. UNCHANGED <<definition, pc, attempt, elapsed, attempts, outcome, count>>
    BY <1>8 DEF Waits!Ask, Waits!loop
  <2>2. Polled' /\ Answered'
    BY <2>1 DEF WaitInv, Polled, Answered, Looping, Returned, Waits!Expired
  <2>3. PICK success \in BOOLEAN :
          /\ logged' = logged + 1
          /\ counters' = [polls |-> counters.polls + 1,
                          successes |-> counters.successes + (IF success THEN 1 ELSE 0),
                          failures |-> counters.failures + (IF success THEN 0 ELSE 1),
                          consecutive |-> IF success THEN 0 ELSE counters.consecutive + 1]
    BY <1>8 DEF Waits!Ask
  <2>4. Counted'
    BY <2>3 DEF WaitInv, Counted, Waits!Counters, Waits!CountersAgree
  <2>5. QED
    BY <2>2, <2>4 DEF WaitInv
<1>9. CASE UNCHANGED Waits!vars
  BY <1>9 DEF Waits!vars, Waits!loop, Waits!store, WaitInv, Polled, Answered, Counted, Looping,
              Returned, Waits!Expired, Waits!CountersAgree
<1>10. QED
  BY <1>2, <1>3, <1>4, <1>5, <1>6, <1>7, <1>8, <1>9 DEF Waits!Next, Waits!LoopStep

\* The polls of a submission are bounded by its definition and counted, the
\* answer of the last one decides, and the row's counters add up, whatever a
\* client asks meanwhile.
THEOREM WaitsHold ==
    ASSUME GatewayAssumption
    PROVE  Spec => []WaitAccounted
<1>1. WaitInv => WaitAccounted
  <2> SUFFICES ASSUME WaitInv PROVE WaitAccounted
    OBVIOUS
  <2>1. Len(attempts) \in Nat /\ DOMAIN attempts = 1 .. Len(attempts)
    BY DEF WaitInv, Polled
  <2>2. definition.attempts \in Nat /\ attempt \in 1 .. definition.attempts
    BY DefinitionsTyped DEF WaitInv, Polled
  <2>3. Waits!PollsAccounted
    <3>1. Len(attempts) <= definition.attempts
      <4>1. CASE Looping
        <5> DEFINE n == Len(attempts)
                   most == definition.attempts
        <5>1. (n = attempt - 1 \/ n = attempt) /\ attempt \in 1 .. most /\ most \in Nat
          BY <2>2, <4>1, Zenon DEF WaitInv, Polled, Looping
        <5> HIDE DEF n, most
        <5>2. n <= most
          BY <5>1
        <5>3. QED
          BY <5>2 DEF n, most
      <4>2. CASE ~Looping
        BY <4>2 DEF WaitInv, Answered
      <4>3. QED
        BY <4>1, <4>2
    <3>2. pc = "poll" => ~Waits!Expired
      BY DEF WaitInv, Polled
    <3>3. \A i \in 1 .. Len(attempts) - 1 : attempts[i] # "success"
      BY <2>1 DEF WaitInv, Answered
    <3>4. outcome # "none" => count = Len(attempts)
      BY DEF WaitInv, Answered
    <3>5. QED
      BY <3>1, <3>2, <3>3, <3>4 DEF Waits!PollsAccounted
  <2>4. Waits!LastAnswerWins
    BY DEF WaitInv, Answered, Waits!LastAnswerWins
  <2>5. QED
    BY <2>3, <2>4 DEF WaitInv, Counted, WaitAccounted
<1>2. QED
  BY <1>1, Components, WaitStarts, WaitKept, PTL DEF Waits!Spec


-----------------------------------------------------------------------------
(* Delays: whole milliseconds of a duration. *)

LEMMA Division ==
    ASSUME NEW a \in Nat, NEW b \in Nat \ {0}
    PROVE  /\ a \div b \in Nat /\ (a \div b) * b <= a /\ a < (a \div b) * b + b
OBVIOUS

LEMMA Whole ==
    ASSUME NEW a \in Nat, NEW b \in Nat \ {0}
    PROVE  (a * b) \div b = a
OBVIOUS

LEMMA Multiples ==
    ASSUME NEW m \in Nat, NEW n \in Nat, NEW u \in Nat \ {0}
    PROVE  /\ m * u \in Nat
           /\ m < n => m * u + u <= n * u
           /\ m <= n => m * u <= n * u
           /\ m * u < n * u + u => m <= n
OBVIOUS

LEMMA Units ==
    ASSUME GatewayAssumption
    PROVE  /\ Milli \in Nat \ {0} /\ Second \in Nat \ {0} /\ MaxInt \in Nat
           /\ Waits!maxDurationMS \in Nat \ {0}
           /\ Waits!maxDurationMS * Milli <= MaxInt /\ MaxInt < Waits!maxDurationMS * Milli + Milli
<1>1. Milli \in Nat \ {0} /\ Second \in Nat \ {0} /\ MaxInt \in Nat
  BY DEF GatewayAssumption, Waits!GatewayWaitAssumption
<1>2. /\ Waits!maxDurationMS \in Nat
      /\ Waits!maxDurationMS * Milli <= MaxInt /\ MaxInt < Waits!maxDurationMS * Milli + Milli
  BY <1>1, Division DEF Waits!maxDurationMS
<1>3. Milli <= MaxInt
  <2>1. MaxInt > Milli * Second
    BY DEF GatewayAssumption, Waits!GatewayWaitAssumption
  <2>2. Milli * Second >= Milli
    BY <1>1
  <2>3. QED
    BY <1>1, <2>1, <2>2
<1>4. Waits!maxDurationMS # 0
  BY <1>1, <1>2, <1>3
<1>5. QED
  BY <1>1, <1>2, <1>4

\* A duration holds its milliseconds exactly, as far as it goes.
LEMMA AsDuration ==
    ASSUME GatewayAssumption, NEW m \in Nat
    PROVE  /\ Waits!msToDuration(m) \in 0 .. MaxInt
           /\ m < Waits!maxDurationMS => Waits!msToDuration(m) = m * Milli
           /\ m >= Waits!maxDurationMS => Waits!msToDuration(m) = MaxInt
           /\ m * Milli <= MaxInt =>
                 m * Milli <= Waits!msToDuration(m) /\ Waits!msToDuration(m) < m * Milli + Milli
<1>1. CASE m = 0
  BY <1>1, Units DEF Waits!msToDuration
<1>2. CASE m # 0 /\ m < Waits!maxDurationMS
  <2>1. Waits!msToDuration(m) = m * Milli
    BY <1>2, Units DEF Waits!msToDuration
  <2>2. m * Milli \in Nat /\ m * Milli + Milli <= Waits!maxDurationMS * Milli
    BY <1>2, Units, Multiples
  <2>3. QED
    BY <1>2, <2>1, <2>2, Units
<1>3. CASE m # 0 /\ m >= Waits!maxDurationMS
  <2>1. Waits!msToDuration(m) = MaxInt
    BY <1>3, Units DEF Waits!msToDuration
  <2>2. m * Milli \in Nat /\ Waits!maxDurationMS * Milli <= m * Milli
    BY <1>3, Units, Multiples
  <2>3. QED
    BY <1>3, <2>1, <2>2, Units
<1>4. QED
  BY <1>1, <1>2, <1>3, Units

LEMMA AsMilliseconds ==
    ASSUME GatewayAssumption, NEW d \in Nat
    PROVE  /\ Waits!durationToMS(d) \in Nat
           /\ Waits!durationToMS(d) * Milli <= d /\ d < Waits!durationToMS(d) * Milli + Milli
<1>1. CASE d = 0
  BY <1>1, Units DEF Waits!durationToMS
<1>2. CASE d # 0
  BY <1>2, Units, Division DEF Waits!durationToMS
<1>3. QED
  BY <1>1, <1>2

\* nextDelayAt: the jitter is added, and the sum counted in whole milliseconds.
Drawn(wanted, jitter, extra) ==
    IF jitter = 0 THEN wanted ELSE Waits!durationToMS(Waits!saturatingAdd(Waits!msToDuration(wanted), extra))

LEMMA DrawnIsWhole ==
    ASSUME GatewayAssumption, NEW w \in Nat, NEW jitter \in Nat, NEW extra \in 0 .. jitter * Milli
    PROVE  /\ Drawn(w, jitter, extra) \in Nat
           /\ w * Milli + extra \in Nat
           /\ w * Milli + extra <= MaxInt =>
                 /\ Drawn(w, jitter, extra) * Milli <= w * Milli + extra
                 /\ w * Milli + extra < Drawn(w, jitter, extra) * Milli + Milli
           /\ w * Milli + extra > MaxInt \/ w >= Waits!maxDurationMS =>
                 Drawn(w, jitter, extra) >= Waits!maxDurationMS
<1> DEFINE M == Milli
           q == Waits!maxDurationMS
           full == w * M + extra
           dur == Waits!msToDuration(w)
           sum == Waits!saturatingAdd(dur, extra)
           drawn == Drawn(w, jitter, extra)
<1>1. /\ M \in Nat \ {0} /\ MaxInt \in Nat /\ q \in Nat \ {0}
      /\ q * M <= MaxInt /\ MaxInt < q * M + M
  BY Units
<1>2. jitter * M \in Nat /\ extra \in Nat /\ w * M \in Nat /\ full \in Nat
  BY <1>1, Multiples
<1>3. CASE jitter = 0
  <2>1. extra = 0 /\ drawn = w /\ full = w * M
    <3>1. jitter * M = 0
      BY <1>1, <1>3
    <3>2. QED
      BY <1>2, <1>3, <3>1 DEF Drawn
  <2>2. w * M > MaxInt => w >= q
    BY <1>1, <1>2, Multiples
  <2>3. QED
    BY <1>1, <1>2, <2>1, <2>2
<1>4. CASE jitter # 0
  <2>1. drawn = Waits!durationToMS(sum)
    BY <1>4 DEF Drawn
  <2>2. /\ dur \in 0 .. MaxInt
        /\ w < q => dur = w * M
        /\ w >= q => dur = MaxInt
    BY AsDuration
  <2>3. /\ sum \in Nat
        /\ dur + extra <= MaxInt => sum = dur + extra
        /\ dur + extra > MaxInt => sum = MaxInt
    BY <1>1, <1>2, <2>2 DEF Waits!saturatingAdd
  <2>4. drawn \in Nat /\ drawn * M <= sum /\ sum < drawn * M + M
    BY <2>1, <2>3, AsMilliseconds
  <2> HIDE DEF M, q, dur, sum, drawn
  <2>5. drawn * M \in Nat
    BY <1>1, <2>4, Multiples
  <2>6. sum = MaxInt => drawn >= q
    <3>1. sum = MaxInt => q * M < drawn * M + M
      BY <1>1, <2>4
    <3>2. QED
      BY <1>1, <2>4, <3>1, Multiples
  <2>7. w >= q => q * M <= w * M
    BY <1>1, Multiples
  <2>8. q * M \in Nat
    BY <1>1, Multiples
  <2>9. ASSUME full <= MaxInt PROVE drawn * M <= full /\ full < drawn * M + M
    <3>1. CASE w < q
      <4>1. dur = w * M
        BY <2>2, <3>1
      <4>2. sum = full
        BY <1>1, <1>2, <2>2, <2>3, <2>9, <4>1
      <4>3. QED
        BY <1>1, <1>2, <2>4, <2>5, <4>2
    <3>2. CASE w >= q
      <4>1. sum = MaxInt
        BY <1>1, <1>2, <2>2, <2>3, <3>2
      <4>2. drawn >= q /\ drawn * M <= MaxInt
        BY <1>1, <2>4, <2>6, <4>1
      <4>3. drawn <= q
        <5>1. drawn * M < q * M + M
          BY <1>1, <2>5, <2>8, <4>2
        <5>2. QED
          BY <1>1, <2>4, <5>1, Multiples
      <4>4. drawn = q
        BY <1>1, <2>4, <4>2, <4>3
      <4>5. QED
        BY <1>1, <1>2, <2>7, <2>8, <2>9, <3>2, <4>4
    <3>3. QED
      BY <1>1, <3>1, <3>2
  <2>10. ASSUME full > MaxInt \/ w >= q PROVE drawn >= q
    <3>1. CASE w >= q
      <4>1. sum = MaxInt
        BY <1>1, <1>2, <2>2, <2>3, <3>1
      <4>2. QED
        BY <2>6, <4>1
    <3>2. CASE w < q
      <4>1. full > MaxInt /\ dur = w * M
        BY <1>1, <2>2, <2>10, <3>2
      <4>2. sum = MaxInt
        BY <1>1, <1>2, <2>2, <2>3, <4>1
      <4>3. QED
        BY <2>6, <4>2
    <3>3. QED
      BY <1>1, <3>1, <3>2
  <2>11. QED
    BY <1>2, <2>4, <2>9, <2>10 DEF M, q, drawn
<1>5. QED
  BY <1>3, <1>4

\* The cap: the result and the ideal lie in the same millisecond.
LEMMA CutWithin ==
    ASSUME GatewayAssumption, NEW drawn \in Nat, NEW full \in Nat, NEW cap \in Nat,
           full <= MaxInt => drawn * Milli <= full /\ full < drawn * Milli + Milli,
           full > MaxInt => drawn >= Waits!maxDurationMS,
           NEW result, result = Waits!msToDuration(IF cap > 0 /\ drawn > cap THEN cap ELSE drawn),
           NEW ideal, ideal = IF cap > 0 /\ full > cap * Milli THEN cap * Milli ELSE full
    PROVE  /\ ideal > MaxInt => result > MaxInt - Milli
           /\ ideal <= MaxInt => ideal - result < Milli /\ result - ideal < Milli
<1> DEFINE M == Milli
           q == Waits!maxDurationMS
           ms == IF cap > 0 /\ drawn > cap THEN cap ELSE drawn
<1>1. /\ M \in Nat \ {0} /\ MaxInt \in Nat /\ q \in Nat
      /\ q * M <= MaxInt /\ MaxInt < q * M + M
  BY Units
<1>2. drawn * M \in Nat /\ cap * M \in Nat /\ q * M \in Nat
  BY <1>1, Multiples
<1>3. /\ ms \in Nat /\ result \in 0 .. MaxInt
      /\ ms >= q => result = MaxInt
      /\ ms * M <= MaxInt => ms * M <= result /\ result < ms * M + M
  BY AsDuration
<1>4. cap < drawn => cap * M + M <= drawn * M
  BY <1>1, Multiples
<1>5. drawn < cap => drawn * M + M <= cap * M
  BY <1>1, Multiples
<1>6. cap > q => q * M + M <= cap * M
  BY <1>1, Multiples
<1>7. cap < q => cap * M + M <= q * M
  BY <1>1, Multiples
<1> HIDE DEF M, q
<1>8. CASE full <= MaxInt
  <2>1. drawn * M <= full /\ full < drawn * M + M
    BY <1>8 DEF M
  <2>2. CASE cap > 0 /\ drawn > cap
    <3>1. ideal = cap * M /\ ms = cap
      BY <1>1, <1>2, <1>4, <2>1, <2>2 DEF M
    <3>2. QED
      BY <1>1, <1>2, <1>3, <1>8, <2>1, <2>2, <3>1, <1>4 DEF M
  <2>3. CASE ~(cap > 0 /\ drawn > cap)
    <3>1. ms = drawn
      BY <2>3
    <3>2. drawn * M <= ideal /\ ideal < drawn * M + M /\ ideal <= MaxInt
      <4>1. CASE cap > 0 /\ full > cap * M
        <5>1. drawn = cap
          BY <1>1, <1>2, <1>5, <2>1, <2>3, <4>1
        <5>2. QED
          BY <1>1, <1>2, <1>8, <4>1, <5>1 DEF M
      <4>2. CASE ~(cap > 0 /\ full > cap * M)
        BY <1>8, <2>1, <4>2 DEF M
      <4>3. QED
        BY <4>1, <4>2
    <3>3. drawn * M <= result /\ result < drawn * M + M
      BY <1>1, <1>2, <1>3, <1>8, <2>1, <3>1
    <3> HIDE DEF ms
    <3>4. ideal \in Nat
      BY <1>2 DEF M
    <3>5. QED
      BY <1>1, <1>2, <1>3, <3>2, <3>3, <3>4 DEF M
  <2>4. QED
    BY <2>2, <2>3
<1>9. CASE full > MaxInt
  <2>1. drawn >= q
    BY <1>9 DEF q
  <2>2. CASE cap > 0 /\ cap < q
    <3>1. ms = cap
      BY <1>1, <2>1, <2>2
    <3>2. cap * M < MaxInt /\ ideal = cap * M
      BY <1>1, <1>2, <1>7, <1>9, <2>2 DEF M
    <3>3. QED
      BY <1>1, <1>2, <1>3, <3>1, <3>2 DEF M
  <2>3. CASE ~(cap > 0 /\ cap < q)
    <3>1. ms >= q
      BY <1>1, <2>1, <2>3
    <3>2. result = MaxInt
      BY <1>3, <3>1
    <3>3. ideal <= MaxInt => ideal = cap * M /\ cap > 0
      BY <1>1, <1>2, <1>9 DEF M
    <3>4. ideal <= MaxInt => q * M <= ideal
      BY <1>1, <1>2, <1>6, <2>3, <3>3
    <3>5. ideal \in Nat
      BY <1>2 DEF M
    <3>6. QED
      BY <1>1, <1>2, <3>2, <3>4, <3>5 DEF M
  <2>4. QED
    BY <2>2, <2>3
<1>10. QED
  BY <1>1, <1>8, <1>9

\* A Retry-After of the most seconds a duration holds, or more, counts as the
\* longest duration.
LEMMA CutAtTheEnd ==
    ASSUME GatewayAssumption, NEW drawn \in Nat, NEW full \in Nat, NEW cap \in Nat,
           drawn >= Waits!maxDurationMS, full > MaxInt - Milli * Second,
           NEW result, result = Waits!msToDuration(IF cap > 0 /\ drawn > cap THEN cap ELSE drawn),
           NEW ideal, ideal = IF cap > 0 /\ full > cap * Milli THEN cap * Milli ELSE full
    PROVE  /\ ideal > MaxInt => result > MaxInt - Milli
           /\ ideal <= MaxInt => ideal - result < Milli * Second /\ result - ideal < Milli * Second
<1> DEFINE M == Milli
           q == Waits!maxDurationMS
           one == M * Second
           ms == IF cap > 0 /\ drawn > cap THEN cap ELSE drawn
<1>1. /\ M \in Nat \ {0} /\ MaxInt \in Nat /\ q \in Nat /\ Second \in Nat \ {0}
      /\ q * M <= MaxInt /\ MaxInt < q * M + M
  BY Units
<1>2. cap * M \in Nat /\ q * M \in Nat /\ one \in Nat /\ one >= M
  BY <1>1, Multiples
<1>3. /\ ms \in Nat /\ result \in 0 .. MaxInt
      /\ ms >= q => result = MaxInt
      /\ ms < q => result = ms * M
  BY AsDuration
<1>4. cap < q => cap * M + M <= q * M
  BY <1>1, Multiples
<1>5. cap >= q => q * M <= cap * M
  BY <1>1, Multiples
<1>6. ideal \in Nat
  BY <1>2
<1> HIDE DEF M, q, one
<1>7. CASE cap > 0 /\ cap < q
  <2>1. ms = cap /\ result = cap * M /\ cap * M <= MaxInt
    BY <1>1, <1>2, <1>3, <1>4, <1>7 DEF q
  <2>2. ideal = cap * M \/ (ideal = full /\ full <= cap * M)
    BY <1>2, <1>7 DEF M
  <2>3. QED
    BY <1>1, <1>2, <1>6, <2>1, <2>2 DEF M, one
<1>8. CASE ~(cap > 0 /\ cap < q)
  <2>1. ms >= q
    BY <1>1, <1>8 DEF q
  <2>2. result = MaxInt
    BY <1>3, <2>1
  <2>3. ideal = full \/ (ideal = cap * M /\ q * M <= cap * M)
    BY <1>1, <1>5, <1>8 DEF M
  <2>4. QED
    BY <1>1, <1>2, <1>6, <2>2, <2>3 DEF M, one
<1>9. QED
  BY <1>7, <1>8

-----------------------------------------------------------------------------
(* Backoff: a product, and a number of doublings, that saturate.           *)

Saturates(n, ideal) == n \in Nat /\ ideal \in Nat /\ (n = ideal \/ (n = MaxInt /\ ideal > MaxInt))

LEMMA MultiplicationSaturates ==
    ASSUME GatewayAssumption, NEW v \in Nat, NEW n \in Nat \ {0}
    PROVE  Saturates(Waits!saturatingMultiplyMS(v, n), v * n)
<1>1. /\ MaxInt \in Nat /\ MaxInt \div n \in Nat /\ MaxInt < (MaxInt \div n) * n + n
  BY Units, Division
<1>2. v * n \in Nat
  BY Multiples
<1>3. CASE v = 0
  BY <1>1, <1>3 DEF Saturates, Waits!saturatingMultiplyMS
<1>4. CASE v # 0 /\ v > MaxInt \div n
  <2>1. (MaxInt \div n) * n + n <= v * n
    BY <1>1, <1>4, Multiples
  <2>2. Waits!saturatingMultiplyMS(v, n) = MaxInt
    BY <1>1, <1>4 DEF Waits!saturatingMultiplyMS
  <2>3. (MaxInt \div n) * n \in Nat
    BY <1>1, Multiples
  <2>4. QED
    BY <1>1, <1>2, <2>1, <2>2, <2>3 DEF Saturates
<1>5. CASE v # 0 /\ ~(v > MaxInt \div n)
  BY <1>1, <1>2, <1>5 DEF Saturates, Waits!saturatingMultiplyMS
<1>6. QED
  BY <1>3, <1>4, <1>5

\* A function on 0 .. n defined from its previous value exists.
LEMMA LeastElement ==
    ASSUME NEW S \in SUBSET Nat, S # {}
    PROVE  \E n \in S : \A k \in S : n <= k
<1>1. PICK n \in S : \A k \in S : <<k, n>> \notin OpToRel(<, Nat)
  BY NatLessThanWellFounded, WFMin, Zenon
<1>2. \A k \in S : ~(k < n)
  BY <1>1, Zenon DEF OpToRel
<1>3. QED
  BY <1>2

LEMMA RecursionStands ==
    ASSUME NEW V, NEW v \in V, NEW n \in Nat, NEW F \in [1 .. n -> [V -> V]]
    PROVE  \E d : d = [i \in 0 .. n |-> IF i = 0 THEN v ELSE F[i][d[i - 1]]] /\ d \in [0 .. n -> V]
<1> DEFINE Defined(d, m) == d = [i \in 0 .. m |-> IF i = 0 THEN v ELSE F[i][d[i - 1]]]
                            /\ d \in [0 .. m -> V]
           S == {m \in 0 .. n : ~\E d : Defined(d, m)}
<1>1. SUFFICES ASSUME S # {} PROVE FALSE
  <2>1. S = {} => n \notin S
    OBVIOUS
  <2>2. n \in 0 .. n
    OBVIOUS
  <2>3. S = {} => \E d : Defined(d, n)
    BY <2>1, <2>2
  <2>4. QED
    BY <1>1, <2>3
<1>2. S \in SUBSET Nat
  OBVIOUS
<1>3. PICK m \in S : \A k \in S : m <= k
  <2> HIDE DEF S
  <2>1. QED
    BY <1>1, <1>2, LeastElement
<1>4. m \in 0 .. n /\ ~\E d : Defined(d, m)
  OBVIOUS
<1>5. CASE m = 0
  <2> DEFINE d == [i \in 0 .. 0 |-> v]
  <2>1. Defined(d, 0)
    OBVIOUS
  <2>2. QED
    BY <1>4, <1>5, <2>1
<1>6. CASE m # 0
  <2>1. m - 1 \in 0 .. n /\ m - 1 \notin S
    <3>1. m \in 0 .. n
      BY <1>4
    <3> HIDE DEF S
    <3>2. QED
      BY <1>3, <1>6, <3>1
  <2>2. PICK d : Defined(d, m - 1)
    BY <2>1
  <2> DEFINE e == [i \in 0 .. m |-> IF i = m THEN F[m][d[m - 1]] ELSE d[i]]
  <2>3. d \in [0 .. m - 1 -> V] /\ m - 1 \in 0 .. m - 1
    BY <1>4, <1>6, <2>2
  <2>4. e \in [0 .. m -> V]
    <3>1. F[m][d[m - 1]] \in V
      <4>1. F[m] \in [V -> V] /\ d[m - 1] \in V
        BY <1>4, <1>6, <2>3
      <4>2. QED
        BY <4>1
    <3>2. \A i \in 0 .. m : i # m => d[i] \in V
      BY <1>4, <2>3
    <3>3. QED
      BY <3>1, <3>2
  <2>5. \A i \in 0 .. m : e[i] = IF i = 0 THEN v ELSE F[i][e[i - 1]]
    <3> SUFFICES ASSUME NEW i \in 0 .. m PROVE e[i] = IF i = 0 THEN v ELSE F[i][e[i - 1]]
      OBVIOUS
    <3>1. CASE i = m
      BY <1>4, <1>6, <3>1
    <3>2. CASE i # m
      <4>1. i \in 0 .. m - 1 /\ e[i] = d[i] /\ (i # 0 => e[i - 1] = d[i - 1])
        BY <1>4, <1>6, <3>2
      <4>2. d[i] = IF i = 0 THEN v ELSE F[i][d[i - 1]]
        BY <2>2, <4>1
      <4>3. QED
        BY <4>1, <4>2
    <3>3. QED
      BY <3>1, <3>2
  <2>6. Defined(e, m)
    <3> HIDE DEF e
    <3>1. e = [i \in 0 .. m |-> e[i]]
      BY <2>4
    <3>2. QED
      BY <2>4, <2>5, <3>1
  <2>7. QED
    BY <1>4, <2>6
<1>7. QED
  BY <1>5, <1>6

Saturating(d, v, e) ==
    d = [i \in 0 .. e |-> IF i = 0 THEN v
                          ELSE IF d[i - 1] > MaxInt \div 2 THEN MaxInt ELSE 2 * d[i - 1]]
Doubling(d, v, e) ==
    d = [i \in 0 .. e |-> IF i = 0 THEN v ELSE 2 * d[i - 1]]

LEMMA SaturatingStands ==
    ASSUME GatewayAssumption, NEW v \in Nat, NEW e \in Nat
    PROVE  \E d : Saturating(d, v, e)
<1> DEFINE V == Nat
           F == [i \in 1 .. e |-> [x \in V |-> IF x > MaxInt \div 2 THEN MaxInt ELSE 2 * x]]
<1>1. F \in [1 .. e -> [V -> V]] /\ v \in V
  BY Units
<1>2. PICK d : d = [i \in 0 .. e |-> IF i = 0 THEN v ELSE F[i][d[i - 1]]] /\ d \in [0 .. e -> V]
  <2> DEFINE n == e
             z == v
  <2>1. F \in [1 .. n -> [V -> V]] /\ z \in V /\ n \in Nat
    BY <1>1
  <2> HIDE DEF F, V, n, z
  <2>2. \E d : d = [i \in 0 .. n |-> IF i = 0 THEN z ELSE F[i][d[i - 1]]] /\ d \in [0 .. n -> V]
    BY <2>1, RecursionStands
  <2>3. QED
    BY <2>2 DEF n, z
<1>3. \A i \in 0 .. e : d[i] = IF i = 0 THEN v
                               ELSE IF d[i - 1] > MaxInt \div 2 THEN MaxInt ELSE 2 * d[i - 1]
  <2> SUFFICES ASSUME NEW i \in 0 .. e, i # 0
               PROVE  d[i] = IF d[i - 1] > MaxInt \div 2 THEN MaxInt ELSE 2 * d[i - 1]
    BY <1>2
  <2>1. i \in 1 .. e /\ i - 1 \in 0 .. e
    OBVIOUS
  <2>2. d[i - 1] \in Nat /\ d[i] = F[i][d[i - 1]]
    BY <1>2, <2>1
  <2>3. QED
    BY <2>1, <2>2
<1>4. d = [i \in 0 .. e |-> d[i]]
  BY <1>2
<1>5. QED
  BY <1>3, <1>4 DEF Saturating

LEMMA DoublingStands ==
    ASSUME NEW v \in Nat, NEW e \in Nat
    PROVE  \E d : Doubling(d, v, e)
<1> DEFINE V == Nat
           F == [i \in 1 .. e |-> [x \in V |-> 2 * x]]
<1>1. F \in [1 .. e -> [V -> V]] /\ v \in V
  OBVIOUS
<1>2. PICK d : d = [i \in 0 .. e |-> IF i = 0 THEN v ELSE F[i][d[i - 1]]] /\ d \in [0 .. e -> V]
  <2> DEFINE n == e
             z == v
  <2>1. F \in [1 .. n -> [V -> V]] /\ z \in V /\ n \in Nat
    BY <1>1
  <2> HIDE DEF F, V, n, z
  <2>2. \E d : d = [i \in 0 .. n |-> IF i = 0 THEN z ELSE F[i][d[i - 1]]] /\ d \in [0 .. n -> V]
    BY <2>1, RecursionStands
  <2>3. QED
    BY <2>2 DEF n, z
<1>3. \A i \in 0 .. e : d[i] = IF i = 0 THEN v ELSE 2 * d[i - 1]
  <2> SUFFICES ASSUME NEW i \in 0 .. e, i # 0 PROVE d[i] = 2 * d[i - 1]
    BY <1>2
  <2>1. i \in 1 .. e /\ i - 1 \in 0 .. e
    OBVIOUS
  <2>2. d[i - 1] \in Nat /\ d[i] = F[i][d[i - 1]]
    BY <1>2, <2>1
  <2>3. QED
    BY <2>1, <2>2
<1>4. d = [i \in 0 .. e |-> d[i]]
  BY <1>2
<1>5. QED
  BY <1>3, <1>4 DEF Doubling

LEMMA DoublingsAgree ==
    ASSUME GatewayAssumption, NEW v \in Nat, v <= MaxInt, NEW e \in Nat,
           NEW s, Saturating(s, v, e), NEW d, Doubling(d, v, e)
    PROVE  Saturates(s[e], d[e])
<1> DEFINE Agrees(i) == Saturates(s[i], d[i]) /\ s[i] <= MaxInt
           B == {i \in 0 .. e : ~Agrees(i)}
<1>0. /\ \A i \in 0 .. e : s[i] = IF i = 0 THEN v ELSE IF s[i - 1] > MaxInt \div 2 THEN MaxInt
                                                                              ELSE 2 * s[i - 1]
      /\ \A i \in 0 .. e : d[i] = IF i = 0 THEN v ELSE 2 * d[i - 1]
  BY Zenon DEF Saturating, Doubling
<1>1. SUFFICES ASSUME B # {} PROVE FALSE
  <2>1. e \in 0 .. e
    OBVIOUS
  <2>2. QED
    BY <1>1, <2>1
<1>2. PICK i \in B : \A k \in B : i <= k
  <2>1. B \in SUBSET Nat
    OBVIOUS
  <2> HIDE DEF B
  <2>2. QED
    BY <1>1, <2>1, LeastElement
<1>3. i \in 0 .. e /\ ~Agrees(i)
  OBVIOUS
<1>4. CASE i = 0
  BY <1>0, <1>3, <1>4 DEF Saturates
<1>5. CASE i # 0
  <2>1. i - 1 \in 0 .. e /\ i - 1 \notin B
    BY <1>2, <1>3, <1>5
  <2>2. Agrees(i - 1)
    BY <2>1
  <2>3. MaxInt \in Nat /\ MaxInt \div 2 \in Nat /\ 2 * (MaxInt \div 2) <= MaxInt
        /\ MaxInt < 2 * (MaxInt \div 2) + 2
    BY Units
  <2>4. /\ s[i] = IF s[i - 1] > MaxInt \div 2 THEN MaxInt ELSE 2 * s[i - 1]
        /\ d[i] = 2 * d[i - 1]
    BY <1>0, <1>3, <1>5
  <2>5. Agrees(i)
    BY <2>2, <2>3, <2>4 DEF Saturates
  <2>6. QED
    BY <1>3, <2>5
<1>6. QED
  BY <1>4, <1>5

LEMMA PowerSaturates ==
    ASSUME GatewayAssumption, NEW v \in Nat, v <= MaxInt, NEW e \in Nat
    PROVE  Saturates(Waits!saturatingPowerOfTwoMS(v, e), Waits!Doubled(v, e))
<1> DEFINE s == CHOOSE s : Saturating(s, v, e)
           d == CHOOSE d : Doubling(d, v, e)
<1>1. Saturating(s, v, e) /\ Doubling(d, v, e)
  BY SaturatingStands, DoublingStands
<1>2. Waits!Doubled(v, e) = d[e]
  BY Zenon DEF Waits!Doubled, Doubling
<1>3. Waits!saturatingPowerOfTwoMS(v, e) = IF v <= 0 THEN 0 ELSE s[e]
  BY Zenon DEF Waits!saturatingPowerOfTwoMS, Saturating
<1> HIDE DEF s, d
<1>4. Saturates(s[e], d[e])
  BY <1>1, DoublingsAgree
<1>5. CASE v # 0
  BY <1>2, <1>3, <1>4, <1>5
<1>6. CASE v = 0
  <2> DEFINE z == [i \in 0 .. e |-> 0]
  <2>1. Saturating(z, v, e)
    BY <1>6, Units DEF Saturating
  <2>2. Saturates(z[e], d[e])
    BY <1>1, <2>1, DoublingsAgree
  <2>3. z[e] = 0
    OBVIOUS
  <2>4. QED
    BY <1>2, <1>3, <1>6, <2>2, <2>3
<1>7. QED
  BY <1>5, <1>6

-----------------------------------------------------------------------------
(* The delay of a sleeper is the one computed from what was asked.         *)

DelayInv ==
    /\ definition \in Definitions
    /\ pc = "sleep" =>
          /\ asked.attempt \in Nat \ {0} /\ asked.retry \in Retries
          /\ asked.extra \in 0 .. definition.jitter * Milli
          /\ delay = Waits!nextDelay(definition, asked.attempt, asked.retry, asked.extra)

LEMMA HeaderWanted ==
    ASSUME GatewayAssumption, NEW retry \in Nat
    PROVE  /\ Waits!durationToMS(Waits!parseRetryAfter(retry)) \in Nat
           /\ retry < MaxInt \div (Milli * Second) =>
                 Waits!durationToMS(Waits!parseRetryAfter(retry)) = retry * Second
           /\ retry >= MaxInt \div (Milli * Second) =>
                 /\ Waits!durationToMS(Waits!parseRetryAfter(retry)) >= Waits!maxDurationMS
                 /\ retry * Second * Milli > MaxInt - Milli * Second
<1> DEFINE one == Milli * Second
           most == MaxInt \div one
           w == Waits!durationToMS(Waits!parseRetryAfter(retry))
<1>1. /\ Milli \in Nat \ {0} /\ Second \in Nat \ {0} /\ MaxInt \in Nat
      /\ Waits!maxDurationMS \in Nat \ {0}
      /\ Waits!maxDurationMS * Milli <= MaxInt /\ MaxInt < Waits!maxDurationMS * Milli + Milli
  BY Units
<1>2. one \in Nat \ {0}
  BY <1>1
<1>3. most \in Nat /\ most * one <= MaxInt /\ MaxInt < most * one + one
  <2> HIDE DEF one
  <2>1. QED
    BY <1>1, <1>2, Division
<1>4. ASSUME retry < most PROVE w \in Nat /\ w = retry * Second /\ ~(retry >= most)
  <2>1. retry * Second \in Nat /\ retry * Second * Milli \in Nat
    BY <1>1, Multiples
  <2>2. Waits!parseRetryAfter(retry) = retry * Second * Milli
    <3>1. Waits!parseRetryAfter(retry) = IF retry >= most THEN MaxInt ELSE retry * Second * Milli
      BY Zenon DEF Waits!parseRetryAfter
    <3> HIDE DEF most
    <3>2. ~(retry >= most)
      BY <1>3, <1>4
    <3>3. QED
      BY <3>1, <3>2, Zenon
  <2> DEFINE x == retry * Second
  <2>3. Waits!durationToMS(x * Milli) = x
    <3> HIDE DEF x
    <3>1. x \in Nat /\ x * Milli \in Nat
      BY <2>1 DEF x
    <3>2. CASE x = 0
      BY <1>1, <3>2 DEF Waits!durationToMS
    <3>3. CASE x # 0
      <4> DEFINE y == x * Milli
      <4>1. y \in Nat /\ y > 0 /\ y \div Milli = x
        BY <1>1, <3>1, <3>3, Whole
      <4> HIDE DEF y
      <4>2. ~(y <= 0)
        BY <4>1
      <4>3. Waits!durationToMS(y) = x
        BY <4>1, <4>2, Zenon DEF Waits!durationToMS
      <4>4. QED
        BY <4>3 DEF y
    <3>4. QED
      BY <3>2, <3>3
  <2>4. w = retry * Second
    BY <2>2, <2>3, Zenon
  <2>5. QED
    <3> HIDE DEF w, most, one
    <3>1. QED
      BY <1>3, <1>4, <2>1, <2>4
<1>5. ASSUME retry >= most
      PROVE  /\ w \in Nat /\ w >= Waits!maxDurationMS /\ ~(retry < most)
             /\ retry * Second * Milli > MaxInt - one
  <2>1. Waits!parseRetryAfter(retry) = MaxInt
    BY <1>5 DEF Waits!parseRetryAfter
  <2>2. w \in Nat /\ w >= Waits!maxDurationMS
    <3>1. Waits!durationToMS(MaxInt) \in Nat
          /\ MaxInt < Waits!durationToMS(MaxInt) * Milli + Milli
      BY <1>1, AsMilliseconds
    <3>2. Waits!maxDurationMS * Milli < Waits!durationToMS(MaxInt) * Milli + Milli
      BY <1>1, <3>1, Multiples
    <3>3. QED
      BY <1>1, <2>1, <3>1, <3>2, Multiples
  <2>3. most * one <= retry * one /\ retry * one \in Nat /\ most * one \in Nat
    <3> HIDE DEF one, most
    <3>1. QED
      BY <1>2, <1>3, <1>5, Multiples
  <2>4. retry * Second * Milli = retry * one
    BY <1>1
  <2>5. QED
    <3> HIDE DEF one, most, w
    <3>1. retry * one > MaxInt - one
      BY <1>1, <1>2, <1>3, <2>3
    <3>2. QED
      BY <1>3, <1>5, <2>2, <2>4, <3>1
<1>6. most \in Nat /\ (retry < most \/ retry >= most)
  <2> HIDE DEF most
  <2>1. QED
    BY <1>3
<1>7. /\ w \in Nat
      /\ retry < most => w = retry * Second
      /\ retry >= most => w >= Waits!maxDurationMS /\ retry * Second * Milli > MaxInt - one
  <2> HIDE DEF w, most, one
  <2>1. QED
    BY <1>4, <1>5, <1>6
<1>8. QED
  BY <1>7, Zenon

LEMMA DelayIsExact ==
    ASSUME GatewayAssumption, DelayInv
    PROVE  Waits!DelayExact
<1> SUFFICES ASSUME pc = "sleep" PROVE Waits!DelayExact
  BY DEF Waits!DelayExact
<1> DEFINE n == asked.attempt
           retry == asked.retry
           extra == asked.extra
           base == definition.base
           cap == definition.cap
           jitter == definition.jitter
           mode == definition.mode
           backoff == CASE mode = "fixed" -> base
                        [] mode = "linear" -> Waits!saturatingMultiplyMS(base, n)
                        [] mode = "exponential" -> Waits!saturatingPowerOfTwoMS(base, n - 1)
           ideally == CASE mode = "fixed" -> base
                        [] mode = "linear" -> base * n
                        [] mode = "exponential" -> Waits!Doubled(base, n - 1)
           w == IF retry >= 0 THEN Waits!durationToMS(Waits!parseRetryAfter(retry)) ELSE backoff
           W == IF retry >= 0 THEN retry * Second ELSE ideally
           drawn == Drawn(w, jitter, extra)
           full == W * Milli + extra
           one == Milli * Second
<1>1. /\ n \in Nat \ {0} /\ retry \in Int /\ retry >= -1 /\ extra \in 0 .. jitter * Milli
      /\ base \in Nat /\ base <= MaxInt /\ cap \in Nat /\ jitter \in Nat
      /\ mode \in {"fixed", "linear", "exponential"}
  BY DEF DelayInv, GatewayAssumption, Waits!GatewayWaitAssumption, Waits!Definition
<1>2. /\ Milli \in Nat \ {0} /\ Second \in Nat \ {0} /\ MaxInt \in Nat
      /\ Waits!maxDurationMS \in Nat \ {0}
      /\ Waits!maxDurationMS * Milli <= MaxInt /\ MaxInt < Waits!maxDurationMS * Milli + Milli
  BY Units
<1>3. delay = Waits!msToDuration(IF cap > 0 /\ drawn > cap THEN cap ELSE drawn)
  <2>1. delay = Waits!nextDelay(definition, asked.attempt, asked.retry, asked.extra)
    BY DEF DelayInv
  <2>2. QED
    BY <2>1, Zenon DEF Waits!nextDelay, Drawn
<1>4. Waits!Ideal = IF cap > 0 /\ full > cap * Milli THEN cap * Milli ELSE full
  BY Zenon DEF Waits!Ideal
<1>5. Saturates(backoff, ideally)
  <2>1. CASE mode = "fixed"
    <3>1. backoff = base /\ ideally = base
      BY <2>1
    <3> HIDE DEF backoff, ideally
    <3>2. QED
      BY <1>1, <3>1 DEF Saturates
  <2>2. CASE mode = "linear"
    <3>1. backoff = Waits!saturatingMultiplyMS(base, n) /\ ideally = base * n
      BY <2>2
    <3> HIDE DEF backoff, ideally, base, n
    <3>2. QED
      BY <1>1, <3>1, MultiplicationSaturates
  <2>3. CASE mode = "exponential"
    <3>1. backoff = Waits!saturatingPowerOfTwoMS(base, n - 1) /\ ideally = Waits!Doubled(base, n - 1)
      BY <2>3
    <3> HIDE DEF backoff, ideally, base, n
    <3>2. n - 1 \in Nat
      BY <1>1
    <3>3. QED
      BY <1>1, <3>1, <3>2, PowerSaturates
  <2>4. QED
    BY <1>1, <2>1, <2>2, <2>3
<1> HIDE DEF backoff, ideally, base, cap, jitter, mode, n
<1>6. CASE retry >= 0 /\ retry >= MaxInt \div one
  <2>1. /\ w \in Nat /\ w >= Waits!maxDurationMS
        /\ W \in Nat /\ W * Milli \in Nat /\ W * Milli > MaxInt - one
    <3>1. retry \in Nat
      BY <1>1, <1>6
    <3>2. retry * Second \in Nat /\ retry * Second * Milli \in Nat
      BY <1>2, <3>1, Multiples
    <3>3. QED
      BY <1>6, <3>1, <3>2, HeaderWanted
  <2>2. drawn \in Nat /\ drawn >= Waits!maxDurationMS
    <3> HIDE DEF w
    <3>1. QED
      BY <1>1, <2>1, DrawnIsWhole
  <2>3. full \in Nat /\ full > MaxInt - one
    <3>1. extra \in Nat /\ one \in Nat
      BY <1>1, <1>2, Multiples
    <3> HIDE DEF W, one, extra
    <3>2. QED
      BY <1>2, <2>1, <3>1
  <2> HIDE DEF drawn, full
  <2>4. /\ Waits!Ideal > MaxInt => delay > MaxInt - Milli
        /\ Waits!Ideal <= MaxInt => Waits!Ideal - delay < one /\ delay - Waits!Ideal < one
    BY <1>1, <1>3, <1>4, <2>2, <2>3, CutAtTheEnd
  <2>5. Waits!Slack = one
    BY <1>6 DEF Waits!Slack
  <2>6. Waits!Ideal \in Int
    BY <1>1, <1>2, <1>4, <2>3
  <2>7. QED
    BY <1>2, <2>4, <2>5, <2>6 DEF Waits!DelayExact
<1>7. CASE ~(retry >= 0 /\ retry >= MaxInt \div one)
  <2>1. Saturates(w, W)
    <3>1. CASE retry >= 0
      <4>1. retry \in Nat /\ retry < MaxInt \div one
        <5>1. one \in Nat \ {0}
          BY <1>2
        <5>2. MaxInt \div one \in Nat
          BY <1>2, <5>1, Division
        <5>3. QED
          BY <1>1, <1>7, <3>1, <5>2
      <4>2. w = retry * Second /\ W = retry * Second /\ w \in Nat
        BY <3>1, <4>1, HeaderWanted
      <4>3. QED
        BY <4>2 DEF Saturates
    <3>2. CASE ~(retry >= 0)
      BY <1>5, <3>2
    <3>3. QED
      BY <3>1, <3>2
  <2> HIDE DEF w, W
  <2>2. /\ w \in Nat /\ W \in Nat /\ extra \in Nat /\ W * Milli \in Nat /\ full \in Nat
    BY <1>1, <1>2, <2>1, Multiples DEF Saturates
  <2>3. /\ drawn \in Nat
        /\ w * Milli + extra <= MaxInt =>
              drawn * Milli <= w * Milli + extra /\ w * Milli + extra < drawn * Milli + Milli
        /\ w * Milli + extra > MaxInt \/ w >= Waits!maxDurationMS => drawn >= Waits!maxDurationMS
    BY <1>1, <2>2, DrawnIsWhole
  <2> HIDE DEF drawn
  <2>4. /\ full <= MaxInt => drawn * Milli <= full /\ full < drawn * Milli + Milli
        /\ full > MaxInt => drawn >= Waits!maxDurationMS
    <3>1. CASE w = W
      BY <2>3, <3>1
    <3>2. CASE w # W
      <4>1. w = MaxInt /\ W > MaxInt
        BY <2>1, <3>2 DEF Saturates
      <4>2. w >= Waits!maxDurationMS
        <5>1. Waits!maxDurationMS <= Waits!maxDurationMS * Milli
          BY <1>2
        <5>2. QED
          BY <1>2, <4>1, <5>1
      <4>3. full > MaxInt
        <5>1. W <= W * Milli
          BY <1>2, <2>2
        <5>2. QED
          BY <1>2, <2>2, <4>1, <5>1
      <4>4. QED
        BY <1>2, <2>2, <2>3, <4>2, <4>3
    <3>3. QED
      BY <3>1, <3>2
  <2> HIDE DEF full
  <2>5. /\ Waits!Ideal > MaxInt => delay > MaxInt - Milli
        /\ Waits!Ideal <= MaxInt => Waits!Ideal - delay < Milli /\ delay - Waits!Ideal < Milli
    BY <1>1, <1>3, <1>4, <2>2, <2>3, <2>4, CutWithin
  <2>6. Waits!Slack = Milli
    <3>1. one \in Nat \ {0}
      BY <1>2
    <3>2. MaxInt \div one \in Nat
      BY <1>2, <3>1, Division
    <3>3. QED
      BY <1>1, <1>7, <3>2 DEF Waits!Slack
  <2>7. Waits!Ideal \in Int
    BY <1>1, <1>2, <1>4, <2>2
  <2>8. QED
    BY <1>2, <2>5, <2>6, <2>7 DEF Waits!DelayExact
<1>8. QED
  BY <1>6, <1>7

LEMMA DelayKept ==
    ASSUME GatewayAssumption, DelayInv, [Waits!Next]_(Waits!vars), attempt \in Nat \ {0}
    PROVE  DelayInv'
<1>1. UNCHANGED definition
  BY DEF Waits!Next, Waits!LoopStep, Waits!Check, Waits!Poll, Waits!Sleep, Waits!Project,
         Waits!Persist, Waits!Leave, Waits!Ask, Waits!vars, Waits!loop, Waits!store
<1>2. CASE Waits!Poll /\ pc' = "sleep"
  <2>1. PICK retry \in Retries, extra \in 0 .. definition.jitter * Milli :
            /\ asked' = [attempt |-> attempt, retry |-> retry, extra |-> extra]
            /\ delay' = Waits!nextDelay(definition, attempt, retry, extra)
    BY <1>2 DEF Waits!Poll, Waits!Return
  <2>2. delay' = Waits!nextDelay(definition', asked'.attempt, asked'.retry, asked'.extra)
    BY <1>1, <2>1
  <2>3. /\ asked'.attempt \in Nat \ {0} /\ asked'.retry \in Retries
        /\ asked'.extra \in 0 .. definition'.jitter * Milli
    BY <1>1, <2>1
  <2>4. QED
    BY <1>1, <2>2, <2>3 DEF DelayInv
<1>3. CASE pc' # "sleep"
  BY <1>1, <1>3 DEF DelayInv
<1>4. CASE pc' = "sleep" /\ ~Waits!Poll
  <2>1. pc = "sleep" /\ UNCHANGED <<asked, delay>>
    BY <1>4 DEF Waits!Next, Waits!LoopStep, Waits!Check, Waits!Sleep, Waits!Project,
           Waits!Persist, Waits!Leave, Waits!Ask, Waits!vars, Waits!loop, Waits!store,
           Waits!Return
  <2>2. QED
    BY <1>1, <2>1 DEF DelayInv
<1>5. QED
  BY <1>2, <1>3, <1>4

\* The delay before a poll is the one of the definition in unbounded numbers,
\* cut at the cap and at what a duration holds: no backoff, Retry-After or
\* jitter wraps round, whatever the units and the width of the integers.
THEOREM DelaysHold ==
    ASSUME GatewayAssumption
    PROVE  Spec => []DelayExact
<1>1. GatewayAssumption /\ Waits!Init => DelayInv
  BY DEF Waits!Init, DelayInv
<1>2. WaitInv => attempt \in Nat \ {0}
  <2>1. WaitInv => definition.attempts \in Nat /\ attempt \in 1 .. definition.attempts
    BY DefinitionsTyped DEF WaitInv, Polled
  <2>2. QED
    BY <2>1
<1>3. QED
  BY <1>1, <1>2, Components, WaitStarts, WaitKept, DelayKept, DelayIsExact, PTL DEF Waits!Spec,
         DelayExact

-----------------------------------------------------------------------------
(* The request log: a poll that was begun has its own row or is part of the  *)
(* summary, and what a reconciliation listed was begun.                      *)

Begun(p) == poll[p].pc # "idle"
Folded == {p \in Logs!Polls : poll[p].folded > 0}
Early ==
    creation # "created" =>
        /\ \A p \in Logs!Polls : ~Begun(p)
        /\ batch.pc = "idle" /\ summary.status = "" /\ ~summary.completed
Idle == \A p \in Logs!Polls : ~Begun(p) => ~poll[p].row /\ poll[p].folded = 0
ListedBegun == batch.pc # "idle" => batch.rows # {} /\ \A p \in batch.rows : Begun(p)
InOnePlace(p) == Begun(p) => (poll[p].row <=> poll[p].folded = 0)
CountedOnce == summary.count = Cardinality(Folded) /\ \A p \in Logs!Polls : poll[p].folded <= 1
Folding ==
    summary.there =>
        /\ \A p \in Logs!Polls : InOnePlace(p)
        /\ ~mixed => CountedOnce
LogInv == Logs!TypeOK /\ Early /\ Idle /\ ListedBegun /\ Folding

LEMMA LogConstants ==
    ASSUME GatewayAssumption
    PROVE  /\ MaxPolls \in Nat /\ MaxMishaps \in Nat
           /\ MaxProgress \in Int /\ MaxProgress >= -1 /\ -1 \in Logs!Progress
           /\ \A n \in Logs!Progress : n \in Int /\ n >= -1
BY DEF GatewayAssumption, Logs!AuditLogAssumption, Logs!Progress

LEMMA LogCardinality == \A S : Logs!Cardinality(S) = Cardinality(S)
BY DEF Logs!Cardinality, Logs!IsFiniteSet, Cardinality, IsFiniteSet

(* What the records of the log hold. *)

LEMMA PollTyped ==
    ASSUME NEW g \in Logs!Poll
    PROVE  /\ g.folded \in 0 .. 2 /\ g.folded \in Nat /\ g.progress \in Logs!Progress
           /\ g.status \in Statuses \cup {""}
<1>1. g.progress \in Logs!Progress /\ g.status \in Statuses \cup {""}
  BY DEF Logs!Poll
<1> DEFINE n == g.folded
<1>2. n \in 0 .. 2
  BY DEF Logs!Poll
<1> HIDE DEF n
<1>3. n \in Nat
  BY <1>2
<1>4. QED
  BY <1>1, <1>2, <1>3, Zenon DEF n

LEMMA WithFolded ==
    ASSUME NEW g \in Logs!Poll, NEW n \in 0 .. 2
    PROVE  /\ [g EXCEPT !.folded = n] \in Logs!Poll /\ [g EXCEPT !.folded = n].folded = n
           /\ [g EXCEPT !.folded = n].pc = g.pc /\ [g EXCEPT !.folded = n].row = g.row
BY DEF Logs!Poll

LEMMA NoPollTyped ==
    ASSUME GatewayAssumption
    PROVE  /\ Logs!NoPoll \in Logs!Poll /\ Logs!NoPoll.pc = "idle" /\ ~Logs!NoPoll.row
           /\ Logs!NoPoll.folded = 0
BY LogConstants DEF Logs!NoPoll, Logs!Poll

LEMMA NoBatchTyped ==
    ASSUME GatewayAssumption
    PROVE  Logs!NoBatch \in Logs!Batch /\ Logs!NoBatch.pc = "idle"
BY LogConstants DEF Logs!NoBatch, Logs!Batch

LEMMA WithCount ==
    ASSUME NEW g \in Logs!Summary, NEW n \in Nat
    PROVE  LET r == [g EXCEPT !.count = n]
           IN  /\ r \in Logs!Summary /\ r.there = g.there /\ r.count = n /\ r.status = g.status
               /\ r.progress = g.progress /\ r.completed = g.completed
BY DEF Logs!Summary

LEMMA SumOfNaturals ==
    ASSUME NEW a \in Nat, NEW b \in Nat
    PROVE  a + b \in Nat
OBVIOUS

LEMMA FoldedIsFinite ==
    ASSUME GatewayAssumption, NEW S \in SUBSET Logs!Polls
    PROVE  IsFiniteSet(S) /\ Cardinality(S) \in Nat
<1>1. IsFiniteSet(Logs!Polls)
  BY LogConstants, FS_Interval DEF Logs!Polls
<1>2. QED
  BY <1>1, FS_Subset, FS_CardinalityType

\* The last of the polls a reconciliation listed is one of them.
LEMMA LastOfRows ==
    ASSUME GatewayAssumption, NEW S \in SUBSET Logs!Polls, S # {}
    PROVE  Logs!Max(S) \in S
<1> DEFINE Mirror == {MaxPolls - k : k \in S}
<1>1. MaxPolls \in Nat /\ \A k \in S : k \in 1 .. MaxPolls
  BY LogConstants DEF Logs!Polls
<1>2. Mirror \in SUBSET Nat /\ Mirror # {}
  BY <1>1
<1>3. PICK n \in Mirror : \A k \in Mirror : n <= k
  <2> HIDE DEF Mirror
  <2>1. QED
    BY <1>2, LeastElement
<1>4. PICK m \in S : n = MaxPolls - m
  BY <1>3
<1>5. \A k \in S : m >= k
  BY <1>1, <1>3, <1>4
<1>6. QED
  BY <1>4, <1>5 DEF Logs!Max

LEMMA AtMostTwo == ASSUME NEW n \in Nat PROVE Logs!Min({n + 1, 2}) \in 1 .. 2
                                             /\ (n = 0 => Logs!Min({n + 1, 2}) = 1)
<1>1. CASE n + 1 <= 2
  <2>1. Logs!Min({n + 1, 2}) = n + 1
    BY <1>1 DEF Logs!Min
  <2>2. QED
    BY <1>1, <2>1
<1>2. CASE n + 1 > 2
  <2>1. Logs!Min({n + 1, 2}) = 2
    BY <1>2 DEF Logs!Min
  <2>2. QED
    BY <1>2, <2>1
<1>3. QED
  BY <1>1, <1>2

LEMMA LogStarts == GatewayAssumption /\ Logs!Init => LogInv
<1> SUFFICES ASSUME GatewayAssumption, Logs!Init PROVE LogInv
  OBVIOUS
<1>1. /\ Logs!NoPoll.pc = "idle" /\ ~Logs!NoPoll.row /\ Logs!NoPoll.folded = 0
      /\ Logs!NoBatch.pc = "idle"
  BY NoPollTyped, NoBatchTyped
<1>2. \A p \in Logs!Polls : poll[p] = Logs!NoPoll
  BY DEF Logs!Init
<1>3. Logs!TypeOK
  <2>1. -1 \in Logs!Progress
    BY LogConstants DEF Logs!Progress
  <2>2. Logs!NoPoll \in Logs!Poll /\ Logs!NoBatch \in Logs!Batch
    BY NoPollTyped, NoBatchTyped
  <2>3. summary \in Logs!Summary
    BY <2>1 DEF Logs!Init, Logs!Summary
  <2>4. poll \in [Logs!Polls -> Logs!Poll] /\ batch \in Logs!Batch
    BY <2>2 DEF Logs!Init
  <2>5. /\ creation \in {"running", "created", "closed"}
        /\ mapping \in BOOLEAN /\ mixed \in BOOLEAN /\ mishaps \in 0 .. MaxMishaps
    <3>1. mishaps \in 0 .. MaxMishaps
      <4>1. mishaps = 0
        BY DEF Logs!Init
      <4>2. QED
        BY <4>1, LogConstants
    <3>2. QED
      BY <3>1, Zenon DEF Logs!Init
  <2>6. QED
    BY <2>3, <2>4, <2>5 DEF Logs!TypeOK
<1>4. Early /\ Idle /\ ListedBegun
  <2>1. Early
    BY <1>1, <1>2 DEF Logs!Init, Early, Begun
  <2>2. Idle /\ ListedBegun
    BY <1>1, <1>2 DEF Logs!Init, Idle, ListedBegun, Begun
  <2>3. QED
    BY <2>1, <2>2
<1>5. Folded = {}
  BY <1>1, <1>2 DEF Folded
<1>6. Folding
  <2>1. \A p \in Logs!Polls : InOnePlace(p) /\ poll[p].folded <= 1
    BY <1>1, <1>2 DEF InOnePlace, Begun
  <2>2. summary.count = 0
    BY DEF Logs!Init
  <2>3. QED
    BY <1>5, <2>1, <2>2, FS_EmptySet DEF Folding, CountedOnce
<1>7. QED
  BY <1>3, <1>4, <1>6 DEF LogInv

\* A step of one poll that leaves it where it is counted.
LEMMA PollStays ==
    ASSUME GatewayAssumption, LogInv,
           NEW p \in Logs!Polls, NEW rec \in Logs!Poll,
           poll' = [poll EXCEPT ![p] = rec],
           rec.pc # "idle", rec.folded = poll[p].folded, creation = "created",
           summary.there => (rec.row <=> rec.folded = 0),
           mishaps' \in 0 .. MaxMishaps,
           UNCHANGED <<creation, summary, mapping, batch, mixed>>
    PROVE  LogInv'
<1>1. poll \in [Logs!Polls -> Logs!Poll] /\ poll' \in [Logs!Polls -> Logs!Poll]
  BY DEF LogInv, Logs!TypeOK
<1>2. poll'[p] = rec /\ \A q \in Logs!Polls : q # p => poll'[q] = poll[q]
  BY <1>1
<1>3. Logs!TypeOK'
  BY <1>1 DEF LogInv, Logs!TypeOK
<1>4. Early' /\ Idle' /\ ListedBegun'
  BY <1>2 DEF LogInv, Early, Idle, ListedBegun, Begun
<1>5. Folded' = Folded
  BY <1>2 DEF Folded
<1>6. Folding'
  BY <1>2, <1>5 DEF LogInv, Folding, InOnePlace, Begun, CountedOnce
<1>7. QED
  BY <1>3, <1>4, <1>6 DEF LogInv

\* Leave keeps the row of a poll that has one.
LEMMA OverKeeps ==
    ASSUME GatewayAssumption, LogInv, NEW p \in Logs!Polls
    PROVE  /\ Logs!Over(p) \in Logs!Poll /\ Logs!Gone(p) \in Logs!Poll
           /\ Logs!Over(p).pc = "over" /\ Logs!Gone(p).pc = "over"
           /\ Logs!Over(p).folded = poll[p].folded /\ Logs!Gone(p).folded = poll[p].folded
           /\ Logs!Over(p).row = poll[p].row /\ ~Logs!Gone(p).row
<1>1. poll[p] \in Logs!Poll /\ -1 \in Logs!Progress
  BY LogConstants DEF LogInv, Logs!TypeOK, Logs!Progress
<1>2. /\ Logs!Gone(p) \in Logs!Poll /\ Logs!Gone(p).pc = "over"
      /\ Logs!Gone(p).folded = poll[p].folded /\ ~Logs!Gone(p).row
  BY <1>1 DEF Logs!Gone, Logs!NoPoll, Logs!Poll
<1>3. CASE poll[p].row
  BY <1>1, <1>2, <1>3 DEF Logs!Over, Logs!Poll
<1>4. CASE ~poll[p].row
  BY <1>1, <1>2, <1>4 DEF Logs!Over, Logs!Poll
<1>5. QED
  BY <1>3, <1>4

LEMMA PollStepKept ==
    ASSUME GatewayAssumption, LogInv, NEW p \in Logs!Polls, Logs!PollStep(p)
    PROVE  LogInv'
<1> USE DEF Logs!Set
<1>1. /\ poll[p] \in Logs!Poll /\ mishaps \in 0 .. MaxMishaps /\ -1 \in Logs!Progress
      /\ poll \in [Logs!Polls -> Logs!Poll]
  BY LogConstants DEF LogInv, Logs!TypeOK, Logs!Progress
<1>2. Begun(p) => /\ creation = "created"
                  /\ summary.there => (poll[p].row <=> poll[p].folded = 0)
  BY DEF LogInv, Early, Folding, InOnePlace
<1>3. ASSUME NEW console \in BOOLEAN, Logs!Start(p, console) PROVE LogInv'
  <2> DEFINE rec == [Logs!NoPoll EXCEPT !.pc = "running", !.row = TRUE, !.console = console]
  <2>1. /\ rec \in Logs!Poll /\ rec.pc = "running" /\ rec.row /\ rec.folded = 0
    <3> DEFINE g == Logs!NoPoll
    <3>1. g \in Logs!Poll /\ g.folded = 0
      BY NoPollTyped
    <3> HIDE DEF g
    <3>2. LET r == [g EXCEPT !.pc = "running", !.row = TRUE, !.console = console]
          IN  r \in Logs!Poll /\ r.pc = "running" /\ r.row /\ r.folded = 0
      BY <3>1 DEF Logs!Poll
    <3>3. QED
      BY <3>2 DEF g
  <2>2. /\ poll' = [poll EXCEPT ![p] = rec] /\ poll[p].pc = "idle" /\ creation = "created"
        /\ UNCHANGED <<creation, summary, mapping, batch, mixed, mishaps>>
    BY <1>3 DEF Logs!Start
  <2>3. poll[p].folded = 0
    BY <2>2 DEF LogInv, Idle, Begun
  <2> HIDE DEF rec
  <2>4. QED
    BY <1>1, <2>1, <2>2, <2>3, PollStays
<1>4. ASSUME NEW status \in Statuses, NEW progress \in Logs!Progress, Logs!Answer(p, status, progress)
      PROVE  LogInv'
  <2> DEFINE rec == [poll[p] EXCEPT !.pc = "answered", !.marked = mapping, !.named = TRUE,
                                    !.status = status, !.progress = progress]
  <2>1. mapping \in BOOLEAN
    BY DEF LogInv, Logs!TypeOK
  <2>2. /\ rec \in Logs!Poll /\ rec.pc = "answered" /\ rec.row = poll[p].row
        /\ rec.folded = poll[p].folded
    BY <1>1, <2>1 DEF Logs!Poll
  <2>3. /\ poll' = [poll EXCEPT ![p] = rec] /\ Begun(p)
        /\ UNCHANGED <<creation, summary, mapping, batch, mixed, mishaps>>
    BY <1>4 DEF Logs!Answer, Begun
  <2> HIDE DEF rec
  <2>4. QED
    BY <1>1, <1>2, <2>2, <2>3, PollStays
<1>5. ASSUME Logs!AnswerError(p) PROVE LogInv'
  <2> DEFINE rec == [poll[p] EXCEPT !.pc = "answered"]
  <2>1. /\ rec \in Logs!Poll /\ rec.pc = "answered" /\ rec.row = poll[p].row
        /\ rec.folded = poll[p].folded
    BY <1>1 DEF Logs!Poll
  <2>2. /\ poll' = [poll EXCEPT ![p] = rec] /\ Begun(p)
        /\ UNCHANGED <<creation, summary, mapping, batch, mixed, mishaps>>
    BY <1>5 DEF Logs!AnswerError, Logs!GoTo, Begun
  <2> HIDE DEF rec
  <2>3. QED
    BY <1>1, <1>2, <2>1, <2>2, PollStays
<1>6. ASSUME Logs!Record(p) PROVE LogInv'
  <2>1. PICK stored \in BOOLEAN, success \in BOOLEAN :
          /\ stored \/ mishaps < MaxMishaps
          /\ mishaps' = mishaps + IF stored THEN 0 ELSE 1
          /\ poll' = [poll EXCEPT ![p] = [poll[p] EXCEPT !.pc = "recorded",
                          !.failed = ~(stored /\ success), !.named = @ /\ stored]]
    BY <1>6 DEF Logs!Record
  <2> DEFINE rec == [poll[p] EXCEPT !.pc = "recorded", !.failed = ~(stored /\ success),
                                    !.named = @ /\ stored]
  <2>2. /\ rec \in Logs!Poll /\ rec.pc = "recorded" /\ rec.row = poll[p].row
        /\ rec.folded = poll[p].folded
    BY <1>1 DEF Logs!Poll
  <2>3. Begun(p) /\ UNCHANGED <<creation, summary, mapping, batch, mixed>>
    BY <1>6 DEF Logs!Record, Begun
  <2>4. poll' = [poll EXCEPT ![p] = rec] /\ mishaps' \in 0 .. MaxMishaps
    BY <1>1, <2>1, LogConstants
  <2> HIDE DEF rec
  <2>5. QED
    BY <1>2, <2>2, <2>3, <2>4, PollStays
<1>7. ASSUME Logs!Validate(p) PROVE LogInv'
  <2>1. Begun(p) /\ UNCHANGED <<creation, summary, mapping, batch, mixed, mishaps>>
    BY <1>7 DEF Logs!Validate, Begun
  <2>2. CASE Logs!GoTo(p, "merging")
    <3> DEFINE rec == [poll[p] EXCEPT !.pc = "merging"]
    <3>1. /\ rec \in Logs!Poll /\ rec.pc = "merging" /\ rec.row = poll[p].row
          /\ rec.folded = poll[p].folded
      BY <1>1 DEF Logs!Poll
    <3>2. poll' = [poll EXCEPT ![p] = rec]
      BY <2>2 DEF Logs!GoTo
    <3> HIDE DEF rec
    <3>3. QED
      BY <1>1, <1>2, <2>1, <3>1, <3>2, PollStays
  <2>3. CASE Logs!Leave(p)
    <3>1. poll' = [poll EXCEPT ![p] = Logs!Over(p)]
      BY <2>3 DEF Logs!Leave
    <3>2. QED
      BY <1>1, <1>2, <2>1, <3>1, OverKeeps, PollStays
  <2>4. QED
    BY <1>7, <2>2, <2>3 DEF Logs!Validate
<1>8. ASSUME Logs!Merge(p) PROVE LogInv'
  <2>1. Begun(p) /\ UNCHANGED <<creation, mapping, batch, mixed>>
    BY <1>8 DEF Logs!Merge, Begun
  <2>2. CASE /\ summary.there /\ poll[p].row
             /\ summary' = Logs!Merged(p)
             /\ Logs!Set(p, [Logs!Gone(p) EXCEPT !.folded = 1])
             /\ UNCHANGED mishaps
    <3> DEFINE rec == [Logs!Gone(p) EXCEPT !.folded = 1]
    <3>1. rec \in Logs!Poll /\ rec.pc = "over" /\ rec.folded = 1 /\ ~rec.row
      <4> DEFINE g == Logs!Gone(p)
                 n == 1
      <4>1. /\ g \in Logs!Poll /\ g.pc = "over" /\ ~g.row /\ n \in 0 .. 2
        BY OverKeeps
      <4> HIDE DEF g, n
      <4>2. LET r == [g EXCEPT !.folded = n]
            IN  r \in Logs!Poll /\ r.pc = "over" /\ r.folded = n /\ ~r.row
        BY <4>1, WithFolded
      <4>3. QED
        BY <4>2, Zenon DEF g, n
    <3>2. poll' = [poll EXCEPT ![p] = rec]
      BY <2>2
    <3> HIDE DEF rec
    <3>3. /\ poll' \in [Logs!Polls -> Logs!Poll] /\ poll'[p] = rec
          /\ \A q \in Logs!Polls : q # p => poll'[q] = poll[q]
      BY <1>1, <3>1, <3>2
    <3>4. summary \in Logs!Summary /\ summary' \in Logs!Summary /\ summary'.there
          /\ summary'.count = summary.count + 1
      <4>1. summary \in Logs!Summary /\ poll[p].status \in Statuses \cup {""}
            /\ poll[p].progress \in Logs!Progress
        BY <1>1 DEF LogInv, Logs!TypeOK, Logs!Poll
      <4>2. \/ summary' = [summary EXCEPT !.count = @ + 1]
            \/ summary' = [summary EXCEPT !.count = @ + 1, !.status = poll[p].status,
                              !.progress = poll[p].progress, !.body = TRUE,
                              !.completed = @ \/ Logs!isTerminal(poll[p].status)]
        BY <2>2 DEF Logs!Merged
      <4>3. Logs!isTerminal(poll[p].status) \in BOOLEAN
        BY DEF Logs!isTerminal
      <4>4. QED
        <5> DEFINE n == summary.count + 1
        <5>1. n \in Nat /\ summary.there
          <6>1. summary.count \in Nat
            BY <4>1 DEF Logs!Summary
          <6>2. QED
            BY <2>2, <6>1
        <5>2. CASE summary' = [summary EXCEPT !.count = n]
          BY <4>1, <5>1, <5>2, WithCount
        <5>3. CASE summary' # [summary EXCEPT !.count = n]
          <6> DEFINE body == TRUE
                     status == poll[p].status
                     progress == poll[p].progress
                     done == summary.completed \/ Logs!isTerminal(poll[p].status)
          <6>1. /\ status \in Statuses \cup {""} /\ progress \in Logs!Progress /\ done \in BOOLEAN
                /\ body \in BOOLEAN
                /\ summary' = [summary EXCEPT !.count = n, !.status = status,
                                  !.progress = progress, !.body = body, !.completed = done]
            BY <4>1, <4>2, <5>3
          <6> HIDE DEF n, body, status, progress, done
          <6>2. n \in Nat
            BY <5>1
          <6>3. summary' \in Logs!Summary /\ summary'.there = summary.there /\ summary'.count = n
            <7> DEFINE r == [summary EXCEPT !.count = n, !.status = status, !.progress = progress,
                                            !.body = body, !.completed = done]
            <7>1. r \in Logs!Summary /\ r.there = summary.there /\ r.count = n
              <8>1. summary \in Logs!Summary
                BY <4>1
              <8>2. /\ status \in Statuses \cup {""} /\ progress \in Logs!Progress
                    /\ body \in BOOLEAN /\ done \in BOOLEAN
                BY <6>1
              <8>3. QED
                BY <6>2, <8>1, <8>2 DEF Logs!Summary
            <7>2. QED
              BY <6>1, <7>1, Zenon
          <6>4. QED
            BY <4>1, <5>1, <6>3 DEF n
        <5>4. QED
          BY <5>2, <5>3
    <3>5. Logs!TypeOK'
      BY <2>1, <2>2, <3>3, <3>4 DEF LogInv, Logs!TypeOK
    <3>6. Early' /\ Idle' /\ ListedBegun'
      <4>1. batch.rows \subseteq Logs!Polls
        BY DEF LogInv, Logs!TypeOK, Logs!Batch
      <4>2. Early'
        BY <1>2, <2>1 DEF Early
      <4>3. Idle'
        BY <3>1, <3>3 DEF LogInv, Idle, Begun
      <4>4. ListedBegun'
        BY <2>1, <3>1, <3>3, <4>1 DEF LogInv, ListedBegun, Begun
      <4>5. QED
        BY <4>2, <4>3, <4>4
    <3>7. p \notin Folded /\ Folded' = Folded \cup {p}
      BY <1>2, <2>1, <2>2, <3>1, <3>3 DEF Folded
    <3>8. Cardinality(Folded') = Cardinality(Folded) + 1
      BY <3>7, FoldedIsFinite, FS_AddElement DEF Folded
    <3>9. Folding'
      <4>1. \A q \in Logs!Polls : InOnePlace(q)'
        <5> SUFFICES ASSUME NEW q \in Logs!Polls PROVE InOnePlace(q)'
          OBVIOUS
        <5>1. CASE q = p
          BY <3>1, <3>3, <5>1 DEF InOnePlace
        <5>2. CASE q # p
          <6>1. InOnePlace(q)
            BY <2>2 DEF LogInv, Folding
          <6>2. QED
            BY <3>3, <5>2, <6>1 DEF InOnePlace, Begun
        <5>3. QED
          BY <5>1, <5>2
      <4>2. ASSUME ~mixed PROVE CountedOnce'
        <5>1. CountedOnce
          BY <2>2, <4>2 DEF LogInv, Folding
        <5>2. \A q \in Logs!Polls : poll'[q].folded <= 1
          BY <3>1, <3>3, <5>1 DEF CountedOnce
        <5>3. QED
          BY <3>4, <3>8, <5>1, <5>2 DEF CountedOnce
      <4>3. QED
        BY <2>1, <4>1, <4>2 DEF Folding
    <3>10. QED
      BY <3>5, <3>6, <3>9 DEF LogInv
  <2>3. CASE /\ ~(summary.there /\ poll[p].row) \/ mishaps < MaxMishaps
             /\ mishaps' = mishaps + IF summary.there /\ poll[p].row THEN 1 ELSE 0
             /\ Logs!Leave(p)
             /\ UNCHANGED summary
    <3>1. poll' = [poll EXCEPT ![p] = Logs!Over(p)]
      BY <2>3 DEF Logs!Leave
    <3>2. mishaps' \in 0 .. MaxMishaps
      BY <1>1, <2>3, LogConstants
    <3>3. QED
      BY <1>2, <2>1, <2>3, <3>1, <3>2, OverKeeps, PollStays
  <2>4. QED
    BY <1>8, <2>2, <2>3 DEF Logs!Merge
<1>9. QED
  BY <1>3, <1>4, <1>5, <1>6, <1>7, <1>8 DEF Logs!PollStep

\* A step of the world or of a reconciliation that leaves the polls alone.
LEMMA PollsAlone ==
    ASSUME LogInv, UNCHANGED <<creation, summary, poll, mixed>>,
           mapping' \in BOOLEAN, mishaps' \in 0 .. MaxMishaps, batch' \in Logs!Batch,
           batch'.pc # "idle" =>
               creation = "created" /\ batch'.rows # {} /\ \A p \in batch'.rows : Begun(p)
    PROVE  LogInv'
<1>1. Logs!TypeOK'
  BY DEF LogInv, Logs!TypeOK
<1>2. Early' /\ Idle' /\ ListedBegun'
  BY DEF LogInv, Early, Idle, ListedBegun, Begun
<1>3. Folding'
  BY DEF LogInv, Folding, InOnePlace, Begun, CountedOnce, Folded
<1>4. QED
  BY <1>1, <1>2, <1>3 DEF LogInv

\* WriteSummary: if nothing was folded since it read, what it adds are the rows
\* that were not part of the summary.
LEMMA WriteSummaryKept ==
    ASSUME GatewayAssumption, LogInv, Logs!WriteSummary
    PROVE  LogInv'
<1>1. /\ poll \in [Logs!Polls -> Logs!Poll] /\ summary \in Logs!Summary /\ batch \in Logs!Batch
      /\ batch.rows \subseteq Logs!Polls /\ -1 \in Logs!Progress
  BY LogConstants DEF LogInv, Logs!TypeOK, Logs!Batch, Logs!Progress
<1>2. creation = "created" /\ \A p \in batch.rows : Begun(p)
  BY DEF Logs!WriteSummary, LogInv, Early, ListedBegun
<1>3. ASSUME NEW p \in batch.rows
      PROVE  /\ Logs!Unlisted(p) \in Logs!Poll /\ Logs!Unlisted(p).pc # "idle"
             /\ ~Logs!Unlisted(p).row /\ Logs!Unlisted(p).folded \in 1 .. 2
             /\ poll[p].folded = 0 => Logs!Unlisted(p).folded = 1
  <2> DEFINE g == Logs!Rowless(p)
             n == Logs!Min({g.folded + 1, 2})
  <2>1. g \in Logs!Poll /\ g.pc # "idle" /\ ~g.row /\ g.folded = poll[p].folded
    <3>1. CASE poll[p].pc = "over"
      BY <1>1, <3>1, OverKeeps DEF Logs!Rowless
    <3>2. CASE poll[p].pc # "over"
      BY <1>1, <1>2, <3>2 DEF Logs!Rowless, Logs!Poll, Begun
    <3>3. QED
      BY <3>1, <3>2
  <2>2. g.folded \in Nat
    BY <2>1, PollTyped
  <2>3. n \in 1 .. 2 /\ (g.folded = 0 => n = 1)
    BY <2>2, AtMostTwo
  <2>4. Logs!Unlisted(p) = [g EXCEPT !.folded = n]
    BY DEF Logs!Unlisted
  <2> HIDE DEF g, n
  <2>5. QED
    <3>1. n \in 0 .. 2
      BY <2>3
    <3>2. /\ Logs!Unlisted(p) \in Logs!Poll /\ Logs!Unlisted(p).folded = n
          /\ Logs!Unlisted(p).pc = g.pc /\ Logs!Unlisted(p).row = g.row
      <4>1. g \in Logs!Poll
        BY <2>1
      <4>2. QED
        <5>1. LET r == [g EXCEPT !.folded = n]
              IN  r \in Logs!Poll /\ r.folded = n /\ r.pc = g.pc /\ r.row = g.row
          BY <3>1, <4>1, WithFolded, Zenon
        <5>2. QED
          BY <2>4, <5>1, Zenon
    <3>3. QED
      BY <2>1, <2>3, <3>2
<1>4. /\ poll' \in [Logs!Polls -> Logs!Poll]
      /\ \A p \in batch.rows : poll'[p] = Logs!Unlisted(p)
      /\ \A p \in Logs!Polls : p \notin batch.rows => poll'[p] = poll[p]
  BY <1>1, <1>3 DEF Logs!WriteSummary
<1>5. Logs!TypeOK'
  <2>1. batch' \in Logs!Batch
    BY <1>1 DEF Logs!WriteSummary, Logs!NoBatch, Logs!Batch
  <2>2. summary' \in Logs!Summary
    <3>1. Logs!isTerminal(batch.status) \in BOOLEAN
      BY DEF Logs!isTerminal
    <3>2. QED
      BY <1>1, <3>1 DEF Logs!WriteSummary, Logs!Summary, Logs!Batch
  <2>3. mixed' \in BOOLEAN /\ UNCHANGED <<creation, mapping, mishaps>>
    BY DEF Logs!WriteSummary, LogInv, Logs!TypeOK
  <2>4. QED
    BY <1>4, <2>1, <2>2, <2>3 DEF LogInv, Logs!TypeOK
<1>6. creation' = "created" /\ batch'.pc = "idle"
  BY <1>2 DEF Logs!WriteSummary, Logs!NoBatch
<1>7. Early' /\ Idle' /\ ListedBegun'
  BY <1>3, <1>4, <1>6 DEF LogInv, Early, Idle, ListedBegun, Begun
<1>8. ASSUME summary'.there, ~mixed' PROVE CountedOnce'
  <2>1. /\ summary.there /\ ~mixed /\ summary'.count = batch.count
        /\ batch.count = summary.count + Cardinality(batch.rows)
        /\ \A p \in batch.rows : poll[p].row
    <3>1. summary.there /\ summary'.count = batch.count
      <4>1. summary.there
        BY <1>8 DEF Logs!WriteSummary
      <4>2. summary'.count = batch.count
        BY <1>1, <4>1 DEF Logs!WriteSummary, Logs!Summary
      <4>3. QED
        BY <4>1, <4>2
    <3>2. /\ ~mixed /\ ~(summary.count + Logs!Cardinality(batch.rows) # batch.count)
          /\ ~\E p \in batch.rows : ~poll[p].row
      BY <1>8, Zenon DEF Logs!WriteSummary
    <3>3. QED
      BY <3>1, <3>2, LogCardinality
  <2>2. CountedOnce /\ \A p \in batch.rows : poll[p].folded = 0
    BY <1>1, <1>2, <2>1 DEF LogInv, Folding, InOnePlace
  <2>3. Folded' = Folded \cup batch.rows /\ Folded \cap batch.rows = {}
    BY <1>1, <1>3, <1>4, <2>2 DEF Folded
  <2>4. Cardinality(Folded') = Cardinality(Folded) + Cardinality(batch.rows)
    <3>1. Folded \in SUBSET Logs!Polls /\ batch.rows \in SUBSET Logs!Polls
      BY <1>1 DEF Folded
    <3>2. /\ IsFiniteSet(Folded) /\ IsFiniteSet(batch.rows)
          /\ Cardinality(Folded) \in Nat /\ Cardinality(batch.rows) \in Nat
      BY <3>1, FoldedIsFinite
    <3> DEFINE both == Cardinality(Folded \cup batch.rows)
    <3>3. both = Cardinality(Folded) + Cardinality(batch.rows) - Cardinality(Folded \cap batch.rows)
      BY <3>2, FS_Union
    <3>4. both = Cardinality(Folded) + Cardinality(batch.rows)
      <4>1. Cardinality(Folded \cap batch.rows) = 0
        BY <2>3, FS_EmptySet
      <4>2. QED
        BY <3>2, <3>3, <4>1
    <3>5. QED
      BY <2>3, <3>4
  <2>5. \A p \in Logs!Polls : poll'[p].folded <= 1
    BY <1>3, <1>4, <2>2 DEF CountedOnce
  <2>6. QED
    BY <2>1, <2>2, <2>4, <2>5 DEF CountedOnce
<1>9. Folding'
  <2>1. \A p \in Logs!Polls : summary'.there => InOnePlace(p)'
    <3> SUFFICES ASSUME NEW p \in Logs!Polls, summary'.there PROVE InOnePlace(p)'
      OBVIOUS
    <3>1. summary.there
      BY <1>1 DEF Logs!WriteSummary, Logs!Summary
    <3>2. CASE p \in batch.rows
      BY <1>3, <1>4, <3>2 DEF InOnePlace
    <3>3. CASE p \notin batch.rows
      BY <1>4, <3>1, <3>3 DEF LogInv, Folding, InOnePlace, Begun
    <3>4. QED
      BY <3>2, <3>3
  <2>2. QED
    BY <1>8, <2>1 DEF Folding
<1>10. QED
  BY <1>5, <1>7, <1>9 DEF LogInv

LEMMA LogKept ==
    ASSUME GatewayAssumption, LogInv, [Logs!Next]_(Logs!vars)
    PROVE  LogInv'
<1>1. /\ poll \in [Logs!Polls -> Logs!Poll] /\ summary \in Logs!Summary /\ batch \in Logs!Batch
      /\ mapping \in BOOLEAN /\ mixed \in BOOLEAN /\ mishaps \in 0 .. MaxMishaps
      /\ creation \in {"running", "created", "closed"}
  BY DEF LogInv, Logs!TypeOK
<1>2. Logs!NoBatch \in Logs!Batch /\ Logs!NoBatch.pc = "idle"
  BY NoBatchTyped
<1>3. ASSUME NEW status \in Statuses, Logs!RecordCreated(status) PROVE LogInv'
  <2>1. /\ creation = "running" /\ creation' = "created"
        /\ summary' = IF summary.there
                      THEN [summary EXCEPT !.status = status, !.count = 0,
                                           !.completed = Logs!isTerminal(status)]
                      ELSE summary
        /\ UNCHANGED <<mapping, poll, batch, mixed, mishaps>>
    BY <1>3 DEF Logs!RecordCreated
  <2>2. Logs!isTerminal(status) \in BOOLEAN
    BY DEF Logs!isTerminal
  <2>3. /\ summary' \in Logs!Summary /\ summary'.there = summary.there
        /\ summary.there => summary'.count = 0
    BY <1>1, <2>1, <2>2 DEF Logs!Summary
  <2>4. \A p \in Logs!Polls : ~Begun(p) /\ poll[p].folded = 0
    BY <2>1 DEF LogInv, Early, Idle
  <2>5. Folded' = {}
    BY <2>1, <2>4 DEF Folded
  <2>6. Logs!TypeOK'
    <3>1. /\ creation' \in {"running", "created", "closed"}
          /\ mapping' \in BOOLEAN /\ mixed' \in BOOLEAN
          /\ poll' \in [Logs!Polls -> Logs!Poll] /\ batch' \in Logs!Batch
          /\ mishaps' \in 0 .. MaxMishaps
      BY <1>1, <2>1
    <3>2. QED
      BY <2>3, <3>1 DEF Logs!TypeOK
  <2>7. Early' /\ Idle' /\ ListedBegun'
    BY <2>1 DEF LogInv, Early, Idle, ListedBegun, Begun
  <2>8. Folding'
    BY <2>1, <2>3, <2>4, <2>5, FS_EmptySet DEF Folding, InOnePlace, Begun, CountedOnce
  <2>9. QED
    BY <2>6, <2>7, <2>8 DEF LogInv
<1>4. CASE Logs!ListPolls
  <2> DEFINE rows == {p \in Logs!Polls : poll[p].row /\ poll[p].console /\ poll[p].named
                                         /\ poll[p].pc \in {"recorded", "merging", "over"}}
  <2>1. rows # {} /\ batch' = [Logs!NoBatch EXCEPT !.pc = "listed", !.rows = rows]
        /\ UNCHANGED <<creation, summary, mapping, poll, mixed, mishaps>>
    BY <1>4 DEF Logs!ListPolls
  <2>2. rows \in SUBSET Logs!Polls /\ \A p \in rows : Begun(p)
    BY DEF Begun
  <2> HIDE DEF rows
  <2>3. batch' \in Logs!Batch /\ batch'.rows = rows
    BY <1>2, <2>1, <2>2 DEF Logs!NoBatch, Logs!Batch
  <2>4. creation = "created"
    BY <2>1, <2>2 DEF LogInv, Early
  <2>5. QED
    BY <1>1, <2>1, <2>2, <2>3, <2>4, PollsAlone
<1>5. ASSUME NEW run \in Statuses \cup {""}, Logs!ReadSummary(run) PROVE LogInv'
  <2>1. batch.pc = "listed" /\ UNCHANGED <<creation, summary, mapping, poll, mixed, mishaps>>
    BY <1>5 DEF Logs!ReadSummary
  <2>2. batch.rows \in SUBSET Logs!Polls /\ batch.rows # {} /\ creation = "created"
        /\ \A p \in batch.rows : Begun(p)
    BY <1>1, <2>1 DEF LogInv, Early, ListedBegun, Logs!Batch
  <2> DEFINE last == poll[Logs!Max(batch.rows)]
  <2>3. last.status \in Statuses \cup {""} /\ last.progress \in Logs!Progress
    BY <1>1, <2>2, LastOfRows DEF Logs!Poll
  <2>4. \/ batch' = Logs!NoBatch
        \/ batch' = [batch EXCEPT !.pc = "read", !.count = summary.count + Cardinality(batch.rows),
                        !.status = IF run # "" THEN run ELSE last.status,
                        !.body = ~summary.body, !.progress = last.progress]
    BY <1>5, LogCardinality DEF Logs!ReadSummary
  <2> HIDE DEF last
  <2>5. Cardinality(batch.rows) \in Nat
    BY <2>2, FoldedIsFinite
  <2>6. batch' \in Logs!Batch /\ (batch'.pc # "idle" => batch'.rows = batch.rows)
    <3>1. CASE batch' = Logs!NoBatch
      BY <1>2, <3>1
    <3>2. CASE batch' # Logs!NoBatch
      <4> DEFINE n == summary.count + Cardinality(batch.rows)
                 status == IF run # "" THEN run ELSE last.status
                 body == ~summary.body
                 progress == last.progress
      <4>1. n \in Nat
        <5>1. summary.count \in Nat
          BY <1>1 DEF Logs!Summary
        <5>2. QED
          BY <2>5, <5>1, SumOfNaturals, Zenon
      <4>2. status \in Statuses \cup {""} /\ progress \in Logs!Progress /\ body \in BOOLEAN
        BY <2>3
      <4>3. batch' = [batch EXCEPT !.pc = "read", !.count = n, !.status = status, !.body = body,
                                   !.progress = progress]
        BY <2>4, <3>2
      <4> HIDE DEF n, status, body, progress
      <4>4. QED
        BY <1>1, <4>1, <4>2, <4>3 DEF Logs!Batch
    <3>3. QED
      BY <3>1, <3>2
  <2>7. QED
    BY <1>1, <2>1, <2>2, <2>6, PollsAlone
<1>6. CASE Logs!Forget
  <2>1. mapping' = FALSE /\ UNCHANGED <<creation, summary, poll, batch, mixed, mishaps>>
    BY <1>6 DEF Logs!Forget
  <2>2. batch.pc # "idle" =>
            creation = "created" /\ batch.rows # {} /\ \A p \in batch.rows : Begun(p)
    BY DEF LogInv, Early, ListedBegun
  <2>3. QED
    BY <1>1, <2>1, <2>2, PollsAlone
<1>7. ASSUME NEW k \in 0 .. MaxPolls, Logs!Delete(k) PROVE LogInv'
  <2>1. /\ mishaps' = mishaps + 1 /\ mishaps < MaxMishaps
        /\ summary' = [summary EXCEPT !.there = FALSE]
        /\ poll' = [p \in Logs!Polls |-> IF p <= k THEN Logs!Rowless(p) ELSE poll[p]]
        /\ UNCHANGED <<creation, mapping, batch, mixed>>
    BY <1>7 DEF Logs!Delete
  <2>2. ASSUME NEW p \in Logs!Polls
        PROVE  /\ Logs!Rowless(p) \in Logs!Poll /\ ~Logs!Rowless(p).row
               /\ Logs!Rowless(p).pc = poll[p].pc /\ Logs!Rowless(p).folded = poll[p].folded
    <3>1. CASE poll[p].pc = "over"
      BY <3>1, OverKeeps DEF Logs!Rowless
    <3>2. CASE poll[p].pc # "over"
      BY <1>1, <3>2 DEF Logs!Rowless, Logs!Poll
    <3>3. QED
      BY <3>1, <3>2
  <2>3. /\ poll' \in [Logs!Polls -> Logs!Poll]
        /\ \A p \in Logs!Polls : poll'[p].folded = poll[p].folded
        /\ \A p \in Logs!Polls : poll'[p].row => poll[p].row
        /\ \A p \in Logs!Polls : Begun(p)' <=> Begun(p)
    BY <1>1, <2>1, <2>2 DEF Begun
  <2>4. summary' \in Logs!Summary /\ ~summary'.there /\ summary'.status = summary.status
        /\ summary'.completed = summary.completed
    BY <1>1, <2>1 DEF Logs!Summary
  <2>5. Logs!TypeOK'
    BY <1>1, <2>1, <2>3, <2>4, LogConstants DEF LogInv, Logs!TypeOK
  <2>6. Early' /\ Idle' /\ ListedBegun'
    <3>1. batch.rows \subseteq Logs!Polls
      BY <1>1 DEF Logs!Batch
    <3>2. Early'
      BY <2>1, <2>3, <2>4 DEF LogInv, Early
    <3>3. Idle'
      BY <2>3 DEF LogInv, Idle
    <3>4. ListedBegun'
      BY <2>1, <2>3, <3>1 DEF LogInv, ListedBegun
    <3>5. QED
      BY <3>2, <3>3, <3>4
  <2>7. QED
    BY <2>4, <2>5, <2>6 DEF LogInv, Folding
<1>8. CASE Logs!Crash
  <2>1. /\ mishaps' = mishaps + 1 /\ mishaps < MaxMishaps
        /\ creation' = IF creation = "running" THEN "closed" ELSE creation
        /\ poll' = [p \in Logs!Polls |-> IF poll[p].pc = "idle" THEN poll[p] ELSE Logs!Over(p)]
        /\ batch' = Logs!NoBatch
        /\ UNCHANGED <<summary, mapping, mixed>>
    BY <1>8 DEF Logs!Crash
  <2>2. /\ poll' \in [Logs!Polls -> Logs!Poll]
        /\ \A p \in Logs!Polls : poll'[p].folded = poll[p].folded
        /\ \A p \in Logs!Polls : poll'[p].row <=> poll[p].row
        /\ \A p \in Logs!Polls : Begun(p)' <=> Begun(p)
    BY <1>1, <2>1, OverKeeps DEF Begun
  <2>3. Logs!TypeOK'
    BY <1>1, <1>2, <2>1, <2>2, LogConstants DEF Logs!TypeOK
  <2>4. Early' /\ Idle' /\ ListedBegun'
    BY <1>2, <2>1, <2>2 DEF LogInv, Early, Idle, ListedBegun
  <2>5. Folded' = Folded
    BY <2>2 DEF Folded
  <2>6. Folding'
    BY <2>1, <2>2, <2>5 DEF LogInv, Folding, InOnePlace, CountedOnce
  <2>7. QED
    BY <2>3, <2>4, <2>6 DEF LogInv
<1>9. CASE UNCHANGED Logs!vars
  <2>1. UNCHANGED <<creation, summary, mapping, poll, batch, mixed, mishaps>>
    BY <1>9 DEF Logs!vars
  <2>2. batch.pc # "idle" =>
            creation = "created" /\ batch.rows # {} /\ \A p \in batch.rows : Begun(p)
    BY DEF LogInv, Early, ListedBegun
  <2>3. QED
    BY <1>1, <2>1, <2>2, PollsAlone
<1>10. QED
  BY <1>3, <1>4, <1>5, <1>6, <1>7, <1>8, <1>9, PollStepKept, WriteSummaryKept DEF Logs!Next

\* What SummaryAdvances asks of a step.
Advanced ==
    /\ Logs!isTerminal(summary.status) => summary'.status = summary.status
    /\ Logs!Rank(summary'.status) >= 0 => Logs!Rank(summary'.status) >= Logs!Rank(summary.status)
    /\ summary'.status = summary.status /\ ~Logs!isTerminal(summary.status) =>
           summary'.progress >= summary.progress
    /\ summary.completed => summary'.completed

LEMMA Ranked == \A status : Logs!Rank(status) \in Int
BY DEF Logs!Rank

LEMMA SameStatusAdvances ==
    ASSUME GatewayAssumption, LogInv, summary'.status = summary.status,
           summary'.progress = summary.progress, summary'.completed = summary.completed
    PROVE  Advanced
<1>1. summary.progress \in Int
  BY LogConstants DEF LogInv, Logs!TypeOK, Logs!Summary, Logs!Progress
<1>2. QED
  BY <1>1, Ranked DEF Advanced

\* A merge takes what is not older: CanAdvance and CanRefresh.
LEMMA MergeAdvances ==
    ASSUME GatewayAssumption, LogInv, NEW p \in Logs!Polls, Logs!Merge(p)
    PROVE  Advanced
<1>1. /\ summary \in Logs!Summary /\ summary.progress \in Int
      /\ poll[p].progress \in Int /\ poll[p].progress >= -1
  BY LogConstants DEF LogInv, Logs!TypeOK, Logs!Summary, Logs!Poll, Logs!Progress
<1> DEFINE rec == poll[p]
           takes == /\ Logs!CanAdvance(summary.status, rec.status)
                    /\ summary.status # rec.status
                          \/ Logs!CanRefresh(rec.status, summary.progress, rec.progress)
<1>2. CASE summary' = summary \/ (summary' = Logs!Merged(p) /\ ~takes)
  <2>1. /\ summary'.status = summary.status /\ summary'.progress = summary.progress
        /\ summary'.completed = summary.completed
    BY <1>1, <1>2 DEF Logs!Merged, Logs!Summary
  <2>2. QED
    BY <2>1, SameStatusAdvances
<1>3. CASE summary' = Logs!Merged(p) /\ takes
  <2>1. /\ summary'.status = rec.status /\ summary'.progress = rec.progress
        /\ summary.completed => summary'.completed
    BY <1>1, <1>3 DEF Logs!Merged, Logs!Summary
  <2>2. Logs!isTerminal(summary.status) => rec.status = summary.status
    BY <1>3 DEF Logs!CanAdvance
  <2>3. Logs!Rank(rec.status) >= 0 => Logs!Rank(rec.status) >= Logs!Rank(summary.status)
    <3> DEFINE new == Logs!Rank(rec.status)
               now == Logs!Rank(summary.status)
    <3>1. new \in Int /\ now \in Int /\ (rec.status = summary.status => new = now)
      BY Ranked
    <3>2. rec.status = summary.status \/ ((now >= 0 /\ new >= 0) => new >= now)
      BY <1>3 DEF Logs!CanAdvance
    <3> HIDE DEF new, now
    <3>3. new >= 0 => new >= now
      BY <3>1, <3>2
    <3>4. QED
      BY <3>3 DEF new, now
  <2>4. rec.status = summary.status /\ ~Logs!isTerminal(summary.status) =>
            rec.progress >= summary.progress
    BY <1>1, <1>3 DEF Logs!CanRefresh
  <2> HIDE DEF rec, takes
  <2>5. QED
    BY <2>1, <2>2, <2>3, <2>4 DEF Advanced
<1>4. QED
  BY <1>2, <1>3 DEF Logs!Merge

LEMMA LogAdvances ==
    ASSUME GatewayAssumption, LogInv, [Logs!Next]_(Logs!vars)
    PROVE  ~(batch.pc = "read" /\ batch'.pc = "idle") => Advanced
<1> SUFFICES ASSUME ~(batch.pc = "read" /\ batch'.pc = "idle") PROVE Advanced
  OBVIOUS
<1>1. summary \in Logs!Summary
  BY DEF LogInv, Logs!TypeOK
<1>2. CASE UNCHANGED summary
  BY <1>2, SameStatusAdvances
<1>3. ASSUME NEW status \in Statuses, Logs!RecordCreated(status) PROVE Advanced
  <2>1. summary.status = "" /\ ~summary.completed
    BY <1>3 DEF Logs!RecordCreated, LogInv, Early
  <2>2. ~Logs!isTerminal(summary.status) /\ Logs!Rank(summary.status) = 0
    BY <2>1 DEF Logs!isTerminal, Logs!Rank
  <2>3. summary.progress \in Int /\ summary'.progress = summary.progress
    BY <1>1, <1>3, LogConstants DEF Logs!RecordCreated, Logs!Summary, Logs!Progress
  <2>4. Logs!Rank(summary'.status) >= 0 => Logs!Rank(summary'.status) >= Logs!Rank(summary.status)
    BY <2>2
  <2>5. summary'.progress >= summary.progress
    BY <2>3
  <2>6. QED
    BY <2>1, <2>2, <2>4, <2>5, Zenon DEF Advanced
<1>4. ASSUME NEW p \in Logs!Polls, Logs!PollStep(p) PROVE Advanced
  <2>1. CASE Logs!Merge(p)
    BY <2>1, MergeAdvances
  <2>2. CASE ~Logs!Merge(p)
    BY <1>2, <1>4, <2>2 DEF Logs!PollStep, Logs!Start, Logs!Answer, Logs!AnswerError, Logs!Record,
                            Logs!Validate
  <2>3. QED
    BY <2>1, <2>2
<1>5. ~Logs!WriteSummary
  BY NoBatchTyped, Zenon DEF Logs!WriteSummary
<1>6. ASSUME NEW k \in 0 .. MaxPolls, Logs!Delete(k) PROVE Advanced
  <2>1. /\ summary'.status = summary.status /\ summary'.progress = summary.progress
        /\ summary'.completed = summary.completed
    BY <1>1, <1>6 DEF Logs!Delete, Logs!Summary
  <2>2. QED
    BY <2>1, SameStatusAdvances
<1>7. QED
  BY <1>2, <1>3, <1>4, <1>5, <1>6
     DEF Logs!Next, Logs!ListPolls, Logs!ReadSummary, Logs!Forget, Logs!Crash, Logs!vars

\* While the summary is there, every poll is counted once or has its own row,
\* and only a reconciliation takes the summary back.
THEOREM LogHolds ==
    ASSUME GatewayAssumption
    PROVE  Spec => LogAccounted
<1>1. Logs!Spec => []LogInv
  BY LogStarts, LogKept, PTL DEF Logs!Spec
<1>2. LogInv => Logs!TypeOK /\ Logs!PollsAccounted
  BY LogCardinality DEF LogInv, Folding, InOnePlace, Begun, CountedOnce, Folded,
                        Logs!PollsAccounted
<1>3. LogInv /\ [Logs!Next]_(Logs!vars) =>
          [~(batch.pc = "read" /\ batch'.pc = "idle") => Advanced]_(Logs!vars)
  BY LogAdvances
<1>4. Logs!Spec => Logs!SummaryAdvances
  BY <1>1, <1>3, PTL DEF Logs!Spec, Logs!SummaryAdvances, Advanced
<1>5. QED
  BY <1>1, <1>2, <1>4, Components, PTL DEF LogAccounted
-----------------------------------------------------------------------------
(* Routing: the channels of a list are each there once, the turns kept are    *)
(* those of the list of sets used last, and a request is nowhere a second    *)
(* time.                                                                     *)


Kept(d, set) ==
    d = [n \in 0 .. Len(Order) |->
            IF n = 0 THEN <<>>
            ELSE IF Order[n] \in set THEN Append(d[n - 1], Order[n]) ELSE d[n - 1]]

LEMMA KeptStands ==
    ASSUME GatewayAssumption, NEW set
    PROVE  \E d : Kept(d, set) /\ d \in [0 .. Len(Order) -> Seq(Serves!Channels)]
<1> DEFINE V == Seq(Serves!Channels)
           n == Len(Order)
           F == [i \in 1 .. n |-> [s \in V |-> IF Order[i] \in set THEN Append(s, Order[i]) ELSE s]]
<1>1. n \in Nat /\ \A i \in 1 .. n : Order[i] \in Serves!Channels
  BY DEF GatewayAssumption, Serves!RoutingAssumption
<1>2. F \in [1 .. n -> [V -> V]]
  <2>1. \A i \in 1 .. n : \A s \in V : Append(s, Order[i]) \in V
    BY <1>1
  <2>2. QED
    BY <2>1
<1>3. <<>> \in V
  OBVIOUS
<1>4. PICK d : d = [i \in 0 .. n |-> IF i = 0 THEN <<>> ELSE F[i][d[i - 1]]] /\ d \in [0 .. n -> V]
  <2> HIDE DEF F, V, n
  <2>1. QED
    BY <1>1, <1>2, <1>3, RecursionStands
<1>5. \A i \in 0 .. n : d[i] = IF i = 0 THEN <<>>
                               ELSE IF Order[i] \in set THEN Append(d[i - 1], Order[i]) ELSE d[i - 1]
  <2> SUFFICES ASSUME NEW i \in 0 .. n, i # 0
               PROVE  d[i] = IF Order[i] \in set THEN Append(d[i - 1], Order[i]) ELSE d[i - 1]
    BY <1>4
  <2>1. i \in 1 .. n /\ i - 1 \in 0 .. n
    BY <1>1
  <2>2. d[i - 1] \in V
    BY <1>4, <2>1
  <2>3. d[i] = F[i][d[i - 1]]
    BY <1>4, <2>1
  <2>4. QED
    BY <2>1, <2>2, <2>3
<1>6. d = [i \in 0 .. n |-> d[i]]
  BY <1>4
<1>7. QED
  BY <1>4, <1>5, <1>6 DEF Kept

\* InOrder: the channels of a set, each once.
LEMMA InOrderLists ==
    ASSUME GatewayAssumption, NEW set
    PROVE  /\ Serves!InOrder(set) \in Seq(Serves!Channels)
           /\ \A i \in DOMAIN Serves!InOrder(set) : Serves!InOrder(set)[i] \in set
           /\ Serves!IsInjective(Serves!InOrder(set))
<1> DEFINE d == CHOOSE d : Kept(d, set)
<1>1. PICK e : Kept(e, set) /\ e \in [0 .. Len(Order) -> Seq(Serves!Channels)]
  BY KeptStands
<1>2. Kept(d, set)
  BY <1>1
<1>3. Serves!InOrder(set) = d[Len(Order)]
  BY Zenon DEF Serves!InOrder, Kept
<1> HIDE DEF d
<1>0. Len(Order) \in Nat /\ Serves!IsInjective(Order) /\ DOMAIN Order = 1 .. Len(Order)
      /\ \A i \in 1 .. Len(Order) : Order[i] \in Serves!Channels
  BY DEF GatewayAssumption, Serves!RoutingAssumption
<1>4. \A i \in 0 .. Len(Order) :
          d[i] = IF i = 0 THEN <<>>
                 ELSE IF Order[i] \in set THEN Append(d[i - 1], Order[i]) ELSE d[i - 1]
  BY <1>2, Zenon DEF Kept
<1> DEFINE Good(n) == /\ d[n] \in Seq(Serves!Channels)
                      /\ \A k \in 1 .. Len(d[n]) :
                            d[n][k] \in set /\ \E i \in 1 .. n : d[n][k] = Order[i]
                      /\ \A j, k \in 1 .. Len(d[n]) : d[n][j] = d[n][k] => j = k
           B == {n \in 0 .. Len(Order) : ~Good(n)}
<1>5. SUFFICES ASSUME B # {} PROVE FALSE
  <2>1. Len(Order) \in 0 .. Len(Order)
    BY <1>0
  <2>2. B = {} => Good(Len(Order))
    BY <2>1
  <2>3. Good(Len(Order)) => DOMAIN d[Len(Order)] = 1 .. Len(d[Len(Order)])
    OBVIOUS
  <2>4. QED
    BY <1>3, <1>5, <2>2, <2>3 DEF Serves!IsInjective
<1>6. PICK n \in B : \A k \in B : n <= k
  <2>1. B \in SUBSET Nat
    BY <1>0
  <2> HIDE DEF B
  <2>2. QED
    BY <1>5, <2>1, LeastElement
<1>7. n \in 0 .. Len(Order) /\ ~Good(n)
  OBVIOUS
<1>8. n # 0
  <2>1. d[0] = <<>>
    BY <1>0, <1>4
  <2>2. Good(0)
    BY <2>1
  <2>3. QED
    BY <1>7, <2>2
<1>9. Good(n - 1)
  <2>1. n - 1 \in 0 .. Len(Order) /\ n - 1 \notin B
    <3>1. n \in 0 .. Len(Order)
      BY <1>7
    <3> HIDE DEF B
    <3>2. QED
      BY <1>0, <1>6, <1>8, <3>1
  <2>2. QED
    BY <2>1
<1> DEFINE s == d[n - 1]
           t == d[n]
           c == Order[n]
<1>10. t = (IF c \in set THEN Append(s, c) ELSE s) /\ n \in 1 .. Len(Order) /\ c \in Serves!Channels
  BY <1>0, <1>4, <1>7, <1>8
<1>11. /\ s \in Seq(Serves!Channels)
       /\ \A k \in 1 .. Len(s) : s[k] \in set /\ \E i \in 1 .. n - 1 : s[k] = Order[i]
       /\ \A j, k \in 1 .. Len(s) : s[j] = s[k] => j = k
  BY <1>9
<1>12. \A i \in 1 .. n - 1 : Order[i] # c
  BY <1>0, <1>10 DEF Serves!IsInjective
<1> HIDE DEF s, t, c, B
<1>13. /\ t \in Seq(Serves!Channels)
       /\ \A k \in 1 .. Len(t) : t[k] \in set /\ \E i \in 1 .. n : t[k] = Order[i]
       /\ \A j, k \in 1 .. Len(t) : t[j] = t[k] => j = k
  <2>1. CASE c \notin set
    <3>1. t = s
      BY <1>10, <2>1
    <3>2. \A i \in 1 .. n - 1 : i \in 1 .. n
      BY <1>10
    <3>3. QED
      BY <1>11, <3>1, <3>2
  <2>2. CASE c \in set
    <3>1. /\ t \in Seq(Serves!Channels) /\ Len(t) = Len(s) + 1 /\ Len(s) \in Nat
          /\ t[Len(s) + 1] = c /\ \A k \in 1 .. Len(s) : t[k] = s[k]
      BY <1>10, <1>11, <2>2
    <3>2. \A k \in 1 .. Len(t) : k \in 1 .. Len(s) \/ k = Len(s) + 1
      BY <3>1
    <3>3. \A k \in 1 .. Len(t) : t[k] \in set /\ \E i \in 1 .. n : t[k] = Order[i]
      <4> SUFFICES ASSUME NEW k \in 1 .. Len(t)
                   PROVE  t[k] \in set /\ \E i \in 1 .. n : t[k] = Order[i]
        OBVIOUS
      <4>1. CASE k = Len(s) + 1
        <5>1. t[k] = Order[n] /\ n \in 1 .. n
          BY <1>10, <3>1, <4>1 DEF c
        <5>2. QED
          BY <2>2, <3>1, <4>1, <5>1
      <4>2. CASE k \in 1 .. Len(s)
        <5>1. PICK i \in 1 .. n - 1 : s[k] = Order[i]
          BY <1>11, <4>2
        <5>2. i \in 1 .. n
          BY <1>10
        <5>3. QED
          BY <1>11, <3>1, <4>2, <5>1, <5>2
      <4>3. QED
        BY <3>2, <4>1, <4>2
    <3>4. \A k \in 1 .. Len(s) : s[k] # c
      BY <1>11, <1>12
    <3>5. ASSUME NEW j \in 1 .. Len(t), NEW k \in 1 .. Len(t), t[j] = t[k] PROVE j = k
      <4>1. CASE j = Len(s) + 1
        BY <3>1, <3>2, <3>4, <3>5, <4>1
      <4>2. CASE k = Len(s) + 1
        BY <3>1, <3>2, <3>4, <3>5, <4>2
      <4>3. CASE j \in 1 .. Len(s) /\ k \in 1 .. Len(s)
        BY <1>11, <3>1, <3>5, <4>3
      <4>4. QED
        BY <3>2, <4>1, <4>2, <4>3
    <3>6. QED
      BY <3>1, <3>3, <3>5
  <2>3. QED
    BY <2>1, <2>2
<1>14. QED
  BY <1>7, <1>13 DEF t

-----------------------------------------------------------------------------
(* The place that is first. *)

LEMMA LargestExists ==
    ASSUME NEW n \in Nat \ {0}, NEW raised \in [1 .. n -> Int]
    PROVE  Serves!Largest(raised) \in 1 .. n
<1> DEFINE Found(k) == \E p \in 1 .. k : /\ \A m \in 1 .. k : raised[m] <= raised[p]
                                         /\ \A m \in 1 .. p - 1 : raised[m] < raised[p]
           B == {k \in 1 .. n : ~Found(k)}
<1>1. SUFFICES ASSUME B # {} PROVE FALSE
  <2>1. n \in 1 .. n
    OBVIOUS
  <2>2. B = {} => Found(n)
    BY <2>1
  <2>3. DOMAIN raised = 1 .. n
    OBVIOUS
  <2>4. PICK p \in 1 .. n : /\ \A m \in 1 .. n : raised[m] <= raised[p]
                            /\ \A m \in 1 .. p - 1 : raised[m] < raised[p]
    BY <1>1, <2>2
  <2>5. QED
    BY <2>3, <2>4, Zenon DEF Serves!Largest
<1>2. PICK k \in B : \A m \in B : k <= m
  <2>1. B \in SUBSET Nat
    OBVIOUS
  <2> HIDE DEF B
  <2>2. QED
    BY <1>1, <2>1, LeastElement
<1>3. k \in 1 .. n /\ ~Found(k)
  OBVIOUS
<1>4. k # 1
  <2>1. Found(1)
    OBVIOUS
  <2>2. QED
    BY <1>3, <2>1
<1>5. k - 1 \in 1 .. n /\ Found(k - 1)
  <2>1. k - 1 \in 1 .. n /\ k - 1 \notin B
    <3>1. k \in 1 .. n
      BY <1>3
    <3> HIDE DEF B
    <3>2. QED
      BY <1>2, <1>4, <3>1
  <2>2. QED
    BY <2>1
<1>6. PICK p \in 1 .. k - 1 : /\ \A m \in 1 .. k - 1 : raised[m] <= raised[p]
                              /\ \A m \in 1 .. p - 1 : raised[m] < raised[p]
  BY <1>5
<1>7. \A m \in 1 .. k : m \in 1 .. k - 1 \/ m = k
  BY <1>3
<1>8. \A m \in 1 .. k : raised[m] \in Int
  BY <1>3
<1> HIDE DEF B
<1>9. CASE raised[k] > raised[p]
  <2>1. \A m \in 1 .. k - 1 : raised[m] < raised[k]
    BY <1>3, <1>6, <1>8, <1>9
  <2>2. \A m \in 1 .. k : raised[m] <= raised[k]
    <3>1. raised[k] \in Int /\ raised[k] <= raised[k]
      BY <1>3, <1>8
    <3>2. \A m \in 1 .. k - 1 : raised[m] \in Int
      BY <1>3, <1>8
    <3>3. QED
      BY <1>7, <2>1, <3>1, <3>2
  <2>3. k \in 1 .. k
    BY <1>3
  <2>4. QED
    BY <1>3, <2>1, <2>2, <2>3
<1>10. CASE ~(raised[k] > raised[p])
  <2>1. p \in 1 .. k
    BY <1>3
  <2>2. \A m \in 1 .. k : raised[m] <= raised[p]
    BY <1>3, <1>6, <1>7, <1>8, <1>10, <2>1
  <2>3. QED
    BY <1>3, <1>6, <2>1, <2>2
<1>11. QED
  BY <1>9, <1>10

Summing(d, weights) ==
    d = [n \in 0 .. Len(weights) |-> IF n = 0 THEN 0 ELSE d[n - 1] + weights[n]]

LEMMA SumIsPositive ==
    ASSUME NEW weights \in Seq(Nat \ {0}), Len(weights) >= 1
    PROVE  Serves!Sum(weights) \in Nat \ {0}
<1> DEFINE n == Len(weights)
           V == Nat
           F == [i \in 1 .. n |-> [x \in Nat |-> x + weights[i]]]
           d == CHOOSE d : Summing(d, weights)
<1>1. n \in Nat \ {0} /\ \A i \in 1 .. n : weights[i] \in Nat \ {0}
  OBVIOUS
<1>2. PICK e : e = [i \in 0 .. n |-> IF i = 0 THEN 0 ELSE F[i][e[i - 1]]] /\ e \in [0 .. n -> Nat]
  <2> DEFINE z == 0
  <2>1. F \in [1 .. n -> [V -> V]] /\ z \in V /\ n \in Nat
    BY <1>1
  <2> HIDE DEF F, n, V, z
  <2>2. \E e : /\ e = [i \in 0 .. n |-> IF i = 0 THEN z ELSE F[i][e[i - 1]]]
               /\ e \in [0 .. n -> V]
    BY <2>1, RecursionStands
  <2>3. QED
    BY <2>2 DEF V, z
<1>3. \A i \in 0 .. n : e[i] = IF i = 0 THEN 0 ELSE e[i - 1] + weights[i]
  <2> SUFFICES ASSUME NEW i \in 0 .. n, i # 0 PROVE e[i] = e[i - 1] + weights[i]
    BY <1>2
  <2>1. i \in 1 .. n /\ i - 1 \in 0 .. n
    BY <1>1
  <2>2. e[i - 1] \in Nat /\ e[i] = F[i][e[i - 1]]
    BY <1>2, <2>1
  <2>3. QED
    BY <2>1, <2>2
<1>4. e = [i \in 0 .. n |-> e[i]]
  BY <1>2
<1>5. Summing(e, weights)
  BY <1>3, <1>4 DEF Summing
<1>6. Summing(d, weights)
  BY <1>5
<1>7. Serves!Sum(weights) = d[n]
  BY Zenon DEF Serves!Sum, Summing
<1> HIDE DEF d, F
<1>8. \A i \in 0 .. n : d[i] = IF i = 0 THEN 0 ELSE d[i - 1] + weights[i]
  BY <1>6, Zenon DEF Summing
<1> HIDE DEF n
<1> DEFINE B == {i \in 0 .. n : ~(d[i] \in Nat)}
<1>9. B = {}
  <2> SUFFICES ASSUME B # {} PROVE FALSE
    OBVIOUS
  <2>1. PICK i \in B : \A k \in B : i <= k
    <3>1. B \in SUBSET Nat
      BY <1>1
    <3> HIDE DEF B
    <3>2. QED
      BY <3>1, LeastElement
  <2>2. i \in 0 .. n /\ d[i] \notin Nat
    OBVIOUS
  <2>3. i # 0
    BY <1>1, <1>8, <2>2
  <2>4. i - 1 \in 0 .. n /\ i - 1 \notin B
    <3> HIDE DEF B
    <3>1. QED
      BY <1>1, <2>1, <2>2, <2>3
  <2>5. d[i - 1] \in Nat /\ i \in 1 .. n
    BY <2>2, <2>3, <2>4
  <2>6. d[i] = d[i - 1] + weights[i]
    BY <1>8, <2>2, <2>3
  <2>7. QED
    BY <1>1, <2>2, <2>5, <2>6
<1>10. d[n - 1] \in Nat /\ d[n] = d[n - 1] + weights[n] /\ weights[n] \in Nat \ {0}
  <2>1. n - 1 \in 0 .. n /\ n \in 0 .. n /\ n \in 1 .. n
    BY <1>1
  <2>2. d[n - 1] \in Nat
    BY <1>9, <2>1
  <2>3. QED
    BY <1>1, <1>8, <2>1, <2>2
<1>11. QED
  BY <1>7, <1>10

Cycling(d, weights, turn) ==
    d = [i \in 0 .. turn |->
            IF i = 0 THEN [n \in DOMAIN weights |-> 0]
            ELSE LET raised == Serves!Raised(d[i - 1], weights)
                 IN  [raised EXCEPT ![Serves!Largest(raised)] = @ - Serves!Sum(weights)]]

LEMMA SmoothPlaceIn ==
    ASSUME NEW weights \in Seq(Nat \ {0}), Len(weights) >= 1, NEW turn \in Nat
    PROVE  Serves!SmoothPlace(weights, turn) \in 1 .. Len(weights)
<1> DEFINE n == Len(weights)
           V == [1 .. n -> Int]
           total == Serves!Sum(weights)
           Next_(x) == LET raised == Serves!Raised(x, weights)
                       IN  [raised EXCEPT ![Serves!Largest(raised)] = @ - total]
           F == [i \in 1 .. turn |-> [x \in V |-> Next_(x)]]
           zeros == [m \in DOMAIN weights |-> 0]
           d == CHOOSE d : Cycling(d, weights, turn)
<1>1. n \in Nat \ {0} /\ DOMAIN weights = 1 .. n /\ \A i \in 1 .. n : weights[i] \in Nat \ {0}
  OBVIOUS
<1>2. total \in Nat \ {0}
  BY SumIsPositive
<1> HIDE DEF total
<1>3. ASSUME NEW x \in V PROVE Serves!Raised(x, weights) \in V
  BY <1>1, <1>3 DEF Serves!Raised
<1>4. ASSUME NEW x \in V PROVE Next_(x) \in V
  <2> DEFINE raised == Serves!Raised(x, weights)
             p == Serves!Largest(raised)
  <2>1. raised \in V /\ p \in 1 .. n
    BY <1>1, <1>3, <1>4, LargestExists
  <2> HIDE DEF raised, p
  <2>2. [raised EXCEPT ![p] = @ - total] \in V
    BY <1>1, <1>2, <2>1
  <2>3. QED
    BY <2>2 DEF raised, p
<1>5. zeros \in V
  BY <1>1
<1> HIDE DEF Next_, n, V, zeros
<1>6. PICK e : /\ e = [i \in 0 .. turn |-> IF i = 0 THEN zeros ELSE F[i][e[i - 1]]]
               /\ e \in [0 .. turn -> V]
  <2>1. F \in [1 .. turn -> [V -> V]]
    BY <1>4
  <2> HIDE DEF F
  <2>2. QED
    BY <1>5, <2>1, RecursionStands
<1>7. \A i \in 0 .. turn : e[i] = IF i = 0 THEN zeros ELSE Next_(e[i - 1])
  <2> SUFFICES ASSUME NEW i \in 0 .. turn, i # 0 PROVE e[i] = Next_(e[i - 1])
    BY <1>6
  <2>1. i \in 1 .. turn /\ i - 1 \in 0 .. turn
    OBVIOUS
  <2>2. e[i - 1] \in V /\ e[i] = F[i][e[i - 1]]
    BY <1>6, <2>1
  <2>3. QED
    BY <2>1, <2>2
<1>8. e = [i \in 0 .. turn |-> IF i = 0 THEN zeros ELSE Next_(e[i - 1])]
  <2>1. e = [i \in 0 .. turn |-> e[i]]
    BY <1>6
  <2>2. QED
    BY <1>7, <2>1
<1>9. Cycling(d, weights, turn)
  <2>1. Cycling(e, weights, turn)
    BY <1>8, Zenon DEF Cycling, Next_, zeros, total
  <2>2. QED
    BY <2>1
<1>10. Serves!SmoothPlace(weights, turn) = Serves!Largest(Serves!Raised(d[turn], weights))
  BY Zenon DEF Serves!SmoothPlace, Cycling
<1> HIDE DEF d
<1>11. \A i \in 0 .. turn : d[i] = IF i = 0 THEN zeros ELSE Next_(d[i - 1])
  BY <1>9, Zenon DEF Cycling, Next_, zeros, total
<1> DEFINE B == {i \in 0 .. turn : ~(d[i] \in V)}
<1>12. B = {}
  <2> SUFFICES ASSUME B # {} PROVE FALSE
    OBVIOUS
  <2>1. PICK i \in B : \A k \in B : i <= k
    <3>1. B \in SUBSET Nat
      BY <1>1
    <3> HIDE DEF B
    <3>2. QED
      BY <3>1, LeastElement
  <2>2. i \in 0 .. turn /\ d[i] \notin V
    OBVIOUS
  <2>3. i # 0
    BY <1>5, <1>11, <2>2
  <2>4. i - 1 \in 0 .. turn /\ i - 1 \notin B
    <3> HIDE DEF B
    <3>1. QED
      BY <1>1, <2>1, <2>2, <2>3
  <2>5. d[i - 1] \in V
    BY <2>4
  <2>6. d[i] = Next_(d[i - 1])
    BY <1>11, <2>2, <2>3
  <2>7. QED
    BY <1>4, <2>2, <2>5, <2>6
<1>13. d[turn] \in V
  <2>1. turn \in 0 .. turn
    OBVIOUS
  <2>2. QED
    BY <1>12, <2>1
<1>14. QED
  <2>1. Serves!Raised(d[turn], weights) \in V
    BY <1>3, <1>13
  <2>2. Serves!Largest(Serves!Raised(d[turn], weights)) \in 1 .. n
    BY <1>1, <2>1, LargestExists DEF V
  <2>3. QED
    BY <1>10, <2>2 DEF n

LEMMA FirstPlaceIn ==
    ASSUME GatewayAssumption, NEW f \in Fleets, NEW list \in Seq(Serves!Channels), Len(list) >= 1,
           NEW index \in Nat
    PROVE  Serves!FirstPlace(f, list, index) \in 1 .. Len(list)
<1> DEFINE weights == [n \in DOMAIN list |-> Serves!Weight(f[list[n]].weight)]
<1>1. Len(list) \in Nat \ {0} /\ DOMAIN list = 1 .. Len(list)
      /\ \A n \in 1 .. Len(list) : list[n] \in Serves!Channels
  OBVIOUS
<1>2. \A c \in Serves!Channels : f[c].weight \in Int
  BY DEF GatewayAssumption, Serves!RoutingAssumption, Serves!Channel
<1>3. \A w \in Int : Serves!Weight(w) \in Nat \ {0}
  BY DEF GatewayAssumption, Serves!RoutingAssumption, Serves!Weight, Serves!AtLeastOne
<1>4. weights \in Seq(Nat \ {0}) /\ Len(weights) = Len(list)
  <2>1. \A n \in 1 .. Len(list) : weights[n] \in Nat \ {0}
    BY <1>1, <1>2, <1>3
  <2>2. QED
    BY <1>1, <2>1
<1> HIDE DEF weights
<1>5. Serves!Sum(weights) \in Nat \ {0} /\ index % Serves!Sum(weights) \in Nat
  <2> DEFINE n == Serves!Sum(weights)
  <2>1. n \in Nat \ {0}
    BY <1>1, <1>4, SumIsPositive
  <2> HIDE DEF n
  <2>2. index % n \in 0 .. n - 1
    BY <2>1
  <2>3. QED
    BY <2>1, <2>2 DEF n
<1>6. Serves!SmoothPlace(weights, index % Serves!Sum(weights)) \in 1 .. Len(list)
  BY <1>1, <1>4, <1>5, SmoothPlaceIn
<1>7. 1 + (index % Len(list)) \in 1 .. Len(list)
  <2> DEFINE n == Len(list)
  <2>1. n \in Nat \ {0}
    BY <1>1
  <2> HIDE DEF n
  <2>2. index % n \in 0 .. n - 1
    BY <2>1
  <2>3. QED
    BY <2>1, <2>2 DEF n
<1>8. QED
  BY <1>6, <1>7, Zenon DEF Serves!FirstPlace, weights

\* The candidates of a turn are those of the list.
LEMMA FromLists ==
    ASSUME NEW S, NEW list \in Seq(S), Len(list) >= 1, Serves!IsInjective(list),
           NEW place \in 1 .. Len(list)
    PROVE  /\ Serves!From(list, place) \in Seq(S) /\ Serves!IsInjective(Serves!From(list, place))
           /\ \A i \in DOMAIN Serves!From(list, place) :
                 \E j \in DOMAIN list : Serves!From(list, place)[i] = list[j]
<1> DEFINE n == Len(list)
           at == [i \in 1 .. n |-> 1 + ((place + i - 2) % n)]
           turned == Serves!From(list, place)
<1>1. n \in Nat \ {0} /\ DOMAIN list = 1 .. n /\ place \in 1 .. n
  OBVIOUS
<1> HIDE DEF n
<1>2. \A i \in 1 .. n : at[i] = IF place + i - 2 < n THEN place + i - 1 ELSE place + i - 1 - n
  <2> SUFFICES ASSUME NEW i \in 1 .. n
               PROVE  at[i] = IF place + i - 2 < n THEN place + i - 1 ELSE place + i - 1 - n
    OBVIOUS
  <2> DEFINE x == place + i - 2
  <2>1. x \in Nat /\ x < 2 * n
    BY <1>1
  <2>2. at[i] = 1 + (x % n)
    OBVIOUS
  <2> HIDE DEF x
  <2>3. x % n = IF x < n THEN x ELSE x - n
    BY <1>1, <2>1
  <2>4. at[i] = IF x < n THEN x + 1 ELSE x + 1 - n
    BY <1>1, <2>1, <2>2, <2>3
  <2>5. QED
    BY <1>1, <2>4 DEF x
<1> HIDE DEF at
<1>3. \A i \in 1 .. n : at[i] \in 1 .. n
  BY <1>1, <1>2
<1>4. \A i, j \in 1 .. n : at[i] = at[j] => i = j
  BY <1>1, <1>2
<1>5. turned = [i \in 1 .. n |-> list[at[i]]]
  BY <1>1 DEF Serves!From, at, n
<1> HIDE DEF turned
<1>6. \A i \in 1 .. n : list[at[i]] \in S
  BY <1>1, <1>3 DEF n
<1>7. turned \in Seq(S) /\ DOMAIN turned = 1 .. n
  BY <1>1, <1>5, <1>6
<1>8. Serves!IsInjective(turned)
  BY <1>1, <1>3, <1>4, <1>5, <1>7 DEF Serves!IsInjective
<1>9. QED
  BY <1>1, <1>3, <1>5, <1>7, <1>8 DEF turned

-----------------------------------------------------------------------------
(* The turns: the sets used last, in the order of their last use. *)

TurnsInv ==
    /\ clock \in Nat /\ recent \in Seq(DOMAIN pools) /\ Serves!IsInjective(recent)
    /\ DOMAIN pools = Serves!Range(recent) /\ Len(recent) <= MaxPools
    /\ \A k \in DOMAIN pools : pools[k].next \in Nat /\ pools[k].used \in 0 .. clock
    /\ \A i, j \in DOMAIN recent : i < j => pools[recent[j]].used < pools[recent[i]].used

LEMMA NoTurns ==
    ASSUME GatewayAssumption, pools' = <<>>, clock' = 0, recent' = <<>>
    PROVE  TurnsInv'
<1>1. DOMAIN pools' = {} /\ DOMAIN recent' = {} /\ Len(recent') = 0
  OBVIOUS
<1>2. MaxPools \in Nat
  BY DEF GatewayAssumption, Serves!RoutingAssumption
<1>3. QED
  BY <1>1, <1>2 DEF TurnsInv, Serves!Range, Serves!IsInjective

LEMMA RoutingCardinality == \A S : Serves!Cardinality(S) = Cardinality(S)
BY DEF Serves!Cardinality, Serves!IsFiniteSet, Cardinality, IsFiniteSet

LEMMA PoolsCounted ==
    ASSUME TurnsInv
    PROVE  Serves!Cardinality(DOMAIN pools) = Len(recent)
<1>1. /\ recent \in Seq(DOMAIN pools) /\ Len(recent) \in Nat /\ DOMAIN recent = 1 .. Len(recent)
      /\ Serves!IsInjective(recent) /\ DOMAIN pools = Serves!Range(recent)
  BY DEF TurnsInv
<1>2. recent \in Bijection(1 .. Len(recent), DOMAIN pools)
  BY <1>1 DEF Bijection, Injection, Surjection, IsInjective, Serves!IsInjective, Serves!Range
<1>3. ExistsBijection(1 .. Len(recent), DOMAIN pools)
  BY <1>2 DEF ExistsBijection
<1>4. IsFiniteSet(1 .. Len(recent)) /\ Cardinality(1 .. Len(recent)) = Len(recent)
  <2> DEFINE n == Len(recent)
             one == 1
  <2>1. n \in Nat /\ one \in Nat
    BY <1>1
  <2> HIDE DEF n, one
  <2>2. IsFiniteSet(one .. n) /\ Cardinality(one .. n) = IF one > n THEN 0 ELSE n - one + 1
    BY <2>1, FS_Interval
  <2>3. QED
    BY <2>1, <2>2 DEF n, one
<1>5. Cardinality(DOMAIN pools) = Len(recent)
  BY <1>3, <1>4, FS_Bijection
<1>6. QED
  BY <1>5, RoutingCardinality

LEMMA TurnTaken ==
    ASSUME GatewayAssumption, TurnsInv, NEW key, NEW place,
           Serves!NextTurn(key, place), recent' = Serves!LatestFirst(key)
    PROVE  TurnsInv'
<1> DEFINE size == Len(recent)
           known == \E n \in DOMAIN recent : recent[n] = key
           old == CHOOSE n \in DOMAIN recent : recent[n] = key
           full == size = MaxPools
           out == IF known THEN old ELSE IF size < MaxPools THEN size + 1 ELSE size
           most == IF known THEN size ELSE out
           kept == IF key \in DOMAIN pools \/ Serves!Cardinality(DOMAIN pools) < MaxPools
                   THEN DOMAIN pools ELSE DOMAIN pools \ {Serves!Oldest}
<1>1. /\ clock \in Nat /\ size \in Nat /\ DOMAIN recent = 1 .. size
      /\ \A i, j \in 1 .. size : recent[i] = recent[j] => i = j
      /\ \A k : k \in DOMAIN pools <=> \E i \in 1 .. size : k = recent[i]
      /\ size <= MaxPools /\ MaxPools \in Nat \ {0}
      /\ Serves!Cardinality(DOMAIN pools) = size
  BY PoolsCounted
     DEF TurnsInv, Serves!IsInjective, Serves!Range, GatewayAssumption, Serves!RoutingAssumption
<1>2. /\ \A i \in 1 .. size :
            pools[recent[i]].next \in Nat /\ pools[recent[i]].used \in 0 .. clock
      /\ \A i, j \in 1 .. size : i < j => pools[recent[j]].used < pools[recent[i]].used
  BY <1>1 DEF TurnsInv
<1> HIDE DEF size
<1>3. known <=> key \in DOMAIN pools
  BY <1>1
<1>4. recent' = [n \in 1 .. most |->
                    IF n = 1 THEN key ELSE IF n <= out THEN recent[n - 1] ELSE recent[n]]
  BY Zenon DEF Serves!LatestFirst, size
<1>5. known => old \in 1 .. size /\ recent[old] = key
  BY <1>1
<1>6. /\ clock' = clock + 1
      /\ DOMAIN pools' = kept \cup {key}
      /\ \A k \in kept : k # key => pools'[k] = pools[k]
      /\ pools'[key].used = clock + 1
      /\ pools'[key].next = (IF key \in DOMAIN pools THEN pools[key] ELSE Serves!Fresh(key)).next + 1
  BY DEF Serves!NextTurn
<1>7. pools'[key].next \in Nat
  <2>1. CASE key \in DOMAIN pools
    BY <1>1, <1>2, <1>6, <2>1
  <2>2. CASE key \notin DOMAIN pools
    <3>1. Serves!Fresh(key).next = 0
      BY DEF Serves!Fresh
    <3>2. QED
      BY <1>6, <2>2, <3>1
  <2>3. QED
    BY <2>1, <2>2
<1>8. ~known /\ ~(size < MaxPools) => Serves!Oldest = recent[size]
  <2> SUFFICES ASSUME ~(size < MaxPools) PROVE Serves!Oldest = recent[size]
    OBVIOUS
  <2> DEFINE last == size
  <2>0. size \in Nat \ {0}
    BY <1>1
  <2>1. last \in 1 .. last /\ recent[last] \in DOMAIN pools
    BY <1>1
  <2>2. \A i \in 1 .. last : pools[recent[last]].used <= pools[recent[i]].used
    BY <1>1, <1>2, <2>1
  <2>3. \A k \in DOMAIN pools : pools[recent[last]].used <= pools[k].used
    BY <1>1, <2>2
  <2>4. \A k \in DOMAIN pools :
            (\A other \in DOMAIN pools : pools[k].used <= pools[other].used) => k = recent[last]
    <3> SUFFICES ASSUME NEW i \in 1 .. last, pools[recent[i]].used <= pools[recent[last]].used
                 PROVE  i = last
      BY <1>1, <2>1
    <3>1. i < last => pools[recent[last]].used < pools[recent[i]].used
      BY <1>2, <2>1
    <3>2. pools[recent[last]].used \in Int /\ pools[recent[i]].used \in Int
      BY <1>2, <2>1
    <3>3. i \in 1 .. size /\ ~(i < size)
      <4> HIDE DEF last
      <4>1. i < last => FALSE
        BY <3>1, <3>2
      <4>2. QED
        BY <4>1 DEF last
    <3>4. QED
      BY <2>0, <3>3
  <2>5. QED
    BY <2>1, <2>3, <2>4, Zenon DEF Serves!Oldest
<1> HIDE DEF known, old
<1>9. /\ out \in 1 .. most /\ most \in 1 .. MaxPools
      /\ known => out = old /\ most = size
      /\ ~known /\ size < MaxPools => out = size + 1 /\ most = size + 1
      /\ ~known /\ ~(size < MaxPools) => out = size /\ most = size
  <2>1. CASE known
    BY <1>1, <1>5, <2>1
  <2>2. CASE ~known /\ size < MaxPools
    BY <1>1, <2>2
  <2>3. CASE ~known /\ ~(size < MaxPools)
    BY <1>1, <2>3
  <2>4. QED
    BY <2>1, <2>2, <2>3
<1>10. \A k : k \in kept /\ k # key <=>
          \E i \in 1 .. size : k = recent[i] /\ i # out
  <2>1. CASE known
    <3>1. kept = DOMAIN pools /\ out \in 1 .. size /\ recent[out] = key
      BY <1>3, <1>5, <1>9, <2>1
    <3>2. QED
      BY <1>1, <3>1
  <2>2. CASE ~known /\ size < MaxPools
    <3>1. kept = DOMAIN pools /\ key \notin DOMAIN pools /\ out = size + 1
      BY <1>1, <1>3, <1>9, <2>2
    <3>2. \A i \in 1 .. size : i # out
      <4>1. size \in Nat /\ out = size + 1
        BY <1>1, <3>1
      <4>2. QED
        BY <4>1
    <3>3. QED
      BY <1>1, <3>1, <3>2
  <2>3. CASE ~known /\ ~(size < MaxPools)
    <3>1. /\ kept = DOMAIN pools \ {recent[out]} /\ key \notin DOMAIN pools
          /\ out \in 1 .. size
      BY <1>1, <1>3, <1>8, <1>9, <2>3
    <3>2. QED
      BY <1>1, <3>1
  <2>4. QED
    BY <2>1, <2>2, <2>3
<1> HIDE DEF out, most, kept
\* The place each set had before.
<1> DEFINE was(n) == IF n <= out THEN n - 1 ELSE n
<1>11. \A n \in 2 .. most : /\ was(n) \in 1 .. size /\ was(n) # out
                            /\ recent'[n] = recent[was(n)]
  <2>1. most <= size \/ (out = most /\ most = size + 1)
    BY <1>1, <1>9
  <2>2. out \in Nat /\ most \in Nat /\ size \in Nat /\ 1 <= out /\ out <= most
    BY <1>1, <1>9
  <2> SUFFICES ASSUME NEW n \in 2 .. most
               PROVE  was(n) \in 1 .. size /\ was(n) # out /\ recent'[n] = recent[was(n)]
    OBVIOUS
  <2>3. was(n) \in 1 .. size /\ was(n) # out
    BY <2>1, <2>2
  <2>4. recent'[n] = IF n <= out THEN recent[n - 1] ELSE recent[n]
    BY <1>4, <2>2
  <2>5. QED
    BY <2>3, <2>4
<1>12. \A i, j \in 2 .. most : i < j => was(i) < was(j)
  BY <1>9
<1>13. \A i \in 1 .. size : i # out => \E n \in 2 .. most : was(n) = i
  <2> SUFFICES ASSUME NEW i \in 1 .. size, i # out
               PROVE  \E n \in 2 .. most : was(n) = i
    OBVIOUS
  <2>1. CASE i < out
    <3>1. i + 1 \in 2 .. most /\ was(i + 1) = i
      BY <1>1, <1>9, <2>1
    <3>2. QED
      BY <3>1
  <2>0. /\ out \in Nat /\ most \in Nat /\ size \in Nat /\ 1 <= out /\ out <= most
        /\ size <= most
    BY <1>1, <1>9
  <2>2. CASE i > out
    <3>1. i \in 2 .. most /\ was(i) = i
      BY <2>0, <2>2
    <3>2. QED
      BY <3>1
  <2>3. QED
    BY <2>0, <2>1, <2>2
<1> HIDE DEF was
<1>14. /\ Len(recent') = most /\ DOMAIN recent' = 1 .. most /\ recent'[1] = key
       /\ most \in Nat \ {0} /\ \A n \in 1 .. most : n = 1 \/ n \in 2 .. most
  BY <1>4, <1>9
<1>15. \A n \in 2 .. most : /\ recent'[n] \in kept /\ recent'[n] # key
                            /\ pools'[recent'[n]] = pools[recent[was(n)]]
  BY <1>6, <1>10, <1>11
<1>16. \A k : k \in kept /\ k # key => \E n \in 2 .. most : k = recent'[n]
  BY <1>10, <1>11, <1>13
<1>17. \A k : k \in DOMAIN pools' <=> \E n \in 1 .. most : k = recent'[n]
  <2>1. 1 \in 1 .. most /\ \A n \in 2 .. most : n \in 1 .. most
    BY <1>14
  <2>2. QED
    BY <1>6, <1>14, <1>15, <1>16, <2>1
<1>18. recent' \in Seq(DOMAIN pools') /\ DOMAIN pools' = Serves!Range(recent')
  <2>1. \A n \in 1 .. most : recent'[n] \in DOMAIN pools'
    BY <1>17
  <2>2. recent' = [n \in 1 .. most |-> recent'[n]]
    BY <1>4
  <2>3. recent' \in Seq(DOMAIN pools')
    BY <1>14, <2>1, <2>2
  <2>4. QED
    <3>1. Serves!Range(recent') = {recent'[n] : n \in 1 .. most}
      BY <1>14 DEF Serves!Range
    <3>2. QED
      BY <1>17, <2>3, <3>1
<1>19. \A i, j \in 1 .. most : i < j => pools'[recent'[j]].used < pools'[recent'[i]].used
  <2> SUFFICES ASSUME NEW i \in 1 .. most, NEW j \in 1 .. most, i < j
               PROVE  pools'[recent'[j]].used < pools'[recent'[i]].used
    OBVIOUS
  <2>1. j \in 2 .. most
    BY <1>14
  <2>2. pools'[recent'[j]].used = pools[recent[was(j)]].used /\ was(j) \in 1 .. size
    BY <1>11, <1>15, <2>1
  <2>3. CASE i = 1
    <3>1. pools'[recent'[i]].used = clock + 1
      BY <1>6, <1>14, <2>3
    <3>2. QED
      BY <1>1, <1>2, <2>2, <3>1
  <2>4. CASE i \in 2 .. most
    <3>1. pools'[recent'[i]].used = pools[recent[was(i)]].used /\ was(i) \in 1 .. size
      BY <1>11, <1>15, <2>4
    <3>2. was(i) < was(j)
      BY <1>12, <2>1, <2>4
    <3>3. QED
      BY <1>2, <2>2, <3>1, <3>2
  <2>5. QED
    BY <1>14, <2>3, <2>4
<1>20. Serves!IsInjective(recent')
  <2> SUFFICES ASSUME NEW i \in 1 .. most, NEW j \in 1 .. most, recent'[i] = recent'[j]
               PROVE  i = j
    BY <1>14 DEF Serves!IsInjective
  <2>1. \A n \in 1 .. most : pools'[recent'[n]].used \in Int
    <3>1. \A n \in 2 .. most : pools'[recent'[n]].used \in Int
      BY <1>2, <1>11, <1>15
    <3>2. pools'[recent'[1]].used \in Int
      BY <1>1, <1>6, <1>14
    <3>3. QED
      BY <1>14, <3>1, <3>2
  <2>2. ~(i < j) /\ ~(j < i)
    BY <1>19, <2>1
  <2>3. QED
    BY <1>14, <2>2
<1>21. \A k \in DOMAIN pools' : pools'[k].next \in Nat /\ pools'[k].used \in 0 .. clock'
  <2> SUFFICES ASSUME NEW n \in 1 .. most
               PROVE  pools'[recent'[n]].next \in Nat /\ pools'[recent'[n]].used \in 0 .. clock'
    BY <1>17
  <2>1. CASE n = 1
    BY <1>1, <1>6, <1>7, <1>14, <2>1
  <2>2. CASE n \in 2 .. most
    <3>1. pools'[recent'[n]] = pools[recent[was(n)]] /\ was(n) \in 1 .. size
      BY <1>11, <1>15, <2>2
    <3>2. QED
      BY <1>1, <1>2, <1>6, <3>1
  <2>3. QED
    BY <1>14, <2>1, <2>2
<1>22. clock' \in Nat /\ Len(recent') <= MaxPools
  <2>1. clock' = clock + 1 /\ most \in 1 .. MaxPools /\ Len(recent') = most
    BY <1>6, <1>9, <1>14
  <2>2. QED
    BY <1>1, <2>1
<1>23. QED
  BY <1>14, <1>18, <1>19, <1>20, <1>21, <1>22 DEF TurnsInv

-----------------------------------------------------------------------------
(* A request: the channels it has still to order or to try are apart from    *)
(* those it has asked, the keys of the one it asks count down, and only a    *)
(* request that has asked nobody goes from the profile engine to the legacy  *)
(* one.                                                                      *)

Query == [at : {"done", "resolve", "order", "try", "ask"}, engine : {"profile", "legacy"},
          gone : BOOLEAN, fleet : Fleets, rest : SUBSET Serves!Channels, list : Seq(Serves!Channels),
          bound : BOOLEAN, keys : Nat, asked : Seq(Serves!Channels \X Nat), ran : SUBSET Nat]
\* A channel that waits was not asked.
Waiting(q) ==
    /\ Serves!IsInjective(q.list) /\ \A i \in DOMAIN q.list : q.list[i] \notin q.rest
    /\ \A k \in DOMAIN q.asked :
          /\ q.asked[k][1] \notin q.rest
          /\ \A i \in DOMAIN q.list :
                q.asked[k][1] = q.list[i] =>
                    q.at = "ask" /\ i = 1 /\ q.asked[k][2] > q.keys
Sound(q) ==
    /\ q \in Query /\ Serves!IsInjective(q.asked)
    /\ q.at # "done" => q.ran = {} /\ Waiting(q)
    /\ q.ran # {} => q.ran = {Len(q.asked)}
    /\ q.at \in {"resolve", "order"} => q.asked = <<>>
    /\ q.at = "resolve" => q.list = <<>>
    /\ q.at \in {"resolve", "try", "ask"} => q.rest = {}
    /\ q.at \in {"try", "ask"} /\ q.engine = "profile" /\ ~q.bound => q.asked = <<>>
    /\ q.at = "ask" => /\ q.list # <<>> /\ q.keys \in Nat \ {0}
                       /\ q.engine = "profile" => q.bound
RequestsInv ==
    /\ fleet \in Fleets
    /\ DOMAIN request = Requests /\ \A r \in Requests : Sound(request[r])
RoutingInv == TurnsInv /\ RequestsInv

LEMMA RequestSet ==
    ASSUME RequestsInv, NEW r \in Requests, NEW q, Sound(q), Serves!Set(r, q), fleet' \in Fleets
    PROVE  RequestsInv'
<1>1. /\ DOMAIN request' = Requests /\ request'[r] = q
      /\ \A other \in Requests \ {r} : request'[other] = request[other]
  BY DEF Serves!Set, RequestsInv
<1>2. \A other \in Requests : Sound(request'[other])
  BY <1>1 DEF RequestsInv
<1>3. (\A other \in Requests : Sound(request[other]))' <=> \A other \in Requests : Sound(request'[other])
  OBVIOUS
<1>4. QED
  BY <1>1, <1>2, <1>3 DEF RequestsInv

LEMMA FreshRequest ==
    ASSUME NEW f \in Fleets
    PROVE  /\ Sound(Serves!NoRequest(f))
           /\ \A engine \in {"profile", "legacy"} :
                 Sound([Serves!NoRequest(f) EXCEPT !.at = "resolve", !.engine = engine])
<1>1. Serves!NoRequest(f) \in Query
  BY DEF Serves!NoRequest, Query
<1>2. Serves!IsInjective(<<>>) /\ DOMAIN <<>> = {}
  BY DEF Serves!IsInjective
<1>3. Sound(Serves!NoRequest(f))
  BY <1>1, <1>2 DEF Serves!NoRequest, Sound
<1>4. ASSUME NEW engine \in {"profile", "legacy"}
      PROVE  Sound([Serves!NoRequest(f) EXCEPT !.at = "resolve", !.engine = engine])
  <2> DEFINE q == [Serves!NoRequest(f) EXCEPT !.at = "resolve", !.engine = engine]
  <2>1. /\ q.at = "resolve" /\ q.engine = engine /\ q.list = <<>> /\ q.rest = {}
        /\ q.asked = <<>> /\ q.ran = {}
    BY DEF Serves!NoRequest
  <2>2. q \in Query
    BY <1>1 DEF Query, Serves!NoRequest
  <2> HIDE DEF q
  <2>3. Sound(q)
    BY <1>2, <2>1, <2>2 DEF Sound, Waiting
  <2>4. QED
    BY <2>3 DEF q
<1>5. QED
  BY <1>3, <1>4

LEMMA EndedIsSound ==
    ASSUME NEW q \in Query, Serves!IsInjective(q.asked), q.ran # {} => q.ran = {Len(q.asked)}
    PROVE  Sound([Serves!NoRequest(q.fleet) EXCEPT !.asked = q.asked, !.ran = q.ran])
<1> DEFINE ended == [Serves!NoRequest(q.fleet) EXCEPT !.asked = q.asked, !.ran = q.ran]
<1>1. q.asked \in Seq(Serves!Channels \X Nat) /\ q.ran \in SUBSET Nat /\ q.fleet \in Fleets
  BY DEF Query
<1>2. ended.at = "done" /\ ended.asked = q.asked /\ ended.ran = q.ran
  BY DEF Serves!NoRequest
<1>3. ended \in Query
  <2> DEFINE none == Serves!NoRequest(q.fleet)
  <2>1. none \in Query
    BY <1>1, FreshRequest DEF Sound
  <2> DEFINE other == [none EXCEPT !.asked = q.asked, !.ran = q.ran]
  <2>2. other \in Query
    <3> HIDE DEF none
    <3>1. QED
      BY <1>1, <2>1 DEF Query
  <2>3. QED
    BY <2>2
<1> HIDE DEF ended
<1>4. Sound(ended)
  BY <1>2, <1>3 DEF Sound
<1>5. QED
  BY <1>4 DEF ended

LEMMA Joined ==
    ASSUME NEW S, NEW a \in Seq(S), NEW b \in Seq(S), Serves!IsInjective(a), Serves!IsInjective(b),
           \A i \in DOMAIN a : \A j \in DOMAIN b : a[i] # b[j]
    PROVE  /\ a \o b \in Seq(S) /\ Serves!IsInjective(a \o b)
           /\ \A k \in DOMAIN (a \o b) :
                 (\E i \in DOMAIN a : (a \o b)[k] = a[i]) \/ \E j \in DOMAIN b : (a \o b)[k] = b[j]
<1> DEFINE m == Len(a)
           n == Len(b)
           c == a \o b
<1>1. /\ m \in Nat /\ n \in Nat /\ DOMAIN a = 1 .. m /\ DOMAIN b = 1 .. n
      /\ c \in Seq(S) /\ DOMAIN c = 1 .. m + n
      /\ \A k \in 1 .. m + n : c[k] = IF k <= m THEN a[k] ELSE b[k - m]
  OBVIOUS
<1>2. \A i, j \in 1 .. m : a[i] = a[j] => i = j
  BY <1>1 DEF Serves!IsInjective
<1>3. \A i, j \in 1 .. n : b[i] = b[j] => i = j
  BY <1>1 DEF Serves!IsInjective
<1> HIDE DEF m, n, c
<1>4. \A k \in 1 .. m + n : k \in 1 .. m \/ (~(k <= m) /\ k - m \in 1 .. n)
  BY <1>1
<1>5. ASSUME NEW k \in 1 .. m + n, NEW l \in 1 .. m + n, c[k] = c[l] PROVE k = l
  <2>1. CASE k <= m /\ l <= m
    BY <1>1, <1>2, <1>4, <1>5, <2>1
  <2>2. CASE ~(k <= m) /\ ~(l <= m)
    <3>1. k - m \in 1 .. n /\ l - m \in 1 .. n /\ b[k - m] = b[l - m]
      BY <1>1, <1>4, <1>5, <2>2
    <3>2. k - m = l - m
      BY <1>3, <3>1
    <3>3. QED
      BY <1>1, <3>2
  <2>3. CASE k <= m /\ ~(l <= m)
    <3>1. k \in 1 .. m /\ l - m \in 1 .. n /\ a[k] = b[l - m]
      BY <1>1, <1>4, <1>5, <2>3
    <3>2. QED
      BY <1>1, <3>1
  <2>4. CASE ~(k <= m) /\ l <= m
    <3>1. l \in 1 .. m /\ k - m \in 1 .. n /\ a[l] = b[k - m]
      BY <1>1, <1>4, <1>5, <2>4
    <3>2. QED
      BY <1>1, <3>1
  <2>5. QED
    BY <2>1, <2>2, <2>3, <2>4
<1>6. Serves!IsInjective(c)
  BY <1>1, <1>5 DEF Serves!IsInjective
<1>7. \A k \in 1 .. m + n : (\E i \in 1 .. m : c[k] = a[i]) \/ \E j \in 1 .. n : c[k] = b[j]
  BY <1>1, <1>4
<1>8. QED
  BY <1>1, <1>6, <1>7 DEF c

LEMMA FirstTaken ==
    ASSUME NEW S, NEW s \in Seq(S), s # <<>>
    PROVE  /\ Head(s) = s[1] /\ Head(s) \in S /\ Tail(s) \in Seq(S) /\ 1 \in DOMAIN s
           /\ \A i \in DOMAIN Tail(s) : Tail(s)[i] = s[i + 1] /\ i + 1 \in DOMAIN s /\ i + 1 # 1
           /\ Serves!IsInjective(s) => Serves!IsInjective(Tail(s))
<1> DEFINE n == Len(s)
           t == Tail(s)
<1>1. /\ n \in Nat \ {0} /\ DOMAIN s = 1 .. n /\ \A i \in 1 .. n : s[i] \in S
      /\ t \in Seq(S) /\ DOMAIN t = 1 .. n - 1 /\ \A i \in 1 .. n - 1 : t[i] = s[i + 1]
      /\ Head(s) = s[1]
  OBVIOUS
<1> HIDE DEF n, t
<1>2. \A i \in 1 .. n - 1 : i + 1 \in 1 .. n /\ i + 1 # 1
  BY <1>1
<1>3. ASSUME Serves!IsInjective(s) PROVE Serves!IsInjective(t)
  <2>0. \A i, j \in 1 .. n : s[i] = s[j] => i = j
    BY <1>1, <1>3 DEF Serves!IsInjective
  <2>1. ASSUME NEW i \in 1 .. n - 1, NEW j \in 1 .. n - 1, t[i] = t[j] PROVE i = j
    <3>1. i + 1 = j + 1
      BY <1>1, <1>2, <2>0, <2>1
    <3>2. QED
      BY <1>1, <3>1
  <2>2. QED
    BY <1>1, <2>1 DEF Serves!IsInjective
<1>4. 1 \in 1 .. n
  BY <1>1
<1>5. QED
  BY <1>1, <1>2, <1>3, <1>4 DEF t

\* The channel that was first is passed over, or has been asked.
LEMMA PassIsSound ==
    ASSUME NEW q, Sound(q), q.list # <<>>, q.at \in {"try", "ask"},
           NEW p \in Query, p.at = "try", p.engine = q.engine, p.list = Tail(q.list), p.rest = q.rest,
           p.ran = {}, p.bound \/ (q.asked = <<>> /\ p.asked = <<>>) \/ q.engine = "legacy",
           \/ p.asked = q.asked
           \/ \E n \in Nat \ {0} :
                 q.at = "ask" /\ n <= q.keys /\ p.asked = Append(q.asked, <<Head(q.list), n>>)
    PROVE  Sound(p)
<1>1. /\ q.list \in Seq(Serves!Channels) /\ q.rest \subseteq Serves!Channels
      /\ q.asked \in Seq(Serves!Channels \X Nat)
      /\ Serves!IsInjective(q.list) /\ Serves!IsInjective(q.asked) /\ q.keys \in Nat
      /\ \A i \in DOMAIN q.list : q.list[i] \notin q.rest
      /\ \A k \in DOMAIN q.asked :
            /\ q.asked[k][1] \notin q.rest
            /\ \A i \in DOMAIN q.list :
                  q.asked[k][1] = q.list[i] => q.at = "ask" /\ i = 1 /\ q.asked[k][2] > q.keys
  BY DEF Sound, Waiting, Query
<1>2. /\ Head(q.list) = q.list[1] /\ Head(q.list) \in Serves!Channels /\ 1 \in DOMAIN q.list
      /\ \A i \in DOMAIN p.list : p.list[i] = q.list[i + 1] /\ i + 1 \in DOMAIN q.list /\ i + 1 # 1
      /\ Serves!IsInjective(p.list)
  BY <1>1, FirstTaken
<1>3. \A i \in DOMAIN p.list : p.list[i] # q.list[1] /\ p.list[i] \notin q.rest
  BY <1>1, <1>2 DEF Serves!IsInjective
<1>4. \A k \in DOMAIN q.asked :
          q.asked[k][1] \notin q.rest /\ \A i \in DOMAIN p.list : q.asked[k][1] # p.list[i]
  BY <1>1, <1>2
<1>5. Serves!IsInjective(p.asked) /\ \A k \in DOMAIN p.asked :
          p.asked[k][1] \notin q.rest /\ \A i \in DOMAIN p.list : p.asked[k][1] # p.list[i]
  <2>1. CASE p.asked = q.asked
    BY <1>1, <1>4, <2>1
  <2>2. CASE p.asked # q.asked
    <3>1. PICK n \in Nat \ {0} : /\ q.at = "ask" /\ n <= q.keys
                                 /\ p.asked = Append(q.asked, <<Head(q.list), n>>)
      BY <2>2
    <3> DEFINE x == <<q.list[1], n>>
               m == Len(q.asked)
    <3>2. /\ x \in Serves!Channels \X Nat /\ x[1] = q.list[1] /\ x[2] = n
          /\ p.asked = Append(q.asked, x)
      BY <1>2, <3>1
    <3> HIDE DEF x
    <3>3. /\ m \in Nat /\ DOMAIN q.asked = 1 .. m /\ DOMAIN p.asked = 1 .. m + 1
          /\ p.asked[m + 1] = x /\ \A k \in 1 .. m : p.asked[k] = q.asked[k]
          /\ \A k \in 1 .. m + 1 : k \in 1 .. m \/ k = m + 1
      BY <1>1, <3>2
    <3> HIDE DEF m
    <3>4. \A k \in 1 .. m : q.asked[k] # x
      <4> SUFFICES ASSUME NEW k \in 1 .. m, q.asked[k] = x PROVE FALSE
        OBVIOUS
      <4>1. q.asked[k][1] = q.list[1] => q.asked[k][2] > q.keys
        BY <1>1, <1>2, <3>3
      <4>2. n > q.keys
        BY <3>2, <4>1
      <4>3. QED
        BY <1>1, <3>1, <4>2
    <3>5. ASSUME NEW j \in 1 .. m + 1, NEW k \in 1 .. m + 1, p.asked[j] = p.asked[k] PROVE j = k
      <4>1. CASE j = m + 1
        BY <3>3, <3>4, <3>5, <4>1
      <4>2. CASE k = m + 1
        BY <3>3, <3>4, <3>5, <4>2
      <4>3. CASE j \in 1 .. m /\ k \in 1 .. m
        BY <1>1, <3>3, <3>5, <4>3 DEF Serves!IsInjective
      <4>4. QED
        BY <3>3, <4>1, <4>2, <4>3
    <3>6. Serves!IsInjective(p.asked)
      BY <3>3, <3>5 DEF Serves!IsInjective
    <3>7. x[1] \notin q.rest /\ \A i \in DOMAIN p.list : x[1] # p.list[i]
      BY <1>1, <1>2, <1>3, <3>2
    <3>8. ASSUME NEW k \in 1 .. m + 1
          PROVE  p.asked[k][1] \notin q.rest /\ \A i \in DOMAIN p.list : p.asked[k][1] # p.list[i]
      <4>1. CASE k = m + 1
        BY <3>3, <3>7, <4>1
      <4>2. CASE k \in 1 .. m
        <5>1. p.asked[k] = q.asked[k] /\ k \in DOMAIN q.asked
          BY <3>3, <4>2
        <5>2. /\ q.asked[k][1] \notin q.rest
              /\ \A i \in DOMAIN p.list : q.asked[k][1] # p.list[i]
          BY <1>4, <5>1
        <5>3. QED
          BY <5>1, <5>2
      <4>3. QED
        BY <3>3, <4>1, <4>2
    <3>9. QED
      BY <3>3, <3>6, <3>8
  <2>3. QED
    BY <2>1, <2>2
<1>6. Waiting(p)
  BY <1>2, <1>3, <1>5 DEF Waiting
<1>7. p.engine = "profile" /\ ~p.bound => p.asked = <<>>
  OBVIOUS
<1>8. QED
  BY <1>5, <1>6, <1>7 DEF Sound

LEMMA EndKept ==
    ASSUME RequestsInv, NEW r \in Requests, NEW q \in Query, Serves!IsInjective(q.asked),
           q.ran # {} => q.ran = {Len(q.asked)}, Serves!End(r, q), UNCHANGED fleet
    PROVE  RequestsInv'
<1> DEFINE ended == [Serves!NoRequest(q.fleet) EXCEPT !.asked = q.asked, !.ran = q.ran]
<1>1. Sound(ended)
  BY EndedIsSound
<1>2. Serves!Set(r, ended)
  BY DEF Serves!End
<1>3. fleet' \in Fleets
  BY DEF RequestsInv
<1> HIDE DEF ended
<1>4. QED
  BY <1>1, <1>2, <1>3, RequestSet

\* A request that stays where it is keeps what is known of it.
LEMMA LeaveKept ==
    ASSUME RequestsInv, NEW r \in Requests, Serves!Leave(r)
    PROVE  RequestsInv'
<1> DEFINE q == request[r]
           p == [q EXCEPT !.gone = TRUE]
<1>1. Sound(q) /\ fleet' \in Fleets
  BY DEF RequestsInv, Serves!Leave, Serves!store
<1>2. Sound(p)
  <2> HIDE DEF q
  <2>1. q \in Query
    BY <1>1 DEF Sound
  <2>2. /\ p \in Query /\ p.at = q.at /\ p.engine = q.engine /\ p.rest = q.rest /\ p.list = q.list
        /\ p.bound = q.bound /\ p.keys = q.keys /\ p.asked = q.asked /\ p.ran = q.ran
    BY <2>1 DEF Query
  <2> HIDE DEF p
  <2>3. QED
    BY <1>1, <2>2 DEF Sound, Waiting
<1>3. Serves!Set(r, p)
  BY DEF Serves!Leave
<1> HIDE DEF p
<1>4. QED
  BY <1>1, <1>2, <1>3, RequestSet

LEMMA ArriveKept ==
    ASSUME RequestsInv, NEW r \in Requests, Serves!Arrive(r)
    PROVE  RequestsInv'
<1>1. fleet \in Fleets /\ fleet' = fleet
  BY DEF RequestsInv, Serves!Arrive, Serves!store
<1>2. PICK engine \in {"profile", "legacy"} :
          Serves!Set(r, [Serves!NoRequest(fleet) EXCEPT !.at = "resolve", !.engine = engine])
  BY DEF Serves!Arrive
<1> DEFINE p == [Serves!NoRequest(fleet) EXCEPT !.at = "resolve", !.engine = engine]
<1>3. Sound(p) /\ Serves!Set(r, p)
  BY <1>1, <1>2, FreshRequest
<1> HIDE DEF p
<1>4. QED
  BY <1>1, <1>3, RequestSet

\* Only a request that has asked nobody is handed over.
LEMMA HandedOver ==
    ASSUME RequestsInv, NEW r \in Requests, UNCHANGED fleet,
           request[r].at # "done", request[r].asked = <<>>, request[r].rest = {}, request[r].list = <<>>,
           Serves!Set(r, [request[r] EXCEPT !.at = "resolve", !.engine = "legacy"])
    PROVE  RequestsInv'
<1> DEFINE q == request[r]
           p == [q EXCEPT !.at = "resolve", !.engine = "legacy"]
<1>1. Sound(q) /\ fleet' \in Fleets
  BY DEF RequestsInv
<1>2. Sound(p)
  <2>0. q.at # "done" /\ q.asked = <<>> /\ q.rest = {} /\ q.list = <<>>
    OBVIOUS
  <2> HIDE DEF q
  <2>1. q \in Query /\ q.ran = {} /\ Waiting(q) /\ Serves!IsInjective(q.asked)
    BY <1>1, <2>0 DEF Sound
  <2>2. /\ p \in Query /\ p.at = "resolve" /\ p.engine = "legacy" /\ p.rest = {} /\ p.list = <<>>
        /\ p.asked = <<>> /\ p.ran = {}
    BY <2>0, <2>1 DEF Query
  <2> HIDE DEF p
  <2>3. Waiting(p)
    BY <2>0, <2>1, <2>2 DEF Waiting
  <2>4. QED
    BY <2>0, <2>1, <2>2, <2>3 DEF Sound
<1>3. Serves!Set(r, p)
  OBVIOUS
<1> HIDE DEF p
<1>4. QED
  BY <1>1, <1>2, <1>3, RequestSet

LEMMA ResolveKept ==
    ASSUME RequestsInv, NEW r \in Requests, Serves!Resolve(r)
    PROVE  RequestsInv'
<1> DEFINE q == request[r]
           allowed == {c \in Serves!Eligible(fleet, q.engine) : fleet[c].allows}
           legacy == [q EXCEPT !.engine = "legacy"]
           found == [q EXCEPT !.at = "order", !.fleet = fleet, !.rest = Serves!Matched(fleet, allowed)]
<1>1. /\ Sound(q) /\ fleet' = fleet /\ fleet \in Fleets /\ q.at = "resolve"
      /\ Serves!Set(r, legacy) \/ Serves!End(r, q) \/ Serves!Set(r, found)
  BY DEF RequestsInv, Serves!Resolve, Serves!store
<1>2. /\ q \in Query /\ q.asked = <<>> /\ q.list = <<>> /\ q.rest = {} /\ q.ran = {}
      /\ Serves!IsInjective(q.asked)
  BY <1>1 DEF Sound
<1>3. Serves!Matched(fleet, allowed) \subseteq Serves!Channels
  BY DEF Serves!Matched, Serves!Eligible, Serves!Active
<1>4. CASE Serves!Set(r, legacy)
  <2>1. legacy = [q EXCEPT !.at = "resolve", !.engine = "legacy"]
    <3> HIDE DEF q
    <3>1. QED
      BY <1>1, <1>2 DEF Query
  <2>2. QED
    BY <1>1, <1>2, <1>4, <2>1, HandedOver
<1>5. CASE Serves!End(r, q)
  BY <1>1, <1>2, <1>5, EndKept
<1>6. CASE Serves!Set(r, found)
  <2>1. Sound(found)
    <3> HIDE DEF q, allowed
    <3>1. /\ found \in Query /\ found.at = "order" /\ found.engine = q.engine
          /\ found.list = <<>> /\ found.asked = <<>> /\ found.ran = {}
      BY <1>1, <1>2, <1>3 DEF Query
    <3> HIDE DEF found
    <3>2. Serves!IsInjective(<<>>) /\ DOMAIN <<>> = {}
      BY DEF Serves!IsInjective
    <3>3. QED
      BY <3>1, <3>2 DEF Sound, Waiting
  <2> HIDE DEF found
  <2>2. QED
    BY <1>1, <1>6, <2>1, RequestSet
<1>7. QED
  BY <1>1, <1>4, <1>5, <1>6

\* The channels that are listed leave the rest.
LEMMA Listing ==
    ASSUME NEW q, Sound(q), q.at = "order", NEW tier,
           NEW list \in Seq(Serves!Channels), Serves!IsInjective(list),
           \A i \in DOMAIN list : list[i] \in tier \cap q.rest
    PROVE  Sound([q EXCEPT !.rest = @ \ tier, !.list = @ \o list])
<1> DEFINE p == [q EXCEPT !.rest = @ \ tier, !.list = @ \o list]
<1>1. q \in Query /\ q.asked = <<>> /\ q.ran = {} /\ Serves!IsInjective(q.asked) /\ Waiting(q)
  BY DEF Sound
<1>2. /\ q.list \in Seq(Serves!Channels) /\ Serves!IsInjective(q.list)
      /\ \A i \in DOMAIN q.list : q.list[i] \notin q.rest
  BY <1>1 DEF Query, Waiting
<1>3. /\ q.list \o list \in Seq(Serves!Channels) /\ Serves!IsInjective(q.list \o list)
      /\ \A k \in DOMAIN (q.list \o list) :
            (\E i \in DOMAIN q.list : (q.list \o list)[k] = q.list[i])
            \/ \E j \in DOMAIN list : (q.list \o list)[k] = list[j]
  <2>1. \A i \in DOMAIN q.list : \A j \in DOMAIN list : q.list[i] # list[j]
    BY <1>2
  <2> DEFINE a == q.list
  <2>2. a \in Seq(Serves!Channels) /\ Serves!IsInjective(a) /\ \A i \in DOMAIN a : \A j \in DOMAIN list : a[i] # list[j]
    BY <1>2, <2>1
  <2> HIDE DEF a
  <2>3. /\ a \o list \in Seq(Serves!Channels) /\ Serves!IsInjective(a \o list)
        /\ \A k \in DOMAIN (a \o list) :
              (\E i \in DOMAIN a : (a \o list)[k] = a[i]) \/ \E j \in DOMAIN list : (a \o list)[k] = list[j]
    BY <2>2, Joined
  <2>4. QED
    BY <2>3 DEF a
<1>4. /\ p \in Query /\ p.at = "order" /\ p.rest = q.rest \ tier /\ p.list = q.list \o list
      /\ p.asked = q.asked /\ p.ran = q.ran
  BY <1>1, <1>3 DEF Query
<1> HIDE DEF p
<1>5. DOMAIN q.asked = {}
  BY <1>1
<1>6. Waiting(p)
  BY <1>2, <1>3, <1>4, <1>5 DEF Waiting
<1>7. Sound(p)
  BY <1>1, <1>4, <1>6 DEF Sound
<1>8. QED
  BY <1>7 DEF p

LEMMA OrderTierKept ==
    ASSUME GatewayAssumption, RoutingInv, NEW r \in Requests, Serves!OrderTier(r)
    PROVE  RoutingInv'
<1> DEFINE q == request[r]
           tier == Serves!NextTier(q.fleet, q.rest)
           healthy == Serves!InOrder(tier \ open)
           key == Serves!PoolKey(q.fleet, healthy)
           place == Serves!FirstPlace(q.fleet, healthy, Serves!Turn(key))
           Next_(list) == [q EXCEPT !.rest = @ \ tier, !.list = @ \o list]
<1>1. /\ Sound(q) /\ fleet' = fleet /\ fleet \in Fleets /\ q.at = "order"
      /\ \/ Len(healthy) < 2 /\ Serves!Set(r, Next_(healthy)) /\ UNCHANGED Serves!turns
         \/ /\ Len(healthy) >= 2
            /\ Serves!NextTurn(key, place) /\ recent' = Serves!LatestFirst(key)
            /\ Serves!Set(r, Next_(Serves!From(healthy, place)))
  BY Zenon DEF RoutingInv, RequestsInv, Serves!OrderTier, Serves!store
<1>2. tier \subseteq q.rest
  BY DEF Serves!NextTier
<1>3. /\ healthy \in Seq(Serves!Channels) /\ Serves!IsInjective(healthy)
      /\ \A i \in DOMAIN healthy : healthy[i] \in tier \cap q.rest
  <2> HIDE DEF q, tier
  <2>1. QED
    BY <1>2, InOrderLists
<1> HIDE DEF tier, healthy
<1>4. RequestsInv'
  <2>1. CASE Serves!Set(r, Next_(healthy))
    <3>1. Sound(Next_(healthy))
      <4> HIDE DEF q
      <4>1. QED
        BY <1>1, <1>3, Listing
    <3> DEFINE p == Next_(healthy)
    <3>2. Sound(p) /\ Serves!Set(r, p) /\ fleet' \in Fleets /\ RequestsInv
      BY <1>1, <2>1, <3>1 DEF RoutingInv
    <3> HIDE DEF p
    <3>3. QED
      BY <3>2, RequestSet
  <2>2. CASE Len(healthy) >= 2 /\ Serves!Set(r, Next_(Serves!From(healthy, place)))
    <3>1. Serves!Turn(key) \in Nat
      BY DEF Serves!Turn, RoutingInv, TurnsInv
    <3>2. q.fleet \in Fleets
      BY <1>1 DEF Sound, Query
    <3>3. place \in 1 .. Len(healthy) /\ Len(healthy) >= 1
      <4> HIDE DEF q, key
      <4>1. Len(healthy) >= 1
        BY <1>3, <2>2
      <4>2. QED
        BY <1>3, <3>1, <3>2, <4>1, FirstPlaceIn
    <3> DEFINE list == Serves!From(healthy, place)
    <3>4. /\ list \in Seq(Serves!Channels) /\ Serves!IsInjective(list)
          /\ \A i \in DOMAIN list : \E j \in DOMAIN healthy : list[i] = healthy[j]
      <4> HIDE DEF place
      <4>1. QED
        BY <1>3, <3>3, FromLists
    <3>5. \A i \in DOMAIN list : list[i] \in tier \cap q.rest
      <4> HIDE DEF list
      <4>1. QED
        BY <1>3, <3>4
    <3> DEFINE p == Next_(list)
    <3>6. Sound(p)
      <4> HIDE DEF q, list
      <4>1. QED
        BY <1>1, <3>4, <3>5, Listing
    <3>7. Serves!Set(r, p) /\ fleet' \in Fleets /\ RequestsInv
      BY <1>1, <2>2 DEF RoutingInv
    <3> HIDE DEF p
    <3>8. QED
      BY <3>6, <3>7, RequestSet
  <2>3. QED
    BY <1>1, <2>1, <2>2
<1>5. TurnsInv'
  <2>1. CASE UNCHANGED Serves!turns
    BY <2>1 DEF Serves!turns, RoutingInv, TurnsInv
  <2>2. CASE Serves!NextTurn(key, place) /\ recent' = Serves!LatestFirst(key)
    <3> HIDE DEF key, place
    <3>1. QED
      BY <2>2, TurnTaken DEF RoutingInv
  <2>3. QED
    BY <1>1, <2>1, <2>2
<1>6. QED
  BY <1>4, <1>5 DEF RoutingInv

LEMMA OrderedKept ==
    ASSUME RequestsInv, NEW r \in Requests, Serves!Ordered(r)
    PROVE  RequestsInv'
<1> DEFINE q == request[r]
           p == [q EXCEPT !.at = "try"]
<1>1. /\ Sound(q) /\ fleet' = fleet /\ fleet \in Fleets /\ q.at = "order" /\ q.rest = {}
      /\ \/ Serves!Set(r, p)
         \/ Serves!End(r, q)
         \/ q.list = <<>> /\ Serves!Set(r, [q EXCEPT !.at = "resolve", !.engine = "legacy"])
  BY DEF RequestsInv, Serves!Ordered, Serves!store
<1>2. q \in Query /\ q.asked = <<>> /\ q.ran = {} /\ Serves!IsInjective(q.asked) /\ Waiting(q)
  BY <1>1 DEF Sound
<1>3. CASE Serves!Set(r, p)
  <2>1. Sound(p)
    <3> HIDE DEF q
    <3>1. /\ p \in Query /\ p.at = "try" /\ p.list = q.list /\ p.rest = q.rest
          /\ p.asked = <<>> /\ p.ran = {}
      BY <1>2 DEF Query
    <3> HIDE DEF p
    <3>2. Waiting(p)
      BY <1>2, <3>1 DEF Waiting
    <3>3. QED
      BY <1>1, <1>2, <3>1, <3>2 DEF Sound
  <2> HIDE DEF p
  <2>2. QED
    BY <1>1, <1>3, <2>1, RequestSet
<1>4. CASE Serves!End(r, q)
  BY <1>1, <1>2, <1>4, EndKept
<1>5. CASE q.list = <<>> /\ Serves!Set(r, [q EXCEPT !.at = "resolve", !.engine = "legacy"])
  BY <1>1, <1>2, <1>5, HandedOver
<1>6. QED
  BY <1>1, <1>3, <1>4, <1>5

LEMMA TryKept ==
    ASSUME GatewayAssumption, RequestsInv, NEW r \in Requests, Serves!Try(r)
    PROVE  RequestsInv'
<1> DEFINE q == request[r]
           taken == [q EXCEPT !.bound = q.engine = "profile"]
           asking == [taken EXCEPT !.at = "ask", !.keys = q.fleet[Head(q.list)].keys]
<1>1. /\ Sound(q) /\ fleet' = fleet /\ fleet \in Fleets /\ q.at = "try" /\ q.list # <<>>
      /\ \/ q.engine = "profile" /\ Serves!Set(r, Serves!Pass(q))
         \/ Serves!Set(r, Serves!Pass(taken))
         \/ Serves!Set(r, asking)
         \/ Serves!End(r, q)
  BY Zenon DEF RequestsInv, Serves!Try, Serves!store
<1>2. /\ q \in Query /\ q.ran = {} /\ Serves!IsInjective(q.asked) /\ Waiting(q)
      /\ q.list \in Seq(Serves!Channels)
      /\ Tail(q.list) \in Seq(Serves!Channels)
      /\ q.engine = "profile" /\ ~q.bound => q.asked = <<>>
  BY <1>1, FirstTaken DEF Sound, Query
<1>3. CASE q.engine = "profile" /\ Serves!Set(r, Serves!Pass(q))
  <2> DEFINE p == Serves!Pass(q)
  <2>1. Sound(p)
    <3> HIDE DEF q
    <3>1. /\ p \in Query /\ p.at = "try" /\ p.engine = q.engine /\ p.list = Tail(q.list)
          /\ p.rest = q.rest /\ p.ran = {} /\ p.asked = q.asked /\ p.bound = q.bound
      BY <1>2 DEF Query, Serves!Pass
    <3> HIDE DEF p
    <3>2. p.bound \/ (q.asked = <<>> /\ p.asked = <<>>) \/ q.engine = "legacy"
      BY <1>2, <1>3, <3>1
    <3>3. QED
      BY <1>1, <3>1, <3>2, PassIsSound
  <2> HIDE DEF p
  <2>2. Serves!Set(r, p)
    BY <1>3 DEF p
  <2>3. QED
    BY <1>1, <2>1, <2>2, RequestSet
<1>4. CASE Serves!Set(r, Serves!Pass(taken))
  <2> DEFINE p == Serves!Pass(taken)
  <2>1. Sound(p)
    <3> HIDE DEF q
    <3>1. /\ p \in Query /\ p.at = "try" /\ p.engine = q.engine /\ p.list = Tail(q.list)
          /\ p.rest = q.rest /\ p.ran = {} /\ p.asked = q.asked /\ p.bound = (q.engine = "profile")
          /\ q.engine \in {"profile", "legacy"}
      BY <1>2 DEF Query, Serves!Pass
    <3> HIDE DEF p
    <3>2. p.bound \/ (q.asked = <<>> /\ p.asked = <<>>) \/ q.engine = "legacy"
      BY <3>1
    <3>3. QED
      BY <1>1, <3>1, <3>2, PassIsSound
  <2> HIDE DEF p
  <2>2. Serves!Set(r, p)
    BY <1>4 DEF p
  <2>3. QED
    BY <1>1, <2>1, <2>2, RequestSet
<1>5. CASE Serves!Set(r, asking)
  <2>1. q.fleet[Head(q.list)].keys \in Nat \ {0}
    <3>1. Head(q.list) \in Serves!Channels /\ q.fleet \in Fleets
      BY <1>1, <1>2, FirstTaken DEF Query
    <3> HIDE DEF q
    <3>2. q.fleet \in [Serves!Channels -> Serves!Channel]
      BY <3>1 DEF GatewayAssumption, Serves!RoutingAssumption
    <3>3. QED
      BY <3>1, <3>2 DEF Serves!Channel
  <2>2. Sound(asking)
    <3> HIDE DEF q
    <3>1. /\ asking \in Query /\ asking.at = "ask" /\ asking.list = q.list /\ asking.rest = q.rest
          /\ asking.ran = {} /\ asking.asked = q.asked /\ asking.keys \in Nat \ {0}
          /\ asking.bound = (asking.engine = "profile")
      BY <1>2, <2>1 DEF Query
    <3> HIDE DEF asking
    <3>2. Waiting(asking)
      BY <1>1, <1>2, <3>1 DEF Waiting
    <3>3. QED
      BY <1>1, <1>2, <3>1, <3>2 DEF Sound
  <2> HIDE DEF asking
  <2>3. QED
    BY <1>1, <1>5, <2>2, RequestSet
<1>6. CASE Serves!End(r, q)
  BY <1>1, <1>2, <1>6, EndKept
<1>7. QED
  BY <1>1, <1>3, <1>4, <1>5, <1>6

LEMMA ExhaustedKept ==
    ASSUME RequestsInv, NEW r \in Requests, Serves!Exhausted(r)
    PROVE  RequestsInv'
<1> DEFINE q == request[r]
<1>1. /\ Sound(q) /\ fleet' = fleet /\ q.at = "try" /\ q.list = <<>>
      /\ \/ Serves!End(r, q)
         \/ /\ ~(q.engine = "legacy" \/ q.bound)
            /\ Serves!Set(r, [q EXCEPT !.at = "resolve", !.engine = "legacy"])
  BY DEF RequestsInv, Serves!Exhausted, Serves!store
<1>2. q \in Query /\ q.ran = {} /\ Serves!IsInjective(q.asked)
  BY <1>1 DEF Sound
<1>3. CASE Serves!End(r, q)
  BY <1>1, <1>2, <1>3, EndKept
<1>4. CASE /\ ~(q.engine = "legacy" \/ q.bound)
           /\ Serves!Set(r, [q EXCEPT !.at = "resolve", !.engine = "legacy"])
  <2>1. q.engine = "profile" /\ ~q.bound
    BY <1>2, <1>4 DEF Query
  <2>2. q.asked = <<>> /\ q.rest = {}
    BY <1>1, <2>1 DEF Sound
  <2>3. QED
    BY <1>1, <1>4, <2>2, HandedOver
<1>5. QED
  BY <1>1, <1>3, <1>4

LEMMA CancelledKept ==
    ASSUME RequestsInv, NEW r \in Requests, Serves!Cancelled(r)
    PROVE  RequestsInv'
<1> DEFINE q == request[r]
<1>1. Sound(q) /\ fleet' = fleet /\ q.at # "done" /\ Serves!End(r, q)
  BY DEF RequestsInv, Serves!Cancelled, Serves!store
<1>2. q \in Query /\ q.ran = {} /\ Serves!IsInjective(q.asked)
  BY <1>1 DEF Sound
<1>3. QED
  BY <1>1, <1>2, EndKept

LEMMA AskKept ==
    ASSUME GatewayAssumption, RequestsInv, NEW r \in Requests, NEW answer \in Replies,
           Serves!Ask(r, answer)
    PROVE  RequestsInv'
<1> DEFINE q == request[r]
           exchange == <<Head(q.list), q.keys>>
           ran == IF answer \in Serves!MayHaveRun THEN q.ran \cup {Len(q.asked) + 1} ELSE q.ran
           after == [q EXCEPT !.asked = Append(@, exchange),
                              !.ran = IF answer \in Serves!MayHaveRun
                                      THEN @ \cup {Len(q.asked) + 1} ELSE @]
           next == [after EXCEPT !.keys = @ - 1]
<1>1. /\ Sound(q) /\ fleet' = fleet /\ fleet \in Fleets /\ q.at = "ask"
      /\ \/ Serves!Rotates(q.engine, answer) /\ q.keys > 1 /\ Serves!Set(r, next)
         \/ Serves!FailoverEligible(q.engine, answer) /\ Serves!Set(r, Serves!Pass(after))
         \/ Serves!End(r, after)
  BY Zenon DEF RequestsInv, Serves!Ask, Serves!store
<1>2. /\ q \in Query /\ q.ran = {} /\ Serves!IsInjective(q.asked) /\ Waiting(q)
      /\ q.list \in Seq(Serves!Channels)
      /\ q.list # <<>> /\ q.keys \in Nat \ {0} /\ q.rest = {} /\ q.asked \in Seq(Serves!Channels \X Nat)
      /\ q.engine = "profile" => q.bound
  BY <1>1 DEF Sound, Query
<1>3. /\ Head(q.list) = q.list[1] /\ Head(q.list) \in Serves!Channels /\ Tail(q.list) \in Seq(Serves!Channels)
      /\ 1 \in DOMAIN q.list
  BY <1>2, FirstTaken
<1>4. exchange \in Serves!Channels \X Nat /\ exchange[1] = q.list[1] /\ exchange[2] = q.keys
  BY <1>2, <1>3
<1> HIDE DEF exchange
<1>5. /\ Append(q.asked, exchange) \in Seq(Serves!Channels \X Nat)
      /\ Len(Append(q.asked, exchange)) = Len(q.asked) + 1 /\ Len(q.asked) + 1 \in Nat
  BY <1>2, <1>4
<1>6. /\ after \in Query /\ after.at = "ask" /\ after.engine = q.engine /\ after.list = q.list
      /\ after.rest = {} /\ after.bound = q.bound /\ after.keys = q.keys
      /\ after.asked = Append(q.asked, exchange) /\ after.ran = ran
  <2>1. ran \in SUBSET Nat
    BY <1>2, <1>5
  <2> HIDE DEF q
  <2>2. QED
    BY <1>1, <1>2, <1>5, <2>1 DEF Query
<1> HIDE DEF after
\* The exchange is a new one.
<1>7. Sound([Serves!Pass(after) EXCEPT !.ran = {}])
  <2> DEFINE p == [Serves!Pass(after) EXCEPT !.ran = {}]
  <2>1. /\ p \in Query /\ p.at = "try" /\ p.engine = q.engine /\ p.list = Tail(q.list)
        /\ p.rest = q.rest /\ p.ran = {} /\ p.bound = q.bound
        /\ p.asked = Append(q.asked, <<Head(q.list), q.keys>>)
    <3> HIDE DEF q
    <3>1. QED
      BY <1>2, <1>3, <1>6 DEF Query, Serves!Pass, exchange
  <2>2. q.engine \in {"profile", "legacy"}
    BY <1>2 DEF Query
  <2> HIDE DEF p
  <2>3. p.bound \/ (q.asked = <<>> /\ p.asked = <<>>) \/ q.engine = "legacy"
    BY <1>2, <2>1, <2>2
  <2>4. Sound(p)
    <3>1. \E n \in Nat \ {0} : /\ q.at = "ask" /\ n <= q.keys
                               /\ p.asked = Append(q.asked, <<Head(q.list), n>>)
      BY <1>1, <1>2, <2>1
    <3> HIDE DEF q
    <3>2. QED
      BY <1>1, <1>2, <2>1, <2>3, <3>1, PassIsSound
  <2>5. QED
    BY <2>4 DEF p
<1>8. Serves!IsInjective(after.asked)
  <2> DEFINE p == [Serves!Pass(after) EXCEPT !.ran = {}]
  <2>1. p.asked = after.asked
    BY <1>6 DEF Query, Serves!Pass
  <2>2. Serves!IsInjective(p.asked)
    <3> HIDE DEF p
    <3>1. QED
      BY <1>7 DEF Sound, p
  <2>3. QED
    BY <2>1, <2>2
<1>9. CASE Serves!End(r, after)
  <2>1. after.ran # {} => after.ran = {Len(after.asked)}
    BY <1>2, <1>5, <1>6
  <2>2. QED
    BY <1>1, <1>6, <1>8, <1>9, <2>1, EndKept
<1>10. CASE Serves!FailoverEligible(q.engine, answer) /\ Serves!Set(r, Serves!Pass(after))
  <2>1. ran = {}
    BY <1>2, <1>10 DEF Serves!FailoverEligible, Serves!MayHaveRun
  <2>2. [Serves!Pass(after) EXCEPT !.ran = {}] = Serves!Pass(after)
    <3> HIDE DEF q
    <3>1. QED
      BY <1>6, <2>1 DEF Query, Serves!Pass
  <2> DEFINE p == Serves!Pass(after)
  <2>3. Sound(p) /\ Serves!Set(r, p)
    BY <1>7, <1>10, <2>2
  <2> HIDE DEF p
  <2>4. QED
    BY <1>1, <2>3, RequestSet
<1>11. CASE Serves!Rotates(q.engine, answer) /\ q.keys > 1 /\ Serves!Set(r, next)
  <2>1. ran = {}
    BY <1>2, <1>11 DEF Serves!Rotates, Serves!MayHaveRun
  <2> DEFINE left == q.keys - 1
  <2>2. left \in Nat \ {0} /\ left < q.keys
    BY <1>2, <1>11
  <2>3. /\ next \in Query /\ next.at = "ask" /\ next.list = q.list /\ next.rest = {}
        /\ next.ran = {} /\ next.asked = after.asked /\ next.keys = left
        /\ next.bound = q.bound /\ next.engine = q.engine
    <3>1. next = [after EXCEPT !.keys = left]
      BY <1>6
    <3> HIDE DEF q, next, left
    <3>2. QED
      BY <1>6, <2>1, <2>2, <3>1 DEF Query
  <2> HIDE DEF next, left
  <2>4. Waiting(next)
    <3>1. /\ Serves!IsInjective(q.list)
          /\ \A k \in DOMAIN q.asked : \A i \in DOMAIN q.list :
                q.asked[k][1] = q.list[i] => i = 1 /\ q.asked[k][2] > q.keys
      BY <1>2 DEF Waiting
    <3> DEFINE m == Len(q.asked)
               all == next.asked
    <3>2. /\ m \in Nat /\ DOMAIN q.asked = 1 .. m /\ DOMAIN all = 1 .. m + 1
          /\ all[m + 1] = exchange /\ \A k \in 1 .. m : all[k] = q.asked[k]
      BY <1>2, <1>4, <1>6, <2>3
    <3>3. \A k \in DOMAIN q.asked : q.asked[k] \in Serves!Channels \X Nat
      BY <1>2
    <3> HIDE DEF all, m
    <3>4. \A k \in 1 .. m + 1 : k \in 1 .. m \/ k = m + 1
      BY <3>2
    <3>5. ASSUME NEW k \in 1 .. m + 1, NEW i \in DOMAIN q.list, all[k][1] = q.list[i]
          PROVE  i = 1 /\ all[k][2] > left
      <4>1. CASE k = m + 1
        BY <1>2, <1>3, <1>4, <2>2, <3>1, <3>2, <3>5, <4>1 DEF Serves!IsInjective
      <4>2. CASE k \in 1 .. m
        <5>1. all[k] = q.asked[k] /\ k \in DOMAIN q.asked
          BY <3>2, <4>2
        <5>2. i = 1 /\ q.asked[k][2] > q.keys /\ q.asked[k][2] \in Nat
          BY <3>1, <3>3, <3>5, <5>1
        <5>3. QED
          BY <1>2, <2>2, <5>1, <5>2
      <4>3. QED
        BY <3>4, <4>1, <4>2
    <3>6. QED
      BY <2>3, <3>1, <3>2, <3>5 DEF Waiting, all
  <2>5. Sound(next)
    BY <1>2, <1>8, <2>2, <2>3, <2>4 DEF Sound
  <2>6. Serves!Set(r, next)
    BY <1>11
  <2>7. QED
    BY <1>1, <2>5, <2>6, RequestSet
<1>12. QED
  BY <1>1, <1>9, <1>10, <1>11

LEMMA RoutingStarts == GatewayAssumption /\ Serves!Init => RoutingInv
<1> SUFFICES ASSUME GatewayAssumption, Serves!Init PROVE RoutingInv
  OBVIOUS
<1>1. DOMAIN pools = {} /\ DOMAIN recent = {} /\ Len(recent) = 0 /\ MaxPools \in Nat
  BY DEF Serves!Init, GatewayAssumption, Serves!RoutingAssumption
<1>2. TurnsInv
  BY <1>1 DEF Serves!Init, TurnsInv, Serves!Range, Serves!IsInjective
<1>3. RequestsInv
  BY FreshRequest DEF Serves!Init, RequestsInv
<1>4. QED
  BY <1>2, <1>3 DEF RoutingInv

LEMMA RoutingKept ==
    ASSUME GatewayAssumption, RoutingInv, [Serves!Next]_(Serves!vars)
    PROVE  RoutingInv'
<1>1. RequestsInv /\ TurnsInv
  BY DEF RoutingInv
<1>2. ASSUME UNCHANGED Serves!turns, RequestsInv' PROVE RoutingInv'
  BY <1>1, <1>2 DEF Serves!turns, RoutingInv, TurnsInv
<1>3. ASSUME UNCHANGED request, fleet' \in Fleets PROVE RequestsInv'
  BY <1>1, <1>3 DEF RequestsInv
<1>4. ASSUME NEW c \in Serves!Channels, Serves!Cool(c) PROVE RoutingInv'
  BY <1>1, <1>2, <1>3, <1>4 DEF Serves!Cool, RequestsInv
<1>5. ASSUME NEW c \in Serves!Channels, Serves!SaveChannel(c) PROVE RoutingInv'
  <2>1. TurnsInv'
    BY <1>5, NoTurns DEF Serves!SaveChannel
  <2>2. RequestsInv'
    BY <1>3, <1>5 DEF Serves!SaveChannel
  <2>3. QED
    BY <2>1, <2>2 DEF RoutingInv
<1>6. CASE Serves!Bind
  BY <1>2, <1>3, <1>6 DEF Serves!Bind
<1>7. CASE UNCHANGED Serves!vars
  <2>1. UNCHANGED Serves!turns /\ UNCHANGED request /\ fleet' \in Fleets
    BY <1>1, <1>7 DEF Serves!vars, Serves!store, RequestsInv
  <2>2. QED
    BY <1>2, <1>3, <2>1
<1>8. ASSUME NEW r \in Requests, Serves!RequestStep(r) PROVE RoutingInv'
  <2>1. CASE Serves!OrderTier(r)
    BY <2>1, OrderTierKept
  <2>2. CASE Serves!Arrive(r)
    BY <1>1, <1>2, <2>2, ArriveKept DEF Serves!Arrive
  <2>3. CASE Serves!Leave(r)
    BY <1>1, <1>2, <2>3, LeaveKept DEF Serves!Leave
  <2>4. CASE Serves!Resolve(r)
    BY <1>1, <1>2, <2>4, ResolveKept DEF Serves!Resolve
  <2>5. CASE Serves!Ordered(r)
    BY <1>1, <1>2, <2>5, OrderedKept DEF Serves!Ordered
  <2>6. CASE Serves!Try(r)
    BY <1>1, <1>2, <2>6, TryKept DEF Serves!Try
  <2>7. CASE Serves!Exhausted(r)
    BY <1>1, <1>2, <2>7, ExhaustedKept DEF Serves!Exhausted
  <2>8. CASE Serves!Cancelled(r)
    BY <1>1, <1>2, <2>8, CancelledKept DEF Serves!Cancelled
  <2>9. QED
    BY <1>8, <2>1, <2>2, <2>3, <2>4, <2>5, <2>6, <2>7, <2>8 DEF Serves!RequestStep
<1>9. ASSUME NEW r \in Requests, NEW answer \in Replies, Serves!Ask(r, answer) PROVE RoutingInv'
  BY <1>1, <1>2, <1>9, AskKept DEF Serves!Ask
<1>10. QED
  BY <1>4, <1>5, <1>6, <1>7, <1>8, <1>9 DEF Serves!Next

LEMMA RoutingIsRight == RoutingInv => Serves!SubmittedOnce /\ Serves!TurnsKept
<1> SUFFICES ASSUME RoutingInv PROVE Serves!SubmittedOnce /\ Serves!TurnsKept
  OBVIOUS
<1>1. Serves!TurnsKept
  BY DEF RoutingInv, TurnsInv, Serves!TurnsKept
<1>2. Serves!SubmittedOnce
  <2> SUFFICES ASSUME NEW r \in Requests
               PROVE  /\ Serves!IsInjective(request[r].asked)
                      /\ request[r].ran # {} =>
                            request[r].at = "done" /\ request[r].ran = {Len(request[r].asked)}
    BY DEF Serves!SubmittedOnce
  <2>1. Sound(request[r])
    BY DEF RoutingInv, RequestsInv
  <2>2. QED
    BY <2>1 DEF Sound
<1>3. QED
  BY <1>1, <1>2

\* Whatever else requests do, a key of a channel is asked at most once for a
\* request and none after the answer that may have run it, and the turns kept
\* are those of the sets of channels used last.
THEOREM RequestsAreRouted ==
    ASSUME GatewayAssumption
    PROVE  Spec => []RequestsRouted
<1>1. Serves!Spec => []RoutingInv
  BY RoutingStarts, RoutingKept, PTL DEF Serves!Spec
<1>2. QED
  BY <1>1, RoutingIsRight, Components, PTL DEF RequestsRouted

-----------------------------------------------------------------------------
(* The largest and the smallest of the numbers of revisions and bindings.    *)

LEMMA MaxStands ==
    ASSUME GatewayAssumption, NEW S \in SUBSET (0 .. MaxRevision), S # {}
    PROVE  Keeps!Max(S) \in S /\ \A x \in S : x <= Keeps!Max(S)
<1> DEFINE T == {MaxRevision - x : x \in S}
<1>1. MaxRevision \in Nat
  BY DEF GatewayAssumption, Keeps!CatalogAssumption
<1>2. T \in SUBSET Nat /\ T # {}
  <2>1. \A x \in S : x \in Int /\ x <= MaxRevision
    BY <1>1
  <2>2. \A x \in S : MaxRevision - x \in Nat
    BY <1>1, <2>1
  <2>3. QED
    BY <2>2
<1>3. PICK least \in T : \A k \in T : least <= k
  <2> HIDE DEF T
  <2>1. QED
    BY <1>2, LeastElement
<1>4. PICK x \in S : least = MaxRevision - x
  OBVIOUS
<1>5. \A y \in S : y <= x
  <2> SUFFICES ASSUME NEW y \in S PROVE y <= x
    OBVIOUS
  <2>1. MaxRevision - x <= MaxRevision - y
    BY <1>3, <1>4
  <2>2. x \in Int /\ y \in Int
    OBVIOUS
  <2>3. QED
    BY <1>1, <2>1, <2>2
<1>6. \E z \in S : \A y \in S : z >= y
  BY <1>5
<1>7. QED
  BY <1>6 DEF Keeps!Max

LEMMA MinStands ==
    ASSUME NEW S \in SUBSET Nat, S # {}
    PROVE  Keeps!Min(S) \in S
<1>1. \E n \in S : \A k \in S : n <= k
  BY LeastElement
<1>2. QED
  BY <1>1 DEF Keeps!Min

\* The highest revision there is, or 0.
LEMMA HighestStands ==
    ASSUME GatewayAssumption, NEW rows
    PROVE  /\ Keeps!Highest(rows) \in 0 .. MaxRevision
           /\ \A n \in Keeps!Revisions : rows[n] # Keeps!NoRevision => n <= Keeps!Highest(rows)
           /\ Keeps!Highest(rows) # 0 =>
                  /\ Keeps!Highest(rows) \in Keeps!Revisions
                  /\ rows[Keeps!Highest(rows)] # Keeps!NoRevision
<1> DEFINE S == {n \in Keeps!Revisions : rows[n] # Keeps!NoRevision} \cup {0}
<1>1. S \in SUBSET (0 .. MaxRevision) /\ S # {}
  BY DEF Keeps!Revisions, GatewayAssumption, Keeps!CatalogAssumption
<1>2. Keeps!Max(S) \in S /\ \A x \in S : x <= Keeps!Max(S)
  <2> HIDE DEF S
  <2>1. QED
    BY <1>1, MaxStands
<1>3. QED
  BY <1>1, <1>2 DEF Keeps!Highest

\* ... is the one that was asked for.
LEMMA HighestIs ==
    ASSUME GatewayAssumption, NEW rows, NEW n \in 0 .. MaxRevision,
           n # 0 => rows[n] # Keeps!NoRevision,
           \A m \in Keeps!Revisions : rows[m] # Keeps!NoRevision => m <= n
    PROVE  Keeps!Highest(rows) = n
<1>1. MaxRevision \in Nat /\ Keeps!Revisions = 1 .. MaxRevision
  BY DEF GatewayAssumption, Keeps!CatalogAssumption, Keeps!Revisions
<1> DEFINE h == Keeps!Highest(rows)
<1>2. /\ h \in 0 .. MaxRevision
      /\ \A m \in Keeps!Revisions : rows[m] # Keeps!NoRevision => m <= h
      /\ h # 0 => h \in Keeps!Revisions /\ rows[h] # Keeps!NoRevision
  BY HighestStands
<1> HIDE DEF h
<1>3. n # 0 => n <= h
  BY <1>1, <1>2
<1>4. h # 0 => h <= n
  BY <1>1, <1>2
<1>5. h = n
  BY <1>1, <1>2, <1>3, <1>4
<1>6. QED
  BY <1>5 DEF h

LEMMA LatestAfter ==
    ASSUME GatewayAssumption, NEW m \in 0 .. MaxRevision, NEW n \in Keeps!Revisions
    PROVE  /\ Keeps!Max({m, n}) \in {m, n} /\ m <= Keeps!Max({m, n}) /\ n <= Keeps!Max({m, n})
           /\ Keeps!Max({m, n}) \in 0 .. MaxRevision
<1>1. {m, n} \in SUBSET (0 .. MaxRevision) /\ {m, n} # {}
  BY DEF Keeps!Revisions, GatewayAssumption, Keeps!CatalogAssumption
<1>2. Keeps!Max({m, n}) \in {m, n} /\ \A x \in {m, n} : x <= Keeps!Max({m, n})
  BY <1>1, MaxStands
<1>3. QED
  BY <1>1, <1>2

-----------------------------------------------------------------------------
(* The types of the rows and of the editors.                                 *)

LEMMA CatalogRecords ==
    ASSUME GatewayAssumption
    PROVE  /\ MaxRevision \in Nat \ {0} /\ Keeps!Revisions = 1 .. MaxRevision /\ 1 \in Keeps!Revisions
           /\ 0 \in 0 .. MaxRevision /\ 0 \in 0 .. MaxBindings /\ Keeps!Revisions \subseteq 0 .. MaxRevision
           /\ Keeps!Ids \subseteq 0 .. MaxBindings /\ Keeps!Ids \subseteq Nat
           /\ 0 \notin Keeps!Ids /\ 0 \notin Keeps!Revisions
           /\ Preset \in Contents /\ \A c \in Contents : Offers[c] \subseteq Keeps!Operations
           /\ Keeps!NoRevision \in Keeps!Revision
           /\ \A c \in Contents, s \in {"draft", "published", "retired"} :
                 [state |-> s, content |-> c] \in Keeps!Revision
           /\ Keeps!NoTask \in Keeps!Task /\ Keeps!NoEdit \in Keeps!Edit
           /\ \A b \in Keeps!Binding : b # Keeps!NoBinding
           /\ \A op \in Keeps!Operations, q \in {0, Keeps!Default}, n \in Keeps!Revisions :
                  Keeps!Wildcard(op, q, n) \in Keeps!Binding
<1>1. /\ MaxRevision \in Nat \ {0} /\ MaxBindings \in Nat /\ Preset \in Contents
  BY DEF GatewayAssumption, Keeps!CatalogAssumption
<1>2. /\ Keeps!Revisions = 1 .. MaxRevision /\ 1 \in Keeps!Revisions
      /\ 0 \notin Keeps!Ids /\ 0 \notin Keeps!Revisions
      /\ 0 \in 0 .. MaxRevision /\ 0 \in 0 .. MaxBindings /\ Keeps!Revisions \subseteq 0 .. MaxRevision
      /\ Keeps!Ids \subseteq 0 .. MaxBindings /\ Keeps!Ids \subseteq Nat
  BY <1>1 DEF Keeps!Revisions, Keeps!Ids
<1>3. \A c \in Contents : Offers[c] \subseteq Keeps!Operations
  BY DEF Keeps!Operations
<1>4. /\ Keeps!NoRevision \in Keeps!Revision
      /\ \A c \in Contents, s \in {"draft", "published", "retired"} :
             [state |-> s, content |-> c] \in Keeps!Revision
  BY DEF Keeps!NoRevision, Keeps!Revision
<1>5. Keeps!NoTask \in Keeps!Task /\ Keeps!NoEdit \in Keeps!Edit
  BY <1>2 DEF Keeps!NoTask, Keeps!Task, Keeps!NoEdit, Keeps!Edit
<1>6. \A b \in Keeps!Binding : b # Keeps!NoBinding
  <2>1. \A b \in Keeps!Binding : b.revision \in Keeps!Revisions
    BY DEF Keeps!Binding
  <2>2. Keeps!NoBinding.revision = 0
    BY DEF Keeps!NoBinding
  <2>3. QED
    BY <1>2, <2>1, <2>2
<1>7. \A op \in Keeps!Operations, q \in {0, Keeps!Default}, n \in Keeps!Revisions :
          Keeps!Wildcard(op, q, n) \in Keeps!Binding
  BY DEF Keeps!Wildcard, Keeps!Binding
<1>8. QED
  BY <1>1, <1>2, <1>3, <1>4, <1>5, <1>6, <1>7

LEMMA RevisionTyped ==
    ASSUME Keeps!TypeOK, NEW n \in Keeps!Revisions
    PROVE  /\ revision[n] \in Keeps!Revision
           /\ Keeps!Exists(n) => revision[n].content \in Contents
                            /\ revision[n].state \in {"draft", "published", "retired"}
           /\ Keeps!Published(n) => Keeps!Immutable(n)
           /\ Keeps!Immutable(n) => Keeps!Exists(n)
<1>1. revision[n] \in Keeps!Revision
  BY DEF Keeps!TypeOK
<1>2. QED
  BY <1>1 DEF Keeps!Revision, Keeps!NoRevision, Keeps!Exists, Keeps!Published, Keeps!Immutable

\* Placed: each of the operations has one row.
LEMMA PlacesTyped ==
    ASSUME GatewayAssumption, NEW rows, NEW ops \in SUBSET Keeps!Operations,
           NEW q \in {0, Keeps!Default}, NEW n \in Keeps!Revisions,
           NEW place \in Keeps!Places(rows, ops, q)
    PROVE  /\ \A i \in Keeps!Ids :
                  \/ \E op \in ops : /\ place[op] = i
                                     /\ Keeps!Placed(rows, place, q, n)[i] = Keeps!Wildcard(op, q, n)
                  \/ Keeps!Placed(rows, place, q, n)[i] = rows[i] /\ \A op \in ops : place[op] # i
           /\ \A op \in ops : /\ place[op] \in Keeps!Ids
                             /\ Keeps!Placed(rows, place, q, n)[place[op]] = Keeps!Wildcard(op, q, n)
           /\ (\A i \in Keeps!Ids : rows[i] \in Keeps!Binding \cup {Keeps!NoBinding}) =>
                  Keeps!Placed(rows, place, q, n) \in [Keeps!Ids -> Keeps!Binding \cup {Keeps!NoBinding}]
<1>1. place \in [ops -> Keeps!Ids] /\ Keeps!IsInjective(place)
  BY DEF Keeps!Places
<1>2. \A op \in ops : (CHOOSE o \in DOMAIN place : place[o] = place[op]) = op
  BY <1>1 DEF Keeps!IsInjective
<1>3. \A i \in Keeps!Ids : i \in Keeps!Range(place) <=> \E op \in ops : place[op] = i
  BY <1>1 DEF Keeps!Range
<1>4. \A i \in Keeps!Ids :
         \/ \E op \in ops : /\ place[op] = i
                            /\ Keeps!Placed(rows, place, q, n)[i] = Keeps!Wildcard(op, q, n)
         \/ Keeps!Placed(rows, place, q, n)[i] = rows[i] /\ \A op \in ops : place[op] # i
  <2> SUFFICES ASSUME NEW i \in Keeps!Ids
               PROVE  \/ \E op \in ops : /\ place[op] = i
                                         /\ Keeps!Placed(rows, place, q, n)[i] = Keeps!Wildcard(op, q, n)
                      \/ /\ Keeps!Placed(rows, place, q, n)[i] = rows[i]
                         /\ \A op \in ops : place[op] # i
    OBVIOUS
  <2>1. CASE i \in Keeps!Range(place)
    <3>1. PICK op \in ops : place[op] = i
      BY <1>3, <2>1
    <3>2. Keeps!Placed(rows, place, q, n)[i] = Keeps!Wildcard(op, q, n)
      BY <1>2, <2>1, <3>1 DEF Keeps!Placed
    <3>3. QED
      BY <3>1, <3>2
  <2>2. CASE i \notin Keeps!Range(place)
    BY <1>3, <2>2 DEF Keeps!Placed
  <2>3. QED
    BY <2>1, <2>2
<1>5. \A op \in ops : /\ place[op] \in Keeps!Ids
                      /\ Keeps!Placed(rows, place, q, n)[place[op]] = Keeps!Wildcard(op, q, n)
  BY <1>1, <1>2, <1>3 DEF Keeps!Placed
<1>6. ASSUME \A i \in Keeps!Ids : rows[i] \in Keeps!Binding \cup {Keeps!NoBinding}
      PROVE  Keeps!Placed(rows, place, q, n) \in [Keeps!Ids -> Keeps!Binding \cup {Keeps!NoBinding}]
  <2>1. \A i \in Keeps!Ids : Keeps!Placed(rows, place, q, n)[i] \in Keeps!Binding \cup {Keeps!NoBinding}
    BY <1>4, <1>6, CatalogRecords
  <2>2. Keeps!Placed(rows, place, q, n) = [i \in Keeps!Ids |-> Keeps!Placed(rows, place, q, n)[i]]
    BY DEF Keeps!Placed
  <2>3. QED
    BY <2>1, <2>2
<1>7. QED
  BY <1>4, <1>5, <1>6

\* What a submission has: a revision it is bound to, the content it read, and
\* once it is stored, that content of its revision or in the archive.
Remembered(q) ==
    /\ q.pc \in {"bound", "loaded"} => q.attached \in Keeps!Revisions
    /\ q.pc = "loaded" => q.content \in Contents /\ q.digest = q.content
    /\ q.pc \in {"running", "done"} /\ ~q.orphan =>
          \/ /\ q.attached \in Keeps!Revisions /\ Keeps!Immutable(q.attached)
             /\ revision[q.attached].content = q.content /\ q.digest \in {None, q.content}
          \/ q.attached = 0 /\ q.digest = q.content /\ q.content \in archive
Prepared(q) ==
    /\ q.pc = "idle" => q.todo = {}
    /\ q.pc = "draft" => q.number \in Keeps!Revisions /\ q.content \in Contents
    /\ q.pc \in {"peers", "write"} => q.row \in Keeps!Binding
    /\ q.pc = "bind" => q.number \in Keeps!Revisions /\ q.content \in Contents
    /\ q.pc = "reconcile" \/ q.todo # {} => q.number \in Keeps!Revisions
TasksInv == \A t \in Tasks : Remembered(task[t])

\* What an editor has read or checked.
EditorsInv == \A e \in Editors : Prepared(edit[e])

LEMMA CatalogTypeStarts == GatewayAssumption /\ Keeps!Init => Keeps!TypeOK
<1> SUFFICES ASSUME GatewayAssumption, Keeps!Init PROVE Keeps!TypeOK
  OBVIOUS
<1>1. there \in BOOLEAN /\ latest \in 0 .. MaxRevision
  BY CatalogRecords DEF Keeps!Init
<1>2. revision \in [Keeps!Revisions -> Keeps!Revision]
  BY CatalogRecords DEF Keeps!Init
<1>3. task \in [Tasks -> Keeps!Task]
  <2>1. \A o \in Offers[Preset] : Keeps!Older(o) \in Keeps!Task
    BY CatalogRecords DEF Keeps!Older, Keeps!NoTask, Keeps!Task
  <2>2. QED
    BY <2>1, CatalogRecords DEF Keeps!Init
<1>4. QED
  BY <1>1, <1>2, <1>3, CatalogRecords DEF Keeps!Init, Keeps!TypeOK

\* What an editor or a submission becomes.
LEMMA EditTyped ==
    ASSUME Keeps!TypeOK, NEW e \in Editors, NEW q \in Keeps!Edit, edit' = [edit EXCEPT ![e] = q]
    PROVE  edit' \in [Editors -> Keeps!Edit]
BY DEF Keeps!TypeOK

LEMMA LeaveTyped ==
    ASSUME GatewayAssumption, Keeps!TypeOK, NEW e \in Editors, Keeps!Leave(e)
    PROVE  edit' \in [Editors -> Keeps!Edit]
BY CatalogRecords, EditTyped DEF Keeps!Leave

LEMMA DetachedTyped ==
    ASSUME GatewayAssumption, Keeps!TypeOK, NEW ns \in SUBSET Keeps!Revisions,
           Keeps!Archivable(ns)
    PROVE  Keeps!Detached(ns) \in [Tasks -> Keeps!Task] /\ Keeps!Archived(ns) \subseteq Contents
<1>1. \A n \in ns : Keeps!Users(n) # {} => revision[n].content \in Contents
  BY RevisionTyped DEF Keeps!Archivable
<1>2. \A t \in Tasks : \A n \in ns :
         t \in Keeps!Users(n) => task[t].attached = n /\ revision[n].content \in Contents
  BY <1>1 DEF Keeps!Users
<1>3. \A t \in Tasks : Keeps!Detached(ns)[t] \in Keeps!Task
  <2> SUFFICES ASSUME NEW t \in Tasks PROVE Keeps!Detached(ns)[t] \in Keeps!Task
    OBVIOUS
  <2>1. task[t] \in Keeps!Task
    BY DEF Keeps!TypeOK
  <2>2. CASE \E n \in ns : t \in Keeps!Users(n)
    <3> DEFINE c == revision[task[t].attached].content
    <3>1. c \in Contents
      BY <1>2, <2>2
    <3> HIDE DEF c
    <3>2. [task[t] EXCEPT !.digest = c, !.attached = 0] \in Keeps!Task
      BY <2>1, <3>1, CatalogRecords DEF Keeps!Task
    <3>3. QED
      BY <2>2, <3>2 DEF Keeps!Detached, c
  <2>3. CASE ~\E n \in ns : t \in Keeps!Users(n)
    BY <2>1, <2>3 DEF Keeps!Detached
  <2>4. QED
    BY <2>2, <2>3
<1>4. Keeps!Archived(ns) \subseteq Contents
  BY <1>1 DEF Keeps!Archived, Keeps!TypeOK
<1>5. QED
  BY <1>3, <1>4 DEF Keeps!Detached

LEMMA RevisionsKeepTypes ==
    ASSUME GatewayAssumption, Keeps!TypeOK, UNCHANGED Keeps!given,
           \/ \E n \in Keeps!Revisions, c \in Contents : Keeps!CreateProfile(n, c)
           \/ Keeps!EnsureBuiltin
           \/ \E n \in Keeps!Revisions \cup {0}, c \in Contents : Keeps!CreateRevision(n, c)
           \/ \E n \in Keeps!Revisions : Keeps!Publish(n) \/ Keeps!Retire(n) \/ Keeps!DeleteRevision(n)
           \/ Keeps!DeleteProfile
    PROVE  Keeps!TypeOK'
<1> USE CatalogRecords
<1>0. /\ source' \in {"custom", "builtin"} /\ alone' \in BOOLEAN
      /\ there \in BOOLEAN /\ latest \in 0 .. MaxRevision
      /\ revision \in [Keeps!Revisions -> Keeps!Revision]
  BY DEF Keeps!TypeOK, Keeps!given
<1>1. ASSUME NEW n \in Keeps!Revisions, NEW c \in Contents, Keeps!CreateProfile(n, c)
      PROVE  Keeps!TypeOK'
  BY <1>0, <1>1 DEF Keeps!CreateProfile, Keeps!TypeOK
<1>2. CASE Keeps!EnsureBuiltin
  BY <1>0, <1>2 DEF Keeps!EnsureBuiltin, Keeps!TypeOK
<1>3. ASSUME NEW k \in Keeps!Revisions \cup {0}, NEW c \in Contents, Keeps!CreateRevision(k, c)
      PROVE  Keeps!TypeOK'
  <2>1. PICK n \in Keeps!Revisions : /\ latest' = Keeps!Max({latest, n})
                               /\ revision' = [revision EXCEPT ![n] = [state |-> "draft", content |-> c]]
    BY <1>3, Zenon DEF Keeps!CreateRevision
  <2>2. latest' \in 0 .. MaxRevision
    BY <1>0, <2>1, LatestAfter
  <2>3. revision' \in [Keeps!Revisions -> Keeps!Revision]
    BY <1>0, <2>1
  <2>4. UNCHANGED <<there, binding, archive, task, edit>>
    BY <1>3 DEF Keeps!CreateRevision
  <2>5. QED
    BY <1>0, <2>2, <2>3, <2>4 DEF Keeps!TypeOK
<1>4. ASSUME NEW n \in Keeps!Revisions, Keeps!Publish(n) PROVE Keeps!TypeOK'
  <2>1. [revision[n] EXCEPT !.state = "published"] \in Keeps!Revision
    <3>1. revision[n] \in Keeps!Revision /\ revision[n] # Keeps!NoRevision
      BY <1>4, RevisionTyped DEF Keeps!Publish, Keeps!NoRevision
    <3>2. QED
      BY <3>1 DEF Keeps!Revision
  <2>2. revision' \in [Keeps!Revisions -> Keeps!Revision]
    BY <1>0, <1>4, <2>1 DEF Keeps!Publish
  <2>3. QED
    BY <1>0, <1>4, <2>2 DEF Keeps!Publish, Keeps!TypeOK
<1>5. ASSUME NEW n \in Keeps!Revisions, Keeps!Retire(n) PROVE Keeps!TypeOK'
  <2>1. [revision[n] EXCEPT !.state = "retired"] \in Keeps!Revision
    <3>1. revision[n] \in Keeps!Revision /\ revision[n] # Keeps!NoRevision
      BY <1>5, RevisionTyped DEF Keeps!Retire, Keeps!Published, Keeps!NoRevision
    <3>2. QED
      BY <3>1 DEF Keeps!Revision
  <2>2. revision' \in [Keeps!Revisions -> Keeps!Revision]
    BY <1>0, <1>5, <2>1 DEF Keeps!Retire
  <2>3. QED
    BY <1>0, <1>5, <2>2 DEF Keeps!Retire, Keeps!TypeOK
<1>6. ASSUME NEW n \in Keeps!Revisions, Keeps!DeleteRevision(n) PROVE Keeps!TypeOK'
  <2>1. Keeps!Archivable({n}) /\ archive' = Keeps!Archived({n}) /\ task' = Keeps!Detached({n})
        /\ revision' = [revision EXCEPT ![n] = Keeps!NoRevision] /\ latest' = Keeps!Highest(revision')
    BY <1>6 DEF Keeps!DeleteRevision
  <2>2. task' \in [Tasks -> Keeps!Task] /\ archive' \subseteq Contents
    BY <2>1, DetachedTyped
  <2>3. latest' \in 0 .. MaxRevision
    BY <2>1, HighestStands
  <2>4. QED
    BY <1>0, <1>6, <2>1, <2>2, <2>3 DEF Keeps!DeleteRevision, Keeps!TypeOK
<1>7. CASE Keeps!DeleteProfile
  <2>1. /\ Keeps!Archivable(Keeps!Revisions)
        /\ archive' = Keeps!Archived(Keeps!Revisions)
        /\ task' = Keeps!Detached(Keeps!Revisions)
    BY <1>7 DEF Keeps!DeleteProfile
  <2>2. task' \in [Tasks -> Keeps!Task] /\ archive' \subseteq Contents
    BY <2>1, DetachedTyped
  <2>3. QED
    BY <1>0, <1>7, <2>2 DEF Keeps!DeleteProfile, Keeps!TypeOK
<1>8. QED
  BY <1>1, <1>2, <1>3, <1>4, <1>5, <1>6, <1>7

LEMMA TasksKeepTypes ==
    ASSUME GatewayAssumption, Keeps!TypeOK, TasksInv, UNCHANGED Keeps!given, NEW t \in Tasks,
           Keeps!TaskStep(t)
    PROVE  Keeps!TypeOK'
<1>1. /\ source' \in {"custom", "builtin"} /\ alone' \in BOOLEAN
      /\ task[t] \in Keeps!Task /\ task \in [Tasks -> Keeps!Task]
  BY DEF Keeps!TypeOK, Keeps!given
<1>2. ASSUME NEW q \in Keeps!Task, task' = [task EXCEPT ![t] = q],
             UNCHANGED <<Keeps!catalog, binding, edit>>
      PROVE  Keeps!TypeOK'
  BY <1>1, <1>2 DEF Keeps!catalog, Keeps!TypeOK
<1>3. ASSUME NEW op \in Keeps!Operations, NEW m \in Patterns \ {"*"}, Keeps!Find(t, op, m)
      PROVE  Keeps!TypeOK'
  <2>1. PICK i \in Keeps!Matching(op, m) :
           task' = [task EXCEPT ![t].pc = "bound", ![t].op = op, ![t].attached = binding[i].revision]
    BY <1>3 DEF Keeps!Find
  <2> DEFINE n == binding[i].revision
             q == [task[t] EXCEPT !.pc = "bound", !.op = op, !.attached = n]
  <2>2. n \in 0 .. MaxRevision
    <3>1. i \in Keeps!Ids /\ binding \in [Keeps!Ids -> Keeps!Binding \cup {Keeps!NoBinding}]
      BY <2>1 DEF Keeps!Matching, Keeps!TypeOK
    <3>2. binding[i] \in Keeps!Binding \cup {Keeps!NoBinding}
      BY <3>1
    <3>3. \A b \in Keeps!Binding : b.revision \in Keeps!Revisions
      BY DEF Keeps!Binding
    <3>4. Keeps!NoBinding.revision = 0
      BY DEF Keeps!NoBinding
    <3>5. QED
      BY <3>2, <3>3, <3>4, CatalogRecords
  <2>3. task' = [task EXCEPT ![t] = q]
    BY <2>1
  <2>4. q \in Keeps!Task
    <3> HIDE DEF n
    <3>1. QED
      BY <1>1, <2>2 DEF Keeps!Task
  <2> HIDE DEF q
  <2>5. QED
    BY <1>2, <1>3, <2>3, <2>4 DEF Keeps!Find
<1>4. CASE Keeps!Load(t)
  <2> DEFINE c == revision[task[t].attached].content
             q == [task[t] EXCEPT !.pc = "loaded", !.digest = c, !.content = c]
  <2>1. CASE Keeps!Published(task[t].attached) /\ task[t].op \in Offers[c]
    <3>1. task[t].attached \in Keeps!Revisions
      BY <1>4 DEF Keeps!Load, TasksInv, Remembered
    <3>2. c \in Contents
      BY <2>1, <3>1, RevisionTyped
    <3>3. task' = [task EXCEPT ![t] = q]
      BY <1>4, <2>1 DEF Keeps!Load
    <3>4. q \in Keeps!Task
      <4> HIDE DEF c
      <4>1. QED
        BY <1>1, <3>2 DEF Keeps!Task
    <3> HIDE DEF q
    <3>5. QED
      BY <1>2, <1>4, <3>3, <3>4 DEF Keeps!Load
  <2>2. CASE ~(Keeps!Published(task[t].attached) /\ task[t].op \in Offers[c])
    <3>1. task' = [task EXCEPT ![t] = Keeps!NoTask]
      BY <1>4, <2>2 DEF Keeps!Load
    <3>2. QED
      BY <1>2, <1>4, <3>1, CatalogRecords DEF Keeps!Load
  <2>3. QED
    BY <2>1, <2>2
<1>5. CASE Keeps!Store(t)
  <2> DEFINE o == ~(/\ Keeps!Immutable(task[t].attached)
                    /\ revision[task[t].attached].content = task[t].content)
             q == [task[t] EXCEPT !.pc = "running", !.orphan = o]
  <2>1. o \in BOOLEAN /\ task' = [task EXCEPT ![t] = q]
    BY <1>5 DEF Keeps!Store
  <2>2. q \in Keeps!Task
    <3> HIDE DEF o
    <3>1. QED
      BY <1>1, <2>1 DEF Keeps!Task
  <2> HIDE DEF q
  <2>3. QED
    BY <1>2, <1>5, <2>1, <2>2 DEF Keeps!Store
<1>6. CASE Keeps!Finish(t)
  <2> DEFINE q == [task[t] EXCEPT !.pc = "done"]
  <2>1. q \in Keeps!Task /\ task' = [task EXCEPT ![t] = q]
    BY <1>1, <1>6 DEF Keeps!Task, Keeps!Finish
  <2> HIDE DEF q
  <2>2. QED
    BY <1>2, <1>6, <2>1 DEF Keeps!Finish
<1>7. QED
  BY <1>3, <1>4, <1>5, <1>6 DEF Keeps!TaskStep

\* A step of the editors alone.
LEMMA EditorsKeepTypes ==
    ASSUME GatewayAssumption, Keeps!TypeOK,
           UNCHANGED <<Keeps!given, Keeps!catalog, binding, task>>,
           edit' \in [Editors -> Keeps!Edit]
    PROVE  Keeps!TypeOK'
BY DEF Keeps!TypeOK, Keeps!given, Keeps!catalog

\* A step of the bindings, and of the editors at most.
LEMMA BindingsKeepTypes ==
    ASSUME GatewayAssumption, Keeps!TypeOK, UNCHANGED <<Keeps!given, Keeps!catalog, task>>,
           edit' \in [Editors -> Keeps!Edit],
           binding' \in [Keeps!Ids -> Keeps!Binding \cup {Keeps!NoBinding}]
    PROVE  Keeps!TypeOK'
BY DEF Keeps!TypeOK, Keeps!given, Keeps!catalog

LEMMA RevisionRead ==
    ASSUME GatewayAssumption, NEW e \in Editors, NEW n \in Keeps!Revisions \cup {0},
           Keeps!ReadRevision(e, n)
    PROVE  \E m \in Keeps!Revisions : Keeps!Published(m) /\ edit' = [edit EXCEPT ![e] =
               [Keeps!NoEdit EXCEPT !.pc = "bind", !.number = m, !.content = revision[m].content]]
<1> DEFINE from == {m \in Keeps!Revisions : Keeps!Published(m) /\ n \in {0, m}}
           m == Keeps!Max(from)
<1>1. /\ from # {}
      /\ edit' = [edit EXCEPT ![e] =
              [Keeps!NoEdit EXCEPT !.pc = "bind", !.number = m, !.content = revision[m].content]]
  BY DEF Keeps!ReadRevision
<1>2. m \in from
  <2>1. from \in SUBSET (0 .. MaxRevision)
    BY CatalogRecords
  <2> HIDE DEF from
  <2>2. QED
    BY <1>1, <2>1, MaxStands
<1>3. m \in Keeps!Revisions /\ Keeps!Published(m)
  BY <1>2
<1> HIDE DEF m, from
<1>4. QED
  BY <1>1, <1>3

LEMMA EditStepTyped ==
    ASSUME GatewayAssumption, Keeps!TypeOK, EditorsInv, UNCHANGED Keeps!given, NEW e \in Editors,
           Keeps!EditStep(e)
    PROVE  Keeps!TypeOK'
<1> USE CatalogRecords
<1> DEFINE q == edit[e]
<1>1. /\ q \in Keeps!Edit /\ edit \in [Editors -> Keeps!Edit]
      /\ binding \in [Keeps!Ids -> Keeps!Binding \cup {Keeps!NoBinding}]
  BY DEF Keeps!TypeOK
<1>2. /\ q.number \in 0 .. MaxRevision /\ q.content \in Contents \cup {None}
      /\ q.id \in 0 .. MaxBindings /\ q.row \in Keeps!Binding \cup {Keeps!NoBinding}
      /\ q.todo \in SUBSET Keeps!Operations
  BY <1>1 DEF Keeps!Edit
<1>3. ASSUME NEW p \in Keeps!Edit, edit' = [edit EXCEPT ![e] = p],
             UNCHANGED <<Keeps!catalog, binding, task>>
      PROVE  Keeps!TypeOK'
  BY <1>3, EditTyped, EditorsKeepTypes
<1>4. ASSUME Keeps!Leave(e), UNCHANGED <<Keeps!catalog, task>>,
             binding' \in [Keeps!Ids -> Keeps!Binding \cup {Keeps!NoBinding}]
      PROVE  Keeps!TypeOK'
  BY <1>4, LeaveTyped, BindingsKeepTypes
<1>5. ASSUME NEW n \in Keeps!Revisions, NEW c \in Contents, Keeps!ReadDraft(e, n, c)
      PROVE  Keeps!TypeOK'
  <2> DEFINE p == [Keeps!NoEdit EXCEPT !.pc = "draft", !.number = n, !.content = c]
  <2>1. p \in Keeps!Edit
    BY DEF Keeps!NoEdit, Keeps!Edit
  <2>2. edit' = [edit EXCEPT ![e] = p] /\ UNCHANGED <<Keeps!catalog, binding, task>>
    BY <1>5 DEF Keeps!ReadDraft
  <2> HIDE DEF p
  <2>3. QED
    BY <1>3, <2>1, <2>2
<1>6. CASE Keeps!SaveDraft(e)
  <2>1. /\ there' = there /\ archive' = archive /\ binding' = binding /\ task' = task
        /\ edit' \in [Editors -> Keeps!Edit]
    BY <1>6, LeaveTyped DEF Keeps!SaveDraft
  <2>2. CASE there /\ ~Keeps!Immutable(q.number)
    <3>1. /\ revision' = [revision EXCEPT ![q.number] = [state |-> "draft", content |-> q.content]]
          /\ latest' = Keeps!Max({latest, q.number})
      BY <1>6, <2>2 DEF Keeps!SaveDraft
    <3>2. q.number \in Keeps!Revisions /\ q.content \in Contents
      BY <1>6 DEF Keeps!SaveDraft, EditorsInv, Prepared
    <3>3. revision' \in [Keeps!Revisions -> Keeps!Revision]
      BY <3>1, <3>2 DEF Keeps!TypeOK
    <3>4. latest' \in 0 .. MaxRevision
      BY <3>1, <3>2, LatestAfter DEF Keeps!TypeOK
    <3>5. QED
      BY <2>1, <3>3, <3>4 DEF Keeps!TypeOK, Keeps!given
  <2>3. CASE ~(there /\ ~Keeps!Immutable(q.number))
    <3>1. UNCHANGED <<Keeps!catalog, binding, task>>
      BY <1>6, <2>1, <2>3 DEF Keeps!SaveDraft, Keeps!catalog
    <3>2. QED
      BY <2>1, <3>1, EditorsKeepTypes
  <2>4. QED
    BY <2>2, <2>3
<1>7. ASSUME NEW id \in Keeps!Ids \cup {0}, Keeps!StartBinding(e, id) PROVE Keeps!TypeOK'
  <2> DEFINE p == [Keeps!NoEdit EXCEPT !.pc = "validate", !.id = id]
  <2>1. p \in Keeps!Edit
    BY DEF Keeps!NoEdit, Keeps!Edit
  <2>2. edit' = [edit EXCEPT ![e] = p] /\ UNCHANGED <<Keeps!catalog, binding, task>>
    BY <1>7 DEF Keeps!StartBinding
  <2> HIDE DEF p
  <2>3. QED
    BY <1>3, <2>1, <2>2
<1>8. ASSUME NEW b \in Keeps!Binding, Keeps!Validate(e, b) PROVE Keeps!TypeOK'
  <2> DEFINE p == [q EXCEPT !.pc = "peers", !.row = b]
  <2>1. p \in Keeps!Edit
    BY <1>1 DEF Keeps!Edit
  <2>2. /\ UNCHANGED <<Keeps!catalog, binding, task>>
        /\ (edit' = [edit EXCEPT ![e] = p] \/ Keeps!Leave(e))
    BY <1>8 DEF Keeps!Validate
  <2> HIDE DEF p
  <2>3. QED
    BY <1>1, <1>3, <1>4, <2>1, <2>2
<1>9. CASE Keeps!CheckPeers(e)
  <2> DEFINE p == [q EXCEPT !.pc = "write"]
  <2>1. p \in Keeps!Edit
    BY <1>1 DEF Keeps!Edit
  <2>2. /\ UNCHANGED <<Keeps!catalog, binding, task>>
        /\ (edit' = [edit EXCEPT ![e] = p] \/ Keeps!Leave(e))
    BY <1>9 DEF Keeps!CheckPeers
  <2> HIDE DEF p
  <2>3. QED
    BY <1>1, <1>3, <1>4, <2>1, <2>2
<1>10. CASE Keeps!WriteBinding(e)
  <2>1. UNCHANGED <<Keeps!catalog, task>>
    BY <1>10 DEF Keeps!WriteBinding
  <2>2. binding' \in [Keeps!Ids -> Keeps!Binding \cup {Keeps!NoBinding}]
    <3>1. PICK id \in (IF q.id # 0 THEN {q.id} ELSE Keeps!FreeIds(binding)) :
             binding' = Keeps!Written(binding, id, q.row)
      BY <1>10 DEF Keeps!WriteBinding
    <3> HIDE DEF q
    <3>2. binding' = [binding EXCEPT ![id] = q.row]
      BY <3>1 DEF Keeps!Written
    <3>3. QED
      BY <1>1, <1>2, <3>2
  <2>3. edit' \in [Editors -> Keeps!Edit]
    <3> DEFINE p == [q EXCEPT !.pc = "reconcile", !.id = 0, !.row = Keeps!NoBinding]
    <3>1. p \in Keeps!Edit
      BY <1>1 DEF Keeps!Edit
    <3>2. Keeps!Leave(e) \/ edit' = [edit EXCEPT ![e] = p]
      BY <1>10 DEF Keeps!WriteBinding
    <3> HIDE DEF p
    <3>3. QED
      BY <3>1, <3>2, EditTyped, LeaveTyped
  <2>4. QED
    BY <2>1, <2>2, <2>3, BindingsKeepTypes
<1>11. ASSUME NEW id \in Keeps!Ids, Keeps!ReadToggle(e, id) PROVE Keeps!TypeOK'
  <2> DEFINE b == [binding[id] EXCEPT !.enabled = ~@]
             p == [Keeps!NoEdit EXCEPT !.pc = "toggle", !.id = id, !.row = b]
  <2>1. b \in Keeps!Binding
    <3>1. binding[id] \in Keeps!Binding
      BY <1>1, <1>11 DEF Keeps!ReadToggle
    <3>2. QED
      BY <3>1 DEF Keeps!Binding
  <2>2. edit' = [edit EXCEPT ![e] = p] /\ UNCHANGED <<Keeps!catalog, binding, task>>
    BY <1>11 DEF Keeps!ReadToggle
  <2> HIDE DEF b
  <2>3. p \in Keeps!Edit
    BY <2>1 DEF Keeps!NoEdit, Keeps!Edit
  <2> HIDE DEF p
  <2>4. QED
    BY <1>3, <2>2, <2>3
<1>12. CASE Keeps!SetEnabled(e)
  <2>1. Keeps!Leave(e) /\ UNCHANGED <<Keeps!catalog, task>>
    BY <1>12 DEF Keeps!SetEnabled
  <2>2. binding' \in [Keeps!Ids -> Keeps!Binding \cup {Keeps!NoBinding}]
    <3> DEFINE id == q.id
               on == q.row.enabled
    <3>1. \/ binding' = binding
          \/ binding[id] # Keeps!NoBinding /\ binding' = [binding EXCEPT ![id].enabled = on]
      BY <1>12 DEF Keeps!SetEnabled
    <3>2. on \in BOOLEAN
      <4>1. \A b \in Keeps!Binding : b.enabled \in BOOLEAN
        BY DEF Keeps!Binding
      <4>2. Keeps!NoBinding.enabled \in BOOLEAN
        BY DEF Keeps!NoBinding
      <4>3. QED
        BY <1>2, <4>1, <4>2
    <3> HIDE DEF id, on
    <3>3. CASE binding[id] # Keeps!NoBinding /\ binding' = [binding EXCEPT ![id].enabled = on]
      <4> DEFINE b == [binding[id] EXCEPT !.enabled = on]
      <4>1. id \in Keeps!Ids => b \in Keeps!Binding
        <5>1. id \in Keeps!Ids => binding[id] \in Keeps!Binding
          BY <1>1, <3>3
        <5>2. QED
          BY <3>2, <5>1 DEF Keeps!Binding
      <4>2. binding' = [binding EXCEPT ![id] = b]
        BY <3>3
      <4> HIDE DEF b
      <4>3. QED
        BY <1>1, <4>1, <4>2
    <3>4. QED
      BY <1>1, <3>1, <3>3
  <2>3. QED
    BY <1>4, <2>1, <2>2
<1>13. ASSUME NEW n \in Keeps!Revisions \cup {0}, Keeps!ReadRevision(e, n) PROVE Keeps!TypeOK'
  <2>1. PICK m \in Keeps!Revisions : Keeps!Published(m) /\ edit' = [edit EXCEPT ![e] =
               [Keeps!NoEdit EXCEPT !.pc = "bind", !.number = m, !.content = revision[m].content]]
    BY <1>13, RevisionRead
  <2> DEFINE c == revision[m].content
             p == [Keeps!NoEdit EXCEPT !.pc = "bind", !.number = m, !.content = c]
  <2>2. /\ c \in Contents
        /\ edit' = [edit EXCEPT ![e] = p]
        /\ UNCHANGED <<Keeps!catalog, binding, task>>
    BY <1>13, <2>1, RevisionTyped DEF Keeps!ReadRevision
  <2> HIDE DEF c
  <2>3. p \in Keeps!Edit
    BY <2>2 DEF Keeps!NoEdit, Keeps!Edit
  <2> HIDE DEF p
  <2>4. QED
    BY <1>3, <2>2, <2>3
<1>14. CASE Keeps!Bind(e)
  <2> DEFINE ops == Offers[q.content]
             kept == [i \in Keeps!Ids |-> IF /\ binding[i].pattern = "*" /\ binding[i].precedence = 0
                                       /\ binding[i].op \notin ops
                                    THEN Keeps!NoBinding ELSE binding[i]]
             n == q.number
             z == 0
  <2>1. n \in Keeps!Revisions /\ ops \in SUBSET Keeps!Operations /\ z \in {0, Keeps!Default}
    BY <1>14 DEF Keeps!Bind, EditorsInv, Prepared
  <2>2. \A i \in Keeps!Ids : kept[i] \in Keeps!Binding \cup {Keeps!NoBinding}
    BY <1>1
  <2>3. PICK place \in Keeps!Places(kept, ops, z) :
           binding' = IF Keeps!Conflicts(kept, ops, z) THEN binding ELSE Keeps!Placed(kept, place, z, n)
    BY <1>14 DEF Keeps!Bind
  <2>4. Keeps!Leave(e) /\ UNCHANGED <<Keeps!catalog, task>>
    BY <1>14 DEF Keeps!Bind
  <2> HIDE DEF ops, kept, n, z
  <2>5. Keeps!Placed(kept, place, z, n) \in [Keeps!Ids -> Keeps!Binding \cup {Keeps!NoBinding}]
    BY <2>1, <2>2, PlacesTyped
  <2>6. QED
    BY <1>1, <1>4, <2>3, <2>4, <2>5
<1>15. CASE Keeps!ReadLatest(e)
  <2> DEFINE p == [Keeps!NoEdit EXCEPT !.pc = "reconcile", !.number = latest, !.todo = Offers[Preset]]
  <2>1. p \in Keeps!Edit
    BY DEF Keeps!NoEdit, Keeps!Edit, Keeps!TypeOK
  <2>2. edit' = [edit EXCEPT ![e] = p] /\ UNCHANGED <<Keeps!catalog, binding, task>>
    BY <1>15 DEF Keeps!ReadLatest
  <2> HIDE DEF p
  <2>3. QED
    BY <1>3, <2>1, <2>2
<1>16. CASE Keeps!Reconcile(e)
  <2>1. PICK op \in q.todo :
           LET own == Keeps!Slot(binding, op, Keeps!Default)
               b == Keeps!Wildcard(op, Keeps!Default, q.number)
               left == q.todo \ {op}
           IN IF own # {} /\ binding[Keeps!Min(own)] = b
              THEN IF left = {} THEN Keeps!Leave(e) ELSE edit' = [edit EXCEPT ![e].todo = left]
              ELSE edit' = [edit EXCEPT ![e].pc = "peers", ![e].todo = left, ![e].row = b,
                                        ![e].id = IF own # {} THEN Keeps!Min(own) ELSE 0]
    BY <1>16 DEF Keeps!Reconcile
  <2>2. UNCHANGED <<Keeps!catalog, binding, task>>
    BY <1>16 DEF Keeps!Reconcile
  <2> DEFINE own == Keeps!Slot(binding, op, Keeps!Default)
             b == Keeps!Wildcard(op, Keeps!Default, q.number)
             left == q.todo \ {op}
             id == IF own # {} THEN Keeps!Min(own) ELSE 0
             shorter == [q EXCEPT !.todo = left]
             p == [q EXCEPT !.pc = "peers", !.todo = left, !.row = b, !.id = id]
  <2>3. q.number \in Keeps!Revisions /\ op \in Keeps!Operations
    BY <1>2, <1>16 DEF Keeps!Reconcile, EditorsInv, Prepared
  <2>4. b \in Keeps!Binding /\ left \in SUBSET Keeps!Operations
    BY <1>2, <2>3
  <2>5. id \in 0 .. MaxBindings
    <3>1. own \in SUBSET Nat /\ own \subseteq Keeps!Ids
      BY DEF Keeps!Slot
    <3> HIDE DEF own
    <3>2. own # {} => Keeps!Min(own) \in own
      BY <3>1, MinStands
    <3>3. QED
      BY <3>1, <3>2
  <2>6. shorter \in Keeps!Edit
    <3> HIDE DEF left
    <3>1. QED
      BY <1>1, <2>4 DEF Keeps!Edit
  <2>7. p \in Keeps!Edit
    <3> HIDE DEF left, b, id
    <3>1. QED
      BY <1>1, <2>4, <2>5 DEF Keeps!Edit
  <2>8. Keeps!Leave(e) \/ edit' = [edit EXCEPT ![e] = shorter] \/ edit' = [edit EXCEPT ![e] = p]
    BY <2>1
  <2> HIDE DEF shorter, p
  <2>9. QED
    BY <1>1, <1>3, <1>4, <2>2, <2>6, <2>7, <2>8
<1>17. \A op \in Keeps!Operations, p \in Patterns,
         k \in Precedences, n \in Keeps!Revisions, on \in BOOLEAN :
          [op |-> op, pattern |-> p, precedence |-> k, revision |-> n, enabled |-> on] \in Keeps!Binding
  BY DEF Keeps!Binding
<1>18. QED
  BY <1>17, <1>5, <1>6, <1>7, <1>8, <1>9, <1>10, <1>11, <1>12, <1>13, <1>14, <1>15, <1>16
     DEF Keeps!EditStep

LEMMA ConsoleKeepsTypes ==
    ASSUME GatewayAssumption, Keeps!TypeOK, UNCHANGED Keeps!given,
           \/ \E id \in Keeps!Ids : Keeps!DeleteBinding(id)
           \/ Keeps!Unbind \/ Keeps!EnsureDefaults \/ Keeps!RemoveDefaults
    PROVE  Keeps!TypeOK'
<1>1. /\ binding \in [Keeps!Ids -> Keeps!Binding \cup {Keeps!NoBinding}]
      /\ edit \in [Editors -> Keeps!Edit]
  BY DEF Keeps!TypeOK
<1>2. ASSUME NEW id \in Keeps!Ids, Keeps!DeleteBinding(id) PROVE Keeps!TypeOK'
  <2>1. /\ binding' \in [Keeps!Ids -> Keeps!Binding \cup {Keeps!NoBinding}]
        /\ UNCHANGED <<Keeps!catalog, task, edit>>
    BY <1>1, <1>2 DEF Keeps!DeleteBinding
  <2>2. QED
    BY <1>1, <2>1, BindingsKeepTypes
<1>3. CASE Keeps!Unbind
  <2>1. /\ binding' \in [Keeps!Ids -> Keeps!Binding \cup {Keeps!NoBinding}]
        /\ UNCHANGED <<Keeps!catalog, task, edit>>
    BY <1>1, <1>3 DEF Keeps!Unbind
  <2>2. QED
    BY <1>1, <2>1, BindingsKeepTypes
<1>4. CASE Keeps!EnsureDefaults
  <2> DEFINE ops == {op \in Offers[Preset] : Keeps!Slot(binding, op, Keeps!Default) = {}}
  <2>1. PICK place \in Keeps!Places(binding, ops, Keeps!Default) :
            binding' = Keeps!Placed(binding, place, Keeps!Default, latest)
    BY <1>4 DEF Keeps!EnsureDefaults
  <2>2. ops \in SUBSET Keeps!Operations
    BY CatalogRecords
  <2>3. latest \in Keeps!Revisions /\ UNCHANGED <<Keeps!catalog, task, edit>>
    BY <1>4, CatalogRecords DEF Keeps!EnsureDefaults, Keeps!TypeOK
  <2>4. /\ Keeps!Default \in {0, Keeps!Default}
        /\ \A i \in Keeps!Ids : binding[i] \in Keeps!Binding \cup {Keeps!NoBinding}
    BY <1>1
  <2> HIDE DEF ops
  <2>5. binding' \in [Keeps!Ids -> Keeps!Binding \cup {Keeps!NoBinding}]
    BY <2>1, <2>2, <2>3, <2>4, PlacesTyped
  <2>6. QED
    BY <1>1, <2>3, <2>5, BindingsKeepTypes
<1>5. CASE Keeps!RemoveDefaults
  <2>1. /\ binding' \in [Keeps!Ids -> Keeps!Binding \cup {Keeps!NoBinding}]
        /\ UNCHANGED <<Keeps!catalog, task, edit>>
    BY <1>1, <1>5 DEF Keeps!RemoveDefaults
  <2>2. QED
    BY <1>1, <2>1, BindingsKeepTypes
<1>6. QED
  BY <1>2, <1>3, <1>4, <1>5

-----------------------------------------------------------------------------
(* Revisions: the highest number, and what was published.                    *)

LEMMA Vacant ==
    ASSUME GatewayAssumption, Keeps!TypeOK, Keeps!LatestIsHighest, ~there
    PROVE  \A n \in Keeps!Revisions : ~Keeps!Exists(n)
<1>1. Keeps!Highest(revision) = 0
  BY DEF Keeps!LatestIsHighest
<1>2. \A n \in Keeps!Revisions : n > 0
  BY CatalogRecords
<1>3. QED
  BY <1>1, <1>2, HighestStands, CatalogRecords DEF Keeps!Exists

Frozen(n) == /\ revision'[n].content = revision[n].content
             /\ revision'[n].state \in {"published", "retired"}
Made(n) == \E c \in Contents :
               revision' = [revision EXCEPT ![n] = [state |-> "draft", content |-> c]]

\* A draft that is made or written over takes no other's place.
LEMMA DraftKept ==
    ASSUME GatewayAssumption, Keeps!TypeOK, Keeps!LatestIsHighest, NEW n \in Keeps!Revisions,
           Made(n),
           ~Keeps!Immutable(n), latest' = Keeps!Max({latest, n}), there'
    PROVE  Keeps!LatestIsHighest' /\ \A m \in Keeps!Revisions : Keeps!Immutable(m) => Frozen(m)
<1> DEFINE h == Keeps!Max({latest, n})
<1>1. PICK c \in Contents : revision' = [revision EXCEPT ![n] = [state |-> "draft", content |-> c]]
  BY DEF Made
<1>2. revision \in [Keeps!Revisions -> Keeps!Revision] /\ latest \in 0 .. MaxRevision
  BY DEF Keeps!TypeOK
<1>3. /\ h \in {latest, n} /\ latest <= h /\ n <= h /\ h \in 0 .. MaxRevision
  BY <1>2, LatestAfter
<1>4. \A m \in Keeps!Revisions : m # n => revision'[m] = revision[m]
  BY <1>1, <1>2
<1>5. revision'[n] # Keeps!NoRevision
  <2>1. revision'[n].state = "draft"
    BY <1>1, <1>2
  <2>2. QED
    BY <2>1 DEF Keeps!NoRevision
<1> HIDE DEF h
<1>6. /\ latest # 0 => latest \in Keeps!Revisions /\ revision[latest] # Keeps!NoRevision
      /\ \A m \in Keeps!Revisions : revision[m] # Keeps!NoRevision => m <= latest
  BY HighestStands DEF Keeps!LatestIsHighest
<1>7. h # 0 => revision'[h] # Keeps!NoRevision
  BY <1>3, <1>4, <1>5, <1>6
<1>8. \A m \in Keeps!Revisions : revision'[m] # Keeps!NoRevision => m <= h
  BY <1>2, <1>3, <1>4, <1>6, CatalogRecords
<1>9. Keeps!Highest(revision') = h
  BY <1>3, <1>7, <1>8, HighestIs
<1>10. \A m \in Keeps!Revisions : Keeps!Immutable(m) => Frozen(m)
  BY <1>4 DEF Frozen, Keeps!Immutable
<1>11. QED
  BY <1>9, <1>10 DEF Keeps!LatestIsHighest, h

\* A change of state leaves the numbers alone.
LEMMA StateKept ==
    ASSUME GatewayAssumption, Keeps!TypeOK, Keeps!LatestIsHighest, NEW n \in Keeps!Revisions,
           Keeps!Exists(n),
           NEW s \in {"published", "retired"}, revision' = [revision EXCEPT ![n].state = s],
           latest' = latest, there' = there
    PROVE  Keeps!LatestIsHighest' /\ \A m \in Keeps!Revisions : Keeps!Immutable(m) => Frozen(m)
<1>1. revision \in [Keeps!Revisions -> Keeps!Revision] /\ latest \in 0 .. MaxRevision
  BY DEF Keeps!TypeOK
<1>2. \A m \in Keeps!Revisions : m # n => revision'[m] = revision[m]
  BY <1>1
<1>3. revision'[n].state = s /\ revision'[n].content = revision[n].content
  <2>1. revision[n] \in Keeps!Revision /\ revision[n] # Keeps!NoRevision
    BY <1>1 DEF Keeps!Exists
  <2>2. revision'[n] = [revision[n] EXCEPT !.state = s]
    BY <1>1
  <2>3. QED
    BY <2>1, <2>2 DEF Keeps!Revision
<1>4. revision'[n] # Keeps!NoRevision
  BY <1>3 DEF Keeps!NoRevision
<1>5. /\ latest # 0 => latest \in Keeps!Revisions /\ revision[latest] # Keeps!NoRevision
      /\ \A m \in Keeps!Revisions : revision[m] # Keeps!NoRevision => m <= latest
  BY HighestStands DEF Keeps!LatestIsHighest
<1>6. Keeps!Highest(revision') = latest
  <2>1. latest # 0 => revision'[latest] # Keeps!NoRevision
    BY <1>2, <1>4, <1>5
  <2>2. \A m \in Keeps!Revisions : revision'[m] # Keeps!NoRevision => m <= latest
    BY <1>2, <1>5 DEF Keeps!Exists
  <2>3. QED
    BY <1>1, <2>1, <2>2, HighestIs
<1>7. \A m \in Keeps!Revisions : Keeps!Immutable(m) => Frozen(m)
  BY <1>2, <1>3 DEF Frozen, Keeps!Immutable
<1>8. QED
  BY <1>6, <1>7 DEF Keeps!LatestIsHighest

LEMMA RevisionsKept ==
    ASSUME GatewayAssumption, Keeps!TypeOK, Keeps!LatestIsHighest, EditorsInv,
           \/ \E n \in Keeps!Revisions, c \in Contents : Keeps!CreateProfile(n, c)
           \/ Keeps!EnsureBuiltin
           \/ \E n \in Keeps!Revisions \cup {0}, c \in Contents : Keeps!CreateRevision(n, c)
           \/ \E n \in Keeps!Revisions : Keeps!Publish(n) \/ Keeps!Retire(n)
           \/ \E e \in Editors : Keeps!SaveDraft(e)
    PROVE  /\ Keeps!LatestIsHighest' /\ \A m \in Keeps!Revisions : Keeps!Immutable(m) => Frozen(m)
           /\ UNCHANGED <<archive, task>>
<1>0. /\ revision \in [Keeps!Revisions -> Keeps!Revision] /\ latest \in 0 .. MaxRevision /\ there \in BOOLEAN
  BY DEF Keeps!TypeOK
<1>1. ASSUME ~there, NEW n \in Keeps!Revisions, NEW q, q # Keeps!NoRevision, there', latest' = n,
             revision' = [revision EXCEPT ![n] = q]
      PROVE  Keeps!LatestIsHighest' /\ \A m \in Keeps!Revisions : Keeps!Immutable(m) => Frozen(m)
  <2>1. \A m \in Keeps!Revisions : ~Keeps!Exists(m)
    BY <1>1, Vacant
  <2>2. /\ revision'[n] # Keeps!NoRevision
        /\ \A m \in Keeps!Revisions : m # n => revision'[m] = Keeps!NoRevision
    BY <1>0, <1>1, <2>1 DEF Keeps!Exists
  <2>3. /\ n \in 0 .. MaxRevision
        /\ \A m \in Keeps!Revisions : revision'[m] # Keeps!NoRevision => m <= n
    BY <2>2, CatalogRecords
  <2>4. Keeps!Highest(revision') = n
    BY <2>2, <2>3, HighestIs
  <2>5. QED
    BY <1>1, <2>1, <2>4, RevisionTyped DEF Keeps!LatestIsHighest
<1>2. ASSUME NEW n \in Keeps!Revisions, NEW c \in Contents, Keeps!CreateProfile(n, c)
      PROVE  Keeps!LatestIsHighest' /\ \A m \in Keeps!Revisions : Keeps!Immutable(m) => Frozen(m)
  <2> DEFINE q == [state |-> "draft", content |-> c]
  <2>1. q # Keeps!NoRevision
    <3>1. q.state = "draft"
      OBVIOUS
    <3>2. QED
      BY <3>1 DEF Keeps!NoRevision
  <2>2. ~there /\ there' /\ latest' = n /\ revision' = [revision EXCEPT ![n] = q]
    BY <1>2 DEF Keeps!CreateProfile
  <2> HIDE DEF q
  <2>3. QED
    BY <1>1, <2>1, <2>2
<1>3. ASSUME Keeps!EnsureBuiltin
      PROVE  Keeps!LatestIsHighest' /\ \A m \in Keeps!Revisions : Keeps!Immutable(m) => Frozen(m)
  <2> DEFINE q == [state |-> "published", content |-> Preset]
             first == 1
  <2>1. q # Keeps!NoRevision /\ first \in Keeps!Revisions
    <3>1. q.state = "published"
      OBVIOUS
    <3>2. QED
      BY <3>1, CatalogRecords DEF Keeps!NoRevision
  <2>2. ~there /\ there' /\ latest' = first /\ revision' = [revision EXCEPT ![first] = q]
    BY <1>3 DEF Keeps!EnsureBuiltin
  <2> HIDE DEF q, first
  <2>3. QED
    BY <1>1, <2>1, <2>2
<1>4. ASSUME NEW k \in Keeps!Revisions \cup {0}, NEW c \in Contents, Keeps!CreateRevision(k, c)
      PROVE  Keeps!LatestIsHighest' /\ \A m \in Keeps!Revisions : Keeps!Immutable(m) => Frozen(m)
  <2>1. PICK n \in Keeps!Revisions : /\ ~Keeps!Exists(n) /\ latest' = Keeps!Max({latest, n})
                               /\ revision' = [revision EXCEPT ![n] = [state |-> "draft", content |-> c]]
    BY <1>4, Zenon DEF Keeps!CreateRevision
  <2>2. there' /\ Made(n) /\ ~Keeps!Immutable(n)
    BY <1>4, <2>1, RevisionTyped DEF Keeps!CreateRevision, Made
  <2>3. QED
    BY <2>1, <2>2, DraftKept
<1>5. ASSUME NEW n \in Keeps!Revisions, Keeps!Publish(n) \/ Keeps!Retire(n)
      PROVE  Keeps!LatestIsHighest' /\ \A m \in Keeps!Revisions : Keeps!Immutable(m) => Frozen(m)
  <2>1. Keeps!Exists(n) /\ there' = there
    BY <1>5 DEF Keeps!Publish, Keeps!Retire, Keeps!Published, Keeps!Exists, Keeps!NoRevision
  <2>2. n <= latest /\ n > 0
    BY <2>1, HighestStands, CatalogRecords DEF Keeps!LatestIsHighest, Keeps!Exists
  <2>3. latest' = latest
    BY <1>0, <1>5, <2>2, CatalogRecords DEF Keeps!Publish, Keeps!Retire
  <2>4. \E s \in {"published", "retired"} : revision' = [revision EXCEPT ![n].state = s]
    BY <1>5 DEF Keeps!Publish, Keeps!Retire
  <2>5. QED
    BY <2>1, <2>3, <2>4, StateKept
<1>6. ASSUME NEW e \in Editors, Keeps!SaveDraft(e)
      PROVE  Keeps!LatestIsHighest' /\ \A m \in Keeps!Revisions : Keeps!Immutable(m) => Frozen(m)
  <2> DEFINE n == edit[e].number
             c == edit[e].content
  <2>1. n \in Keeps!Revisions /\ c \in Contents
    BY <1>6 DEF Keeps!SaveDraft, EditorsInv, Prepared
  <2>2. CASE there /\ ~Keeps!Immutable(n)
    <3>1. /\ revision' = [revision EXCEPT ![n] = [state |-> "draft", content |-> c]]
          /\ latest' = Keeps!Max({latest, n}) /\ there'
      BY <1>6, <2>2 DEF Keeps!SaveDraft
    <3> HIDE DEF n, c
    <3>2. QED
      BY <2>1, <2>2, <3>1, DraftKept DEF Made
  <2>3. CASE ~(there /\ ~Keeps!Immutable(n))
    BY <1>6, <2>3 DEF Keeps!SaveDraft, Keeps!LatestIsHighest, Frozen, Keeps!Immutable
  <2>4. QED
    BY <2>2, <2>3
<1>7. UNCHANGED <<archive, task>>
  BY DEF Keeps!CreateProfile, Keeps!EnsureBuiltin, Keeps!CreateRevision, Keeps!Publish,
         Keeps!Retire, Keeps!SaveDraft
<1>8. QED
  BY <1>2, <1>3, <1>4, <1>5, <1>6, <1>7

Gone(ns) ==
    /\ \A m \in Keeps!Revisions : revision'[m] = IF m \in ns THEN Keeps!NoRevision ELSE revision[m]
    /\ \A n \in ns : \A t \in Keeps!Users(n) : Keeps!Terminal(t)
    /\ Keeps!Archivable(ns) /\ archive' = Keeps!Archived(ns) /\ task' = Keeps!Detached(ns)

LEMMA DeletesKept ==
    ASSUME GatewayAssumption, Keeps!TypeOK, Keeps!LatestIsHighest,
           (\E n \in Keeps!Revisions : Keeps!DeleteRevision(n)) \/ Keeps!DeleteProfile
    PROVE  Keeps!LatestIsHighest' /\ \E ns \in SUBSET Keeps!Revisions : Gone(ns)
<1>1. revision \in [Keeps!Revisions -> Keeps!Revision]
  BY DEF Keeps!TypeOK
<1>2. ASSUME NEW n \in Keeps!Revisions, Keeps!DeleteRevision(n)
      PROVE  Keeps!LatestIsHighest' /\ Gone({n})
  <2>1. /\ revision' = [revision EXCEPT ![n] = Keeps!NoRevision]
        /\ latest' = Keeps!Highest(revision')
        /\ there'
    BY <1>2 DEF Keeps!DeleteRevision
  <2>2. \A m \in Keeps!Revisions : revision'[m] = IF m \in {n} THEN Keeps!NoRevision ELSE revision[m]
    BY <1>1, <2>1
  <2>3. Gone({n})
    BY <1>2, <2>2 DEF Keeps!DeleteRevision, Gone
  <2>4. QED
    BY <2>1, <2>3 DEF Keeps!LatestIsHighest
<1>3. ASSUME Keeps!DeleteProfile
      PROVE  Keeps!LatestIsHighest' /\ Gone(Keeps!Revisions)
  <2>1. revision' = [n \in Keeps!Revisions |-> Keeps!NoRevision] /\ latest' = 0
    BY <1>3 DEF Keeps!DeleteProfile
  <2> DEFINE z == 0
  <2>2. /\ z \in 0 .. MaxRevision
        /\ z = 0
        /\ \A m \in Keeps!Revisions : revision'[m] = Keeps!NoRevision
    BY <2>1, CatalogRecords
  <2> HIDE DEF z
  <2>3. Keeps!Highest(revision') = z
    BY <2>2, HighestIs
  <2>4. Gone(Keeps!Revisions)
    <3>1. \A n \in Keeps!Revisions : \A t \in Keeps!Users(n) : Keeps!Terminal(t)
      BY <1>3 DEF Keeps!DeleteProfile, Keeps!Users
    <3>2. QED
      BY <1>3, <2>2, <3>1 DEF Keeps!DeleteProfile, Gone
  <2>5. QED
    BY <2>1, <2>2, <2>3, <2>4 DEF Keeps!LatestIsHighest
<1>4. QED
  BY <1>2, <1>3

-----------------------------------------------------------------------------
(* Tasks keep the content they were submitted with.                          *)

LEMMA TasksStart == GatewayAssumption /\ Keeps!Init => TasksInv
<1> SUFFICES ASSUME GatewayAssumption, Keeps!Init, NEW t \in Tasks PROVE Remembered(task[t])
  BY DEF TasksInv
<1>1. CASE task[t] = Keeps!NoTask
  BY <1>1 DEF Remembered, Keeps!NoTask
<1>2. CASE task[t] # Keeps!NoTask
  <2>1. PICK o \in Offers[Preset] : task[t] = Keeps!Older(o)
    BY <1>2 DEF Keeps!Init
  <2>2. revision[1].content = Preset /\ revision[1].state = "published"
    BY <1>2, CatalogRecords DEF Keeps!Init
  <2>3. /\ task[t].pc = "done" /\ task[t].attached = 1 /\ task[t].content = Preset
        /\ task[t].digest = None
    BY <2>1 DEF Keeps!Older, Keeps!NoTask
  <2>4. QED
    BY <2>2, <2>3, CatalogRecords DEF Remembered, Keeps!Immutable
<1>3. QED
  BY <1>1, <1>2

LEMMA TasksStay ==
    ASSUME Keeps!TypeOK, TasksInv, \A m \in Keeps!Revisions : Keeps!Immutable(m) => Frozen(m),
           UNCHANGED <<archive, task>>
    PROVE  TasksInv'
<1> SUFFICES ASSUME NEW t \in Tasks PROVE Remembered(task[t])'
  BY DEF TasksInv
<1>1. Remembered(task[t])
  BY DEF TasksInv
<1>2. QED
  BY <1>1 DEF Remembered, Frozen, Keeps!Immutable

LEMMA TasksDetached ==
    ASSUME GatewayAssumption, Keeps!TypeOK, TasksInv, NEW ns \in SUBSET Keeps!Revisions, Gone(ns)
    PROVE  TasksInv'
<1> SUFFICES ASSUME NEW t \in Tasks PROVE Remembered(task[t])'
  BY DEF TasksInv
<1> DEFINE q == task[t]
           n == q.attached
<1>1. q \in Keeps!Task /\ Remembered(q)
  BY DEF Keeps!TypeOK, TasksInv
<1>2. task'[t] = IF \E m \in ns : t \in Keeps!Users(m)
                 THEN [q EXCEPT !.digest = revision[n].content, !.attached = 0] ELSE q
  BY DEF Gone, Keeps!Detached
<1>3. archive \subseteq archive'
  BY DEF Gone, Keeps!Archived
<1>4. CASE \E m \in ns : t \in Keeps!Users(m)
  <2>1. n \in ns /\ t \in Keeps!Users(n) /\ q.pc = "done"
    BY <1>4 DEF Keeps!Users, Gone, Keeps!Terminal
  <2>2. /\ task'[t].pc = "done" /\ task'[t].attached = 0 /\ task'[t].orphan = q.orphan
        /\ task'[t].content = q.content /\ task'[t].digest = revision[n].content
    BY <1>1, <1>2, <1>4, <2>1 DEF Keeps!Task
  <2>3. revision[n].content \in archive'
    BY <2>1 DEF Gone, Keeps!Archived
  <2>4. ~q.orphan => revision[n].content = q.content
    BY <1>1, <2>1, CatalogRecords DEF Remembered
  <2> HIDE DEF q, n
  <2>5. QED
    BY <2>2, <2>3, <2>4 DEF Remembered
<1>5. CASE ~\E m \in ns : t \in Keeps!Users(m)
  <2>1. task'[t] = q
    BY <1>2, <1>5
  <2>2. q.pc \in {"running", "done"} /\ n \in Keeps!Revisions => revision'[n] = revision[n]
    BY <1>5 DEF Keeps!Users, Gone
  <2>3. QED
    BY <1>1, <1>3, <2>1, <2>2 DEF Remembered, Keeps!Immutable
<1>6. QED
  BY <1>4, <1>5

LEMMA TasksStep ==
    ASSUME GatewayAssumption, Keeps!TypeOK, TasksInv, NEW t \in Tasks, Keeps!TaskStep(t)
    PROVE  TasksInv' /\ UNCHANGED <<Keeps!catalog, binding, edit>>
<1>1. /\ task \in [Tasks -> Keeps!Task]
      /\ binding \in [Keeps!Ids -> Keeps!Binding \cup {Keeps!NoBinding}]
      /\ task[t] \in Keeps!Task
  BY DEF Keeps!TypeOK
<1>2. UNCHANGED <<Keeps!catalog, binding, edit>>
  BY DEF Keeps!TaskStep, Keeps!Find, Keeps!Load, Keeps!Store, Keeps!Finish
<1>3. UNCHANGED <<revision, archive>>
  BY <1>2 DEF Keeps!catalog
<1>4. \A u \in Tasks : u # t => task'[u] = task[u]
  BY <1>1 DEF Keeps!TaskStep, Keeps!Find, Keeps!Load, Keeps!Store, Keeps!Finish
<1> DEFINE q == task[t]
<1>5. q \in Keeps!Task /\ Remembered(q)
  BY DEF Keeps!TypeOK, TasksInv
<1>6. ASSUME NEW op \in Keeps!Operations, NEW m \in Patterns \ {"*"}, Keeps!Find(t, op, m)
      PROVE  Remembered(task[t])'
  <2>1. PICK k \in Keeps!Matching(op, m) :
           task' = [task EXCEPT ![t].pc = "bound", ![t].op = op, ![t].attached = binding[k].revision]
    BY <1>6 DEF Keeps!Find
  <2>2. binding[k].revision \in Keeps!Revisions
    <3>1. k \in Keeps!Ids /\ binding[k].enabled
      BY <2>1 DEF Keeps!Matching
    <3>2. binding[k] \in Keeps!Binding
      <4>1. ~Keeps!NoBinding.enabled
        BY DEF Keeps!NoBinding
      <4>2. QED
        BY <1>1, <3>1, <4>1
    <3>3. QED
      BY <3>2 DEF Keeps!Binding
  <2>3. task'[t].pc = "bound" /\ task'[t].attached = binding[k].revision
    BY <1>1, <2>1 DEF Keeps!Task
  <2>4. QED
    BY <2>2, <2>3 DEF Remembered
<1>7. ASSUME Keeps!Load(t) PROVE Remembered(task[t])'
  <2> DEFINE c == revision[q.attached].content
  <2>1. q.pc = "bound" /\ q.attached \in Keeps!Revisions
    BY <1>5, <1>7 DEF Keeps!Load, Remembered
  <2>2. CASE Keeps!Published(q.attached) /\ q.op \in Offers[c]
    <3>1. /\ task'[t].pc = "loaded" /\ task'[t].attached = q.attached
          /\ task'[t].content = c /\ task'[t].digest = c
      BY <1>1, <1>7, <2>2 DEF Keeps!Load, Keeps!Task
    <3>2. c \in Contents
      BY <2>1, <2>2, RevisionTyped
    <3> HIDE DEF c
    <3>3. QED
      BY <2>1, <3>1, <3>2 DEF Remembered
  <2>3. CASE ~(Keeps!Published(q.attached) /\ q.op \in Offers[c])
    <3>1. task'[t] = Keeps!NoTask
      BY <1>1, <1>7, <2>3 DEF Keeps!Load
    <3>2. QED
      BY <3>1 DEF Remembered, Keeps!NoTask
  <2>4. QED
    BY <2>2, <2>3
<1>8. ASSUME Keeps!Store(t) PROVE Remembered(task[t])'
  <2>1. /\ q.pc = "loaded" /\ q.attached \in Keeps!Revisions /\ q.content \in Contents
        /\ q.digest = q.content
    BY <1>5, <1>8 DEF Keeps!Store, Remembered
  <2>2. /\ task'[t].pc = "running" /\ task'[t].attached = q.attached
        /\ task'[t].content = q.content /\ task'[t].digest = q.digest
        /\ task'[t].orphan = ~(/\ Keeps!Immutable(q.attached)
                               /\ revision[q.attached].content = q.content)
    BY <1>1, <1>8 DEF Keeps!Store, Keeps!Task
  <2> HIDE DEF q
  <2>3. QED
    BY <1>3, <2>1, <2>2 DEF Remembered, Keeps!Immutable
<1>9. ASSUME Keeps!Finish(t) PROVE Remembered(task[t])'
  <2>1. /\ q.pc = "running" /\ task'[t].pc = "done" /\ task'[t].attached = q.attached
        /\ task'[t].content = q.content /\ task'[t].digest = q.digest
        /\ task'[t].orphan = q.orphan
    BY <1>1, <1>9 DEF Keeps!Finish, Keeps!Task
  <2> HIDE DEF q
  <2>2. QED
    BY <1>3, <1>5, <2>1 DEF Remembered, Keeps!Immutable
<1>10. Remembered(task[t])'
  BY <1>6, <1>7, <1>8, <1>9 DEF Keeps!TaskStep
<1>11. \A u \in Tasks : u # t => Remembered(task[u])'
  BY <1>3, <1>4 DEF TasksInv, Remembered, Keeps!Immutable
<1>12. QED
  BY <1>2, <1>10, <1>11 DEF TasksInv

-----------------------------------------------------------------------------
(* Editors: what they go on with has been read.                              *)

LEMMA EditorsStart == GatewayAssumption /\ Keeps!Init => EditorsInv
BY DEF Keeps!Init, EditorsInv, Prepared, Keeps!NoEdit

LEMMA EditorsStep ==
    ASSUME GatewayAssumption, Keeps!TypeOK, EditorsInv, NEW e \in Editors, Keeps!EditStep(e)
    PROVE  EditorsInv' /\ \A f \in Editors : f # e => edit'[f] = edit[f]
<1> USE CatalogRecords
<1> DEFINE q == edit[e]
<1>1. /\ q \in Keeps!Edit /\ edit \in [Editors -> Keeps!Edit] /\ Prepared(q)
  BY DEF Keeps!TypeOK, EditorsInv
<1>2. ASSUME NEW p, Prepared(p), edit' = [edit EXCEPT ![e] = p]
      PROVE  EditorsInv' /\ \A f \in Editors : f # e => edit'[f] = edit[f]
  <2>1. edit'[e] = p /\ \A f \in Editors : f # e => edit'[f] = edit[f]
    BY <1>1, <1>2
  <2>2. \A f \in Editors : Prepared(edit'[f])
    BY <1>2, <2>1 DEF EditorsInv
  <2>3. QED
    BY <2>1, <2>2 DEF EditorsInv, Prepared
<1>3. ASSUME Keeps!Leave(e)
      PROVE  EditorsInv' /\ \A f \in Editors : f # e => edit'[f] = edit[f]
  <2>1. Prepared(Keeps!NoEdit)
    BY DEF Prepared, Keeps!NoEdit
  <2>2. QED
    BY <1>2, <1>3, <2>1 DEF Keeps!Leave
<1>4. CASE Keeps!SaveDraft(e) \/ Keeps!SetEnabled(e) \/ Keeps!Bind(e)
  BY <1>3, <1>4 DEF Keeps!SaveDraft, Keeps!SetEnabled, Keeps!Bind
<1>5. ASSUME NEW n \in Keeps!Revisions, NEW c \in Contents, Keeps!ReadDraft(e, n, c)
      PROVE  EditorsInv' /\ \A f \in Editors : f # e => edit'[f] = edit[f]
  <2> DEFINE p == [Keeps!NoEdit EXCEPT !.pc = "draft", !.number = n, !.content = c]
  <2>1. Prepared(p) /\ edit' = [edit EXCEPT ![e] = p]
    BY <1>5 DEF Keeps!ReadDraft, Prepared, Keeps!NoEdit
  <2> HIDE DEF p
  <2>2. QED
    BY <1>2, <2>1
<1>6. ASSUME NEW id \in Keeps!Ids \cup {0}, Keeps!StartBinding(e, id)
      PROVE  EditorsInv' /\ \A f \in Editors : f # e => edit'[f] = edit[f]
  <2> DEFINE p == [Keeps!NoEdit EXCEPT !.pc = "validate", !.id = id]
  <2>1. Prepared(p) /\ edit' = [edit EXCEPT ![e] = p]
    BY <1>6 DEF Keeps!StartBinding, Prepared, Keeps!NoEdit
  <2> HIDE DEF p
  <2>2. QED
    BY <1>2, <2>1
<1>7. ASSUME NEW b \in Keeps!Binding, Keeps!Validate(e, b)
      PROVE  EditorsInv' /\ \A f \in Editors : f # e => edit'[f] = edit[f]
  <2> DEFINE p == [q EXCEPT !.pc = "peers", !.row = b]
  <2>1. /\ q.pc = "validate" /\ p.pc = "peers" /\ p.row = b /\ p.todo = q.todo /\ p.number = q.number
        /\ Keeps!Leave(e) \/ edit' = [edit EXCEPT ![e] = p]
    BY <1>1, <1>7 DEF Keeps!Validate, Keeps!Edit
  <2> HIDE DEF p
  <2>2. Prepared(p)
    BY <1>1, <2>1 DEF Prepared
  <2>3. QED
    BY <1>2, <1>3, <2>1, <2>2
<1>8. CASE Keeps!CheckPeers(e)
  <2> DEFINE p == [q EXCEPT !.pc = "write"]
  <2>1. /\ q.pc = "peers" /\ p.pc = "write" /\ p.row = q.row /\ p.todo = q.todo /\ p.number = q.number
        /\ Keeps!Leave(e) \/ edit' = [edit EXCEPT ![e] = p]
    BY <1>1, <1>8 DEF Keeps!CheckPeers, Keeps!Edit
  <2> HIDE DEF p
  <2>2. Prepared(p)
    BY <1>1, <2>1 DEF Prepared
  <2>3. QED
    BY <1>2, <1>3, <2>1, <2>2
<1>9. CASE Keeps!WriteBinding(e)
  <2> DEFINE p == [q EXCEPT !.pc = "reconcile", !.id = 0, !.row = Keeps!NoBinding]
  <2>1. /\ p.pc = "reconcile" /\ p.todo = q.todo /\ p.number = q.number
        /\ Keeps!Leave(e) \/ (q.todo # {} /\ edit' = [edit EXCEPT ![e] = p])
    BY <1>1, <1>9 DEF Keeps!WriteBinding, Keeps!Edit
  <2> HIDE DEF p
  <2>2. q.todo # {} => Prepared(p)
    BY <1>1, <2>1 DEF Prepared
  <2>3. QED
    BY <1>2, <1>3, <2>1, <2>2
<1>10. ASSUME NEW id \in Keeps!Ids, Keeps!ReadToggle(e, id)
       PROVE  EditorsInv' /\ \A f \in Editors : f # e => edit'[f] = edit[f]
  <2> DEFINE b == [binding[id] EXCEPT !.enabled = ~@]
             p == [Keeps!NoEdit EXCEPT !.pc = "toggle", !.id = id, !.row = b]
  <2>1. edit' = [edit EXCEPT ![e] = p]
    BY <1>10 DEF Keeps!ReadToggle
  <2> HIDE DEF b
  <2>2. Prepared(p)
    BY DEF Prepared, Keeps!NoEdit
  <2> HIDE DEF p
  <2>3. QED
    BY <1>2, <2>1, <2>2
<1>11. ASSUME NEW n \in Keeps!Revisions \cup {0}, Keeps!ReadRevision(e, n)
       PROVE  EditorsInv' /\ \A f \in Editors : f # e => edit'[f] = edit[f]
  <2>1. PICK m \in Keeps!Revisions : Keeps!Published(m) /\ edit' = [edit EXCEPT ![e] =
               [Keeps!NoEdit EXCEPT !.pc = "bind", !.number = m, !.content = revision[m].content]]
    BY <1>11, RevisionRead
  <2> DEFINE c == revision[m].content
             p == [Keeps!NoEdit EXCEPT !.pc = "bind", !.number = m, !.content = c]
  <2>2. c \in Contents /\ edit' = [edit EXCEPT ![e] = p]
    BY <2>1, RevisionTyped
  <2> HIDE DEF c
  <2>3. Prepared(p)
    BY <2>2 DEF Prepared, Keeps!NoEdit
  <2> HIDE DEF p
  <2>4. QED
    BY <1>2, <2>2, <2>3
<1>12. CASE Keeps!ReadLatest(e)
  <2> DEFINE p == [Keeps!NoEdit EXCEPT !.pc = "reconcile", !.number = latest, !.todo = Offers[Preset]]
  <2>1. latest \in Keeps!Revisions /\ edit' = [edit EXCEPT ![e] = p]
    BY <1>12 DEF Keeps!ReadLatest, Keeps!TypeOK
  <2>2. Prepared(p)
    BY <2>1 DEF Prepared, Keeps!NoEdit
  <2> HIDE DEF p
  <2>3. QED
    BY <1>2, <2>1, <2>2
<1>13. CASE Keeps!Reconcile(e)
  <2>1. PICK op \in q.todo :
           LET own == Keeps!Slot(binding, op, Keeps!Default)
               b == Keeps!Wildcard(op, Keeps!Default, q.number)
               left == q.todo \ {op}
           IN IF own # {} /\ binding[Keeps!Min(own)] = b
              THEN IF left = {} THEN Keeps!Leave(e) ELSE edit' = [edit EXCEPT ![e].todo = left]
              ELSE edit' = [edit EXCEPT ![e].pc = "peers", ![e].todo = left, ![e].row = b,
                                        ![e].id = IF own # {} THEN Keeps!Min(own) ELSE 0]
    BY <1>13 DEF Keeps!Reconcile
  <2> DEFINE own == Keeps!Slot(binding, op, Keeps!Default)
             b == Keeps!Wildcard(op, Keeps!Default, q.number)
             left == q.todo \ {op}
             id == IF own # {} THEN Keeps!Min(own) ELSE 0
             shorter == [q EXCEPT !.todo = left]
             p == [q EXCEPT !.pc = "peers", !.todo = left, !.row = b, !.id = id]
  <2>2. q.number \in Keeps!Revisions /\ op \in Keeps!Operations /\ q.pc = "reconcile"
    BY <1>1, <1>13 DEF Keeps!Reconcile, Prepared, Keeps!Edit
  <2>3. b \in Keeps!Binding
    BY <2>2, CatalogRecords
  <2>4. /\ shorter.pc = q.pc /\ shorter.number = q.number
        /\ p.pc = "peers" /\ p.row = b /\ p.number = q.number
    BY <1>1 DEF Keeps!Edit
  <2>5. Keeps!Leave(e) \/ edit' = [edit EXCEPT ![e] = shorter] \/ edit' = [edit EXCEPT ![e] = p]
    BY <2>1
  <2> HIDE DEF shorter, p, b
  <2>6. Prepared(shorter) /\ Prepared(p)
    BY <2>2, <2>3, <2>4 DEF Prepared
  <2>7. QED
    BY <1>2, <1>3, <2>5, <2>6
<1>14. \A op \in Keeps!Operations, p \in Patterns,
         k \in Precedences, n \in Keeps!Revisions, on \in BOOLEAN :
          [op |-> op, pattern |-> p, precedence |-> k, revision |-> n, enabled |-> on] \in Keeps!Binding
  BY DEF Keeps!Binding
<1>15. QED
  BY <1>4, <1>5, <1>6, <1>7, <1>8, <1>9, <1>10, <1>11, <1>12, <1>13, <1>14 DEF Keeps!EditStep
-----------------------------------------------------------------------------
(* One administrator: bindings and what an editor has checked stay true.     *)

Upright(kind, revs, b) ==
    /\ revs[b.revision].state \in {"published", "retired"}
    /\ b.enabled => revs[b.revision].state = "published"
    /\ kind = "custom" => b.op \in Offers[revs[b.revision].content]
Upheld(kind, revs, rows) == \A i \in Keeps!Ids : rows[i] # Keeps!NoBinding => Upright(kind, revs, rows[i])
Clash(b, c) == b.op = c.op /\ b.precedence = c.precedence /\ Keeps!Overlap(b.pattern, c.pattern)
Apart(rows) == \A i, j \in Keeps!Ids :
                   i # j /\ rows[i] # Keeps!NoBinding /\ rows[j] # Keeps!NoBinding => ~Clash(rows[i], rows[j])
Checked(kind, revs, n, op) ==
    revs[n].state = "published" /\ (kind = "custom" => op \in Offers[revs[n].content])
Ready(kind, revs, rows, q) ==
    /\ q.pc \in {"peers", "write"} => Checked(kind, revs, q.row.revision, q.row.op)
    /\ q.pc = "write" =>
           \A i \in Keeps!Ids : i # q.id /\ rows[i] # Keeps!NoBinding => ~Clash(rows[i], q.row)
    /\ q.pc = "bind" => revs[q.number].state = "published" /\ revs[q.number].content = q.content
    /\ q.pc = "reconcile" \/ q.todo # {} => kind = "builtin" /\ revs[q.number].state = "published"
OneByOne == \A e, f \in Editors : ~Keeps!Free(e) /\ ~Keeps!Free(f) => e = f

\* What one administrator finds: bindings whose revisions stand and that are
\* apart, one request at a time, and what that one has read and checked.
ConsoleInv ==
    alone => /\ Upheld(source, revision, binding)
             /\ Apart(binding)
             /\ \A e \in Editors : Ready(source, revision, binding, edit[e])
             /\ OneByOne

LEMMA Solo ==
    ASSUME ConsoleInv, alone, NEW e \in Editors, Keeps!EditStep(e)
    PROVE  \A f \in Editors : f # e => Keeps!Free(f)
<1>1. CASE Keeps!Turn
  BY <1>1 DEF Keeps!Turn
<1>2. CASE ~Keeps!Free(e)
  BY <1>2 DEF ConsoleInv, OneByOne
<1>3. CASE Keeps!Free(e) /\ ~Keeps!Turn
  BY <1>3 DEF Keeps!EditStep, Keeps!ReadDraft, Keeps!SaveDraft, Keeps!StartBinding,
     Keeps!Validate, Keeps!CheckPeers, Keeps!WriteBinding,
              Keeps!ReadToggle, Keeps!SetEnabled, Keeps!ReadRevision, Keeps!Bind,
              Keeps!ReadLatest, Keeps!Reconcile, Keeps!Free
<1>4. QED
  BY <1>1, <1>2, <1>3

\* Only the one editor has anything to lose.
LEMMA ConsoleOfOne ==
    ASSUME GatewayAssumption, ConsoleInv, EditorsInv, alone, UNCHANGED Keeps!given,
           NEW e \in Editors,
           \A f \in Editors : f # e => Keeps!Free(f) /\ edit'[f] = edit[f],
           Upheld(source, revision', binding'), Apart(binding'),
           Ready(source, revision', binding', edit'[e])
    PROVE  ConsoleInv'
<1>1. \A f \in Editors : f # e => edit'[f].pc = "idle" /\ edit'[f].todo = {}
  BY DEF Keeps!Free, EditorsInv, Prepared
<1>2. \A f \in Editors : Ready(source, revision', binding', edit'[f])
  <2>1. \A f \in Editors : f # e => Ready(source, revision', binding', edit'[f])
    BY <1>1 DEF Ready
  <2>2. QED
    BY <2>1
<1>3. OneByOne'
  BY <1>1 DEF OneByOne, Keeps!Free
<1>4. source' = source
  BY DEF Keeps!given
<1>5. QED
  BY <1>2, <1>3, <1>4 DEF ConsoleInv

LEMMA ConsoleOfNone ==
    ASSUME GatewayAssumption, ConsoleInv, EditorsInv, alone, UNCHANGED <<Keeps!given, edit>>,
           Keeps!Turn,
           Upheld(source, revision', binding'), Apart(binding')
    PROVE  ConsoleInv'
<1>1. \A f \in Editors : edit'[f].pc = "idle" /\ edit'[f].todo = {}
  BY DEF Keeps!Turn, Keeps!Free, EditorsInv, Prepared
<1>2. \A f \in Editors : Ready(source, revision', binding', edit'[f])
  BY <1>1 DEF Ready
<1>3. OneByOne'
  BY <1>1 DEF OneByOne, Keeps!Free
<1>4. source' = source
  BY DEF Keeps!given
<1>5. QED
  BY <1>2, <1>3, <1>4 DEF ConsoleInv

LEMMA UpheldStays ==
    ASSUME NEW kind, NEW revs, NEW after, NEW rows, Upheld(kind, revs, rows),
           \A i \in Keeps!Ids : rows[i] # Keeps!NoBinding =>
               /\ revs[rows[i].revision].state \in {"published", "retired"} =>
                      /\ after[rows[i].revision].content = revs[rows[i].revision].content
                      /\ after[rows[i].revision].state \in {"published", "retired"}
               /\ rows[i].enabled /\ revs[rows[i].revision].state = "published" =>
                      after[rows[i].revision].state = "published"
    PROVE  Upheld(kind, after, rows)
BY DEF Upheld, Upright

LEMMA PublishedStays ==
    ASSUME GatewayAssumption, Keeps!TypeOK, Keeps!LatestIsHighest, EditorsInv,
           \/ \E n \in Keeps!Revisions, c \in Contents : Keeps!CreateProfile(n, c)
           \/ Keeps!EnsureBuiltin
           \/ \E n \in Keeps!Revisions \cup {0}, c \in Contents : Keeps!CreateRevision(n, c)
           \/ \E n \in Keeps!Revisions : Keeps!Publish(n)
           \/ \E e \in Editors : Keeps!SaveDraft(e)
    PROVE  \A m \in Keeps!Revisions : Keeps!Published(m) => revision'[m].state = "published"
<1>1. revision \in [Keeps!Revisions -> Keeps!Revision]
  BY DEF Keeps!TypeOK
<1>2. \A m \in Keeps!Revisions : Keeps!Published(m) => Keeps!Exists(m)
  BY DEF Keeps!Published, Keeps!Exists, Keeps!NoRevision
<1>3. CASE (\E n \in Keeps!Revisions, c \in Contents :
                Keeps!CreateProfile(n, c)) \/ Keeps!EnsureBuiltin
  <2>1. ~there
    BY <1>3 DEF Keeps!CreateProfile, Keeps!EnsureBuiltin
  <2>2. QED
    BY <1>2, <2>1, Vacant
<1>4. ASSUME NEW k \in Keeps!Revisions \cup {0}, NEW c \in Contents, Keeps!CreateRevision(k, c)
      PROVE  \A m \in Keeps!Revisions : Keeps!Published(m) => revision'[m].state = "published"
  <2>1. PICK n \in Keeps!Revisions : /\ ~Keeps!Exists(n)
                               /\ revision' = [revision EXCEPT ![n] = [state |-> "draft", content |-> c]]
    BY <1>4, Zenon DEF Keeps!CreateRevision
  <2>2. QED
    BY <1>1, <1>2, <2>1 DEF Keeps!Published
<1>5. ASSUME NEW n \in Keeps!Revisions, Keeps!Publish(n)
      PROVE  \A m \in Keeps!Revisions : Keeps!Published(m) => revision'[m].state = "published"
  <2>1. revision' = [revision EXCEPT ![n].state = "published"] /\ revision[n].state # "none"
    BY <1>5 DEF Keeps!Publish
  <2>2. revision'[n].state = "published"
    BY <1>1, <2>1 DEF Keeps!Revision, Keeps!NoRevision
  <2>3. QED
    BY <1>1, <2>1, <2>2 DEF Keeps!Published
<1>6. ASSUME NEW e \in Editors, Keeps!SaveDraft(e)
      PROVE  \A m \in Keeps!Revisions : Keeps!Published(m) => revision'[m].state = "published"
  <2> DEFINE n == edit[e].number
             c == edit[e].content
  <2>1. n \in Keeps!Revisions
    BY <1>6 DEF Keeps!SaveDraft, EditorsInv, Prepared
  <2>2. \/ revision' = revision
        \/ ~Keeps!Immutable(n) /\ revision' = [revision EXCEPT ![n] = [state |-> "draft", content |-> c]]
    BY <1>6 DEF Keeps!SaveDraft
  <2> HIDE DEF n, c
  <2>3. QED
    BY <1>1, <2>1, <2>2 DEF Keeps!Published, Keeps!Immutable
<1>7. QED
  BY <1>3, <1>4, <1>5, <1>6

LEMMA BindingsRead ==
    ASSUME Keeps!TypeOK
    PROVE  \A i \in Keeps!Ids : binding[i] # Keeps!NoBinding =>
               /\ binding[i] \in Keeps!Binding /\ binding[i].revision \in Keeps!Revisions
               /\ binding[i].enabled \in BOOLEAN
<1>1. \A b \in Keeps!Binding : b.revision \in Keeps!Revisions /\ b.enabled \in BOOLEAN
  BY DEF Keeps!Binding
<1>2. QED
  BY <1>1 DEF Keeps!TypeOK

\* Revisions come and change under the bindings.
LEMMA RevisionsKeepConsole ==
    ASSUME GatewayAssumption, Keeps!TypeOK, Keeps!LatestIsHighest, EditorsInv, ConsoleInv, alone,
           UNCHANGED Keeps!given,
           \/ \E n \in Keeps!Revisions, c \in Contents : Keeps!CreateProfile(n, c)
           \/ Keeps!EnsureBuiltin
           \/ \E n \in Keeps!Revisions \cup {0}, c \in Contents : Keeps!CreateRevision(n, c)
           \/ \E n \in Keeps!Revisions : Keeps!Publish(n) \/ Keeps!Retire(n)
           \/ \E e \in Editors : Keeps!SaveDraft(e)
    PROVE  ConsoleInv'
<1>1. Upheld(source, revision, binding) /\ Apart(binding)
  BY DEF ConsoleInv
<1>2. binding' = binding
  BY DEF Keeps!CreateProfile, Keeps!EnsureBuiltin, Keeps!CreateRevision, Keeps!Publish,
         Keeps!Retire, Keeps!SaveDraft
<1>3. \A m \in Keeps!Revisions : Keeps!Immutable(m) =>
          revision'[m].content = revision[m].content /\ revision'[m].state \in {"published", "retired"}
  BY RevisionsKept DEF Frozen
<1>4. Upheld(source, revision', binding)
  <2>1. ASSUME NEW n \in Keeps!Revisions, Keeps!Retire(n)
        PROVE  \A i \in Keeps!Ids : binding[i] # Keeps!NoBinding /\ binding[i].enabled =>
                   revision'[binding[i].revision] = revision[binding[i].revision]
    <3>1. /\ \A i \in Keeps!Ids : binding[i].enabled => binding[i].revision # n
          /\ revision' = [revision EXCEPT ![n].state = "retired"]
      BY <2>1 DEF Keeps!Retire
    <3>2. QED
      BY <3>1, BindingsRead DEF Keeps!TypeOK
  <2>2. \A i \in Keeps!Ids : binding[i] # Keeps!NoBinding /\ binding[i].enabled
                       /\ revision[binding[i].revision].state = "published" =>
            revision'[binding[i].revision].state = "published"
    <3>1. CASE \E n \in Keeps!Revisions : Keeps!Retire(n)
      BY <2>1, <3>1
    <3>2. CASE ~ \E n \in Keeps!Revisions : Keeps!Retire(n)
      <4>1. \A m \in Keeps!Revisions : Keeps!Published(m) => revision'[m].state = "published"
        BY <3>2, PublishedStays
      <4>2. QED
        BY <4>1, BindingsRead DEF Keeps!Published
    <3>3. QED
      BY <3>1, <3>2
  <2> DEFINE revs == revision
             new == revision'
             rows == binding
  <2>3. \A i \in Keeps!Ids : rows[i] # Keeps!NoBinding =>
               /\ revs[rows[i].revision].state \in {"published", "retired"} =>
                      /\ new[rows[i].revision].content = revs[rows[i].revision].content
                      /\ new[rows[i].revision].state \in {"published", "retired"}
               /\ rows[i].enabled /\ revs[rows[i].revision].state = "published" =>
                      new[rows[i].revision].state = "published"
    BY <1>3, <2>2, BindingsRead DEF Keeps!Immutable
  <2>4. Upheld(source, revs, rows)
    BY <1>1
  <2> HIDE DEF revs, new, rows
  <2>5. Upheld(source, new, rows)
    BY <2>3, <2>4, UpheldStays
  <2>6. QED
    BY <2>5 DEF new, rows
<1>5. CASE \/ \E n \in Keeps!Revisions, c \in Contents : Keeps!CreateProfile(n, c)
           \/ \E n \in Keeps!Revisions \cup {0}, c \in Contents : Keeps!CreateRevision(n, c)
           \/ \E n \in Keeps!Revisions : Keeps!Publish(n) \/ Keeps!Retire(n)
  <2>1. Keeps!Turn /\ edit' = edit
    BY <1>5 DEF Keeps!CreateProfile, Keeps!CreateRevision, Keeps!Publish, Keeps!Retire
  <2>2. QED
    BY <1>1, <1>2, <1>4, <2>1, ConsoleOfNone
<1>6. ASSUME NEW e \in Editors, Keeps!SaveDraft(e)
      PROVE  ConsoleInv'
  <2>1. edit' = [edit EXCEPT ![e] = Keeps!NoEdit] /\ Keeps!EditStep(e)
    BY <1>6 DEF Keeps!SaveDraft, Keeps!Leave, Keeps!EditStep
  <2>2. edit'[e] = Keeps!NoEdit /\ \A f \in Editors : f # e => Keeps!Free(f) /\ edit'[f] = edit[f]
    BY <2>1, Solo DEF Keeps!TypeOK
  <2>3. Ready(source, revision', binding', edit'[e])
    BY <2>2 DEF Ready, Keeps!NoEdit
  <2>4. QED
    BY <1>1, <1>2, <1>4, <2>2, <2>3, ConsoleOfOne
<1>7. CASE Keeps!EnsureBuiltin
  <2>1. /\ ~there /\ edit' = edit
        /\ \A m \in Keeps!Revisions : revision[m].state # "published"
    <3>1. ~there /\ edit' = edit
      BY <1>7 DEF Keeps!EnsureBuiltin
    <3>2. QED
      BY <3>1, Vacant DEF Keeps!Exists, Keeps!NoRevision
  <2>2. \A f \in Editors : Ready(source, revision', binding', edit'[f])
    <3> SUFFICES ASSUME NEW f \in Editors PROVE Ready(source, revision', binding', edit[f])
      BY <2>1
    <3>1. Prepared(edit[f]) /\ Ready(source, revision, binding, edit[f])
      BY DEF EditorsInv, ConsoleInv
    <3>2. \A b \in Keeps!Binding : b.revision \in Keeps!Revisions
      BY DEF Keeps!Binding
    <3>3. QED
      BY <2>1, <3>1, <3>2 DEF Prepared, Ready, Checked
  <2>3. OneByOne'
    BY <2>1 DEF OneByOne, Keeps!Free, ConsoleInv
  <2>4. source' = source
    BY DEF Keeps!given
  <2>5. QED
    BY <1>1, <1>2, <1>4, <2>2, <2>3, <2>4 DEF ConsoleInv
<1>8. QED
  BY <1>5, <1>6, <1>7

\* What is deleted has no binding.
LEMMA DeletesKeepConsole ==
    ASSUME GatewayAssumption, Keeps!TypeOK, EditorsInv, ConsoleInv, alone, UNCHANGED Keeps!given,
           (\E n \in Keeps!Revisions : Keeps!DeleteRevision(n)) \/ Keeps!DeleteProfile
    PROVE  ConsoleInv'
<1>1. Upheld(source, revision, binding) /\ Apart(binding)
  BY DEF ConsoleInv
<1>2. binding' = binding /\ edit' = edit /\ Keeps!Turn
  BY DEF Keeps!DeleteRevision, Keeps!DeleteProfile
<1>3. \A i \in Keeps!Ids : binding[i] # Keeps!NoBinding =>
          revision'[binding[i].revision] = revision[binding[i].revision]
  <2>1. ASSUME NEW n \in Keeps!Revisions, Keeps!DeleteRevision(n)
        PROVE  \A i \in Keeps!Ids : binding[i] # Keeps!NoBinding =>
                   revision'[binding[i].revision] = revision[binding[i].revision]
    <3>1. revision' = [revision EXCEPT ![n] = Keeps!NoRevision] /\ ~Keeps!Bound(n)
      BY <2>1 DEF Keeps!DeleteRevision
    <3>2. \A i \in Keeps!Ids : binding[i] # Keeps!NoBinding => binding[i].revision # n
      BY <3>1 DEF Keeps!Bound
    <3>3. QED
      BY <3>1, <3>2, BindingsRead DEF Keeps!TypeOK
  <2>2. CASE Keeps!DeleteProfile
    BY <2>2 DEF Keeps!DeleteProfile
  <2>3. QED
    BY <2>1, <2>2
<1>4. Upheld(source, revision', binding')
  BY <1>1, <1>2, <1>3 DEF Upheld, Upright
<1>5. QED
  BY <1>1, <1>2, <1>4, ConsoleOfNone

LEMMA Fewer ==
    ASSUME NEW kind, NEW revs, NEW rows, NEW left, Upheld(kind, revs, rows), Apart(rows),
           \A i \in Keeps!Ids : left[i] # Keeps!NoBinding => left[i] = rows[i]
    PROVE  Upheld(kind, revs, left) /\ Apart(left)
BY DEF Upheld, Apart

LEMMA ClashBothWays == \A b, c : Clash(b, c) => Clash(c, b)
BY DEF Clash, Keeps!Overlap

LEMMA OneMore ==
    ASSUME NEW kind, NEW revs, NEW rows \in [Keeps!Ids -> Keeps!Binding \cup {Keeps!NoBinding}],
           Upheld(kind, revs, rows), Apart(rows),
           NEW id \in Keeps!Ids, NEW b, Upright(kind, revs, b),
           \A i \in Keeps!Ids : i # id /\ rows[i] # Keeps!NoBinding => ~Clash(rows[i], b)
    PROVE  Upheld(kind, revs, [rows EXCEPT ![id] = b]) /\ Apart([rows EXCEPT ![id] = b])
<1> DEFINE more == [rows EXCEPT ![id] = b]
<1>1. more[id] = b /\ \A i \in Keeps!Ids : i # id => more[i] = rows[i]
  OBVIOUS
<1> HIDE DEF more
<1>2. Upheld(kind, revs, more)
  BY <1>1 DEF Upheld
<1>3. Apart(more)
  BY <1>1, ClashBothWays DEF Apart
<1>4. QED
  BY <1>2, <1>3 DEF more

\* Rows that are placed without a conflict.
LEMMA PlacedApart ==
    ASSUME GatewayAssumption, NEW kind, NEW revs, NEW rows, Upheld(kind, revs, rows), Apart(rows),
           NEW ops \in SUBSET Keeps!Operations, NEW q \in {0, Keeps!Default},
           NEW n \in Keeps!Revisions,
           NEW place \in Keeps!Places(rows, ops, q), ~Keeps!Conflicts(rows, ops, q),
           revs[n].state = "published", kind = "custom" => ops \subseteq Offers[revs[n].content]
    PROVE  Upheld(kind, revs, Keeps!Placed(rows, place, q, n)) /\ Apart(Keeps!Placed(rows, place, q, n))
<1> DEFINE more == Keeps!Placed(rows, place, q, n)
           new(op) == Keeps!Wildcard(op, q, n)
<1>1. \A i \in Keeps!Ids :
         \/ \E op \in ops : place[op] = i /\ more[i] = new(op)
         \/ more[i] = rows[i] /\ \A op \in ops : place[op] # i
  BY PlacesTyped
<1>2. \A op \in ops : Upright(kind, revs, new(op)) /\ new(op).op = op
  BY DEF Keeps!Wildcard, Upright
<1>3. ASSUME NEW op \in ops, NEW j \in Keeps!Ids, rows[j] # Keeps!NoBinding, j # place[op]
      PROVE  ~Clash(rows[j], new(op))
  <2> DEFINE own == Keeps!Slot(rows, op, q)
             id == IF own # {} THEN Keeps!Min(own) ELSE 0
  <2>1. place[op] \in IF own # {} THEN {Keeps!Min(own)} ELSE Keeps!FreeIds(rows)
    BY DEF Keeps!Places
  <2>2. Keeps!Peers(rows, id, Keeps!Wildcard(op, q, 0)) = {}
    BY DEF Keeps!Conflicts
  <2> HIDE DEF own
  <2>3. j # id
    BY <1>3, <2>1, CatalogRecords
  <2> HIDE DEF id
  <2>4. QED
    BY <1>3, <2>2, <2>3 DEF Keeps!Peers, Keeps!Wildcard, Clash
<1>4. \A op, o \in ops : op # o => ~Clash(new(op), new(o))
  BY <1>2 DEF Clash
<1> HIDE DEF more, new
<1>5. Upheld(kind, revs, more)
  BY <1>1, <1>2 DEF Upheld
<1>6. Apart(more)
  <2> SUFFICES ASSUME NEW i \in Keeps!Ids, NEW j \in Keeps!Ids, i # j, more[i] # Keeps!NoBinding,
                      more[j] # Keeps!NoBinding
               PROVE  ~Clash(more[i], more[j])
    BY DEF Apart
  <2>1. CASE \E op \in ops : place[op] = i /\ more[i] = new(op)
    <3>1. PICK op \in ops : place[op] = i /\ more[i] = new(op)
      BY <2>1
    <3>2. CASE \E o \in ops : place[o] = j /\ more[j] = new(o)
      BY <1>4, <3>1, <3>2
    <3>3. CASE more[j] = rows[j]
      BY <1>3, <3>1, <3>3, ClashBothWays
    <3>4. QED
      BY <1>1, <3>2, <3>3
  <2>2. CASE more[i] = rows[i] /\ \A op \in ops : place[op] # i
    <3>1. CASE \E o \in ops : place[o] = j /\ more[j] = new(o)
      BY <1>3, <2>2, <3>1
    <3>2. CASE more[j] = rows[j]
      BY <2>2, <3>2 DEF Apart
    <3>3. QED
      BY <1>1, <3>1, <3>2
  <2>3. QED
    BY <1>1, <2>1, <2>2
<1>7. QED
  BY <1>5, <1>6 DEF more

\* Rows are deleted and the default ones come back.
LEMMA RowsKeepConsole ==
    ASSUME GatewayAssumption, Keeps!TypeOK, EditorsInv, ConsoleInv, alone, UNCHANGED Keeps!given,
           \/ \E id \in Keeps!Ids : Keeps!DeleteBinding(id)
           \/ Keeps!Unbind \/ Keeps!EnsureDefaults \/ Keeps!RemoveDefaults
    PROVE  ConsoleInv'
<1>1. /\ Upheld(source, revision, binding)
      /\ Apart(binding)
      /\ binding \in [Keeps!Ids -> Keeps!Binding \cup {Keeps!NoBinding}]
  BY DEF ConsoleInv, Keeps!TypeOK
<1>2. Keeps!Turn /\ UNCHANGED <<Keeps!catalog, edit>>
  BY DEF Keeps!DeleteBinding, Keeps!Unbind, Keeps!EnsureDefaults, Keeps!RemoveDefaults
<1>3. CASE (\E id \in Keeps!Ids : Keeps!DeleteBinding(id)) \/ Keeps!Unbind \/ Keeps!RemoveDefaults
  <2>1. \A i \in Keeps!Ids : binding'[i] # Keeps!NoBinding => binding'[i] = binding[i]
    BY <1>1, <1>3 DEF Keeps!DeleteBinding, Keeps!Unbind, Keeps!RemoveDefaults
  <2> DEFINE rows == binding
             left == binding'
  <2>2. \A i \in Keeps!Ids : left[i] # Keeps!NoBinding => left[i] = rows[i]
    BY <2>1
  <2>3. Upheld(source, revision, rows) /\ Apart(rows)
    BY <1>1
  <2> HIDE DEF rows, left
  <2>4. Upheld(source, revision, left) /\ Apart(left)
    BY <2>2, <2>3, Fewer
  <2>5. QED
    BY <1>2, <2>4, ConsoleOfNone DEF left, Keeps!catalog
<1>4. CASE Keeps!EnsureDefaults
  <2> DEFINE ops == {op \in Offers[Preset] : Keeps!Slot(binding, op, Keeps!Default) = {}}
             q == Keeps!Default
  <2>1. /\ source = "builtin" /\ Keeps!Published(latest) /\ latest > 0 /\ ~Keeps!Conflicts(binding, ops, q)
        /\ \E place \in Keeps!Places(binding, ops, q) :
               binding' = Keeps!Placed(binding, place, q, latest)
    BY <1>4 DEF Keeps!EnsureDefaults
  <2>2. ops \in SUBSET Keeps!Operations /\ q \in {0, Keeps!Default} /\ latest \in Keeps!Revisions
    BY <2>1, CatalogRecords DEF Keeps!TypeOK
  <2> HIDE DEF ops, q
  <2>3. PICK place \in Keeps!Places(binding, ops, q) : binding' = Keeps!Placed(binding, place, q, latest)
    BY <2>1
  <2>4. Upheld(source, revision, binding') /\ Apart(binding')
    BY <1>1, <2>1, <2>2, <2>3, PlacedApart DEF Keeps!Published
  <2>5. QED
    BY <1>2, <2>4, ConsoleOfNone DEF Keeps!catalog
<1>5. QED
  BY <1>3, <1>4

\* The one editor reads and checks.
LEMMA ChecksKeepConsole ==
    ASSUME GatewayAssumption, Keeps!TypeOK, EditorsInv, ConsoleInv, alone, UNCHANGED Keeps!given,
           NEW e \in Editors, Keeps!EditStep(e), UNCHANGED <<Keeps!catalog, binding, task>>
    PROVE  ConsoleInv'
<1> USE CatalogRecords
<1> DEFINE q == edit[e]
<1>1. /\ q \in Keeps!Edit /\ edit \in [Editors -> Keeps!Edit] /\ Prepared(q)
      /\ Ready(source, revision, binding, q)
  BY DEF Keeps!TypeOK, EditorsInv, ConsoleInv
<1>2. ASSUME NEW p, Ready(source, revision, binding, p), edit' = [edit EXCEPT ![e] = p]
      PROVE  ConsoleInv'
  <2>1. edit'[e] = p /\ \A f \in Editors : f # e => Keeps!Free(f) /\ edit'[f] = edit[f]
    BY <1>1, <1>2, Solo
  <2>2. /\ Upheld(source, revision', binding') /\ Apart(binding')
        /\ Ready(source, revision', binding', edit'[e])
    BY <1>2, <2>1 DEF ConsoleInv, Keeps!catalog
  <2>3. QED
    BY <2>1, <2>2, ConsoleOfOne
<1>3. ASSUME Keeps!Leave(e) PROVE ConsoleInv'
  <2>1. Ready(source, revision, binding, Keeps!NoEdit)
    BY DEF Ready, Keeps!NoEdit
  <2>2. QED
    BY <1>2, <1>3, <2>1 DEF Keeps!Leave
<1>4. CASE Keeps!SaveDraft(e) \/ Keeps!SetEnabled(e) \/ Keeps!Bind(e)
  BY <1>3, <1>4 DEF Keeps!SaveDraft, Keeps!SetEnabled, Keeps!Bind
<1>5. ASSUME NEW n \in Keeps!Revisions, NEW c \in Contents, Keeps!ReadDraft(e, n, c)
      PROVE  ConsoleInv'
  <2> DEFINE p == [Keeps!NoEdit EXCEPT !.pc = "draft", !.number = n, !.content = c]
  <2>1. Ready(source, revision, binding, p) /\ edit' = [edit EXCEPT ![e] = p]
    BY <1>5 DEF Keeps!ReadDraft, Ready, Keeps!NoEdit
  <2> HIDE DEF p
  <2>2. QED
    BY <1>2, <2>1
<1>6. ASSUME NEW id \in Keeps!Ids \cup {0}, Keeps!StartBinding(e, id) PROVE ConsoleInv'
  <2> DEFINE p == [Keeps!NoEdit EXCEPT !.pc = "validate", !.id = id]
  <2>1. Ready(source, revision, binding, p) /\ edit' = [edit EXCEPT ![e] = p]
    BY <1>6 DEF Keeps!StartBinding, Ready, Keeps!NoEdit
  <2> HIDE DEF p
  <2>2. QED
    BY <1>2, <2>1
<1>7. ASSUME NEW b \in Keeps!Binding, Keeps!Validate(e, b) PROVE ConsoleInv'
  <2> DEFINE p == [q EXCEPT !.pc = "peers", !.row = b]
  <2>1. /\ p.pc = "peers" /\ p.row = b /\ p.todo = q.todo /\ p.number = q.number
        /\ \/ Keeps!Leave(e)
           \/ /\ Checked(source, revision, b.revision, b.op)
              /\ edit' = [edit EXCEPT ![e] = p]
    BY <1>1, <1>7 DEF Keeps!Validate, Keeps!Edit, Checked, Keeps!Published
  <2> HIDE DEF p
  <2>2. Checked(source, revision, b.revision, b.op) => Ready(source, revision, binding, p)
    BY <1>1, <2>1 DEF Ready
  <2>3. QED
    BY <1>2, <1>3, <2>1, <2>2
<1>8. CASE Keeps!CheckPeers(e)
  <2> DEFINE p == [q EXCEPT !.pc = "write"]
  <2>1. /\ q.pc = "peers" /\ p.pc = "write" /\ p.row = q.row /\ p.todo = q.todo
        /\ p.number = q.number /\ p.id = q.id
        /\ \/ Keeps!Leave(e)
           \/ Keeps!Peers(binding, q.id, q.row) = {} /\ edit' = [edit EXCEPT ![e] = p]
    BY <1>1, <1>8 DEF Keeps!CheckPeers, Keeps!Edit
  <2> HIDE DEF p
  <2>2. Keeps!Peers(binding, q.id, q.row) = {} =>
            \A i \in Keeps!Ids : i # q.id /\ binding[i] # Keeps!NoBinding => ~Clash(binding[i], q.row)
    BY DEF Keeps!Peers, Clash
  <2> HIDE DEF q
  <2>3. Keeps!Peers(binding, q.id, q.row) = {} => Ready(source, revision, binding, p)
    BY <1>1, <2>1, <2>2 DEF Ready
  <2>4. QED
    BY <1>2, <1>3, <2>1, <2>3
<1>9. CASE Keeps!WriteBinding(e)
  <2> DEFINE p == [q EXCEPT !.pc = "reconcile", !.id = 0, !.row = Keeps!NoBinding]
  <2>1. /\ p.pc = "reconcile" /\ p.todo = q.todo /\ p.number = q.number
        /\ Keeps!Leave(e) \/ (q.todo # {} /\ edit' = [edit EXCEPT ![e] = p])
    BY <1>1, <1>9 DEF Keeps!WriteBinding, Keeps!Edit
  <2> HIDE DEF p
  <2>2. q.todo # {} => Ready(source, revision, binding, p)
    BY <1>1, <2>1 DEF Ready
  <2>3. QED
    BY <1>2, <1>3, <2>1, <2>2
<1>10. ASSUME NEW id \in Keeps!Ids, Keeps!ReadToggle(e, id) PROVE ConsoleInv'
  <2> DEFINE b == [binding[id] EXCEPT !.enabled = ~@]
             p == [Keeps!NoEdit EXCEPT !.pc = "toggle", !.id = id, !.row = b]
  <2>1. edit' = [edit EXCEPT ![e] = p]
    BY <1>10 DEF Keeps!ReadToggle
  <2> HIDE DEF b
  <2>2. Ready(source, revision, binding, p)
    BY DEF Ready, Keeps!NoEdit
  <2> HIDE DEF p
  <2>3. QED
    BY <1>2, <2>1, <2>2
<1>11. ASSUME NEW n \in Keeps!Revisions \cup {0}, Keeps!ReadRevision(e, n) PROVE ConsoleInv'
  <2>1. PICK m \in Keeps!Revisions : Keeps!Published(m) /\ edit' = [edit EXCEPT ![e] =
               [Keeps!NoEdit EXCEPT !.pc = "bind", !.number = m, !.content = revision[m].content]]
    BY <1>11, RevisionRead
  <2> DEFINE c == revision[m].content
             p == [Keeps!NoEdit EXCEPT !.pc = "bind", !.number = m, !.content = c]
  <2>2. /\ p.pc = "bind" /\ p.number = m /\ p.content = c /\ p.todo = {}
        /\ edit' = [edit EXCEPT ![e] = p]
    BY <2>1 DEF Keeps!NoEdit
  <2> HIDE DEF p
  <2>3. Ready(source, revision, binding, p)
    BY <2>1, <2>2 DEF Ready, Keeps!Published
  <2>4. QED
    BY <1>2, <2>2, <2>3
<1>12. CASE Keeps!ReadLatest(e)
  <2> DEFINE p == [Keeps!NoEdit EXCEPT !.pc = "reconcile", !.number = latest, !.todo = Offers[Preset]]
  <2>1. source = "builtin" /\ Keeps!Published(latest) /\ edit' = [edit EXCEPT ![e] = p]
    BY <1>12 DEF Keeps!ReadLatest
  <2>2. p.pc = "reconcile" /\ p.number = latest
    BY DEF Keeps!NoEdit
  <2> HIDE DEF p
  <2>3. Ready(source, revision, binding, p)
    BY <2>1, <2>2 DEF Ready, Keeps!Published
  <2>4. QED
    BY <1>2, <2>1, <2>3
<1>13. CASE Keeps!Reconcile(e)
  <2>1. PICK op \in q.todo :
           LET own == Keeps!Slot(binding, op, Keeps!Default)
               b == Keeps!Wildcard(op, Keeps!Default, q.number)
               left == q.todo \ {op}
           IN IF own # {} /\ binding[Keeps!Min(own)] = b
              THEN IF left = {} THEN Keeps!Leave(e) ELSE edit' = [edit EXCEPT ![e].todo = left]
              ELSE edit' = [edit EXCEPT ![e].pc = "peers", ![e].todo = left, ![e].row = b,
                                        ![e].id = IF own # {} THEN Keeps!Min(own) ELSE 0]
    BY <1>13 DEF Keeps!Reconcile
  <2> DEFINE own == Keeps!Slot(binding, op, Keeps!Default)
             b == Keeps!Wildcard(op, Keeps!Default, q.number)
             left == q.todo \ {op}
             id == IF own # {} THEN Keeps!Min(own) ELSE 0
             shorter == [q EXCEPT !.todo = left]
             p == [q EXCEPT !.pc = "peers", !.todo = left, !.row = b, !.id = id]
  <2>2. q.pc = "reconcile"
    BY <1>13 DEF Keeps!Reconcile
  <2>3. source = "builtin" /\ revision[q.number].state = "published" /\ b.revision = q.number
    BY <1>1, <2>2 DEF Ready, Keeps!Wildcard
  <2>4. /\ shorter.pc = q.pc /\ shorter.number = q.number
        /\ p.pc = "peers" /\ p.row = b /\ p.number = q.number
    BY <1>1 DEF Keeps!Edit
  <2>5. Keeps!Leave(e) \/ edit' = [edit EXCEPT ![e] = shorter] \/ edit' = [edit EXCEPT ![e] = p]
    BY <2>1
  <2> HIDE DEF shorter, p, b
  <2>6. Ready(source, revision, binding, shorter) /\ Ready(source, revision, binding, p)
    BY <2>2, <2>3, <2>4 DEF Ready, Checked
  <2>7. QED
    BY <1>2, <1>3, <2>5, <2>6
<1>14. \A op \in Keeps!Operations, p \in Patterns,
         k \in Precedences, n \in Keeps!Revisions, on \in BOOLEAN :
          [op |-> op, pattern |-> p, precedence |-> k, revision |-> n, enabled |-> on] \in Keeps!Binding
  BY DEF Keeps!Binding
<1>15. QED
  BY <1>4, <1>5, <1>6, <1>7, <1>8, <1>9, <1>10, <1>11, <1>12, <1>13, <1>14 DEF Keeps!EditStep

\* ... and writes the row it has checked, switches one or binds a revision.
LEMMA WritesKeepConsole ==
    ASSUME GatewayAssumption, Keeps!TypeOK, EditorsInv, ConsoleInv, alone, UNCHANGED Keeps!given,
           NEW e \in Editors, Keeps!WriteBinding(e) \/ Keeps!SetEnabled(e) \/ Keeps!Bind(e)
    PROVE  ConsoleInv'
<1> USE CatalogRecords
<1> DEFINE q == edit[e]
<1>1. /\ q \in Keeps!Edit /\ edit \in [Editors -> Keeps!Edit] /\ Prepared(q)
      /\ Ready(source, revision, binding, q)
  BY DEF Keeps!TypeOK, EditorsInv, ConsoleInv
<1>2. /\ Upheld(source, revision, binding) /\ Apart(binding)
      /\ binding \in [Keeps!Ids -> Keeps!Binding \cup {Keeps!NoBinding}]
  BY DEF ConsoleInv, Keeps!TypeOK
<1>3. revision' = revision
  BY DEF Keeps!WriteBinding, Keeps!SetEnabled, Keeps!Bind, Keeps!catalog
<1>4. ASSUME NEW p, p.pc \notin {"peers", "write", "bind"},
             p.pc = "reconcile" \/ p.todo # {} =>
                 source = "builtin" /\ revision[p.number].state = "published",
             edit' = [edit EXCEPT ![e] = p], Upheld(source, revision, binding'), Apart(binding')
      PROVE  ConsoleInv'
  <2>1. Keeps!EditStep(e)
    BY DEF Keeps!EditStep
  <2>2. edit'[e] = p /\ \A f \in Editors : f # e => Keeps!Free(f) /\ edit'[f] = edit[f]
    BY <1>1, <1>4, <2>1, Solo
  <2>3. Ready(source, revision', binding', edit'[e])
    BY <1>3, <1>4, <2>2 DEF Ready
  <2>4. QED
    BY <1>3, <1>4, <2>2, <2>3, ConsoleOfOne
<1>5. ASSUME Keeps!Leave(e), Upheld(source, revision, binding'), Apart(binding')
      PROVE  ConsoleInv'
  <2>1. Keeps!NoEdit.pc = "idle" /\ Keeps!NoEdit.todo = {}
    BY DEF Keeps!NoEdit
  <2>2. QED
    BY <1>4, <1>5, <2>1 DEF Keeps!Leave
<1>6. CASE Keeps!WriteBinding(e)
  <2> DEFINE b == q.row
  <2>1. q.pc = "write"
    BY <1>6 DEF Keeps!WriteBinding
  <2>2. /\ Checked(source, revision, b.revision, b.op)
        /\ \A i \in Keeps!Ids : i # q.id /\ binding[i] # Keeps!NoBinding => ~Clash(binding[i], b)
    BY <1>1, <2>1 DEF Ready
  <2>3. PICK id \in (IF q.id # 0 THEN {q.id} ELSE Keeps!FreeIds(binding)) :
            binding' = [binding EXCEPT ![id] = b]
    BY <1>6 DEF Keeps!WriteBinding, Keeps!Written
  <2>4. id \in Keeps!Ids /\ (q.id # 0 => id = q.id) /\ (q.id = 0 => binding[id] = Keeps!NoBinding)
    <3>1. q.id \in 0 .. MaxBindings
      BY <1>1 DEF Keeps!Edit
    <3>2. q.id # 0 => q.id \in Keeps!Ids
      <4>1. MaxBindings \in Nat
        BY DEF GatewayAssumption, Keeps!CatalogAssumption
      <4>2. QED
        BY <3>1, <4>1 DEF Keeps!Ids
    <3>3. QED
      BY <2>3, <3>2 DEF Keeps!FreeIds
  <2>5. Upright(source, revision, b)
    BY <2>2 DEF Checked, Upright
  <2>6. \A i \in Keeps!Ids : i # id /\ binding[i] # Keeps!NoBinding => ~Clash(binding[i], b)
    BY <2>2, <2>4
  <2>7. Upheld(source, revision, binding') /\ Apart(binding')
    <3> HIDE DEF b
    <3>1. QED
      BY <1>2, <2>3, <2>4, <2>5, <2>6, OneMore
  <2> DEFINE p == [q EXCEPT !.pc = "reconcile", !.id = 0, !.row = Keeps!NoBinding]
  <2>8. /\ p.pc = "reconcile" /\ p.todo = q.todo /\ p.number = q.number
        /\ Keeps!Leave(e) \/ (q.todo # {} /\ edit' = [edit EXCEPT ![e] = p])
    BY <1>1, <1>6 DEF Keeps!WriteBinding, Keeps!Edit
  <2>9. q.todo # {} => source = "builtin" /\ revision[q.number].state = "published"
    BY <1>1 DEF Ready
  <2> HIDE DEF p, q
  <2>10. QED
    BY <1>4, <1>5, <2>7, <2>8, <2>9
<1>7. CASE Keeps!SetEnabled(e)
  <2> DEFINE id == q.id
             on == q.row.enabled
  <2>1. /\ Keeps!Leave(e)
        /\ \/ binding' = binding
           \/ /\ binding[id] # Keeps!NoBinding /\ (on => Keeps!Published(binding[id].revision))
              /\ binding' = [binding EXCEPT ![id].enabled = on]
    BY <1>7 DEF Keeps!SetEnabled
  <2> HIDE DEF id, on
  <2>2. ASSUME id \in Keeps!Ids, binding[id] # Keeps!NoBinding,
               on => Keeps!Published(binding[id].revision),
               binding' = [binding EXCEPT ![id].enabled = on]
        PROVE  Upheld(source, revision, binding') /\ Apart(binding')
    <3> DEFINE b == [binding[id] EXCEPT !.enabled = on]
    <3>1. binding[id] \in Keeps!Binding
      BY <1>2, <2>2
    <3>2. /\ b.op = binding[id].op /\ b.precedence = binding[id].precedence /\ b.enabled = on
          /\ b.pattern = binding[id].pattern /\ b.revision = binding[id].revision
      BY <3>1 DEF Keeps!Binding
    <3>3. binding' = [binding EXCEPT ![id] = b]
      BY <2>2
    <3> HIDE DEF b
    <3>4. Upright(source, revision, b)
      BY <1>2, <2>2, <3>2 DEF Upheld, Upright, Keeps!Published
    <3>5. \A i \in Keeps!Ids : i # id /\ binding[i] # Keeps!NoBinding => ~Clash(binding[i], b)
      BY <1>2, <2>2, <3>2 DEF Apart, Clash
    <3>6. id \in Keeps!Ids
      BY <2>2
    <3>7. QED
      BY <1>2, <3>3, <3>4, <3>5, <3>6, OneMore
  <2>3. id \notin Keeps!Ids /\ binding' = [binding EXCEPT ![id].enabled = on] => binding' = binding
    BY <1>2
  <2>4. QED
    BY <1>2, <1>5, <2>1, <2>2, <2>3
<1>8. CASE Keeps!Bind(e)
  <2> DEFINE ops == Offers[q.content]
             kept == [i \in Keeps!Ids |-> IF /\ binding[i].pattern = "*" /\ binding[i].precedence = 0
                                       /\ binding[i].op \notin ops
                                    THEN Keeps!NoBinding ELSE binding[i]]
             n == q.number
             z == 0
  <2>1. q.pc = "bind"
    BY <1>8 DEF Keeps!Bind
  <2>2. /\ n \in Keeps!Revisions /\ ops \in SUBSET Keeps!Operations /\ z \in {0, Keeps!Default}
        /\ revision[n].state = "published" /\ ops \subseteq Offers[revision[n].content]
    BY <1>1, <2>1 DEF Prepared, Ready
  <2>3. PICK place \in Keeps!Places(kept, ops, z) :
           binding' = IF Keeps!Conflicts(kept, ops, z) THEN binding ELSE Keeps!Placed(kept, place, z, n)
    BY <1>8 DEF Keeps!Bind
  <2>4. Keeps!Leave(e)
    BY <1>8 DEF Keeps!Bind
  <2>5. \A i \in Keeps!Ids : kept[i] # Keeps!NoBinding => kept[i] = binding[i]
    OBVIOUS
  <2> HIDE DEF ops, kept, n, z
  <2>6. Upheld(source, revision, kept) /\ Apart(kept)
    BY <1>2, <2>5, Fewer
  <2>7. CASE ~Keeps!Conflicts(kept, ops, z)
    <3>1. Upheld(source, revision, binding') /\ Apart(binding')
      BY <2>2, <2>3, <2>6, <2>7, PlacedApart
    <3>2. QED
      BY <1>5, <2>4, <3>1
  <2>8. CASE Keeps!Conflicts(kept, ops, z)
    BY <1>2, <1>5, <2>3, <2>4, <2>8
  <2>9. QED
    BY <2>7, <2>8
<1>9. QED
  BY <1>6, <1>7, <1>8

-----------------------------------------------------------------------------
(* The catalog as a whole.                                                   *)

CatalogInv == Keeps!TypeOK /\ Keeps!LatestIsHighest /\ TasksInv /\ EditorsInv /\ ConsoleInv

\* What was published stands as it is until it is deleted.
PublishedStands ==
    \A n \in Keeps!Revisions : Keeps!Immutable(n) => revision'[n] = Keeps!NoRevision \/ Frozen(n)

LEMMA CatalogStarts == GatewayAssumption /\ Keeps!Init => CatalogInv
<1> SUFFICES ASSUME GatewayAssumption, Keeps!Init PROVE CatalogInv
  OBVIOUS
<1>1. Keeps!LatestIsHighest
  <2> DEFINE n == latest
  <2>1. n \in 0 .. MaxRevision /\ n \in {0, 1}
    BY CatalogRecords DEF Keeps!Init
  <2>2. n # 0 => revision[n] # Keeps!NoRevision
    <3>1. CASE there = FALSE
      BY <3>1 DEF Keeps!Init
    <3>2. CASE there = TRUE
      <4>1. revision[1].state = "published" /\ n = 1
        BY <3>2, CatalogRecords DEF Keeps!Init
      <4>2. QED
        BY <4>1 DEF Keeps!NoRevision
    <3>3. QED
      BY <3>1, <3>2 DEF Keeps!Init
  <2>3. \A m \in Keeps!Revisions : revision[m] # Keeps!NoRevision => m <= n
    BY CatalogRecords DEF Keeps!Init
  <2>4. Keeps!Highest(revision) = n
    <3> HIDE DEF n
    <3>1. QED
      BY <2>1, <2>2, <2>3, HighestIs
  <2>5. ~there => latest = 0
    BY DEF Keeps!Init
  <2>6. QED
    BY <2>4, <2>5 DEF Keeps!LatestIsHighest
<1>2. ConsoleInv
  <2>1. \A i \in Keeps!Ids : binding[i] = Keeps!NoBinding
    BY DEF Keeps!Init
  <2>2. \A e \in Editors : edit[e] = Keeps!NoEdit
    BY DEF Keeps!Init
  <2>3. Upheld(source, revision, binding) /\ Apart(binding)
    BY <2>1 DEF Upheld, Apart
  <2>4. Keeps!NoEdit.pc = "idle" /\ Keeps!NoEdit.todo = {}
    BY DEF Keeps!NoEdit
  <2>5. \A e \in Editors : Ready(source, revision, binding, edit[e]) /\ Keeps!Free(e)
    BY <2>2, <2>4 DEF Ready, Keeps!Free
  <2>6. QED
    BY <2>3, <2>5 DEF ConsoleInv, OneByOne
<1>3. QED
  BY <1>1, <1>2, CatalogTypeStarts, TasksStart, EditorsStart DEF CatalogInv

\* A step keeps all of it, and what was published is only ever deleted.
LEMMA CatalogStepKept ==
    ASSUME GatewayAssumption, CatalogInv, Keeps!Next
    PROVE  CatalogInv' /\ PublishedStands
<1>1. /\ Keeps!TypeOK /\ Keeps!LatestIsHighest /\ TasksInv /\ EditorsInv /\ ConsoleInv
      /\ UNCHANGED Keeps!given /\ alone \in BOOLEAN /\ alone' = alone
  BY DEF CatalogInv, Keeps!Next, Keeps!given, Keeps!TypeOK
<1>2. ~alone => ConsoleInv'
  BY <1>1 DEF ConsoleInv
<1>3. UNCHANGED Keeps!catalog =>
          Keeps!LatestIsHighest' /\ \A n \in Keeps!Revisions : Keeps!Immutable(n) => Frozen(n)
  BY <1>1 DEF Keeps!catalog, Keeps!LatestIsHighest, Keeps!Highest, Keeps!Immutable, Frozen
<1>4. UNCHANGED edit => EditorsInv'
  BY <1>1 DEF EditorsInv, Prepared
<1>5. UNCHANGED <<Keeps!catalog, task>> => TasksInv'
  BY <1>1, <1>3, TasksStay DEF Keeps!catalog
<1>6. CASE \/ \E n \in Keeps!Revisions, c \in Contents : Keeps!CreateProfile(n, c)
           \/ Keeps!EnsureBuiltin
           \/ \E n \in Keeps!Revisions \cup {0}, c \in Contents : Keeps!CreateRevision(n, c)
           \/ \E n \in Keeps!Revisions : Keeps!Publish(n) \/ Keeps!Retire(n)
  <2>1. UNCHANGED edit
    BY <1>6 DEF Keeps!CreateProfile, Keeps!EnsureBuiltin, Keeps!CreateRevision, Keeps!Publish,
       Keeps!Retire
  <2>2. /\ Keeps!LatestIsHighest'
        /\ UNCHANGED <<archive, task>>
        /\ \A m \in Keeps!Revisions : Keeps!Immutable(m) => Frozen(m)
    BY <1>1, <1>6, RevisionsKept
  <2>3. Keeps!TypeOK'
    BY <1>1, <1>6, RevisionsKeepTypes
  <2>4. TasksInv'
    BY <1>1, <2>2, TasksStay
  <2>5. alone => ConsoleInv'
    BY <1>1, <1>6, RevisionsKeepConsole
  <2>6. QED
    BY <1>2, <1>4, <2>1, <2>2, <2>3, <2>4, <2>5, <1>1 DEF CatalogInv, PublishedStands
<1>7. CASE (\E n \in Keeps!Revisions : Keeps!DeleteRevision(n)) \/ Keeps!DeleteProfile
  <2>1. UNCHANGED edit
    BY <1>7 DEF Keeps!DeleteRevision, Keeps!DeleteProfile
  <2>2. Keeps!LatestIsHighest' /\ \E ns \in SUBSET Keeps!Revisions : Gone(ns)
    BY <1>1, <1>7, DeletesKept
  <2>3. Keeps!TypeOK'
    BY <1>1, <1>7, RevisionsKeepTypes
  <2>4. TasksInv'
    BY <1>1, <2>2, TasksDetached
  <2>5. alone => ConsoleInv'
    BY <1>1, <1>7, DeletesKeepConsole
  <2>6. PublishedStands
    BY <2>2 DEF Gone, Frozen, Keeps!Immutable, PublishedStands
  <2>7. QED
    BY <1>1, <1>2, <1>4, <2>1, <2>2, <2>3, <2>4, <2>5, <2>6 DEF CatalogInv, PublishedStands
<1>8. CASE \/ \E id \in Keeps!Ids : Keeps!DeleteBinding(id)
           \/ Keeps!Unbind \/ Keeps!EnsureDefaults \/ Keeps!RemoveDefaults
  <2>1. UNCHANGED <<Keeps!catalog, task, edit>>
    BY <1>8 DEF Keeps!DeleteBinding, Keeps!Unbind, Keeps!EnsureDefaults, Keeps!RemoveDefaults
  <2>2. Keeps!TypeOK'
    BY <1>1, <1>8, ConsoleKeepsTypes
  <2>3. alone => ConsoleInv'
    BY <1>1, <1>8, RowsKeepConsole
  <2>4. QED
    BY <1>1, <1>2, <1>3, <1>4, <1>5, <2>1, <2>2, <2>3 DEF CatalogInv, PublishedStands
<1>9. ASSUME NEW e \in Editors, Keeps!EditStep(e)
      PROVE  CatalogInv' /\ PublishedStands
  <2>1. Keeps!TypeOK' /\ EditorsInv'
    BY <1>1, <1>9, EditStepTyped, EditorsStep
  <2>2. CASE Keeps!SaveDraft(e)
    <3>1. /\ Keeps!LatestIsHighest'
          /\ UNCHANGED <<archive, task>>
          /\ \A m \in Keeps!Revisions : Keeps!Immutable(m) => Frozen(m)
      BY <1>1, <2>2, RevisionsKept
    <3>2. TasksInv'
      BY <1>1, <3>1, TasksStay
    <3>3. alone => ConsoleInv'
      BY <1>1, <2>2, RevisionsKeepConsole
    <3>4. QED
      BY <1>1, <1>2, <2>1, <3>1, <3>2, <3>3 DEF CatalogInv, PublishedStands
  <2>3. CASE ~Keeps!SaveDraft(e)
    <3>1. UNCHANGED <<Keeps!catalog, task>>
      BY <1>9, <2>3
         DEF Keeps!EditStep, Keeps!ReadDraft, Keeps!StartBinding, Keeps!Validate,
             Keeps!CheckPeers, Keeps!WriteBinding, Keeps!ReadToggle,
             Keeps!SetEnabled, Keeps!ReadRevision, Keeps!Bind, Keeps!ReadLatest, Keeps!Reconcile
    <3>2. alone => ConsoleInv'
      <4>1. CASE Keeps!WriteBinding(e) \/ Keeps!SetEnabled(e) \/ Keeps!Bind(e)
        BY <1>1, <4>1, WritesKeepConsole
      <4>2. CASE ~(Keeps!WriteBinding(e) \/ Keeps!SetEnabled(e) \/ Keeps!Bind(e))
        <5>1. UNCHANGED binding
          BY <1>9, <2>3, <4>2
             DEF Keeps!EditStep, Keeps!ReadDraft, Keeps!StartBinding, Keeps!Validate,
                 Keeps!CheckPeers, Keeps!ReadToggle,
                 Keeps!ReadRevision, Keeps!ReadLatest, Keeps!Reconcile
        <5>2. QED
          BY <1>1, <1>9, <3>1, <5>1, ChecksKeepConsole
      <4>3. QED
        BY <4>1, <4>2
    <3>3. QED
      BY <1>1, <1>2, <1>3, <1>5, <2>1, <3>1, <3>2 DEF CatalogInv, PublishedStands
  <2>4. QED
    BY <2>2, <2>3
<1>10. ASSUME NEW t \in Tasks, Keeps!TaskStep(t)
       PROVE  CatalogInv' /\ PublishedStands
  <2>1. TasksInv' /\ UNCHANGED <<Keeps!catalog, binding, edit>> /\ Keeps!TypeOK'
    BY <1>1, <1>10, TasksStep, TasksKeepTypes
  <2>2. ConsoleInv'
    BY <1>1, <2>1 DEF ConsoleInv, OneByOne, Keeps!Free, Keeps!given, Keeps!catalog
  <2>3. QED
    BY <1>1, <1>3, <1>4, <2>1, <2>2 DEF CatalogInv, PublishedStands
<1>11. QED
  BY <1>6, <1>7, <1>8, <1>9, <1>10 DEF Keeps!Next, PublishedStands

LEMMA CatalogIsRight ==
    ASSUME GatewayAssumption, CatalogInv
    PROVE  Keeps!TasksKeepTheirProfile /\ Keeps!LatestIsHighest /\ Keeps!BindingsStand
<1>1. Keeps!TypeOK /\ Keeps!LatestIsHighest /\ TasksInv /\ ConsoleInv
  BY DEF CatalogInv
<1>2. ASSUME NEW t \in Tasks, task[t].pc \in {"running", "done"}, ~task[t].orphan
      PROVE  Keeps!Loaded(t) = task[t].content
  <2> DEFINE q == task[t]
             n == q.attached
  <2>1. Remembered(q)
    BY <1>1 DEF TasksInv
  <2>2. CASE /\ n \in Keeps!Revisions /\ Keeps!Immutable(n)
             /\ revision[n].content = q.content /\ q.digest \in {None, q.content}
    <3>1. n > 0 /\ revision[n] # Keeps!NoRevision
      BY <2>2, CatalogRecords DEF Keeps!Immutable, Keeps!NoRevision
    <3>2. QED
      BY <2>2, <3>1 DEF Keeps!Loaded
  <2>3. CASE n = 0 /\ q.digest = q.content /\ q.content \in archive
    BY <2>3 DEF Keeps!Loaded
  <2>4. QED
    BY <1>2, <2>1, <2>2, <2>3 DEF Remembered
<1>3. Keeps!BindingsStand
  <2> SUFFICES ASSUME alone, NEW i \in Keeps!Ids, binding[i] # Keeps!NoBinding
               PROVE  /\ Keeps!Immutable(binding[i].revision)
                      /\ binding[i].enabled => Keeps!Published(binding[i].revision)
                      /\ source = "custom" => binding[i].op \in Offers[revision[binding[i].revision].content]
                      /\ Keeps!Peers(binding, i, binding[i]) = {}
    BY DEF Keeps!BindingsStand
  <2>1. Upright(source, revision, binding[i])
    BY <1>1 DEF ConsoleInv, Upheld
  <2>2. \A j \in Keeps!Ids : j # i /\ binding[j] # Keeps!NoBinding => ~Clash(binding[j], binding[i])
    BY <1>1 DEF ConsoleInv, Apart
  <2>3. Keeps!Peers(binding, i, binding[i]) = {}
    BY <2>2 DEF Keeps!Peers, Clash
  <2>4. QED
    BY <2>1, <2>3 DEF Upright, Keeps!Immutable, Keeps!Published
<1>4. QED
  BY <1>1, <1>2, <1>3 DEF Keeps!TasksKeepTheirProfile

LEMMA CatalogKeeps ==
    ASSUME GatewayAssumption
    PROVE  CatalogInv /\ [Keeps!Next]_(Keeps!vars) =>
               CatalogInv' /\ [PublishedStands]_(Keeps!vars)
<1> SUFFICES ASSUME CatalogInv, [Keeps!Next]_(Keeps!vars)
             PROVE  CatalogInv' /\ [PublishedStands]_(Keeps!vars)
  OBVIOUS
<1>1. CASE Keeps!Next
  BY <1>1, CatalogStepKept
<1>2. CASE UNCHANGED Keeps!vars
  BY <1>2 DEF CatalogInv, Keeps!TypeOK, Keeps!LatestIsHighest, Keeps!Highest, TasksInv,
     Remembered, Keeps!Immutable,
              EditorsInv, Prepared, ConsoleInv, OneByOne, Keeps!Free, Keeps!vars, Keeps!given
<1>3. QED
  BY <1>1, <1>2

THEOREM CatalogHolds ==
    ASSUME GatewayAssumption
    PROVE  Spec => CatalogKept
<1>1. Keeps!Spec => []CatalogInv
  BY CatalogStarts, CatalogKeeps, PTL DEF Keeps!Spec
<1>2. Keeps!Spec => Keeps!PublishedIsFrozen
  <2>1. CatalogInv /\ [Keeps!Next]_(Keeps!vars) =>
            [\A n \in Keeps!Revisions : Keeps!Immutable(n) =>
                \/ revision'[n] = Keeps!NoRevision
                \/ revision'[n].content = revision[n].content
                   /\ revision'[n].state \in {"published", "retired"}]_(Keeps!vars)
    BY CatalogKeeps DEF PublishedStands, Frozen
  <2>2. QED
    BY <1>1, <2>1, PTL DEF Keeps!Spec, Keeps!PublishedIsFrozen
<1>3. QED
  BY <1>1, <1>2, CatalogIsRight, Components, PTL DEF CatalogKept

-----------------------------------------------------------------------------
(* What is proved of Submission and Accounts in their own modules.           *)

SubmissionFacts == INSTANCE SubmissionProofs
AccountsFacts == INSTANCE AccountsProofs WITH table <- listed

(* Both instances are of the same module with the same constants and         *)
(* variables: expanded, their specifications are one formula.                *)

LEMMA SameSubmission == Submits!Spec => SubmissionFacts!Spec
<1>1. Submits!Init <=> SubmissionFacts!Init
  BY DEF
      Submits!Init, SubmissionFacts!Init, Submits!Operations, SubmissionFacts!Operations,
      Submits!Ids, SubmissionFacts!Ids, Submits!NoRow, SubmissionFacts!NoRow,
      Submits!Fresh, SubmissionFacts!Fresh, Submits!Wanted, SubmissionFacts!Wanted,
      Submits!ToSet, SubmissionFacts!ToSet
<1>2. [Submits!Next]_(Submits!vars) => [SubmissionFacts!Next]_(SubmissionFacts!vars)
  BY DEF
      Submits!Next, SubmissionFacts!Next, Submits!vars, SubmissionFacts!vars,
      Submits!RequestStep, SubmissionFacts!RequestStep, Submits!Arrive,
      SubmissionFacts!Arrive, Submits!Rebind, SubmissionFacts!Rebind, Submits!Crash,
      SubmissionFacts!Crash, Submits!locks, SubmissionFacts!locks, Submits!provider,
      SubmissionFacts!provider, Submits!counts, SubmissionFacts!counts, Submits!FirstLook,
      SubmissionFacts!FirstLook, Submits!Resolve, SubmissionFacts!Resolve, Submits!Join,
      SubmissionFacts!Join, Submits!Enter, SubmissionFacts!Enter, Submits!GiveUp,
      SubmissionFacts!GiveUp, Submits!SecondLook, SubmissionFacts!SecondLook,
      Submits!Reserve, SubmissionFacts!Reserve, Submits!Send, SubmissionFacts!Send,
      Submits!Answer, SubmissionFacts!Answer, Submits!Wait, SubmissionFacts!Wait,
      Submits!Mark, SubmissionFacts!Mark, Submits!Project, SubmissionFacts!Project,
      Submits!RecordAlias, SubmissionFacts!RecordAlias, Submits!Respond,
      SubmissionFacts!Respond, Submits!Fresh, SubmissionFacts!Fresh, Submits!Alike,
      SubmissionFacts!Alike, Submits!Operations, SubmissionFacts!Operations, Submits!Over,
      SubmissionFacts!Over, Submits!Lookups, SubmissionFacts!Lookups, Submits!Rows,
      SubmissionFacts!Rows, Submits!Ends, SubmissionFacts!Ends, Submits!Found,
      SubmissionFacts!Found, Submits!Fails, SubmissionFacts!Fails, Submits!Wanted,
      SubmissionFacts!Wanted, Submits!GoTo, SubmissionFacts!GoTo, Submits!DropReference,
      SubmissionFacts!DropReference, Submits!Unlock, SubmissionFacts!Unlock, Submits!Id,
      SubmissionFacts!Id, Submits!Reading, SubmissionFacts!Reading, Submits!Projected,
      SubmissionFacts!Projected, Submits!Reusable, SubmissionFacts!Reusable,
      Submits!ReplayID, SubmissionFacts!ReplayID, Submits!NoRow, SubmissionFacts!NoRow,
      Submits!ToSet, SubmissionFacts!ToSet
<1>3. QED
  BY <1>1, <1>2, PTL DEF Submits!Spec, SubmissionFacts!Spec

LEMMA SameAccounts == Admits!Spec => AccountsFacts!Spec
<1>1. Admits!Init <=> AccountsFacts!Init
  BY DEF
      Admits!Init, AccountsFacts!Init, Admits!NoUser, AccountsFacts!NoUser, Admits!Tokens,
      AccountsFacts!Tokens, Admits!Empty, AccountsFacts!Empty, Admits!Logged,
      AccountsFacts!Logged, Admits!Called, AccountsFacts!Called
<1>2. [Admits!Next]_(Admits!vars) => [AccountsFacts!Next]_(AccountsFacts!vars)
  BY DEF
      Admits!Next, AccountsFacts!Next, Admits!vars, AccountsFacts!vars, Admits!Begin,
      AccountsFacts!Begin, Admits!Refused, AccountsFacts!Refused, Admits!Full,
      AccountsFacts!Full, Admits!Cleaned, AccountsFacts!Cleaned, Admits!Stale,
      AccountsFacts!Stale, Admits!ReadUser, AccountsFacts!ReadUser, Admits!Acquire,
      AccountsFacts!Acquire, Admits!Verify, AccountsFacts!Verify, Admits!CallerLeaves,
      AccountsFacts!CallerLeaves, Admits!Arrive, AccountsFacts!Arrive, Admits!Count,
      AccountsFacts!Count, Admits!Setup, AccountsFacts!Setup, Admits!ReadSession,
      AccountsFacts!ReadSession, Admits!DeleteExpired, AccountsFacts!DeleteExpired,
      Admits!CheckUser, AccountsFacts!CheckUser, Admits!Extend, AccountsFacts!Extend,
      Admits!Read, AccountsFacts!Read, Admits!ValidateCSRF, AccountsFacts!ValidateCSRF,
      Admits!Logout, AccountsFacts!Logout, Admits!Reread, AccountsFacts!Reread,
      Admits!Update, AccountsFacts!Update, Admits!Tick, AccountsFacts!Tick, Admits!Recent,
      AccountsFacts!Recent, Admits!LoginAllowed, AccountsFacts!LoginAllowed,
      Admits!Admitted, AccountsFacts!Admitted, Admits!Room, AccountsFacts!Room,
      Admits!Unused, AccountsFacts!Unused, Admits!Empty, AccountsFacts!Empty,
      Admits!account, AccountsFacts!account, Admits!admission, AccountsFacts!admission,
      Admits!Finish, AccountsFacts!Finish, Admits!Checking, AccountsFacts!Checking,
      Admits!GoTo, AccountsFacts!GoTo, Admits!Verified, AccountsFacts!Verified,
      Admits!Tokens, AccountsFacts!Tokens, Admits!NextToken, AccountsFacts!NextToken,
      Admits!NewSession, AccountsFacts!NewSession, Admits!Called, AccountsFacts!Called,
      Admits!Standing, AccountsFacts!Standing, Admits!Refuse, AccountsFacts!Refuse,
      Admits!Step, AccountsFacts!Step, Admits!Current, AccountsFacts!Current,
      Admits!Replace, AccountsFacts!Replace, Admits!Older, AccountsFacts!Older,
      Admits!Sooner, AccountsFacts!Sooner, Admits!NoUser, AccountsFacts!NoUser,
      Admits!Pruned, AccountsFacts!Pruned, Admits!Oldest, AccountsFacts!Oldest,
      Admits!Recorded, AccountsFacts!Recorded, Admits!Logged, AccountsFacts!Logged,
      Admits!Listed, AccountsFacts!Listed, Admits!Disposable, AccountsFacts!Disposable,
      Admits!Cardinality, AccountsFacts!Cardinality
<1>3. QED
  BY <1>1, <1>2, PTL DEF Admits!Spec, AccountsFacts!Spec

-----------------------------------------------------------------------------
(* Submissions and sessions. *)

LEMMA SubmissionConstants ==
    ASSUME GatewayAssumption PROVE SubmissionFacts!SubmissionAssumption
BY DEF GatewayAssumption, Submits!SubmissionAssumption, SubmissionFacts!SubmissionAssumption,
       Submits!IsFiniteSet, SubmissionFacts!IsFiniteSet

LEMMA AccountsConstants ==
    ASSUME GatewayAssumption PROVE AccountsFacts!AccountsAssumption
BY DEF GatewayAssumption, Admits!AccountsAssumption, AccountsFacts!AccountsAssumption,
       Admits!Cardinality, AccountsFacts!Cardinality, Admits!IsFiniteSet,
       AccountsFacts!IsFiniteSet

\* Whatever else requests do, an operation and body is submitted once, a key
\* once by a process for an operation, and one request holds its lock.
THEOREM SubmissionsHold ==
    ASSUME GatewayAssumption
    PROVE  Spec => []OneSubmission
<1>1. SubmissionFacts!LockExclusive /\ SubmissionFacts!SubmitOnce /\ SubmissionFacts!KeyOnce
         => OneSubmission
  BY DEF OneSubmission,
         Submits!LockExclusive, SubmissionFacts!LockExclusive, Submits!SubmitOnce,
         SubmissionFacts!SubmitOnce, Submits!KeyOnce, SubmissionFacts!KeyOnce,
         Submits!Inside, SubmissionFacts!Inside, Submits!Operations,
         SubmissionFacts!Operations, Submits!Id, SubmissionFacts!Id, Submits!Wanted,
         SubmissionFacts!Wanted, Submits!ToSet, SubmissionFacts!ToSet
<1>2. QED
  BY <1>1, Components, SameSubmission, SubmissionConstants, SubmissionFacts!OneHolder,
     SubmissionFacts!OneSubmission, SubmissionFacts!OneSubmissionOfTheKey, PTL

\* ... and what was submitted is in its row, and what is replayed was made.
THEOREM TasksHold ==
    ASSUME GatewayAssumption
    PROVE  Spec => []TasksAreRemembered
<1>1. SubmissionFacts!SentIsRemembered /\ SubmissionFacts!ReplayIsTheTask => TasksAreRemembered
  BY DEF TasksAreRemembered,
         Submits!SentIsRemembered, SubmissionFacts!SentIsRemembered,
         Submits!ReplayIsTheTask, SubmissionFacts!ReplayIsTheTask, Submits!Id,
         SubmissionFacts!Id
<1>2. QED
  BY <1>1, Components, SameSubmission, SubmissionConstants,
     SubmissionFacts!SubmissionsAreRemembered, SubmissionFacts!ReplaysAreTasks, PTL

\* The attempts and the failures of a key stay within the limit; a session is
\* good for the credentials in force, whatever overlaps, and the credentials are
\* changed by one request at a time.
THEOREM AccountsHold ==
    ASSUME GatewayAssumption
    PROVE  Spec => AccountsKept
<1>1. AccountsFacts!AttemptsBounded => Admits!AttemptsBounded
  BY DEF Admits!AttemptsBounded, AccountsFacts!AttemptsBounded,
         Admits!Attempts, AccountsFacts!Attempts, Admits!Listed, AccountsFacts!Listed,
         Admits!Recent, AccountsFacts!Recent, Admits!Stale, AccountsFacts!Stale,
         Admits!Cardinality, AccountsFacts!Cardinality
<1>2. AccountsFacts!SessionsAreCurrent /\ AccountsFacts!RevokedAreRefused =>
          Admits!SessionsAreCurrent /\ Admits!RevokedAreRefused
  BY DEF
      Admits!SessionsAreCurrent, AccountsFacts!SessionsAreCurrent, Admits!RevokedAreRefused,
      AccountsFacts!RevokedAreRefused, Admits!Tokens, AccountsFacts!Tokens, Admits!Current,
      AccountsFacts!Current, Admits!Standing, AccountsFacts!Standing
<1>3. AccountsFacts!CredentialsSerial => Admits!CredentialsSerial
  BY PTL DEF
      Admits!CredentialsSerial, AccountsFacts!CredentialsSerial, Admits!vars,
      AccountsFacts!vars
<1>4. QED
  BY <1>1, <1>2, <1>3, Components, SameAccounts, AccountsConstants,
     AccountsFacts!AttemptsStayWithinTheLimit, AccountsFacts!SessionsCarryTheCredentials,
     AccountsFacts!CredentialsChangeSerially, PTL
     DEF AccountsKept

=============================================================================
