----------------------------- MODULE GatewayWait -----------------------------
(***************************************************************************)
(* The gateway_wait loop of protocol/async.go: the polls a submission      *)
(* makes before it answers, its deadline, the delays between two polls,    *)
(* and the record of the polls in the row (db/task.go,                     *)
(* PersistTaskPollBatchContext) while a client asks for the task as well.  *)
(*                                                                         *)
(* Time is in milliseconds of the poll definition.  A time.Duration has    *)
(* Milli units in one of them and Second milliseconds in a second; it and  *)
(* int64 end at MaxInt.  Small values stand for 10^6, 1000 and 2^63 - 1.   *)
(***************************************************************************)
EXTENDS Integers, Sequences, FiniteSets

CONSTANTS Definitions,  \* poll definitions: [mode, base, cap, jitter, attempts, duration]
          Retries,      \* Retry-After: -1 for none, otherwise seconds
          Milli, Second, MaxInt,
          MaxAsks       \* bound: queries of a client while the loop runs

Definition == [mode : {"fixed", "linear", "exponential"}, base : Nat, cap : Nat,
               jitter : Nat, attempts : Nat \ {0}, duration : Nat \ {0}]

GatewayWaitAssumption ==
    /\ Definitions \subseteq Definition
    /\ Retries \subseteq Int /\ \A s \in Retries : s >= -1
    /\ Milli \in Nat \ {0} /\ Second \in Nat \ {0}
    /\ MaxInt \in Nat /\ MaxInt > Milli * Second
    /\ \A d \in Definitions :
          d.jitter < MaxInt \div Milli /\ d.base <= MaxInt /\ d.cap <= MaxInt
    /\ MaxAsks \in Nat

VARIABLES
    definition,  \* op.Poll
    pc,          \* "check", "poll", "sleep", "project", "persist" or "done"
    attempt,     \* the attempt of the loop, from 1
    elapsed,     \* milliseconds since the loop began, up to the deadline
    delay,       \* the duration to sleep
    asked,       \* what it was computed from
    gone,        \* the client has left: the request's context is cancelled
    attempts,    \* the observations, in order
    lastErr,     \* the last error of a poll is remembered
    outcome,     \* how the loop ended
    count,       \* the number of polls it returns
    row,         \* the counters of the row
    logged,      \* its poll attempts
    asks

loop == <<attempt, elapsed, delay, asked, attempts, lastErr, outcome, count>>
store == <<row, logged, asks>>
vars == <<definition, pc, gone, loop, store>>

Outcomes == {"success", "failed", "pending"}
Counters == [polls : Nat, successes : Nat, failures : Nat, consecutive : Nat]
NotAsked == [attempt |-> 0, retry |-> -1, extra |-> 0]

Init ==
    /\ definition \in Definitions
    /\ pc = "check" /\ attempt = 1 /\ elapsed = 0 /\ delay = 0 /\ asked = NotAsked
    /\ gone \in BOOLEAN
    /\ attempts = <<>> /\ lastErr = FALSE /\ outcome = "none" /\ count = 0
    /\ row = [polls |-> 0, successes |-> 0, failures |-> 0, consecutive |-> 0]
    /\ logged = 0 /\ asks = 0

-----------------------------------------------------------------------------
(* The delay before the next poll.                                         *)

maxDurationMS == MaxInt \div Milli
msToDuration(ms) ==
    IF ms <= 0 THEN 0 ELSE IF ms >= maxDurationMS THEN MaxInt ELSE ms * Milli
durationToMS(d) == IF d <= 0 THEN 0 ELSE d \div Milli

saturatingAdd(a, b) == IF a > MaxInt - b THEN MaxInt ELSE a + b
saturatingMultiplyMS(value, times) ==
    IF value <= 0 THEN 0 ELSE IF value > MaxInt \div times THEN MaxInt ELSE value * times
\* Seeded bug: the doubling wraps.
WrappingPowerOfTwoMS(value, exponent) == (value * 2 ^ exponent) % (MaxInt + 1)

saturatingPowerOfTwoMS(value, exponent) ==
    LET doubled[i \in 0 .. exponent] ==
            IF i = 0 THEN value
            ELSE IF doubled[i - 1] > MaxInt \div 2 THEN MaxInt ELSE 2 * doubled[i - 1]
    IN IF value <= 0 THEN 0 ELSE doubled[exponent]

parseRetryAfter(seconds) ==
    IF seconds >= MaxInt \div (Milli * Second) THEN MaxInt ELSE seconds * Second * Milli

\* nextDelayAt after poll `n`, with the jitter drawn.
nextDelay(d, n, retry, extra) ==
    LET backoff == CASE d.mode = "fixed" -> d.base
                     [] d.mode = "linear" -> saturatingMultiplyMS(d.base, n)
                     [] d.mode = "exponential" -> saturatingPowerOfTwoMS(d.base, n - 1)
        wanted == IF retry >= 0 THEN durationToMS(parseRetryAfter(retry)) ELSE backoff
        drawn == IF d.jitter = 0 THEN wanted
                 ELSE durationToMS(saturatingAdd(msToDuration(wanted), extra))
    IN msToDuration(IF d.cap > 0 /\ drawn > d.cap THEN d.cap ELSE drawn)

-----------------------------------------------------------------------------
(* The loop.                                                               *)

Expired == elapsed >= definition.duration

\* The loop returns: the outcome and the number of polls.
Return(how, polls) ==
    /\ outcome' = how /\ count' = polls
    /\ pc' = "project"

\* Seeded bug: the clock is not looked at again.
CheckOnce ==
    /\ pc = "check"
    /\ pc' = "poll"
    /\ UNCHANGED <<definition, gone, loop, store>>

\* The context and the clock are looked at before each poll.
Check ==
    /\ pc = "check"
    /\ IF gone \/ Expired
       THEN Return("timeout", attempt - 1)
       ELSE pc' = "poll" /\ UNCHANGED <<outcome, count>>
    /\ UNCHANGED <<definition, gone, attempt, elapsed, delay, asked, attempts, lastErr, store>>

\* Seeded bug: the clock decides before the answer of the poll does.
PollThenClock ==
    /\ pc = "poll"
    /\ \E at \in elapsed .. definition.duration, answer \in {"success", "failure"} :
          /\ elapsed' = at
          /\ attempts' = Append(attempts, IF answer = "success" THEN answer ELSE "failed")
          /\ Return(IF at = definition.duration THEN "timeout"
                    ELSE IF answer = "success" THEN answer ELSE "failed", attempt)
    /\ UNCHANGED <<definition, gone, attempt, delay, asked, lastErr, store>>

\* PollOnce and what follows it.  It takes its time, up to the deadline; an
\* answer that arrives with the deadline counts.
Poll ==
    /\ pc = "poll"
    /\ \E at \in elapsed .. definition.duration,
          answer \in {"success", "failure", "other", "error"} :
          /\ elapsed' = at
          /\ lastErr' = (lastErr \/ answer = "error")
          /\ attempts' = Append(attempts,
                CASE answer = "success" -> "success"
                  [] answer = "other" -> "pending"
                  [] OTHER -> "failed")
          /\ CASE answer = "success" -> Return("success", attempt) /\ UNCHANGED <<delay, asked>>
               [] answer = "failure" -> Return("failed", attempt) /\ UNCHANGED <<delay, asked>>
               [] answer \in {"other", "error"} ->
                    IF attempt = definition.attempts
                    THEN /\ Return(IF lastErr' THEN "error" ELSE "timeout", definition.attempts)
                         /\ UNCHANGED <<delay, asked>>
                    ELSE \E retry \in Retries, extra \in 0 .. definition.jitter * Milli :
                           /\ asked' = [attempt |-> attempt, retry |-> retry, extra |-> extra]
                           /\ delay' = nextDelay(definition, attempt, retry, extra)
                           /\ pc' = "sleep"
                           /\ UNCHANGED <<outcome, count>>
    /\ UNCHANGED <<definition, gone, attempt, store>>

\* Seeded bug: the sleep has the context of the request, without the deadline.
SleepOn ==
    /\ pc = "sleep"
    /\ elapsed' = elapsed + delay \div Milli
    /\ attempt' = attempt + 1
    /\ pc' = "check"
    /\ UNCHANGED <<definition, gone, delay, asked, attempts, lastErr, outcome, count, store>>

\* Seeded bug: nothing wakes a sleeper whose timer is beyond the deadline.
SleepIn ==
    /\ pc = "sleep"
    /\ delay <= (definition.duration - elapsed) * Milli
    /\ elapsed' = elapsed + delay \div Milli
    /\ attempt' = attempt + 1
    /\ pc' = "check"
    /\ UNCHANGED <<definition, gone, delay, asked, attempts, lastErr, outcome, count, store>>

\* The timer or the context, whichever comes first; on a tie, either.
Sleep ==
    /\ pc = "sleep"
    /\ LET left == (definition.duration - elapsed) * Milli
       IN \/ /\ delay = 0 \/ (~gone /\ delay <= left)
             /\ elapsed' = elapsed + delay \div Milli
             /\ attempt' = attempt + 1
             /\ pc' = "check"
             /\ UNCHANGED <<outcome, count>>
          \/ /\ delay > 0 /\ (gone \/ delay >= left)
             /\ elapsed' = IF gone THEN elapsed ELSE definition.duration
             /\ Return("timeout", attempt)
             /\ UNCHANGED attempt
    /\ UNCHANGED <<definition, gone, delay, asked, attempts, lastErr, store>>

\* The caller of the submission disconnects.
Leave ==
    /\ ~gone /\ pc \in {"check", "poll", "sleep"}
    /\ gone' = TRUE
    /\ UNCHANGED <<definition, pc, loop, store>>

-----------------------------------------------------------------------------
(* The row.                                                                *)

\* The projection succeeds, or the polls are lost with it.
Project ==
    /\ pc = "project"
    /\ pc' \in {IF attempts = <<>> THEN "done" ELSE "persist", "done"}
    /\ UNCHANGED <<definition, gone, loop, store>>

\* PersistTaskPollBatchContext: one transaction; a failure is only logged.
\* Everything that is not a success counts as a failure, a pending answer too.
Wins(seen) == {i \in DOMAIN seen : seen[i] = "success"}
Successes(seen) == Cardinality(Wins(seen))
Consecutive(start, seen) ==
    IF Wins(seen) = {} THEN start + Len(seen)
    ELSE Len(seen) - CHOOSE i \in Wins(seen) : \A k \in Wins(seen) : k <= i

\* Seeded bug: the counters are those of the loop alone.
PersistOwn ==
    /\ pc = "persist"
    /\ pc' = "done"
    /\ row' = [polls |-> count, successes |-> Successes(attempts),
               failures |-> count - Successes(attempts),
               consecutive |-> Consecutive(0, attempts)]
    /\ logged' = logged + Len(attempts)
    /\ UNCHANGED <<definition, gone, loop, asks>>

Persist ==
    /\ pc = "persist"
    /\ pc' = "done"
    /\ \/ /\ row' = [polls |-> row.polls + Len(attempts),
                     successes |-> row.successes + Successes(attempts),
                     failures |-> row.failures + Len(attempts) - Successes(attempts),
                     consecutive |-> Consecutive(row.consecutive, attempts)]
          /\ logged' = logged + Len(attempts)
       \/ UNCHANGED <<row, logged>>
    /\ UNCHANGED <<definition, gone, loop, asks>>

\* RecordTaskPollContext, in a transaction of its own: a client asks for the
\* task once it is projected.
Ask ==
    /\ pc \in {"persist", "done"} /\ asks < MaxAsks
    /\ asks' = asks + 1
    /\ logged' = logged + 1
    /\ \E success \in BOOLEAN :
          row' = [polls |-> row.polls + 1,
                  successes |-> row.successes + (IF success THEN 1 ELSE 0),
                  failures |-> row.failures + (IF success THEN 0 ELSE 1),
                  consecutive |-> IF success THEN 0 ELSE row.consecutive + 1]
    /\ UNCHANGED <<definition, pc, gone, loop>>

LoopStep == Check \/ Poll \/ Sleep \/ Project \/ Persist
Next == LoopStep \/ Leave \/ Ask

Spec == Init /\ [][Next]_vars

\* The handler's goroutine runs; a poll ends with its context, a sleep with
\* its timer.
Fairness == WF_vars(LoopStep)
FairSpec == Spec /\ Fairness

-----------------------------------------------------------------------------
(* Properties.                                                             *)

TypeOK ==
    /\ definition \in Definitions
    /\ pc \in {"check", "poll", "sleep", "project", "persist", "done"}
    /\ attempt \in 1 .. definition.attempts
    /\ elapsed \in 0 .. definition.duration
    /\ delay \in 0 .. MaxInt
    /\ asked \in [attempt : 0 .. definition.attempts, retry : Retries \cup {-1},
                  extra : 0 .. definition.jitter * Milli]
    /\ gone \in BOOLEAN /\ lastErr \in BOOLEAN
    /\ attempts \in Seq(Outcomes)
    /\ outcome \in {"none", "success", "failed", "error", "timeout"}
    /\ count \in 0 .. definition.attempts
    /\ row \in Counters /\ logged \in Nat /\ asks \in 0 .. MaxAsks

\* The provider is asked at most max_attempts times, never once the deadline
\* has passed, and never again after a final status; and the submission tells
\* its caller of exactly the polls it made.
PollsAccounted ==
    /\ Len(attempts) <= definition.attempts
    /\ pc = "poll" => ~Expired
    /\ \A i \in 1 .. Len(attempts) - 1 : attempts[i] # "success"
    /\ outcome # "none" => count = Len(attempts)

\* What the last poll saw is what the caller gets: a success that arrives
\* together with the deadline or the caller's own departure is a success, and
\* no other ending is called one.
LastAnswerWins ==
    outcome # "none" =>
        (outcome = "success" <=> attempts # <<>> /\ attempts[Len(attempts)] = "success")

\* The delay is the one of the definition in unbounded numbers, cut at the
\* cap and at what a duration holds; it is less than a millisecond off, or less
\* than a second when Retry-After is as many seconds as a duration holds.
Doubled(value, times) ==
    LET doubled[i \in 0 .. times] == IF i = 0 THEN value ELSE 2 * doubled[i - 1]
    IN doubled[times]
Ideal ==
    LET d == definition
        backoff == CASE d.mode = "fixed" -> d.base
                     [] d.mode = "linear" -> d.base * asked.attempt
                     [] d.mode = "exponential" -> Doubled(d.base, asked.attempt - 1)
        full == (IF asked.retry >= 0 THEN asked.retry * Second ELSE backoff) * Milli + asked.extra
    IN IF d.cap > 0 /\ full > d.cap * Milli THEN d.cap * Milli ELSE full
Slack == IF asked.retry >= MaxInt \div (Milli * Second) THEN Milli * Second ELSE Milli
DelayExact ==
    pc = "sleep" =>
        IF Ideal > MaxInt
        THEN delay > MaxInt - Milli
        ELSE Ideal - delay < Slack /\ delay - Ideal < Slack

\* The counters of the row add up, also when a client's query comes between
\* the projection and the batch, and agree with the attempts on record.
CountersAgree ==
    row.polls = row.successes + row.failures /\ row.polls = logged
    /\ row.consecutive <= row.failures

\* The submission is answered, whatever the provider does.
WaitEnds == <>(pc = "done")
=============================================================================
