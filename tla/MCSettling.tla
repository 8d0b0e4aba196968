------------------------------ MODULE MCSettling ------------------------------
(***************************************************************************)
(* What must come to an end, under fairness; a behaviour belongs to a part.*)
(*   media   one asset of MediaLibrary through failures and crashes        *)
(*   wait    the loop of GatewayWait                                       *)
(***************************************************************************)
EXTENDS MediaLibrary, Integers

VARIABLES part,
    definition, pc, attempt, elapsed, delay, asked, gone, attempts, lastErr,
    outcome, count, counters, logged, asks

wait == <<definition, pc, attempt, elapsed, delay, asked, gone, attempts, lastErr,
          outcome, count, counters, logged, asks>>

Polling(mode, base, jitter, polls, duration) ==
    [mode |-> mode, base |-> base, cap |-> 0, jitter |-> jitter,
     attempts |-> polls, duration |-> duration]
W == INSTANCE GatewayWait WITH
         Definitions <- {Polling("fixed", 1, 0, 2, 2), Polling("exponential", 1, 1, 3, 7)},
         Retries <- {-1, 1, 9}, Milli <- 2, Second <- 2, MaxInt <- 15, MaxAsks <- 0,
         row <- counters

ASSUME InstancesOK == W!GatewayWaitAssumption

SettlingInit ==
    /\ Init /\ W!Init
    /\ \/ part = "media" /\ ~gone /\ definition.mode = "fixed"
       \/ part = "wait"

SettlingNext ==
    /\ \/ part = "media" /\ Next /\ UNCHANGED wait
       \/ part = "wait" /\ W!Next /\ UNCHANGED vars
    /\ UNCHANGED part

\* Fairness of both; it asks nothing of a media library at rest.
SettlingSpec ==
    /\ SettlingInit /\ [][SettlingNext]_<<part, vars, wait>>
    /\ Fairness
    /\ WF_wait(part = "wait" /\ W!LoopStep)

-----------------------------------------------------------------------------
\* The submission that waits is answered (GatewayWait).
WaitEnds == part = "wait" ~> pc = "done"
=============================================================================
