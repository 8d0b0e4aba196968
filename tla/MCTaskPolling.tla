--------------------------- MODULE MCTaskPolling ---------------------------
(***************************************************************************)
(* TaskPolling with handlers and words of which TLC sees the behaviours    *)
(* that use one part.                                                      *)
(*   words   one worker and one status request; the provider says anything *)
(*           and the definition may be lost, but not beside another fault  *)
(*   race    two workers, or two status requests of the client that polls, *)
(*           at a task whose media are required; the provider uses only    *)
(*           words the gateway normalises                                  *)
(***************************************************************************)
EXTENDS TaskPolling

CONSTANTS w2, c2   \* the handlers that not every part has

VARIABLE part

\* What a behaviour of each part stays within.
WithinPart ==
    /\ part = "words" =>
          /\ proc[w2] = Idle /\ proc[c2] = Idle
          /\ ~loads => faults = 0
    /\ part = "race" =>
          /\ \A p \in Procs : proc[p].answer \notin PassedThrough
          /\ task.mode = "background" => proc[c2] = Idle
          /\ loads

PollingInit ==
    /\ Init
    /\ part \in {"words", "race"}
    /\ part = "race" => Required
    /\ status = IF part = "race" THEN "queued" ELSE "other"
    /\ task.source => Retained   \* nobody reads it otherwise

\* Requests are alike: c2 does not come first.
InTurn == (\A c \in Clients : proc[c] = Idle) => proc'[c2] = Idle

Within(A) == A /\ UNCHANGED part /\ WithinPart' /\ InTurn
PollingNext == Within(Next)

\* The fairness of FairSpec for the steps a part has.
PollingFairness ==
    /\ \A w \in Workers : WF_vars(Within(WorkerStep(w)))
    /\ WF_vars(Within(Tick))

PollingSpec == PollingInit /\ [][PollingNext]_<<part, vars>> /\ PollingFairness
=============================================================================
