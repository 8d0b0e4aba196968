---------------------------- MODULE TaskContract ----------------------------
(***************************************************************************)
(* What a durable task promises to the client that reads its status,       *)
(* without leases, workers, requests or a materializer: the status only    *)
(* moves forward, a poll is put on the record beyond MaxAttempts only if   *)
(* the budget could not be read, a task is given up only when its budget   *)
(* is spent, and required media are stored before it succeeds.             *)
(***************************************************************************)
EXTENDS Naturals

CONSTANT MaxAttempts   \* the poll budget

VARIABLES
    required,  \* the task succeeds only with its media stored
    st,        \* the public status
    won,       \* its outcome is success
    polls,     \* polls on the record
    unread,    \* those made without reading the budget
    late,      \* the deadline has passed
    stored     \* all media have been available

vars == <<required, st, won, polls, unread, late, stored>>

Done == {"completed", "failed", "expired", "timeout"}

\* The statuses a task may show after st; `other' is a word of the provider.
Later == CASE st = "other"         -> {"other", "queued", "processing", "materializing"} \cup Done
           [] st = "queued"        -> {"queued", "processing", "materializing"} \cup Done
           [] st = "processing"    -> {"processing", "materializing"} \cup Done
           [] st = "materializing" -> {"materializing"} \cup Done
           [] OTHER                -> {st}

Init ==
    /\ required \in BOOLEAN
    /\ st \in {"other", "queued"}
    /\ won = FALSE
    /\ polls = 0
    /\ unread = 0
    /\ late = FALSE
    /\ stored = FALSE

\* One accounted poll, and the status and outcome it leads to.
Observe ==
    /\ polls' = polls + 1
    /\ \/ polls < MaxAttempts /\ unread' = unread
       \/ unread' = unread + 1
    /\ st' \in Later
    /\ won' \in BOOLEAN
    /\ (st # "expired" /\ st' = "expired") => (polls' >= MaxAttempts \/ late)
    /\ (~won /\ won') => (st' = "completed" /\ (required => stored))
    /\ UNCHANGED <<required, late, stored>>

\* The provider is done: the task waits for its media, or they are all there.
Settle ==
    /\ st' \in Later \cap {"materializing", "completed"}
    /\ won' = (st' = "completed")
    /\ won' => stored
    /\ UNCHANGED <<required, polls, unread, late, stored>>

GiveUp ==
    /\ st \notin Done
    /\ polls >= MaxAttempts \/ late
    /\ st' = "expired"
    /\ won' = FALSE
    /\ UNCHANGED <<required, polls, unread, late, stored>>

DeadlinePasses ==
    /\ late' = TRUE
    /\ UNCHANGED <<required, st, won, polls, unread, stored>>

MediaComplete ==
    /\ stored' = TRUE
    /\ \/ UNCHANGED <<st, won>>
       \/ st' \in Later \cap {"completed"} /\ won' = TRUE
    /\ UNCHANGED <<required, polls, unread, late>>

Next == Observe \/ Settle \/ GiveUp \/ DeadlinePasses \/ MediaComplete

Spec == Init /\ [][Next]_vars
=============================================================================
