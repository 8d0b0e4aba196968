-------------------------------- MODULE MCMedia --------------------------------
(***************************************************************************)
(* MediaLibrary with every kind of asset and goroutine, of which TLC sees  *)
(* the behaviours that use one part of it.                                 *)
(*   library  one asset, fetched by a poller and by a request, removed by  *)
(*            one goroutine, with the reconciler and one fault             *)
(*   task     the two assets of a task; a poller, a remover, one fault     *)
(*   shared   two assets on an object of an upgraded database; two         *)
(*            removers, the reconciler and two faults                      *)
(***************************************************************************)
EXTENDS MediaLibrary, TLC

VARIABLE part

Symmetry == Permutations(TaskAssets) \cup Permutations(Shared)
            \cup Permutations(Keys \ {SharedKey}) \cup Permutations(Removers)

\* An asset that nobody does anything with.
Untouched(a) ==
    /\ asset[a].status \in IF a \in Shared THEN {"available"} ELSE {"none", "pending"}
    /\ fetchJob[a] \in IF a \in Shared THEN {SucceededJob} ELSE {NoJob, PendingJob}
    /\ deleteJob[a] = NoDeletion

OneRemover == \E d \in Removers : \A e \in Removers \ {d} : remover[e] = Idle

\* What a behaviour of each part stays within.
WithinPart ==
    /\ part = "library" =>
          /\ \A s \in Shared : Untouched(s)
          /\ \E a \in TaskAssets : \A b \in TaskAssets \ {a} : Untouched(b)
          /\ OneRemover
    /\ part = "task" =>
          /\ \A s \in Shared : Untouched(s)
          /\ \A q \in Requests : worker[q] = Idle
          /\ OneRemover
          /\ old = {}
    /\ IF part = "shared" THEN task = "running" ELSE faults <= 1

MediaInit == Init /\ part \in {"library", "task", "shared"}
MediaNext == Next /\ UNCHANGED part /\ WithinPart'
MediaSpec == MediaInit /\ [][MediaNext]_<<part, vars>>
=============================================================================
