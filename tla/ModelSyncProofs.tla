--------------------------- MODULE ModelSyncProofs ---------------------------
(* Proofs about ModelSync, for any number of requests, tests and restarts. *)
EXTENDS ModelSync, TLAPS

USE SyncAssumption

-----------------------------------------------------------------------------
(* The inductive invariant. *)

\* A snapshot of the row in force carries its discovery inputs; one whose
\* generation is in force does so too, unless an invalidation is to come.
Taken == worker.pc \in {"fetch", "commit", "publish"}
SnapshotOK ==
    /\ worker.pc = "snapshot" \/ Taken => worker.generation <= generation
    /\ Taken =>
         /\ worker.revision <= revision
         /\ SameRevision => worker.source = source
         /\ SameGeneration => worker.source = source \/ Invalidating

\* A pass about to begin, and a noted one, were each asked for.
CreditOK ==
    /\ credit >= 0
    /\ worker.pc = "start" => credit >= 1
    /\ pending => credit >= 1
    /\ worker.pc = "start" /\ pending => credit >= 2

\* The last StopSync waits for the run that is going on, and no request is
\* left that could start another.
StopOK ==
    /\ phase \in {"joining", "closed"} => \A a \in Admins : admin[a].pc = "idle"
    /\ syncing => run >= 1
    /\ phase = "joining" /\ syncing => joining = run
    /\ phase = "closed" => ~syncing

IInv == TypeOK /\ SnapshotOK /\ CreditOK /\ StopOK

LEMMA InitEstablishes == Init => IInv
<1> SUFFICES ASSUME Init PROVE IInv
  OBVIOUS
<1>1. /\ worker = [pc |-> "start", generation |-> 0, revision |-> 0, source |-> 0]
      /\ NoAdmin \in Admin
  BY DEF Init, NoWorker, NoAdmin, Admin
<1>2. worker \in Worker /\ worker.pc # "idle"
  BY <1>1 DEF Worker, Steps
<1>3. admin \in [Admins -> Admin]
  BY <1>1 DEF Init
<1>4. enabled \in BOOLEAN /\ active \in BOOLEAN /\ stored \in Nat /\ published \in Nat
  BY DEF Init
<1>5. /\ syncing \in BOOLEAN /\ pending \in BOOLEAN /\ cancelled \in BOOLEAN
      /\ owed \in BOOLEAN /\ (syncing <=> worker.pc # "idle")
  BY <1>2 DEF Init
<1>6. TypeOK
  BY <1>2, <1>3, <1>4, <1>5 DEF Init, TypeOK
<1>7. SnapshotOK /\ CreditOK /\ StopOK
  BY <1>1 DEF Init, SnapshotOK, Taken, CreditOK, StopOK
<1>8. QED
  BY <1>6, <1>7 DEF IInv

-----------------------------------------------------------------------------
(* What the helpers do. *)

LEMMA GoToMoves ==
    ASSUME worker \in Worker, NEW s \in Steps, GoTo(s)
    PROVE  /\ worker' \in Worker
           /\ worker'.pc = s
           /\ worker'.generation = worker.generation
           /\ worker'.revision = worker.revision
           /\ worker'.source = worker.source
BY DEF GoTo, Worker

LEMMA FreshAdmin == NoAdmin \in Admin /\ NoAdmin.pc = "idle"
BY DEF NoAdmin, Admin

LEMMA FreshWorker ==
    /\ NoWorker \in Worker /\ NoWorker.pc = "idle"
    /\ [NoWorker EXCEPT !.pc = "start"] \in Worker
    /\ [NoWorker EXCEPT !.pc = "start"].pc = "start"
BY DEF NoWorker, Worker, Steps

\* Either a running refresh gets the note, or a new one starts.
LEMMA RefreshRequested ==
    ASSUME TypeOK, SyncRemoteModels
    PROVE  /\ worker' \in Worker
           /\ syncing' /\ pending' \in BOOLEAN /\ cancelled' \in BOOLEAN
           /\ run' \in Nat /\ (run >= 1 \/ ~syncing => run' >= 1)
           /\ \/ worker' = worker /\ worker'.pc # "idle"
              \/ worker.pc = "idle" /\ worker'.pc = "start" /\ ~pending'
           /\ owed' \in BOOLEAN /\ credit' = credit + 1
<1>1. /\ worker \in Worker /\ run \in Nat /\ pending \in BOOLEAN
      /\ cancelled \in BOOLEAN
      /\ syncing <=> worker.pc # "idle"
  BY DEF TypeOK
<1>2. CASE syncing
  <2>1. /\ pending' = TRUE /\ UNCHANGED <<syncing, cancelled, run, worker>>
        /\ owed' = TRUE /\ credit' = credit + 1
    BY <1>2 DEF SyncRemoteModels
  <2>2. QED
    BY <1>1, <1>2, <2>1
<1>3. CASE ~syncing
  <2>1. /\ syncing' = TRUE /\ pending' = FALSE /\ cancelled' = FALSE
        /\ run' = run + 1 /\ worker' = [NoWorker EXCEPT !.pc = "start"]
        /\ owed' = TRUE /\ credit' = credit + 1
    BY <1>3 DEF SyncRemoteModels
  <2>2. /\ pending' \in BOOLEAN /\ cancelled' \in BOOLEAN /\ owed' \in BOOLEAN
        /\ syncing' /\ ~pending'
    BY <2>1
  <2>3. /\ worker' \in Worker /\ worker'.pc = "start" /\ worker.pc = "idle"
        /\ run' \in Nat /\ run' >= 1
    BY <1>1, <1>3, <2>1, FreshWorker
  <2>4. QED
    BY <2>1, <2>2, <2>3
<1>4. QED
  BY <1>2, <1>3

\* A record of `admin' that changes leaves the others alone.
LEMMA AdminMoves ==
    ASSUME admin \in [Admins -> Admin], NEW a \in Admins, NEW x \in Admin,
           admin' = [admin EXCEPT ![a] = x]
    PROVE  /\ admin' \in [Admins -> Admin]
           /\ admin'[a] = x
           /\ \A b \in Admins \ {a} : admin'[b] = admin[b]
OBVIOUS

\* Invalidations to come are not forgotten but by InvalidateChannel.
LEMMA StillInvalidating ==
    ASSUME NEW a \in Admins, \A b \in Admins \ {a} : admin'[b] = admin[b],
           \/ admin'[a].pc \in {"saved", "refreshed"}
           \/ admin[a].pc \notin {"saved", "refreshed"}
    PROVE  Invalidating => Invalidating'
BY DEF Invalidating

-----------------------------------------------------------------------------
(* Every step keeps each part of the invariant. *)

\* Types, and the flag of the running refresh.
LEMMA TypeKept ==
    ASSUME IInv, [Next]_vars
    PROVE  TypeOK'
<1>1. ASSUME StartPass PROVE TypeOK'
  <2>1. \E s \in {"read", "check"} : GoTo(s)
    BY <1>1 DEF StartPass
  <2>2. worker' \in Worker /\ worker'.pc # "idle" /\ worker.pc # "idle"
    BY <1>1, <2>1, GoToMoves DEF IInv, TypeOK, StartPass, Steps
  <2>3. owed' = FALSE /\ credit' = credit - 1 /\ credit \in Int
    BY <1>1 DEF IInv, TypeOK, StartPass
  <2>4. UNCHANGED <<row, cache, syncing, pending, cancelled, run, admin, stop, counts>>
    BY <1>1 DEF StartPass
  <2>5. owed' \in BOOLEAN
    BY <2>3
  <2>6. credit' \in Int
    BY <2>3
  <2>7. QED
    BY <2>2, <2>4, <2>5, <2>6 DEF IInv, TypeOK, row, cache, stop, counts
<1>2. ASSUME ReadGeneration PROVE TypeOK'
  <2>1. worker' \in Worker /\ worker'.pc # "idle" /\ worker.pc # "idle"
    BY <1>2, GoToMoves DEF IInv, TypeOK, ReadGeneration, Worker, Steps
  <2>2. QED
    BY <1>2, <2>1 DEF IInv, TypeOK, ReadGeneration, row, cache, sync, stop,
       counts, history
<1>3. ASSUME Snapshot PROVE TypeOK'
  <2>1. worker' \in Worker /\ worker'.pc # "idle" /\ worker.pc # "idle"
    BY <1>3, GoToMoves DEF IInv, TypeOK, Snapshot, Worker, Steps
  <2>2. QED
    BY <1>3, <2>1 DEF IInv, TypeOK, Snapshot, row, cache, sync, stop, counts,
       history
<1>4. ASSUME Fetch PROVE TypeOK'
  <2>1. \E s \in Steps \ {"idle"} : GoTo(s)
    BY <1>4 DEF Fetch, Steps
  <2>2. worker' \in Worker /\ worker'.pc # "idle" /\ worker.pc # "idle"
    BY <1>4, <2>1, GoToMoves DEF IInv, TypeOK, Fetch
  <2>3. QED
    BY <1>4, <2>2 DEF IInv, TypeOK, Fetch, Worker, row, cache, sync, stop,
       counts, history
<1>5. ASSUME CommitChannelProbe PROVE TypeOK'
  <2>1. \E s \in Steps \ {"idle"} : GoTo(s)
    BY <1>5 DEF CommitChannelProbe, Steps
  <2>2. worker' \in Worker /\ worker'.pc # "idle" /\ worker.pc # "idle"
    BY <1>5, <2>1, GoToMoves DEF IInv, TypeOK, CommitChannelProbe
  <2>3. QED
    BY <1>5, <2>2 DEF IInv, TypeOK, CommitChannelProbe, Worker, row, cache,
       sync, stop, counts, history
<1>6. ASSUME Publish PROVE TypeOK'
  <2>1. \E s \in Steps \ {"idle"} : GoTo(s)
    BY <1>6 DEF Publish, Steps
  <2>2. worker' \in Worker /\ worker'.pc # "idle" /\ worker.pc # "idle"
    BY <1>6, <2>1, GoToMoves DEF IInv, TypeOK, Publish
  <2>3. QED
    BY <1>6, <2>2 DEF IInv, TypeOK, Publish, Worker, row, cache, sync, stop,
       counts, history
<1>7. ASSUME Check PROVE TypeOK'
  <2>1. \E s \in Steps \ {"idle"} : GoTo(s)
    BY <1>7 DEF Check, Steps
  <2>2. worker' \in Worker /\ worker'.pc # "idle" /\ worker.pc # "idle"
    BY <1>7, <2>1, GoToMoves DEF IInv, TypeOK, Check
  <2>3. QED
    BY <1>7, <2>2 DEF IInv, TypeOK, Check, Worker, row, cache, sync, stop,
       counts, history
<1>8. ASSUME Exit PROVE TypeOK'
  BY <1>8, FreshWorker DEF IInv, TypeOK, Exit, row, cache, sync, stop, counts,
     history
<1>9. ASSUME Quit PROVE TypeOK'
  BY <1>9 DEF IInv, TypeOK, Quit, StopSync, row, cache, sync, stop, counts,
     history
<1>10. ASSUME FirstStop PROVE TypeOK'
  BY <1>10 DEF IInv, TypeOK, FirstStop, StopSync, row, cache, sync, stop,
     counts, history
<1>11. ASSUME FinalStop PROVE TypeOK'
  BY <1>11 DEF IInv, TypeOK, FinalStop, StopSync, row, cache, sync, stop,
     counts, history
<1>12. ASSUME Close PROVE TypeOK'
  BY <1>12 DEF IInv, TypeOK, Close, StopSync, row, cache, sync, stop, counts,
     history
<1>13. ASSUME Die PROVE TypeOK'
  <2>1. admin' \in [Admins -> Admin]
    BY <1>13, FreshAdmin DEF IInv, TypeOK, Die
  <2>2. active' \in BOOLEAN /\ published' \in Nat
    BY <1>13 DEF IInv, TypeOK, Die
  <2>3. worker' \in Worker /\ (syncing' <=> worker'.pc # "idle")
    BY <1>13, FreshWorker DEF Die
  <2>4. /\ pending' \in BOOLEAN /\ cancelled' \in BOOLEAN /\ syncing' \in BOOLEAN
        /\ owed' \in BOOLEAN
    BY <1>13 DEF Die
  <2>5. QED
    BY <1>13, <2>1, <2>2, <2>3, <2>4 DEF IInv, TypeOK, Die, row, counts
<1>14. ASSUME Boot PROVE TypeOK'
  <2>1. admin' \in [Admins -> Admin]
    BY <1>14, FreshAdmin DEF IInv, TypeOK, Boot
  <2>2. active' \in BOOLEAN /\ published' \in Nat
    BY <1>14 DEF IInv, TypeOK, Boot
  <2>3. worker' \in Worker /\ (syncing' <=> worker'.pc # "idle")
    BY <1>14, FreshWorker DEF Boot
  <2>4. /\ pending' \in BOOLEAN /\ cancelled' \in BOOLEAN /\ syncing' \in BOOLEAN
        /\ owed' \in BOOLEAN
    BY <1>14 DEF Boot
  <2>5. QED
    BY <1>14, <2>1, <2>2, <2>3, <2>4 DEF IInv, TypeOK, Boot, row, counts
<1>15. ASSUME NEW a \in Admins, SaveChannel(a) PROVE TypeOK'
  <2>1. admin' \in [Admins -> Admin]
    BY <1>15 DEF IInv, TypeOK, SaveChannel, Saved, Admin, NoAdmin
  <2>2. QED
    BY <1>15, <2>1 DEF IInv, TypeOK, SaveChannel, Arrives, NextGeneration,
       row, cache, sync, stop, counts, history
<1>16. ASSUME NEW a \in Admins, ToggleChannel(a) PROVE TypeOK'
  <2>1. admin' \in [Admins -> Admin]
    BY <1>16 DEF IInv, TypeOK, ToggleChannel, Saved, Admin, NoAdmin
  <2>2. QED
    BY <1>16, <2>1 DEF IInv, TypeOK, ToggleChannel, Arrives, NextGeneration,
       row, cache, sync, stop, counts, history
<1>17. ASSUME NEW a \in Admins, DeleteChannel(a) PROVE TypeOK'
  <2>1. admin' \in [Admins -> Admin]
    BY <1>17, FreshAdmin DEF IInv, TypeOK, DeleteChannel, Saved, Admin
  <2>2. /\ source' \in Nat /\ revision' \in Nat /\ stored' \in Nat
        /\ published' \in Nat /\ enabled' \in BOOLEAN
    BY <1>17 DEF IInv, TypeOK, DeleteChannel, Admin, row, cache
  <2>3. QED
    BY <1>17, <2>1, <2>2 DEF IInv, TypeOK, DeleteChannel, Arrives, row, cache,
       sync, stop, counts, history
<1>18. ASSUME NEW a \in Admins, AskRefresh(a) PROVE TypeOK'
  <2>1. SyncRemoteModels /\ TypeOK
    BY <1>18 DEF IInv, AskRefresh
  <2>2. /\ worker' \in Worker /\ (syncing' <=> worker'.pc # "idle") /\ run' \in Nat
        /\ pending' \in BOOLEAN /\ cancelled' \in BOOLEAN /\ owed' \in BOOLEAN
        /\ syncing' \in BOOLEAN /\ credit' = credit + 1
    BY <2>1, RefreshRequested
  <2>3. QED
    BY <1>18, <2>2 DEF IInv, TypeOK, AskRefresh, Arrives, row, cache, stop
<1>19. ASSUME NEW a \in Admins, StartTest(a) PROVE TypeOK'
  <2>1. admin' \in [Admins -> Admin]
    BY <1>19 DEF IInv, TypeOK, StartTest, Saved, Admin, NoAdmin
  <2>2. QED
    BY <1>19, <2>1 DEF IInv, TypeOK, StartTest, Arrives, NextGeneration, row,
       cache, sync, stop, counts, history
<1>20. ASSUME NEW a \in Admins, RefreshCache(a) PROVE TypeOK'
  <2>1. admin' \in [Admins -> Admin]
    BY <1>20 DEF IInv, TypeOK, RefreshCache, Saved, Admin, NoAdmin
  <2>2. QED
    BY <1>20, <2>1 DEF IInv, TypeOK, RefreshCache, Arrives, NextGeneration,
       row, cache, sync, stop, counts, history
<1>21. ASSUME NEW a \in Admins, InvalidateChannel(a) PROVE TypeOK'
  <2> DEFINE pc == IF admin[a].rounds > 0 THEN "saved" ELSE "invalidated"
             rec == [admin[a] EXCEPT !.pc = pc, !.rounds = 0]
  <2>1. admin' \in [Admins -> Admin]
    <3>1. admin \in [Admins -> Admin] /\ admin[a] \in Admin
      BY DEF IInv, TypeOK
    <3>2. rec \in Admin
      <4>1. pc \in {"saved", "invalidated"}
        OBVIOUS
      <4> HIDE DEF pc
      <4>2. QED
        BY <3>1, <4>1 DEF Admin
    <3>3. admin' = [admin EXCEPT ![a] = rec]
      BY <1>21, <3>1 DEF InvalidateChannel
    <3> HIDE DEF rec
    <3>4. QED
      BY <3>1, <3>2, <3>3
  <2> HIDE DEF rec, pc
  <2>2. QED
    BY <1>21, <2>1 DEF IInv, TypeOK, InvalidateChannel, Arrives,
       NextGeneration, row, cache, sync, stop, counts, history
<1>22. ASSUME NEW a \in Admins, RequestRefresh(a) PROVE TypeOK'
  <2>1. SyncRemoteModels /\ TypeOK
    BY <1>22 DEF IInv, RequestRefresh
  <2>2. /\ worker' \in Worker /\ (syncing' <=> worker'.pc # "idle") /\ run' \in Nat
        /\ pending' \in BOOLEAN /\ cancelled' \in BOOLEAN /\ owed' \in BOOLEAN
        /\ syncing' \in BOOLEAN /\ credit' = credit + 1
    BY <2>1, RefreshRequested
  <2>3. admin' \in [Admins -> Admin]
    BY <1>22, FreshAdmin DEF IInv, TypeOK, RequestRefresh
  <2>4. QED
    BY <1>22, <2>2, <2>3 DEF IInv, TypeOK, RequestRefresh, row, cache, stop, counts
<1>23. ASSUME NEW a \in Admins, PersistTest(a) PROVE TypeOK'
  <2>1. admin' \in [Admins -> Admin]
    BY <1>23, FreshAdmin DEF IInv, TypeOK, PersistTest, Saved, Admin
  <2>2. /\ source' \in Nat /\ revision' \in Nat /\ stored' \in Nat
        /\ published' \in Nat /\ enabled' \in BOOLEAN
    BY <1>23 DEF IInv, TypeOK, PersistTest, Admin, row, cache
  <2>3. QED
    BY <1>23, <2>1, <2>2 DEF IInv, TypeOK, PersistTest, Arrives, row, cache,
       sync, stop, counts, history
<1>24. ASSUME NEW a \in Admins, PublishTest(a) PROVE TypeOK'
  <2>1. admin' \in [Admins -> Admin]
    BY <1>24, FreshAdmin DEF IInv, TypeOK, PublishTest, Saved, Admin
  <2>2. /\ source' \in Nat /\ revision' \in Nat /\ stored' \in Nat
        /\ published' \in Nat /\ enabled' \in BOOLEAN
    BY <1>24 DEF IInv, TypeOK, PublishTest, Admin, row, cache
  <2>3. QED
    BY <1>24, <2>1, <2>2 DEF IInv, TypeOK, PublishTest, Arrives, row, cache,
       sync, stop, counts, history
<1>25. ASSUME UNCHANGED vars PROVE TypeOK'
  BY <1>25 DEF IInv, TypeOK, vars, row, cache, sync, stop, counts, history
<1>26. QED
  BY <1>1, <1>2, <1>3, <1>4, <1>5, <1>6, <1>7, <1>8, <1>9, <1>10, <1>11,
     <1>12, <1>13, <1>14, <1>15, <1>16, <1>17, <1>18, <1>19, <1>20, <1>21,
     <1>22, <1>23, <1>24, <1>25 DEF Next, RefreshStep, ShutdownStep,
     AdminStep, AdminArrives

\* Passes and requests.
LEMMA CreditKept ==
    ASSUME IInv, [Next]_vars
    PROVE  CreditOK'
<1>1. ASSUME StartPass PROVE CreditOK'
  BY <1>1, GoToMoves DEF IInv, TypeOK, CreditOK, StartPass, Worker, Steps,
     history
<1>2. ASSUME ReadGeneration PROVE CreditOK'
  BY <1>2, GoToMoves DEF IInv, TypeOK, CreditOK, ReadGeneration, Worker,
     Steps, history
<1>3. ASSUME Snapshot PROVE CreditOK'
  BY <1>3, GoToMoves DEF IInv, TypeOK, CreditOK, Snapshot, Worker, Steps,
     history
<1>4. ASSUME Fetch PROVE CreditOK'
  BY <1>4, GoToMoves DEF IInv, TypeOK, CreditOK, Fetch, Worker, Steps, history
<1>5. ASSUME CommitChannelProbe PROVE CreditOK'
  BY <1>5, GoToMoves DEF IInv, TypeOK, CreditOK, CommitChannelProbe, Worker,
     Steps, history
<1>6. ASSUME Publish PROVE CreditOK'
  BY <1>6, GoToMoves DEF IInv, TypeOK, CreditOK, Publish, Worker, Steps,
     history
<1>7. ASSUME Check PROVE CreditOK'
  BY <1>7, GoToMoves DEF IInv, TypeOK, CreditOK, Check, Worker, Steps, history
<1>8. ASSUME Exit PROVE CreditOK'
  BY <1>8, FreshWorker DEF IInv, TypeOK, CreditOK, Exit, history
<1>9. ASSUME Quit PROVE CreditOK'
  BY <1>9 DEF IInv, CreditOK, Quit, Arrives, row, cache, sync, stop, counts,
     history
<1>10. ASSUME FirstStop PROVE CreditOK'
  BY <1>10 DEF IInv, CreditOK, FirstStop, Arrives, row, cache, sync, stop,
     counts, history
<1>11. ASSUME FinalStop PROVE CreditOK'
  BY <1>11 DEF IInv, CreditOK, FinalStop, Arrives, row, cache, sync, stop,
     counts, history
<1>12. ASSUME Close PROVE CreditOK'
  BY <1>12 DEF IInv, CreditOK, Close, Arrives, row, cache, sync, stop, counts,
     history
<1>13. ASSUME Die PROVE CreditOK'
  BY <1>13, FreshWorker DEF IInv, TypeOK, CreditOK, Die, history
<1>14. ASSUME Boot PROVE CreditOK'
  BY <1>14, FreshWorker DEF IInv, TypeOK, CreditOK, Boot, history
<1>15. ASSUME NEW a \in Admins, SaveChannel(a) PROVE CreditOK'
  BY <1>15 DEF IInv, CreditOK, SaveChannel, Arrives, row, cache, sync, stop,
     counts, history
<1>16. ASSUME NEW a \in Admins, ToggleChannel(a) PROVE CreditOK'
  BY <1>16 DEF IInv, CreditOK, ToggleChannel, Arrives, row, cache, sync, stop,
     counts, history
<1>17. ASSUME NEW a \in Admins, DeleteChannel(a) PROVE CreditOK'
  BY <1>17 DEF IInv, CreditOK, DeleteChannel, Arrives, row, cache, sync, stop,
     counts, history
<1>18. ASSUME NEW a \in Admins, AskRefresh(a) PROVE CreditOK'
  BY <1>18, RefreshRequested DEF IInv, TypeOK, CreditOK, AskRefresh
<1>19. ASSUME NEW a \in Admins, StartTest(a) PROVE CreditOK'
  BY <1>19 DEF IInv, CreditOK, StartTest, Arrives, row, cache, sync, stop,
     counts, history
<1>20. ASSUME NEW a \in Admins, RefreshCache(a) PROVE CreditOK'
  BY <1>20 DEF IInv, CreditOK, RefreshCache, Arrives, row, cache, sync, stop,
     counts, history
<1>21. ASSUME NEW a \in Admins, InvalidateChannel(a) PROVE CreditOK'
  BY <1>21 DEF IInv, CreditOK, InvalidateChannel, Arrives, row, cache, sync,
     stop, counts, history
<1>22. ASSUME NEW a \in Admins, RequestRefresh(a) PROVE CreditOK'
  BY <1>22, RefreshRequested DEF IInv, TypeOK, CreditOK, RequestRefresh
<1>23. ASSUME NEW a \in Admins, PersistTest(a) PROVE CreditOK'
  BY <1>23 DEF IInv, CreditOK, PersistTest, Arrives, row, cache, sync, stop,
     counts, history
<1>24. ASSUME NEW a \in Admins, PublishTest(a) PROVE CreditOK'
  BY <1>24 DEF IInv, CreditOK, PublishTest, Arrives, row, cache, sync, stop,
     counts, history
<1>25. ASSUME UNCHANGED vars PROVE CreditOK'
  BY <1>25 DEF IInv, CreditOK, vars, row, cache, sync, stop, counts, history
<1>26. QED
  BY <1>1, <1>2, <1>3, <1>4, <1>5, <1>6, <1>7, <1>8, <1>9, <1>10, <1>11,
     <1>12, <1>13, <1>14, <1>15, <1>16, <1>17, <1>18, <1>19, <1>20, <1>21,
     <1>22, <1>23, <1>24, <1>25 DEF Next, RefreshStep, ShutdownStep,
     AdminStep, AdminArrives

\* The joins of the shutdown.
LEMMA StopKept ==
    ASSUME IInv, [Next]_vars
    PROVE  StopOK'
<1>1. ASSUME StartPass PROVE StopOK'
  BY <1>1 DEF IInv, StopOK, StartPass, stop
<1>2. ASSUME ReadGeneration PROVE StopOK'
  BY <1>2 DEF IInv, StopOK, ReadGeneration, stop
<1>3. ASSUME Snapshot PROVE StopOK'
  BY <1>3 DEF IInv, StopOK, Snapshot, stop
<1>4. ASSUME Fetch PROVE StopOK'
  BY <1>4 DEF IInv, StopOK, Fetch, stop
<1>5. ASSUME CommitChannelProbe PROVE StopOK'
  BY <1>5 DEF IInv, StopOK, CommitChannelProbe, stop
<1>6. ASSUME Publish PROVE StopOK'
  BY <1>6 DEF IInv, StopOK, Publish, stop
<1>7. ASSUME Check PROVE StopOK'
  BY <1>7 DEF IInv, StopOK, Check, stop
<1>8. ASSUME Exit PROVE StopOK'
  BY <1>8 DEF IInv, StopOK, Exit, stop
<1>9. ASSUME Quit PROVE StopOK'
  BY <1>9 DEF IInv, TypeOK, StopOK, Quit, StopSync, Drained, Joined, row,
     cache, sync, stop, counts, history
<1>10. ASSUME FirstStop PROVE StopOK'
  BY <1>10 DEF IInv, TypeOK, StopOK, FirstStop, StopSync, Drained, Joined,
     row, cache, sync, stop, counts, history
<1>11. ASSUME FinalStop PROVE StopOK'
  BY <1>11 DEF IInv, TypeOK, StopOK, FinalStop, StopSync, Drained, Joined,
     row, cache, sync, stop, counts, history
<1>12. ASSUME Close PROVE StopOK'
  BY <1>12 DEF IInv, TypeOK, StopOK, Close, StopSync, Drained, Joined, row,
     cache, sync, stop, counts, history
<1>13. ASSUME Die PROVE StopOK'
  BY <1>13 DEF IInv, TypeOK, StopOK, Die, StopSync, Drained, Joined, row,
     cache, sync, stop, counts, history
<1>14. ASSUME Boot PROVE StopOK'
  BY <1>14 DEF IInv, TypeOK, StopOK, Boot, StopSync, Drained, Joined, row,
     cache, sync, stop, counts, history
<1>15. ASSUME NEW a \in Admins, SaveChannel(a) PROVE StopOK'
  BY <1>15 DEF IInv, TypeOK, StopOK, SaveChannel, Arrives, Saved, NoAdmin,
     sync, stop
<1>16. ASSUME NEW a \in Admins, ToggleChannel(a) PROVE StopOK'
  BY <1>16 DEF IInv, TypeOK, StopOK, ToggleChannel, Arrives, Saved, NoAdmin,
     sync, stop
<1>17. ASSUME NEW a \in Admins, DeleteChannel(a) PROVE StopOK'
  BY <1>17 DEF IInv, TypeOK, StopOK, DeleteChannel, Arrives, Saved, NoAdmin,
     sync, stop
<1>18. ASSUME NEW a \in Admins, AskRefresh(a) PROVE StopOK'
  BY <1>18, RefreshRequested DEF IInv, TypeOK, StopOK, AskRefresh, Arrives,
     stop
<1>19. ASSUME NEW a \in Admins, StartTest(a) PROVE StopOK'
  BY <1>19 DEF IInv, TypeOK, StopOK, StartTest, Arrives, Saved, NoAdmin, sync,
     stop
<1>20. ASSUME NEW a \in Admins, RefreshCache(a) PROVE StopOK'
  BY <1>20 DEF IInv, TypeOK, StopOK, RefreshCache, Arrives, Saved, NoAdmin,
     sync, stop
<1>21. ASSUME NEW a \in Admins, InvalidateChannel(a) PROVE StopOK'
  BY <1>21 DEF IInv, TypeOK, StopOK, InvalidateChannel, Arrives, Saved,
     NoAdmin, sync, stop
<1>22. ASSUME NEW a \in Admins, RequestRefresh(a) PROVE StopOK'
  BY <1>22, RefreshRequested DEF IInv, TypeOK, StopOK, RequestRefresh,
     Arrives, stop
<1>23. ASSUME NEW a \in Admins, PersistTest(a) PROVE StopOK'
  BY <1>23 DEF IInv, TypeOK, StopOK, PersistTest, Arrives, Saved, NoAdmin,
     sync, stop
<1>24. ASSUME NEW a \in Admins, PublishTest(a) PROVE StopOK'
  BY <1>24 DEF IInv, TypeOK, StopOK, PublishTest, Arrives, Saved, NoAdmin,
     sync, stop
<1>25. ASSUME UNCHANGED vars PROVE StopOK'
  BY <1>25 DEF IInv, StopOK, vars, row, cache, sync, stop, counts, history
<1>26. QED
  BY <1>1, <1>2, <1>3, <1>4, <1>5, <1>6, <1>7, <1>8, <1>9, <1>10, <1>11,
     <1>12, <1>13, <1>14, <1>15, <1>16, <1>17, <1>18, <1>19, <1>20, <1>21,
     <1>22, <1>23, <1>24, <1>25 DEF Next, RefreshStep, ShutdownStep,
     AdminStep, AdminArrives

\* What the refresh has taken.
LEMMA SnapshotKept ==
    ASSUME IInv, [Next]_vars
    PROVE  SnapshotOK'
<1>1. ASSUME StartPass PROVE SnapshotOK'
  BY <1>1, GoToMoves DEF IInv, TypeOK, SnapshotOK, Taken, SameRevision,
     SameGeneration, Invalidating, StartPass, Worker, Steps, row, cache, sync,
     stop, counts, history
<1>2. ASSUME ReadGeneration PROVE SnapshotOK'
  BY <1>2, GoToMoves DEF IInv, TypeOK, SnapshotOK, Taken, SameRevision,
     SameGeneration, Invalidating, ReadGeneration, Worker, Steps, row, cache,
     sync, stop, counts, history
<1>3. ASSUME Snapshot PROVE SnapshotOK'
  <2>1. worker \in Worker /\ generation \in Nat /\ revision \in Nat
    BY DEF IInv, TypeOK
  <2>2. worker.generation <= generation /\ UNCHANGED <<row, cache>>
    BY <1>3 DEF IInv, SnapshotOK, Snapshot
  <2>3. CASE GoTo("check")
    BY <2>1, <2>2, <2>3, GoToMoves DEF SnapshotOK, Taken, Steps
  <2>4. CASE worker' = [worker EXCEPT !.pc = "fetch", !.revision = revision,
                                      !.source = source]
    <3>1. /\ worker'.generation = worker.generation
          /\ worker'.revision = revision /\ worker'.source = source
      BY <2>1, <2>4 DEF Worker
    <3>2. UNCHANGED <<source, revision, generation>>
      BY <2>2 DEF row, cache
    <3>3. QED
      BY <2>1, <2>2, <3>1, <3>2 DEF SnapshotOK
  <2>5. QED
    BY <1>3, <2>3, <2>4 DEF Snapshot
<1>4. ASSUME Fetch PROVE SnapshotOK'
  BY <1>4, GoToMoves DEF IInv, TypeOK, SnapshotOK, Taken, SameRevision,
     SameGeneration, Invalidating, Fetch, Worker, Steps, row, cache, sync,
     stop, counts, history
<1>5. ASSUME CommitChannelProbe PROVE SnapshotOK'
  BY <1>5, GoToMoves DEF IInv, TypeOK, SnapshotOK, Taken, SameRevision,
     SameGeneration, Invalidating, CommitChannelProbe, Worker, Steps, row,
     cache, sync, stop, counts, history
<1>6. ASSUME Publish PROVE SnapshotOK'
  BY <1>6, GoToMoves DEF IInv, TypeOK, SnapshotOK, Taken, SameRevision,
     SameGeneration, Invalidating, Publish, Worker, Steps, row, cache, sync,
     stop, counts, history
<1>7. ASSUME Check PROVE SnapshotOK'
  BY <1>7, GoToMoves DEF IInv, TypeOK, SnapshotOK, Taken, SameRevision,
     SameGeneration, Invalidating, Check, Worker, Steps, row, cache, sync,
     stop, counts, history
<1>8. ASSUME Exit PROVE SnapshotOK'
  BY <1>8, FreshWorker DEF IInv, TypeOK, SnapshotOK, Taken, SameRevision,
     SameGeneration, Invalidating, Exit
<1>9. ASSUME Quit PROVE SnapshotOK'
  BY <1>9 DEF IInv, TypeOK, SnapshotOK, Taken, SameRevision, SameGeneration,
     Invalidating, Quit, row, cache, sync, stop, counts, history
<1>10. ASSUME FirstStop PROVE SnapshotOK'
  BY <1>10 DEF IInv, TypeOK, SnapshotOK, Taken, SameRevision, SameGeneration,
     Invalidating, FirstStop, row, cache, sync, stop, counts, history
<1>11. ASSUME FinalStop PROVE SnapshotOK'
  BY <1>11 DEF IInv, TypeOK, SnapshotOK, Taken, SameRevision, SameGeneration,
     Invalidating, FinalStop, row, cache, sync, stop, counts, history
<1>12. ASSUME Close PROVE SnapshotOK'
  BY <1>12 DEF IInv, TypeOK, SnapshotOK, Taken, SameRevision, SameGeneration,
     Invalidating, Close, row, cache, sync, stop, counts, history
<1>13. ASSUME Die PROVE SnapshotOK'
  BY <1>13, FreshWorker DEF IInv, TypeOK, SnapshotOK, Taken, SameRevision,
     SameGeneration, Invalidating, Die
<1>14. ASSUME Boot PROVE SnapshotOK'
  BY <1>14, FreshWorker DEF IInv, TypeOK, SnapshotOK, Taken, SameRevision,
     SameGeneration, Invalidating, Boot
<1>15. ASSUME NEW a \in Admins, SaveChannel(a) PROVE SnapshotOK'
  BY <1>15 DEF IInv, TypeOK, SnapshotOK, Taken, SameRevision, SameGeneration,
     Invalidating, SaveChannel, Arrives, Saved, Admin, Worker, NoAdmin,
     NextGeneration, row, cache, sync
<1>16. ASSUME NEW a \in Admins, ToggleChannel(a) PROVE SnapshotOK'
  BY <1>16 DEF IInv, TypeOK, SnapshotOK, Taken, SameRevision, SameGeneration,
     Invalidating, ToggleChannel, Arrives, Saved, Admin, Worker, NoAdmin,
     NextGeneration, row, cache, sync
<1>17. ASSUME NEW a \in Admins, DeleteChannel(a) PROVE SnapshotOK'
  BY <1>17 DEF IInv, TypeOK, SnapshotOK, Taken, SameRevision, SameGeneration,
     Invalidating, DeleteChannel, Arrives, Saved, Admin, Worker, NoAdmin,
     NextGeneration, row, cache, sync
<1>18. ASSUME NEW a \in Admins, AskRefresh(a) PROVE SnapshotOK'
  BY <1>18, RefreshRequested DEF IInv, TypeOK, SnapshotOK, Taken,
     SameRevision, SameGeneration, Invalidating, AskRefresh, NoAdmin, row,
     cache
<1>19. ASSUME NEW a \in Admins, StartTest(a) PROVE SnapshotOK'
  BY <1>19 DEF IInv, TypeOK, SnapshotOK, Taken, SameRevision, SameGeneration,
     Invalidating, StartTest, Arrives, Saved, Admin, Worker, NoAdmin,
     NextGeneration, row, cache, sync
<1>20. ASSUME NEW a \in Admins, RefreshCache(a) PROVE SnapshotOK'
  BY <1>20 DEF IInv, TypeOK, SnapshotOK, Taken, SameRevision, SameGeneration,
     Invalidating, RefreshCache, Arrives, Saved, Admin, Worker, NoAdmin,
     NextGeneration, row, cache, sync
<1>21. ASSUME NEW a \in Admins, InvalidateChannel(a) PROVE SnapshotOK'
  BY <1>21 DEF IInv, TypeOK, SnapshotOK, Taken, SameRevision, SameGeneration,
     Invalidating, InvalidateChannel, Arrives, Saved, Admin, Worker, NoAdmin,
     NextGeneration, row, cache, sync
<1>22. ASSUME NEW a \in Admins, RequestRefresh(a) PROVE SnapshotOK'
  BY <1>22, RefreshRequested DEF IInv, TypeOK, SnapshotOK, Taken,
     SameRevision, SameGeneration, Invalidating, RequestRefresh, NoAdmin, row,
     cache
<1>23. ASSUME NEW a \in Admins, PersistTest(a) PROVE SnapshotOK'
  BY <1>23 DEF IInv, TypeOK, SnapshotOK, Taken, SameRevision, SameGeneration,
     Invalidating, PersistTest, Arrives, Saved, Admin, Worker, NoAdmin,
     NextGeneration, row, cache, sync
<1>24. ASSUME NEW a \in Admins, PublishTest(a) PROVE SnapshotOK'
  BY <1>24 DEF IInv, TypeOK, SnapshotOK, Taken, SameRevision, SameGeneration,
     Invalidating, PublishTest, Arrives, Saved, Admin, Worker, NoAdmin,
     NextGeneration, row, cache, sync
<1>25. ASSUME UNCHANGED vars PROVE SnapshotOK'
  BY <1>25 DEF IInv, TypeOK, SnapshotOK, Taken, SameRevision, SameGeneration,
     Invalidating, vars, row, cache, sync, stop, counts, history
<1>26. QED
  BY <1>1, <1>2, <1>3, <1>4, <1>5, <1>6, <1>7, <1>8, <1>9, <1>10, <1>11,
     <1>12, <1>13, <1>14, <1>15, <1>16, <1>17, <1>18, <1>19, <1>20, <1>21,
     <1>22, <1>23, <1>24, <1>25 DEF Next, RefreshStep, ShutdownStep,
     AdminStep, AdminArrives

LEMMA NextPreserves == IInv /\ [Next]_vars => IInv'
BY TypeKept, CreditKept, StopKept, SnapshotKept DEF IInv

\* The inductive invariant holds in every behaviour.
THEOREM InvariantHolds == Spec => []IInv
BY InitEstablishes, NextPreserves, PTL DEF Spec

\* Types, and a syncing flag that is up exactly while the refresh runs.
THEOREM TypesHold == Spec => []TypeOK
BY InvariantHolds, PTL DEF IInv

-----------------------------------------------------------------------------
(* The properties. *)

\* No refresh and no management request runs in a process that closed its
\* database.
THEOREM DatabaseClosedQuietly == Spec => []ClosedQuiet
<1>1. IInv => ClosedQuiet
  BY DEF IInv, StopOK, ClosedQuiet
<1>2. QED
  BY <1>1, InvariantHolds, PTL

\* No pass runs that nobody asked for.
THEOREM PassesAsked == Spec => []PassesAreAsked
<1>1. IInv => PassesAreAsked
  BY DEF IInv, CreditOK, PassesAreAsked
<1>2. QED
  BY <1>1, InvariantHolds, PTL

\* The refresh never stores the models of another configuration, and what it
\* publishes of one is thrown away by an invalidation under way.
THEOREM RefreshFresh == Spec => RefreshIsFresh
<1> DEFINE Stores == worker.pc = "commit" /\ worker'.pc = "publish" => stored' = source
<1> DEFINE Publishes ==
      worker.pc = "publish" /\ worker'.pc = "check" /\ published' # published
        => published' = source \/ Invalidating
<1>1. ASSUME IInv, [Next]_vars, worker.pc = "commit", worker'.pc = "publish"
      PROVE  CommitChannelProbe
  BY <1>1, GoToMoves, RefreshRequested, FreshWorker
     DEF IInv, TypeOK, Next, RefreshStep, ShutdownStep, AdminStep, AdminArrives,
         StartPass, ReadGeneration, Snapshot, Fetch, Publish, Check, Exit,
         SaveChannel, ToggleChannel, DeleteChannel, AskRefresh, StartTest,
         RefreshCache, InvalidateChannel, RequestRefresh, PersistTest,
         PublishTest, Quit, FirstStop, FinalStop, Close, Die, Boot, sync, vars
<1>2. ASSUME IInv, [Next]_vars, worker.pc = "publish", worker'.pc = "check"
      PROVE  Publish
  BY <1>2, GoToMoves, RefreshRequested, FreshWorker
     DEF IInv, TypeOK, Next, RefreshStep, ShutdownStep, AdminStep, AdminArrives,
         StartPass, ReadGeneration, Snapshot, Fetch, CommitChannelProbe, Check, Exit,
         SaveChannel, ToggleChannel, DeleteChannel, AskRefresh, StartTest,
         RefreshCache, InvalidateChannel, RequestRefresh, PersistTest,
         PublishTest, Quit, FirstStop, FinalStop, Close, Die, Boot, sync, vars
<1>3. ASSUME IInv, CommitChannelProbe PROVE Stores
  BY <1>3, GoToMoves DEF IInv, TypeOK, SnapshotOK, Taken, CommitChannelProbe, Steps
<1>4. ASSUME IInv, Publish PROVE Publishes
  BY <1>4 DEF IInv, SnapshotOK, Taken, Publish
<1>5. IInv /\ [Next]_vars => [Stores /\ Publishes]_vars
  BY <1>1, <1>2, <1>3, <1>4
<1>6. QED
  BY <1>5, InvariantHolds, PTL DEF Spec, RefreshIsFresh

\* Without manual tests, routing and the database know only models of the
\* configuration in force, but for the invalidations under way.
NoTests == \A a \in Admins : admin[a].pc \notin {"testing", "tested"}

LEMMA FreshKept ==
    ASSUME IInv, tests = 0, tests' = 0, NoTests, FreshModels, [Next]_vars
    PROVE  tests' = 0 /\ NoTests' /\ FreshModels'
<1> DEFINE Goal == tests = 0 /\ NoTests /\ FreshModels
<1>1. ASSUME StartPass PROVE Goal'
  BY <1>1 DEF Goal, IInv, TypeOK, SnapshotOK, Taken, NoTests, FreshModels,
     RoutedModelsFresh, Invalidating, StartPass, row, cache, sync, stop,
     counts, history
<1>2. ASSUME ReadGeneration PROVE Goal'
  BY <1>2 DEF Goal, IInv, TypeOK, SnapshotOK, Taken, NoTests, FreshModels,
     RoutedModelsFresh, Invalidating, ReadGeneration, row, cache, sync, stop,
     counts, history
<1>3. ASSUME Snapshot PROVE Goal'
  BY <1>3 DEF Goal, IInv, TypeOK, SnapshotOK, Taken, NoTests, FreshModels,
     RoutedModelsFresh, Invalidating, Snapshot, row, cache, sync, stop,
     counts, history
<1>4. ASSUME Fetch PROVE Goal'
  BY <1>4 DEF Goal, IInv, TypeOK, SnapshotOK, Taken, NoTests, FreshModels,
     RoutedModelsFresh, Invalidating, Fetch, row, cache, sync, stop, counts,
     history
<1>5. ASSUME CommitChannelProbe PROVE Goal'
  BY <1>5 DEF Goal, IInv, TypeOK, SnapshotOK, Taken, NoTests, FreshModels,
     RoutedModelsFresh, Invalidating, CommitChannelProbe, row, cache, sync,
     stop, counts, history
<1>6. ASSUME Publish PROVE Goal'
  BY <1>6 DEF Goal, IInv, TypeOK, SnapshotOK, Taken, NoTests, FreshModels,
     RoutedModelsFresh, Invalidating, Publish, row, cache, sync, stop, counts,
     history
<1>7. ASSUME Check PROVE Goal'
  BY <1>7 DEF Goal, IInv, TypeOK, SnapshotOK, Taken, NoTests, FreshModels,
     RoutedModelsFresh, Invalidating, Check, row, cache, sync, stop, counts,
     history
<1>8. ASSUME Exit PROVE Goal'
  BY <1>8 DEF Goal, IInv, TypeOK, SnapshotOK, Taken, NoTests, FreshModels,
     RoutedModelsFresh, Invalidating, Exit, row, cache, sync, stop, counts,
     history
<1>9. ASSUME Quit PROVE Goal'
  BY <1>9 DEF Goal, IInv, TypeOK, SnapshotOK, Taken, NoTests, FreshModels,
     RoutedModelsFresh, Invalidating, Quit, NoAdmin, row, cache, sync, stop,
     counts, history
<1>10. ASSUME FirstStop PROVE Goal'
  BY <1>10 DEF Goal, IInv, TypeOK, SnapshotOK, Taken, NoTests, FreshModels,
     RoutedModelsFresh, Invalidating, FirstStop, NoAdmin, row, cache, sync,
     stop, counts, history
<1>11. ASSUME FinalStop PROVE Goal'
  BY <1>11 DEF Goal, IInv, TypeOK, SnapshotOK, Taken, NoTests, FreshModels,
     RoutedModelsFresh, Invalidating, FinalStop, NoAdmin, row, cache, sync,
     stop, counts, history
<1>12. ASSUME Close PROVE Goal'
  BY <1>12 DEF Goal, IInv, TypeOK, SnapshotOK, Taken, NoTests, FreshModels,
     RoutedModelsFresh, Invalidating, Close, NoAdmin, row, cache, sync, stop,
     counts, history
<1>13. ASSUME Die PROVE Goal'
  BY <1>13 DEF Goal, IInv, TypeOK, SnapshotOK, Taken, NoTests, FreshModels,
     RoutedModelsFresh, Invalidating, Die, NoAdmin, row, cache, sync, stop,
     counts, history
<1>14. ASSUME Boot PROVE Goal'
  BY <1>14 DEF Goal, IInv, TypeOK, SnapshotOK, Taken, NoTests, FreshModels,
     RoutedModelsFresh, Invalidating, Boot, NoAdmin, row, cache, sync, stop,
     counts, history
<1>15. ASSUME NEW a \in Admins, SaveChannel(a) PROVE Goal'
  BY <1>15 DEF Goal, IInv, TypeOK, SnapshotOK, Taken, NoTests, FreshModels,
     RoutedModelsFresh, Invalidating, SaveChannel, Arrives, Saved, Admin,
     NoAdmin, row, cache, sync, stop, counts, history
<1>16. ASSUME NEW a \in Admins, ToggleChannel(a) PROVE Goal'
  BY <1>16 DEF Goal, IInv, TypeOK, SnapshotOK, Taken, NoTests, FreshModels,
     RoutedModelsFresh, Invalidating, ToggleChannel, Arrives, Saved, Admin,
     NoAdmin, row, cache, sync, stop, counts, history
<1>17. ASSUME NEW a \in Admins, DeleteChannel(a) PROVE Goal'
  BY <1>17 DEF Goal, IInv, TypeOK, SnapshotOK, Taken, NoTests, FreshModels,
     RoutedModelsFresh, Invalidating, DeleteChannel, Arrives, Saved, Admin,
     NoAdmin, row, cache, sync, stop, counts, history
<1>18. ASSUME NEW a \in Admins, AskRefresh(a) PROVE Goal'
  BY <1>18 DEF Goal, IInv, TypeOK, SnapshotOK, Taken, NoTests, FreshModels,
     RoutedModelsFresh, Invalidating, AskRefresh, NoAdmin, row, cache, counts
<1>19. ASSUME NEW a \in Admins, StartTest(a) PROVE Goal'
  BY <1>19 DEF Goal, IInv, TypeOK, SnapshotOK, Taken, NoTests, FreshModels,
     RoutedModelsFresh, Invalidating, StartTest, Arrives, Saved, Admin,
     NoAdmin, row, cache, sync, stop, counts, history
<1>20. ASSUME NEW a \in Admins, RefreshCache(a) PROVE Goal'
  BY <1>20 DEF Goal, IInv, TypeOK, SnapshotOK, Taken, NoTests, FreshModels,
     RoutedModelsFresh, Invalidating, RefreshCache, Arrives, Saved, Admin,
     NoAdmin, row, cache, sync, stop, counts, history
<1>21. ASSUME NEW a \in Admins, InvalidateChannel(a) PROVE Goal'
  BY <1>21 DEF Goal, IInv, TypeOK, SnapshotOK, Taken, NoTests, FreshModels,
     RoutedModelsFresh, Invalidating, InvalidateChannel, Arrives, Saved,
     Admin, NoAdmin, row, cache, sync, stop, counts, history
<1>22. ASSUME NEW a \in Admins, RequestRefresh(a) PROVE Goal'
  BY <1>22 DEF Goal, IInv, TypeOK, SnapshotOK, Taken, NoTests, FreshModels,
     RoutedModelsFresh, Invalidating, RequestRefresh, NoAdmin, row, cache,
     counts
<1>23. ASSUME NEW a \in Admins, PersistTest(a) PROVE Goal'
  BY <1>23 DEF Goal, IInv, TypeOK, SnapshotOK, Taken, NoTests, FreshModels,
     RoutedModelsFresh, Invalidating, PersistTest, Arrives, Saved, Admin,
     NoAdmin, row, cache, sync, stop, counts, history
<1>24. ASSUME NEW a \in Admins, PublishTest(a) PROVE Goal'
  BY <1>24 DEF Goal, IInv, TypeOK, SnapshotOK, Taken, NoTests, FreshModels,
     RoutedModelsFresh, Invalidating, PublishTest, Arrives, Saved, Admin,
     NoAdmin, row, cache, sync, stop, counts, history
<1>25. ASSUME UNCHANGED vars PROVE Goal'
  BY <1>25 DEF Goal, IInv, TypeOK, SnapshotOK, Taken, NoTests, FreshModels,
     RoutedModelsFresh, Invalidating, vars, row, cache, sync, stop, counts,
     history
<1>26. QED
  BY <1>1, <1>2, <1>3, <1>4, <1>5, <1>6, <1>7, <1>8, <1>9, <1>10, <1>11,
     <1>12, <1>13, <1>14, <1>15, <1>16, <1>17, <1>18, <1>19, <1>20, <1>21,
     <1>22, <1>23, <1>24, <1>25 DEF Next, RefreshStep, ShutdownStep,
     AdminStep, AdminArrives

LEMMA TestsCounted ==
    ASSUME IInv, [Next]_vars, tests' = 0
    PROVE  tests = 0
<1>1. tests \in Nat
  BY DEF IInv, TypeOK
<1>2. tests' = tests \/ tests' = tests + 1
  BY DEF Next, RefreshStep, ShutdownStep, AdminStep, AdminArrives, StartPass,
     ReadGeneration, Snapshot, Fetch, CommitChannelProbe, Publish, Check, Exit,
     SaveChannel, ToggleChannel, DeleteChannel, AskRefresh, StartTest,
     RefreshCache, InvalidateChannel, RequestRefresh, PersistTest, PublishTest,
     Quit, FirstStop, FinalStop, Close, Die, Boot, counts, vars
<1>3. QED
  BY <1>1, <1>2

\* As long as no manual test was made, the models stored for the channel are of
\* the configuration in force, and the routed ones too but for an invalidation
\* under way.
THEOREM FreshWithoutTests == Spec => []FreshModels
<1> DEFINE Fresh == tests = 0 => NoTests /\ FreshModels
<1>1. Init => Fresh
  BY DEF Init, NoTests, NoAdmin, FreshModels, RoutedModelsFresh
<1>2. Fresh /\ IInv /\ [Next]_vars => Fresh'
  BY FreshKept, TestsCounted
<1>3. Fresh => FreshModels
  BY DEF FreshModels
<1>4. QED
  BY <1>1, <1>2, <1>3, InvariantHolds, PTL DEF Spec
=============================================================================
