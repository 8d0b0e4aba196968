-------------------------- MODULE SubmissionProofs --------------------------
(* Proofs about Submission, for any requests, processes, routes and bodies, *)
(* any number of crashes and any changes of the bindings.                   *)
EXTENDS Submission, FiniteSetTheorems, TLAPS

-----------------------------------------------------------------------------
(* The inductive invariant. *)

\* The types, without the bound of the reference counts.
Shape ==
    /\ bound \subseteq Operations
    /\ row \in [Ids -> Row]
    /\ table \in [Processes -> [Operations -> Requests \cup {None}]]
    /\ refs \in [Requests -> Int]
    /\ holder \in [Requests -> Requests \cup {None}]
    /\ req \in [Requests -> Request]
    /\ made \subseteq sent /\ sent \subseteq Requests
    /\ crashes \in 0 .. MaxCrashes /\ rebinds \in 0 .. MaxRebinds

\* What a request has learned by the place it is at.
Started == {"answer", "wait", "project", "alias", "media", "mark", "done"}
Learned(r) ==
    /\ req[r].pc # "idle" =>
          /\ req[r].at \in Processes /\ req[r].body \in Bodies
    /\ req[r].pc \in {"join", "waiting"} \cup Inside => req[r].op \in Operations
    /\ req[r].pc = "first" => req[r].looked + 1 <= Len(Lookups(req[r].route))
    /\ req[r].lock # None <=> req[r].pc \in {"waiting"} \cup Inside
    /\ r \in sent => req[r].pc \in Started /\ req[r].op \in Operations
    /\ req[r].pc \in {"answer", "wait", "project", "alias", "media"} => r \in sent
    /\ req[r].pc \in {"wait", "project", "alias", "media"} => r \in made

\* Those whose reservation stands in the table: they are about to submit, or
\* have submitted, or found that they could not.
Claimed(r) == r \in sent \/ req[r].pc \in {"send", "mark"}
Claims ==
    /\ \A r, q \in Requests : Claimed(r) /\ Claimed(q) /\ Id(r) = Id(q) => r = q
    /\ \A r \in Requests : Claimed(r) => row[Id(r)].state # "none"

\* A row's task was made for the row's body, and so was a replayed one.
Tasks ==
    /\ \A i \in Ids : row[i].task # None =>
          row[i].task \in made /\ req[row[i].task].body = i[2]
    /\ ReplayIsTheTask

Users(item) == {r \in Requests : req[r].lock = item}
\* A lock is used where it is listed, is counted once for every user, belongs
\* to the process of the request that made it, and to one operation there.
Locks ==
    /\ \A r \in Requests :
          req[r].lock # None => table[req[r].at][req[r].op] = req[r].lock
    /\ \A p \in Processes, o \in Operations : table[p][o] # None =>
          /\ req[table[p][o]].at = p
          /\ req[table[p][o]].pc \in {"waiting", "done"} \cup Inside
          /\ \E r \in Requests : req[r].at = p /\ req[r].lock = table[p][o]
          /\ \A s \in Processes, n \in Operations :
                table[s][n] = table[p][o] => s = p /\ n = o
    /\ \A r \in Requests : refs[r] = Cardinality(Users(r))
    /\ \A r \in Requests : holder[r] # None =>
          req[holder[r]].pc \in Inside /\ req[holder[r]].lock = r
    /\ \A r \in Requests : req[r].pc \in Inside => holder[req[r].lock] = r

IInv == Shape /\ (\A r \in Requests : Learned(r)) /\ Claims /\ Tasks /\ Locks

LEMMA InitEstablishes ==
    ASSUME SubmissionAssumption, Init
    PROVE  IInv
<1> USE DEF SubmissionAssumption
<1>1. Fresh \in Request
  BY DEF Fresh, Request, Answers
<1>2. NoRow \in Row
  BY DEF NoRow, Row, States
<1>3. Shape
  BY <1>1, <1>2 DEF Init, Shape
<1>4. \A r \in Requests : Learned(r)
  BY DEF Init, Learned, Fresh, Inside
<1>5. Claims
  BY DEF Init, Claims, Claimed, Fresh
<1>6. Tasks
  BY DEF Init, Tasks, NoRow, ReplayIsTheTask, Fresh
<1>7. Locks
  <2>1. \A r \in Requests : Users(r) = {}
    BY DEF Init, Users, Fresh
  <2>2. QED
    BY <2>1, FS_EmptySet DEF Init, Locks, Fresh, Inside
<1>8. QED
  BY <1>3, <1>4, <1>5, <1>6, <1>7 DEF IInv

-----------------------------------------------------------------------------
(* Types, and what a request has learned. *)

LEMMA KindsOfOperations ==
    ASSUME NEW r \in Requests, req \in [Requests -> Request],
           req[r].op \in Operations, req[r].body \in Bodies
    PROVE  Id(r) \in Ids
BY DEF Id, Ids

\* A record of a request stays one when a field gets a value of its type.
PCs == {"idle", "first", "resolve", "join", "waiting", "done"} \cup Inside
LEMMA FieldsShaped ==
    ASSUME NEW a \in Request
    PROVE  /\ \A v \in PCs : [a EXCEPT !.pc = v] \in Request
           /\ \A v \in 0 .. 2 : [a EXCEPT !.looked = v] \in Request
           /\ \A v \in Operations \cup {None} : [a EXCEPT !.op = v] \in Request
           /\ \A v \in Requests \cup {None} : [a EXCEPT !.lock = v] \in Request
           /\ \A v \in BOOLEAN : [a EXCEPT !.waits = v] \in Request
           /\ \A v \in {"none", "ok", "unknown", "rejected", "failed"} :
                 [a EXCEPT !.outcome = v] \in Request
           /\ \A v \in {"none", "provider", "gateway"} : [a EXCEPT !.public = v] \in Request
           /\ \A v \in Answers : [a EXCEPT !.answer = v] \in Request
           /\ \A v \in Requests \cup {None} : [a EXCEPT !.task = v] \in Request
           /\ \A v \in Processes : [a EXCEPT !.at = v] \in Request
           /\ \A v \in Routes : [a EXCEPT !.route = v] \in Request
           /\ \A v \in Bodies : [a EXCEPT !.body = v] \in Request
           /\ \A v \in BOOLEAN : [a EXCEPT !.late = v] \in Request
<1>1. \A v \in PCs : [a EXCEPT !.pc = v] \in Request
  BY DEF Request, PCs
<1>2. \A v \in 0 .. 2 : [a EXCEPT !.looked = v] \in Request
  BY DEF Request
<1>3. \A v \in Operations \cup {None} : [a EXCEPT !.op = v] \in Request
  BY DEF Request
<1>4. \A v \in Requests \cup {None} : [a EXCEPT !.lock = v] \in Request
  BY DEF Request
<1>5. \A v \in BOOLEAN : [a EXCEPT !.waits = v] \in Request
  BY DEF Request
<1>6. \A v \in {"none", "ok", "unknown", "rejected", "failed"} :
         [a EXCEPT !.outcome = v] \in Request
  BY DEF Request
<1>7. \A v \in {"none", "provider", "gateway"} : [a EXCEPT !.public = v] \in Request
  BY DEF Request
<1>8. \A v \in Answers : [a EXCEPT !.answer = v] \in Request
  BY DEF Request
<1>9. \A v \in Requests \cup {None} : [a EXCEPT !.task = v] \in Request
  BY DEF Request
<1>10. \A v \in Processes : [a EXCEPT !.at = v] \in Request
  BY DEF Request
<1>11. \A v \in Routes : [a EXCEPT !.route = v] \in Request
  BY DEF Request
<1>12. \A v \in Bodies : [a EXCEPT !.body = v] \in Request
  BY DEF Request
<1>13. \A v \in BOOLEAN : [a EXCEPT !.late = v] \in Request
  BY DEF Request
<1>14. QED
  BY <1>1, <1>2, <1>3, <1>4, <1>5, <1>6, <1>7, <1>8, <1>9, <1>10, <1>11, <1>12, <1>13

LEMMA OverShaped ==
    ASSUME NEW r, NEW rec \in Request
    PROVE  Over(r, rec) \in Request
<1>1. (IF r \in sent THEN rec.op ELSE None) \in Operations \cup {None}
  BY DEF Request
<1>2. "done" \in PCs /\ 0 \in 0 .. 2 /\ FALSE \in BOOLEAN
  BY DEF PCs
<1>3. QED
  BY <1>1, <1>2, FieldsShaped DEF Over

\* The end of a request keeps types, and leaves the other requests alone.
LEMMA EndsShaped ==
    ASSUME SubmissionAssumption, IInv, NEW r \in Requests, NEW rec \in Request,
           rec.at = req[r].at, rec.body = req[r].body, rec.op = req[r].op,
           req[r].pc # "idle",
           Ends(r, rec), sent' = sent, made' = made
    PROVE  /\ req' \in [Requests -> Request]
           /\ \A q \in Requests : Learned(q)'
<1> USE DEF SubmissionAssumption
<1>1. Over(r, rec) \in Request
  BY OverShaped
<1>2. req' \in [Requests -> Request]
  BY <1>1 DEF IInv, Shape, Ends
<1>3. \A q \in Requests \ {r} : req'[q] = req[q]
  BY DEF IInv, Shape, Ends
<1>4. req'[r] = Over(r, rec)
  BY DEF IInv, Shape, Ends
<1>5. Learned(r)'
  BY <1>4 DEF IInv, Learned, Over, Request, Inside, Started
<1>6. \A q \in Requests \ {r} : Learned(q)'
  BY <1>3 DEF IInv, Learned
<1>7. QED
  BY <1>2, <1>5, <1>6

\* So does a move to another place, when what is to be learned there is known.
LEMMA MoveShaped ==
    ASSUME SubmissionAssumption, IInv, NEW r \in Requests, NEW rec \in Request,
           req' = [req EXCEPT ![r] = rec], sent \subseteq sent', made \subseteq made',
           sent' \subseteq sent \cup {r}, made' \subseteq made \cup {r}, Learned(r)'
    PROVE  /\ req' \in [Requests -> Request]
           /\ \A q \in Requests : Learned(q)'
<1>1. \A q \in Requests \ {r} : req'[q] = req[q]
  BY DEF IInv, Shape
<1>2. \A q \in Requests \ {r} : Learned(q)'
  BY <1>1 DEF IInv, Learned
<1>3. QED
  BY <1>2 DEF IInv, Shape

\* What a lookup finds.
LEMMA FoundShaped ==
    ASSUME IInv, NEW r \in Requests, NEW o \in Operations, req[r].body \in Bodies
    PROVE  /\ Found(r, o) \in Request
           /\ Found(r, o).at = req[r].at
           /\ Found(r, o).body = req[r].body
           /\ Found(r, o).op = req[r].op
<1>1. req[r] \in Request
  BY DEF IInv, Shape
<1>4. <<o, req[r].body>> \in Ids
  BY DEF Ids
<1>5. row[<<o, req[r].body>>] \in Row
  BY <1>4 DEF IInv, Shape
<1>6. ReplayID(<<o, req[r].body>>) \in {"none", "provider", "gateway"}
  BY <1>5 DEF ReplayID, Row
<1>7. row[<<o, req[r].body>>].task \in Requests \cup {None}
  BY <1>5 DEF Row
<1>8. {"conflict", "replayed", "refused"} \subseteq Answers
  BY DEF Answers
<1>9. Found(r, o) \in Request
  BY <1>1, <1>6, <1>7, <1>8, FieldsShaped DEF Found
<1>10. QED
  BY <1>1, <1>9 DEF Found, Request

\* The return of a handler gives its lock back.
LEMMA UnlockShaped ==
    ASSUME IInv, NEW r, NEW rec, DropReference(r, rec)
    PROVE  /\ table' \in [Processes -> [Operations -> Requests \cup {None}]]
           /\ refs' \in [Requests -> Int]
<1>1. refs' \in [Requests -> Int]
  <2>1. refs \in [Requests -> Int]
    BY DEF IInv, Shape
  <2>2. refs' = [refs EXCEPT ![req[r].lock] = refs[req[r].lock] - 1]
    BY DEF DropReference
  <2>3. \A i \in Requests : refs[i] - 1 \in Int
    BY <2>1
  <2>4. QED
    BY <2>1, <2>2, <2>3
<1>2. table' \in [Processes -> [Operations -> Requests \cup {None}]]
  <2>1. table \in [Processes -> [Operations -> Requests \cup {None}]]
    BY DEF IInv, Shape
  <2>2. \A p, o : [table EXCEPT ![p][o] = None]
                   \in [Processes -> [Operations -> Requests \cup {None}]]
    BY <2>1
  <2>3. QED
    BY <2>1, <2>2 DEF DropReference
<1>3. QED
  BY <1>1, <1>2

\* One return with an answer, whatever it was found to be.
LEMMA ReturnShaped ==
    ASSUME SubmissionAssumption, IInv, NEW r \in Requests, NEW rec \in Request,
           req[r].pc # "idle", Unlock(r, rec),
           rec.at = req[r].at, rec.body = req[r].body, rec.op = req[r].op,
           row' \in [Ids -> Row], UNCHANGED <<bound, provider, counts>>
    PROVE  Shape' /\ \A q \in Requests : Learned(q)'
<1>1. DropReference(r, rec) /\ Ends(r, rec)
  BY DEF Unlock, DropReference
<1>2. holder' \in [Requests -> Requests \cup {None}]
  BY DEF IInv, Shape, Unlock
<1>3. QED
  BY <1>1, <1>2, EndsShaped, UnlockShaped DEF IInv, Shape, provider, counts

\* An answer of a request is one.
LEMMA AnswerShaped ==
    ASSUME IInv, NEW r \in Requests, NEW answer \in Answers
    PROVE  LET rec == [req[r] EXCEPT !.answer = answer]
           IN  /\ rec \in Request /\ rec.at = req[r].at
               /\ rec.body = req[r].body /\ rec.op = req[r].op
<1> DEFINE rec == [req[r] EXCEPT !.answer = answer]
<1>1. req[r] \in Request
  BY DEF IInv, Shape
<1>2. rec \in Request
  BY <1>1, FieldsShaped
<1>3. rec.at = req[r].at /\ rec.body = req[r].body /\ rec.op = req[r].op
  BY <1>1 DEF Request
<1>4. QED
  BY <1>2, <1>3

LEMMA LookupsShaped ==
    ASSUME SubmissionAssumption, IInv, NEW r \in Requests,
           FirstLook(r) \/ SecondLook(r)
    PROVE  Shape' /\ \A q \in Requests : Learned(q)'
<1>1. req[r] \in Request /\ req[r].body \in Bodies
  BY DEF IInv, Shape, Learned, FirstLook, SecondLook
<1>2. "error" \in Answers
  BY DEF Answers
<1>3. CASE FirstLook(r)
  <2> DEFINE o == Lookups(req[r].route)[req[r].looked + 1]
             last == req[r].looked + 1 = Len(Lookups(req[r].route))
  <2>1. CASE o \in Operations /\ Ends(r, Found(r, o))
    <3>1. /\ req' \in [Requests -> Request]
          /\ \A q \in Requests : Learned(q)'
      BY <1>1, <1>3, <2>1, FoundShaped, EndsShaped DEF FirstLook, provider
    <3>2. QED
      BY <1>3, <3>1 DEF FirstLook, IInv, Shape, provider, counts, locks
  <2>2. CASE req' = [req EXCEPT ![r].looked = @ + 1,
                                ![r].pc = IF last THEN "resolve" ELSE "first"]
    <3> DEFINE pc == IF last THEN "resolve" ELSE "first"
               rec == [req[r] EXCEPT !.looked = @ + 1, !.pc = pc]
    <3>1. Len(Lookups(req[r].route)) \in {1, 2}
      BY DEF Lookups
    <3>2. req[r].looked \in 0 .. 2 /\ req[r].looked + 1 <= Len(Lookups(req[r].route))
      BY <1>1, <1>3 DEF IInv, Learned, FirstLook, Request
    <3>3. \A l \in {1, 2}, n \in 0 .. 2 : n + 1 <= l => n + 1 \in 0 .. 2
      OBVIOUS
    <3>4. req[r].looked + 1 \in 0 .. 2 /\ pc \in PCs
      BY <3>1, <3>2, <3>3 DEF PCs
    <3>5. rec \in Request
      BY <1>1, <3>4, FieldsShaped
    <3>6. req' = [req EXCEPT ![r] = rec]
      BY <2>2 DEF IInv, Shape
    <3>7. req'[r] = rec
      BY <3>6 DEF IInv, Shape
    <3>8. Learned(r)'
      <4>1. /\ rec.pc \in {"first", "resolve"} /\ rec.at = req[r].at /\ rec.body = req[r].body
            /\ rec.lock = req[r].lock /\ rec.route = req[r].route /\ rec.looked = req[r].looked + 1
            /\ rec.pc = "first" => ~last
        BY <1>1 DEF Request
      <4>2. /\ req[r].at \in Processes /\ req[r].body \in Bodies /\ req[r].lock = None /\ r \notin sent
            /\ ~last => req[r].looked + 2 <= Len(Lookups(req[r].route))
        BY <1>1, <1>3, <3>1, <3>2 DEF IInv, Learned, FirstLook, Inside, Started
      <4>3. UNCHANGED <<sent, made>>
        BY <1>3 DEF FirstLook, provider
      <4> HIDE DEF rec
      <4>4. QED
        BY <3>2, <3>7, <4>1, <4>2, <4>3 DEF Learned, Inside, Started
    <3>9. QED
      BY <1>3, <3>5, <3>6, <3>8, MoveShaped DEF FirstLook, IInv, Shape, provider, counts, locks
  <2>3. CASE Fails(r)
    <3>1. /\ req' \in [Requests -> Request]
          /\ \A q \in Requests : Learned(q)'
      BY <1>2, <1>3, <2>3, AnswerShaped, EndsShaped DEF FirstLook, Fails, provider
    <3>2. QED
      BY <1>3, <3>1 DEF FirstLook, IInv, Shape, provider, counts, locks
  <2>4. QED
    BY <1>3, <2>1, <2>2, <2>3 DEF FirstLook
<1>4. CASE SecondLook(r)
  <2>1. req[r].op \in Operations
    BY <1>4 DEF SecondLook, IInv, Learned, Inside
  <2>2. row' \in [Ids -> Row] /\ UNCHANGED <<bound, provider, counts>>
    BY <1>4 DEF SecondLook, IInv, Shape
  <2>3. CASE Unlock(r, Found(r, req[r].op))
    BY <1>1, <1>4, <2>1, <2>2, <2>3, FoundShaped, ReturnShaped DEF SecondLook
  <2>4. CASE Unlock(r, [req[r] EXCEPT !.answer = "error"])
    BY <1>2, <1>4, <2>2, <2>4, AnswerShaped, ReturnShaped DEF SecondLook
  <2>5. CASE GoTo(r, "reserve") /\ UNCHANGED locks
    <3> DEFINE rec == [req[r] EXCEPT !.pc = "reserve"]
    <3>1. rec \in Request
      BY <1>1, FieldsShaped DEF PCs, Inside
    <3>2. req' = [req EXCEPT ![r] = rec] /\ req'[r] = rec
      BY <2>5 DEF GoTo, IInv, Shape
    <3>3. Learned(r)'
      BY <1>1, <1>4, <2>1, <3>2 DEF IInv, Learned, SecondLook, Request, provider, Inside, Started
    <3>4. QED
      BY <1>4, <2>5, <3>1, <3>2, <3>3, MoveShaped
      DEF SecondLook, IInv, Shape, provider, counts, locks
  <2>6. QED
    BY <1>4, <2>3, <2>4, <2>5 DEF SecondLook
<1>5. QED
  BY <1>3, <1>4

LEMMA WaitersShaped ==
    ASSUME SubmissionAssumption, IInv, NEW r \in Requests,
           Resolve(r) \/ Join(r) \/ Enter(r) \/ GiveUp(r)
    PROVE  Shape' /\ \A q \in Requests : Learned(q)'
<1>1. req[r] \in Request
  BY DEF IInv, Shape
<1>2. {"error", "legacy"} \subseteq Answers /\ {"join", "waiting", "second"} \subseteq PCs
  BY DEF Answers, PCs, Inside
<1>3. CASE Resolve(r)
  <2> DEFINE names == Wanted(req[r].route)
  <2>1. CASE Ends(r, [req[r] EXCEPT !.answer = "legacy"]) \/ Fails(r)
    <3>1. /\ req' \in [Requests -> Request]
          /\ \A q \in Requests : Learned(q)'
      BY <1>2, <1>3, <2>1, AnswerShaped, EndsShaped DEF Resolve, Fails, provider
    <3>2. QED
      BY <1>3, <3>1 DEF Resolve, IInv, Shape, provider, counts, locks
  <2>2. CASE \E n \in {m \in DOMAIN names : names[m] \in bound}, waits \in BOOLEAN :
                req' = [req EXCEPT ![r].pc = "join", ![r].op = names[n], ![r].waits = waits]
    <3>1. PICK o \in bound, waits \in BOOLEAN :
             req' = [req EXCEPT ![r].pc = "join", ![r].op = o, ![r].waits = waits]
      BY <2>2
    <3> DEFINE rec == [req[r] EXCEPT !.pc = "join", !.op = o, !.waits = waits]
    <3>2. o \in Operations
      BY DEF IInv, Shape
    <3>3. rec \in Request
      BY <1>1, <1>2, <3>2, FieldsShaped
    <3>4. req' = [req EXCEPT ![r] = rec] /\ req'[r] = rec
      BY <3>1 DEF IInv, Shape
    <3>5. /\ req'[r].pc = "join" /\ req'[r].op = o /\ req'[r].at = req[r].at
          /\ req'[r].body = req[r].body /\ req'[r].lock = req[r].lock
      <4>1. \A a \in Request : LET b == [a EXCEPT !.pc = "join", !.op = o, !.waits = waits]
                             IN  /\ b.pc = "join" /\ b.op = o /\ b.at = a.at
                                 /\ b.body = a.body /\ b.lock = a.lock
        BY DEF Request
      <4>2. QED
        BY <1>1, <3>4, <4>1
    <3>6. req[r].pc = "resolve" /\ sent' = sent /\ made' = made
      BY <1>3 DEF Resolve, provider
    <3>7. Learned(r)'
      BY <3>2, <3>5, <3>6 DEF IInv, Learned, Inside, Started
    <3>8. QED
      BY <1>3, <3>3, <3>4, <3>7, MoveShaped DEF Resolve, IInv, Shape, provider, counts, locks
  <2>3. QED
    BY <1>3, <2>1, <2>2 DEF Resolve
<1>4. CASE Join(r)
  <2> DEFINE p == req[r].at
             o == req[r].op
             item == IF table[p][o] = None THEN r ELSE table[p][o]
             rec == [req[r] EXCEPT !.pc = "waiting", !.lock = item]
  <2>1. p \in Processes /\ o \in Operations
    BY <1>4 DEF Join, IInv, Learned
  <2>2. item \in Requests
    BY <2>1 DEF IInv, Shape
  <2>3. rec \in Request
    BY <1>1, <1>2, <2>2, FieldsShaped
  <2>4. /\ table' = [table EXCEPT ![p][o] = item]
        /\ refs' = [refs EXCEPT ![item] = refs[item] + 1]
        /\ req' = [req EXCEPT ![r] = rec]
    BY <1>4 DEF Join, IInv, Shape
  <2>5. req'[r] = rec
    BY <2>4 DEF IInv, Shape
  <2>6. Learned(r)'
    <3>1. /\ req'[r].pc = "waiting" /\ req'[r].op = o /\ req'[r].at = p
          /\ req'[r].body = req[r].body /\ req'[r].lock = item
      BY <1>1, <2>5 DEF Request
    <3>2. req[r].pc = "join" /\ sent' = sent /\ made' = made
      BY <1>4 DEF Join, provider
    <3>3. QED
      BY <2>1, <2>2, <3>1, <3>2 DEF IInv, Learned, Inside, Started, SubmissionAssumption
  <2>7. table' \in [Processes -> [Operations -> Requests \cup {None}]]
    BY <2>1, <2>2, <2>4 DEF IInv, Shape
  <2>8. refs' \in [Requests -> Int]
    <3>1. refs[item] + 1 \in Int
      BY <2>2 DEF IInv, Shape
    <3>2. QED
      BY <2>2, <2>4, <3>1 DEF IInv, Shape
  <2>9. QED
    BY <1>4, <2>3, <2>4, <2>6, <2>7, <2>8, MoveShaped
    DEF Join, IInv, Shape, provider, counts
<1>5. CASE Enter(r)
  <2> DEFINE rec == [req[r] EXCEPT !.pc = "second"]
  <2>1. rec \in Request
    BY <1>1, <1>2, FieldsShaped
  <2>2. req' = [req EXCEPT ![r] = rec] /\ req'[r] = rec
    BY <1>5 DEF Enter, GoTo, IInv, Shape
  <2>3. Learned(r)'
    BY <1>1, <1>5, <2>2 DEF IInv, Learned, Enter, Request, provider, Inside, Started
  <2>4. holder' \in [Requests -> Requests \cup {None}]
    BY <1>5 DEF Enter, IInv, Shape
  <2>5. QED
    BY <1>5, <2>1, <2>2, <2>3, <2>4, MoveShaped DEF Enter, IInv, Shape, provider, counts
<1>6. CASE GiveUp(r)
  <2> DEFINE rec == [req[r] EXCEPT !.answer = "error"]
  <2>1. DropReference(r, rec) /\ Ends(r, rec)
    BY <1>6 DEF GiveUp, DropReference
  <2>2. /\ req' \in [Requests -> Request]
        /\ \A q \in Requests : Learned(q)'
    BY <1>2, <1>6, <2>1, AnswerShaped, EndsShaped DEF GiveUp, provider
  <2>3. QED
    BY <1>6, <2>1, <2>2, UnlockShaped DEF GiveUp, IInv, Shape, provider, counts
<1>7. QED
  BY <1>3, <1>4, <1>5, <1>6

\* Rows stay rows when a field changes.
LEMMA RowsShaped ==
    ASSUME IInv, NEW i \in Ids
    PROVE  /\ \A state \in States : [row EXCEPT ![i].state = state] \in [Ids -> Row]
           /\ \A public \in {"none", "provider", "gateway"} :
                 [row EXCEPT ![i].public = public] \in [Ids -> Row]
           /\ \A r \in Requests : [row EXCEPT ![i] = Projected(r)] \in [Ids -> Row]
<1>1. row \in [Ids -> Row]
  BY DEF IInv, Shape
<1>2. \A state \in States : [row[i] EXCEPT !.state = state] \in Row
  BY <1>1 DEF Row
<1>3. \A public \in {"none", "provider", "gateway"} : [row[i] EXCEPT !.public = public] \in Row
  BY <1>1 DEF Row
<1>4. \A r \in Requests : Projected(r) \in Row
  BY DEF Projected, NoRow, Row, States
<1>5. QED
  BY <1>1, <1>2, <1>3, <1>4

\* A request at another place under its lock: b is a, moved to pc.
Moved(b, a, pc) ==
    /\ b \in Request /\ b.pc = pc
    /\ b.at = a.at /\ b.body = a.body /\ b.op = a.op /\ b.lock = a.lock

LEMMA MovesShaped ==
    ASSUME NEW a \in Request, NEW pc \in Inside,
           NEW outcome \in {"none", "ok", "unknown", "rejected", "failed"},
           NEW public \in {"none", "provider", "gateway"}
    PROVE  /\ Moved([a EXCEPT !.pc = pc], a, pc)
           /\ Moved([a EXCEPT !.pc = pc, !.outcome = outcome], a, pc)
           /\ Moved([a EXCEPT !.pc = pc, !.public = public], a, pc)
<1>1. pc \in PCs
  BY DEF PCs
<1>2. [a EXCEPT !.pc = pc] \in Request
  BY <1>1, FieldsShaped
<1>3. [a EXCEPT !.pc = pc, !.outcome = outcome] \in Request
  BY <1>1, FieldsShaped
<1>4. [a EXCEPT !.pc = pc, !.public = public] \in Request
  BY <1>1, FieldsShaped
<1>5. Moved([a EXCEPT !.pc = pc], a, pc)
  BY <1>2 DEF Moved, Request
<1>6. Moved([a EXCEPT !.pc = pc, !.outcome = outcome], a, pc)
  BY <1>3 DEF Moved, Request
<1>7. Moved([a EXCEPT !.pc = pc, !.public = public], a, pc)
  BY <1>4 DEF Moved, Request
<1>8. QED
  BY <1>5, <1>6, <1>7

\* One move inside the lock.
LEMMA InsideShaped ==
    ASSUME SubmissionAssumption, IInv, NEW r \in Requests, NEW rec, NEW pc \in Inside,
           req[r].pc \in Inside, req' = [req EXCEPT ![r] = rec], Moved(rec, req[r], pc),
           row' \in [Ids -> Row], UNCHANGED <<bound, locks, counts>>,
           sent \subseteq sent', made \subseteq made', made' \subseteq sent',
           sent' \subseteq sent \cup {r}, made' \subseteq made \cup {r},
           r \in sent' => pc \in Started,
           pc \in {"answer", "wait", "project", "alias", "media"} => r \in sent',
           pc \in {"wait", "project", "alias", "media"} => r \in made'
    PROVE  Shape' /\ \A q \in Requests : Learned(q)'
<1>1. req'[r] = rec
  BY DEF IInv, Shape
<1>2. Learned(r)'
  BY <1>1 DEF IInv, Learned, Inside, Moved
<1>3. QED
  BY <1>2, MoveShaped DEF IInv, Shape, locks, counts, Moved

LEMMA SubmittersShaped ==
    ASSUME SubmissionAssumption, IInv, NEW r \in Requests,
           \/ Reserve(r) \/ Send(r) \/ Answer(r) \/ Wait(r)
           \/ Mark(r) \/ Project(r) \/ RecordAlias(r) \/ Respond(r)
    PROVE  Shape' /\ \A q \in Requests : Learned(q)'
<1>1. req[r] \in Request /\ req[r].pc \in Inside
  BY DEF IInv, Shape, Reserve, Send, Answer, Wait, Mark, Project, RecordAlias, Respond, Inside
<1>2. Id(r) \in Ids
  BY <1>1, KindsOfOperations DEF IInv, Shape, Learned, Inside
<1>3. {"error", "refused", "accepted", "failed"} \subseteq Answers
  BY DEF Answers
<1>4. row \in [Ids -> Row] /\ made \subseteq sent /\ req \in [Requests -> Request]
  BY DEF IInv, Shape
<1>5. \A answer \in Answers : Unlock(r, [req[r] EXCEPT !.answer = answer])
             /\ row' \in [Ids -> Row] /\ UNCHANGED <<bound, provider, counts>>
         => Shape' /\ \A q \in Requests : Learned(q)'
  BY <1>1, AnswerShaped, ReturnShaped DEF Inside
<1>6. CASE Reserve(r)
  <2>1. CASE row' = [row EXCEPT ![Id(r)].state = "submitting"] /\ GoTo(r, "send") /\ UNCHANGED locks
    <3>1. row' \in [Ids -> Row]
      BY <1>2, <2>1, RowsShaped DEF States
    <3>2. req' = [req EXCEPT ![r] = [req[r] EXCEPT !.pc = "send"]]
      BY <2>1, <1>4 DEF GoTo
    <3>3. "send" \in Inside /\ r \notin sent
      BY <1>6 DEF Inside, Reserve, IInv, Learned, Started
    <3>4. UNCHANGED <<bound, locks, provider, counts>>
      BY <1>6, <2>1 DEF Reserve
    <3>5. QED
      BY <1>1, <1>4, MovesShaped, <3>1, <3>2, <3>3, <3>4, InsideShaped DEF provider
  <2>2. CASE UNCHANGED row /\ \E answer \in {"refused", "error"} :
                Unlock(r, [req[r] EXCEPT !.answer = answer])
    BY <1>3, <1>4, <1>5, <1>6, <2>2 DEF Reserve
  <2>3. QED
    BY <1>6, <2>1, <2>2 DEF Reserve
<1>7. CASE Send(r)
  <2>1. r \notin made /\ {"answer", "mark"} \subseteq Inside \cap Started
    BY <1>4, <1>7 DEF Send, IInv, Learned, Inside, Started
  <2>2. row' \in [Ids -> Row] /\ UNCHANGED <<bound, locks, made, counts>>
    BY <1>4, <1>7 DEF Send
  <2>3. CASE sent' = sent \cup {r} /\ GoTo(r, "answer")
    <3> DEFINE rec == [req[r] EXCEPT !.pc = "answer"]
    <3>1. req' = [req EXCEPT ![r] = rec]
      BY <1>4, <2>3 DEF GoTo
    <3>2. Moved(rec, req[r], "answer")
      BY <1>1, <2>1, MovesShaped
    <3>3. /\ sent \subseteq sent' /\ sent' \subseteq sent \cup {r} /\ r \in sent'
          /\ made \subseteq made' /\ made' \subseteq sent' /\ made' \subseteq made \cup {r}
      BY <1>4, <2>2, <2>3
    <3> HIDE DEF rec
    <3>4. QED
      BY <1>1, <2>1, <2>2, <3>1, <3>2, <3>3, InsideShaped
  <2>4. CASE UNCHANGED sent /\ req' = [req EXCEPT ![r].pc = "mark", ![r].outcome = "rejected"]
    <3> DEFINE rec == [req[r] EXCEPT !.pc = "mark", !.outcome = "rejected"]
    <3>1. req' = [req EXCEPT ![r] = rec]
      BY <1>4, <2>4
    <3>2. Moved(rec, req[r], "mark")
      BY <1>1, <2>1, MovesShaped
    <3> HIDE DEF rec
    <3>3. QED
      BY <1>1, <1>4, <2>1, <2>2, <2>4, <3>1, <3>2, InsideShaped
  <2>5. QED
    BY <1>7, <2>3, <2>4 DEF Send
<1>8. CASE Answer(r)
  <2>1. r \in sent /\ {"mark", "wait", "project"} \subseteq Inside \cap Started
    BY <1>8 DEF Answer, IInv, Learned, Inside, Started
  <2>2. row' \in [Ids -> Row] /\ UNCHANGED <<bound, locks, sent, counts>>
    BY <1>4, <1>8 DEF Answer
  <2>3. PICK reply \in {"task", "refusal", "lost", "unreadable", "no task"}, taken \in BOOLEAN :
           /\ reply = "task" => taken
           /\ made' = IF taken THEN made \cup {r} ELSE made
           /\ LET outcome == Reading(r, reply)
              IN req' = [req EXCEPT ![r].outcome = outcome,
                           ![r].pc = IF outcome # "ok" THEN "mark"
                                     ELSE IF req[r].waits THEN "wait" ELSE "project"]
    BY <1>8 DEF Answer
  <2> DEFINE outcome == Reading(r, reply)
             pc == IF outcome # "ok" THEN "mark" ELSE IF req[r].waits THEN "wait" ELSE "project"
             rec == [req[r] EXCEPT !.pc = pc, !.outcome = outcome]
  <2>4. /\ outcome \in {"none", "ok", "unknown", "rejected", "failed"}
        /\ outcome = "ok" => reply = "task"
    BY DEF Reading
  <2>5. req' = [req EXCEPT ![r] = rec]
    BY <1>4, <2>3
  <2>6. pc \in {"mark", "wait", "project"} /\ (pc # "mark" => r \in made')
    BY <2>3, <2>4
  <2>7. Moved(rec, req[r], pc)
    BY <1>1, <2>1, <2>4, <2>6, MovesShaped
  <2>8. made \subseteq made' /\ made' \subseteq made \cup {r}
    BY <2>3
  <2> HIDE DEF rec, pc, outcome
  <2>9. QED
    BY <1>1, <1>4, <2>1, <2>2, <2>5, <2>6, <2>7, <2>8, InsideShaped
<1>9. CASE Wait(r)
  <2>1. PICK outcome \in {"ok", "failed"} :
           req' = [req EXCEPT ![r].pc = "project", ![r].outcome = outcome]
    BY <1>9 DEF Wait
  <2>2. req' = [req EXCEPT ![r] = [req[r] EXCEPT !.pc = "project", !.outcome = outcome]]
    BY <1>4, <2>1
  <2>3. "project" \in Inside \cap Started /\ r \in made
    BY <1>9 DEF Inside, Started, Wait, IInv, Learned
  <2>4. QED
    BY <1>1, <1>4, MovesShaped, <1>9, <2>2, <2>3, InsideShaped DEF Wait, provider
<1>10. CASE Mark(r)
  <2> DEFINE state == IF req[r].outcome = "unknown" THEN "submission_unknown" ELSE "rejected"
  <2>1. row' \in [Ids -> Row]
    <3>1. state \in States
      BY DEF States
    <3>2. row' = row \/ row' = [row EXCEPT ![Id(r)].state = state]
      BY <1>10 DEF Mark
    <3> HIDE DEF state
    <3>3. [row EXCEPT ![Id(r)].state = state] \in [Ids -> Row]
      BY <1>2, <3>1, RowsShaped
    <3>4. QED
      BY <1>4, <3>2, <3>3
  <2>2. QED
    BY <1>3, <1>5, <1>10, <2>1 DEF Mark
<1>11. CASE Project(r)
  <2>1. PICK public \in {"provider", "gateway"} :
          \/ /\ row' = [row EXCEPT ![Id(r)] = Projected(r)]
             /\ req' = [req EXCEPT ![r].pc = "alias", ![r].public = public]
             /\ UNCHANGED locks
          \/ /\ Unlock(r, [req[r] EXCEPT !.answer = "error"])
             /\ UNCHANGED row
    BY <1>11 DEF Project
  <2>2. CASE Unlock(r, [req[r] EXCEPT !.answer = "error"]) /\ UNCHANGED row
    BY <1>3, <1>4, <1>5, <1>11, <2>2 DEF Project
  <2>3. CASE /\ row' = [row EXCEPT ![Id(r)] = Projected(r)]
             /\ req' = [req EXCEPT ![r].pc = "alias", ![r].public = public]
             /\ UNCHANGED locks
    <3> DEFINE rec == [req[r] EXCEPT !.pc = "alias", !.public = public]
    <3>1. row' \in [Ids -> Row]
      BY <1>2, <2>3, RowsShaped
    <3>2. req' = [req EXCEPT ![r] = rec]
      BY <1>4, <2>3
    <3>3. "alias" \in Inside \cap Started /\ r \in made
      BY <1>11 DEF Inside, Started, Project, IInv, Learned
    <3>4. Moved(rec, req[r], "alias")
      BY <1>1, <3>3, MovesShaped
    <3> HIDE DEF rec
    <3>5. QED
      BY <1>1, <1>4, <1>11, <2>3, <3>1, <3>2, <3>3, <3>4, InsideShaped DEF Project, provider
  <2>4. QED
    BY <2>1, <2>2, <2>3
<1>12. CASE RecordAlias(r)
  <2>1. row' \in [Ids -> Row]
    <3>1. req[r].public \in {"none", "provider", "gateway"}
      BY <1>1 DEF Request
    <3>2. row' = row \/ row' = [row EXCEPT ![Id(r)].public = req[r].public]
      BY <1>12 DEF RecordAlias
    <3>3. [row EXCEPT ![Id(r)].public = req[r].public] \in [Ids -> Row]
      BY <1>2, <3>1, RowsShaped
    <3>4. QED
      BY <1>4, <3>2, <3>3
  <2>2. req' = [req EXCEPT ![r] = [req[r] EXCEPT !.pc = "media"]]
    BY <1>4, <1>12 DEF RecordAlias, GoTo
  <2>3. "media" \in Inside \cap Started /\ r \in made
    BY <1>12 DEF Inside, Started, RecordAlias, IInv, Learned
  <2>4. QED
    BY <1>1, <1>4, MovesShaped, <1>12, <2>1, <2>2, <2>3, InsideShaped DEF RecordAlias, provider
<1>13. CASE Respond(r)
  <2>1. PICK answer \in {"accepted", "error", "failed"} :
           Unlock(r, [req[r] EXCEPT !.answer = answer, !.task = r])
    BY <1>13 DEF Respond
  <2> DEFINE rec == [req[r] EXCEPT !.answer = answer, !.task = r]
  <2>2. rec \in Request
    BY <1>1, <1>3, FieldsShaped
  <2>3. rec.at = req[r].at /\ rec.body = req[r].body /\ rec.op = req[r].op
    BY <1>1 DEF Request
  <2>4. QED
    BY <1>1, <1>4, <1>13, <2>1, <2>2, <2>3, ReturnShaped DEF Respond, Inside
<1>14. QED
  BY <1>6, <1>7, <1>8, <1>9, <1>10, <1>11, <1>12, <1>13

LEMMA WorldShaped ==
    ASSUME SubmissionAssumption, IInv,
           \/ Rebind
           \/ \E p \in Processes : Crash(p)
           \/ \E r \in Requests, p \in Processes, route \in Routes, body \in Bodies :
                 Arrive(r, p, route, body)
    PROVE  Shape' /\ \A q \in Requests : Learned(q)'
<1>1. CASE Rebind
  <2>1. bound' \subseteq Operations /\ rebinds' \in 0 .. MaxRebinds
    BY <1>1 DEF Rebind, IInv, Shape, SubmissionAssumption
  <2>2. UNCHANGED <<row, locks, req, provider, crashes>>
    BY <1>1 DEF Rebind
  <2>3. QED
    BY <2>1, <2>2 DEF IInv, Shape, Learned, locks, provider
<1>2. ASSUME NEW p \in Processes, Crash(p)
      PROVE  Shape' /\ \A q \in Requests : Learned(q)'
  <2> DEFINE gone == {r \in Requests : req[r].at = p /\ req[r].pc \notin {"idle", "done"}}
  <2>1. /\ req' = [r \in Requests |-> IF r \in gone THEN Over(r, req[r]) ELSE req[r]]
        /\ UNCHANGED <<bound, row, sent, rebinds>>
    BY <1>2 DEF Crash
  <2>2. req' \in [Requests -> Request]
    BY <2>1, OverShaped DEF IInv, Shape
  <2>3. /\ holder' \in [Requests -> Requests \cup {None}]
        /\ refs' \in [Requests -> Int]
        /\ table' \in [Processes -> [Operations -> Requests \cup {None}]]
        /\ crashes' \in 0 .. MaxCrashes
    BY <1>2 DEF Crash, IInv, Shape, SubmissionAssumption
  <2>4. PICK late \in SUBSET {r \in gone : req[r].pc = "answer"} : made' = made \cup late
    BY <1>2 DEF Crash
  <2>5. late \subseteq sent
    BY DEF IInv, Learned
  <2>6. Shape'
    BY <2>1, <2>2, <2>3, <2>4, <2>5 DEF IInv, Shape
  <2>7. ASSUME NEW q \in Requests, q \notin gone
        PROVE  Learned(q)'
    BY <2>1, <2>4, <2>7 DEF IInv, Learned
  <2>8. ASSUME NEW q \in gone
        PROVE  Learned(q)'
    <3>1. req'[q] = Over(q, req[q]) /\ req[q] \in Request
      BY <2>1 DEF IInv, Shape
    <3>2. /\ req'[q].pc = "done" /\ req'[q].at = req[q].at /\ req'[q].body = req[q].body
          /\ req'[q].lock = None /\ (q \in sent => req'[q].op = req[q].op)
      BY <3>1 DEF Over, Request
    <3>3. req[q].pc # "idle" /\ sent' = sent
      BY <2>1
    <3>4. QED
      BY <3>2, <3>3 DEF IInv, Learned, Started, Inside
  <2>9. QED
    BY <2>6, <2>7, <2>8
<1>3. ASSUME NEW r \in Requests, NEW p \in Processes, NEW route \in Routes,
             NEW body \in Bodies, Arrive(r, p, route, body)
      PROVE  Shape' /\ \A q \in Requests : Learned(q)'
  <2> DEFINE late == \E q \in Alike(r, route, body) : req[q].answer = "accepted"
             rec == [Fresh EXCEPT !.pc = "first", !.at = p, !.route = route, !.body = body,
                                  !.late = late]
  <2>1. req' = [req EXCEPT ![r] = rec] /\ UNCHANGED <<bound, row, locks, provider, counts>>
    BY <1>3 DEF Arrive
  <2>2. late \in BOOLEAN /\ "first" \in PCs
    BY DEF PCs
  <2>3. Fresh \in Request
    BY DEF Fresh, Request, Answers
  <2> HIDE DEF late
  <2>4. rec \in Request
    BY <2>2, <2>3, FieldsShaped
  <2>5. /\ rec.pc = "first" /\ rec.at = p /\ rec.route = route /\ rec.body = body
        /\ rec.lock = Fresh.lock /\ rec.looked = Fresh.looked
    <3>1. \A a \in Request :
             LET b == [a EXCEPT !.pc = "first", !.at = p, !.route = route, !.body = body,
                                !.late = late]
             IN  /\ b.pc = "first" /\ b.at = p /\ b.route = route /\ b.body = body
                 /\ b.lock = a.lock /\ b.looked = a.looked
      BY DEF Request
    <3>2. QED
      BY <2>3, <3>1
  <2>6. req[r].pc = "idle"
    BY <1>3 DEF Arrive
  <2>7. Len(Lookups(route)) \in {1, 2}
    BY DEF Lookups
  <2>8. req'[r] = rec
    BY <2>1 DEF IInv, Shape
  <2>9. r \notin sent /\ sent' = sent /\ made' = made
    BY <2>1, <2>6 DEF provider, IInv, Learned, Started
  <2> HIDE DEF rec
  <2>10. Learned(r)'
    <3>1. Fresh.lock = None /\ Fresh.looked = 0
      BY DEF Fresh
    <3>2. 0 + 1 <= Len(Lookups(route))
      <4> DEFINE l == Len(Lookups(route))
      <4> HIDE DEF l
      <4>1. \A n \in {1, 2} : 0 + 1 <= n
        OBVIOUS
      <4>2. QED
        BY <2>7, <4>1 DEF l
    <3>3. QED
      BY <2>5, <2>8, <2>9, <3>1, <3>2 DEF Learned, Inside, Started
  <2>11. QED
    BY <2>1, <2>4, <2>9, <2>10, MoveShaped DEF IInv, Shape, locks, counts
<1>4. QED
  BY <1>1, <1>2, <1>3

LEMMA ShapeKept ==
    ASSUME SubmissionAssumption, IInv, [Next]_vars
    PROVE  Shape' /\ \A q \in Requests : Learned(q)'
<1>1. CASE Next
  BY <1>1, LookupsShaped, WaitersShaped, SubmittersShaped, WorldShaped DEF Next, RequestStep
<1>2. CASE UNCHANGED vars
  BY <1>2 DEF vars, locks, provider, counts, IInv, Shape, Learned
<1>3. QED
  BY <1>1, <1>2

-----------------------------------------------------------------------------
(* What the steps do to the requests, as far as the rest is about it.      *)

Others(r) == \A q \in Requests \ {r} : req'[q] = req[q]

\* A request moves, and keeps its name and its answer.
Goes(r, pc) ==
    /\ Others(r)
    /\ req'[r].pc = pc /\ req'[r].at = req[r].at /\ req'[r].body = req[r].body
    /\ req'[r].op = req[r].op /\ req'[r].lock = req[r].lock
    /\ req'[r].answer = req[r].answer /\ req'[r].task = req[r].task

\* A request ends; it is answered with the task of a row only for its own body.
Replays(r) == \E o \in Operations : /\ Reusable(<<o, req[r].body>>)
                                    /\ req'[r].task = row[<<o, req[r].body>>].task
Ended(r) ==
    /\ Others(r)
    /\ req'[r].pc = "done" /\ req'[r].at = req[r].at /\ req'[r].body = req[r].body
    /\ req'[r].lock = None /\ (r \in sent => req'[r].op = req[r].op)
    /\ req'[r].answer = "replayed" =>
          Replays(r) \/ (req'[r].answer = req[r].answer /\ req'[r].task = req[r].task)

\* Where a record comes from that Ends is given.
Answered(rec, r) ==
    \/ \E answer \in Answers \ {"replayed"} : rec = [req[r] EXCEPT !.answer = answer]
    \/ \E answer \in Answers \ {"replayed"} : rec = [req[r] EXCEPT !.answer = answer, !.task = r]
    \/ \E o \in Operations : rec = Found(r, o)

LEMMA EndsEnded ==
    ASSUME IInv, NEW r \in Requests, NEW rec, Answered(rec, r), Ends(r, rec),
           req[r].body \in Bodies
    PROVE  Ended(r)
<1>1. req[r] \in Request /\ req \in [Requests -> Request]
  BY DEF IInv, Shape
<1>2. rec \in Request /\ rec.at = req[r].at /\ rec.body = req[r].body /\ rec.op = req[r].op
  <2>1. CASE \E answer \in Answers : rec = [req[r] EXCEPT !.answer = answer]
    BY <2>1, AnswerShaped
  <2>2. CASE \E answer \in Answers : rec = [req[r] EXCEPT !.answer = answer, !.task = r]
    <3>1. PICK answer \in Answers : rec = [req[r] EXCEPT !.answer = answer, !.task = r]
      BY <2>2
    <3>2. rec \in Request
      BY <1>1, <3>1, FieldsShaped
    <3>3. rec.at = req[r].at /\ rec.body = req[r].body /\ rec.op = req[r].op
      BY <1>1, <3>1 DEF Request
    <3>4. QED
      BY <3>2, <3>3
  <2>3. CASE \E o \in Operations : rec = Found(r, o)
    BY <2>3, FoundShaped
  <2>4. QED
    BY <2>1, <2>2, <2>3 DEF Answered
<1>3. \A a \in Request :
         LET b == Over(r, a)
         IN  /\ b.pc = "done" /\ b.at = a.at /\ b.body = a.body /\ b.lock = None
             /\ (r \in sent => b.op = a.op) /\ b.answer = a.answer /\ b.task = a.task
  BY DEF Over, Request
<1>4. req'[r] = Over(r, rec) /\ Others(r)
  BY <1>1 DEF Ends, Others
<1>5. rec.answer = "replayed" =>
         \E o \in Operations : /\ Reusable(<<o, req[r].body>>)
                               /\ rec.task = row[<<o, req[r].body>>].task
  <2>1. CASE \E answer \in Answers \ {"replayed"} : rec = [req[r] EXCEPT !.answer = answer]
    BY <1>1, <2>1 DEF Request
  <2>2. CASE \E answer \in Answers \ {"replayed"} :
                rec = [req[r] EXCEPT !.answer = answer, !.task = r]
    BY <1>1, <2>2 DEF Request
  <2>3. ASSUME NEW o \in Operations, rec = Found(r, o), rec.answer = "replayed"
        PROVE  /\ Reusable(<<o, req[r].body>>)
               /\ rec.task = row[<<o, req[r].body>>].task
    <3>1. \A a \in Request : \A answer : [a EXCEPT !.answer = answer].answer = answer
      BY DEF Request
    <3>2. Rows(o) = {req[r].body} /\ Reusable(<<o, req[r].body>>)
      BY <1>1, <2>3, <3>1 DEF Found
    <3>3. rec = [req[r] EXCEPT !.answer = "replayed", !.task = row[<<o, req[r].body>>].task,
                               !.public = ReplayID(<<o, req[r].body>>)]
      BY <2>3, <3>2 DEF Found
    <3>4. \A a \in Request : \A t, p :
             [a EXCEPT !.answer = "replayed", !.task = t, !.public = p].task = t
      BY DEF Request
    <3>5. QED
      BY <1>1, <3>2, <3>3, <3>4
  <2>4. QED
    BY <2>1, <2>2, <2>3 DEF Answered
<1>6. QED
  BY <1>2, <1>3, <1>4, <1>5 DEF Ended, Replays

LEMMA MovesGo ==
    ASSUME IInv, NEW r \in Requests, NEW pc, NEW v, NEW rec,
           req' = [req EXCEPT ![r] = rec],
           \/ rec = [req[r] EXCEPT !.pc = pc]
           \/ rec = [req[r] EXCEPT !.pc = pc, !.outcome = v]
           \/ rec = [req[r] EXCEPT !.pc = pc, !.public = v]
           \/ rec = [req[r] EXCEPT !.looked = v, !.pc = pc]
    PROVE  Goes(r, pc)
<1>1. req[r] \in Request /\ req'[r] = rec /\ Others(r)
  BY DEF IInv, Shape, Others
<1>2. \A a \in Request :
         LET b == [a EXCEPT !.pc = pc]
         IN  /\ b.pc = pc /\ b.at = a.at /\ b.body = a.body /\ b.op = a.op
             /\ b.lock = a.lock /\ b.answer = a.answer /\ b.task = a.task
  BY DEF Request
<1>3. \A a \in Request :
         LET b == [a EXCEPT !.pc = pc, !.outcome = v]
         IN  /\ b.pc = pc /\ b.at = a.at /\ b.body = a.body /\ b.op = a.op
             /\ b.lock = a.lock /\ b.answer = a.answer /\ b.task = a.task
  BY DEF Request
<1>4. \A a \in Request :
         LET b == [a EXCEPT !.pc = pc, !.public = v]
         IN  /\ b.pc = pc /\ b.at = a.at /\ b.body = a.body /\ b.op = a.op
             /\ b.lock = a.lock /\ b.answer = a.answer /\ b.task = a.task
  BY DEF Request
<1>5. \A a \in Request :
         LET b == [a EXCEPT !.looked = v, !.pc = pc]
         IN  /\ b.pc = pc /\ b.at = a.at /\ b.body = a.body /\ b.op = a.op
             /\ b.lock = a.lock /\ b.answer = a.answer /\ b.task = a.task
  BY DEF Request
<1>6. CASE rec = [req[r] EXCEPT !.pc = pc]
  BY <1>1, <1>2, <1>6 DEF Goes
<1>7. CASE rec = [req[r] EXCEPT !.pc = pc, !.outcome = v]
  BY <1>1, <1>3, <1>7 DEF Goes
<1>8. CASE rec = [req[r] EXCEPT !.pc = pc, !.public = v]
  BY <1>1, <1>4, <1>8 DEF Goes
<1>9. CASE rec = [req[r] EXCEPT !.looked = v, !.pc = pc]
  BY <1>1, <1>5, <1>9 DEF Goes
<1>10. QED
  BY <1>6, <1>7, <1>8, <1>9

\* A request joins with the operation it has chosen, or waits for its lock.
Chooses(r) ==
    /\ Others(r)
    /\ req'[r].pc = "join" /\ req'[r].at = req[r].at /\ req'[r].body = req[r].body
    /\ req'[r].lock = req[r].lock
    /\ req'[r].answer = req[r].answer /\ req'[r].task = req[r].task
Joins(r, item) ==
    /\ Others(r)
    /\ req'[r].pc = "waiting" /\ req'[r].at = req[r].at /\ req'[r].body = req[r].body
    /\ req'[r].op = req[r].op /\ req'[r].lock = item
    /\ req'[r].answer = req[r].answer /\ req'[r].task = req[r].task

LEMMA LookupEffects ==
    ASSUME IInv, NEW r \in Requests
    PROVE  /\ FirstLook(r) => Ended(r) \/ Goes(r, "first") \/ Goes(r, "resolve")
           /\ SecondLook(r) => Ended(r) \/ Goes(r, "reserve")
           /\ GiveUp(r) => Ended(r)
           /\ Enter(r) => Goes(r, "second")
<1>1. "error" \in Answers \ {"replayed"}
  BY DEF Answers
<1>2. req \in [Requests -> Request]
  BY DEF IInv, Shape
<1>3. ASSUME FirstLook(r) PROVE Ended(r) \/ Goes(r, "first") \/ Goes(r, "resolve")
  <2> DEFINE o == Lookups(req[r].route)[req[r].looked + 1]
             last == req[r].looked + 1 = Len(Lookups(req[r].route))
             pc == IF last THEN "resolve" ELSE "first"
             n == req[r].looked + 1
  <2>1. req[r].body \in Bodies
    BY <1>3 DEF FirstLook, IInv, Learned
  <2>2. CASE o \in Operations /\ Ends(r, Found(r, o))
    BY <2>1, <2>2, EndsEnded DEF Answered
  <2>3. CASE req' = [req EXCEPT ![r].looked = @ + 1, ![r].pc = pc]
    <3>1. req' = [req EXCEPT ![r] = [req[r] EXCEPT !.looked = n, !.pc = pc]]
      BY <1>2, <2>3
    <3>2. pc \in {"first", "resolve"}
      OBVIOUS
    <3> HIDE DEF pc, n
    <3>3. Goes(r, pc)
      BY <3>1, MovesGo
    <3>4. QED
      BY <3>2, <3>3
  <2>4. CASE Fails(r)
    BY <1>1, <2>1, <2>4, EndsEnded DEF Answered, Fails
  <2>5. QED
    BY <1>3, <2>2, <2>3, <2>4 DEF FirstLook
<1>4. ASSUME SecondLook(r) PROVE Ended(r) \/ Goes(r, "reserve")
  <2>1. req[r].body \in Bodies /\ req[r].op \in Operations
    BY <1>4 DEF SecondLook, IInv, Learned, Inside
  <2>2. CASE Unlock(r, Found(r, req[r].op))
    BY <2>1, <2>2, EndsEnded DEF Answered, Unlock, DropReference
  <2>3. CASE Unlock(r, [req[r] EXCEPT !.answer = "error"])
    BY <1>1, <2>1, <2>3, EndsEnded DEF Answered, Unlock, DropReference
  <2>4. CASE GoTo(r, "reserve")
    <3>1. req' = [req EXCEPT ![r] = [req[r] EXCEPT !.pc = "reserve"]]
      BY <1>2, <2>4 DEF GoTo
    <3>2. QED
      BY <3>1, MovesGo
  <2>5. QED
    BY <1>4, <2>2, <2>3, <2>4 DEF SecondLook
<1>5. ASSUME GiveUp(r) PROVE Ended(r)
  <2>1. req[r].body \in Bodies
    BY <1>5 DEF GiveUp, IInv, Learned
  <2>2. QED
    BY <1>1, <1>5, <2>1, EndsEnded DEF GiveUp, DropReference, Answered
<1>6. ASSUME Enter(r) PROVE Goes(r, "second")
  <2>1. req' = [req EXCEPT ![r] = [req[r] EXCEPT !.pc = "second"]]
    BY <1>2, <1>6 DEF Enter, GoTo
  <2>2. QED
    BY <2>1, MovesGo
<1>7. QED
  BY <1>3, <1>4, <1>5, <1>6

LEMMA JoinEffects ==
    ASSUME IInv, NEW r \in Requests
    PROVE  /\ Resolve(r) => Ended(r) \/ Chooses(r)
           /\ Join(r) => LET listed == table[req[r].at][req[r].op]
                         IN  Joins(r, IF listed = None THEN r ELSE listed)
<1>1. {"error", "legacy"} \subseteq Answers \ {"replayed"}
  BY DEF Answers
<1>2. req \in [Requests -> Request]
  BY DEF IInv, Shape
<1>3. ASSUME Resolve(r) PROVE Ended(r) \/ Chooses(r)
  <2>1. req[r].body \in Bodies
    BY <1>3 DEF Resolve, IInv, Learned
  <2>2. CASE Ends(r, [req[r] EXCEPT !.answer = "legacy"]) \/ Fails(r)
    BY <1>1, <2>1, <2>2, EndsEnded DEF Answered, Fails
  <2>3. CASE \E o, waits : req' = [req EXCEPT ![r].pc = "join", ![r].op = o, ![r].waits = waits]
    <3>1. PICK o, waits : req' = [req EXCEPT ![r].pc = "join", ![r].op = o, ![r].waits = waits]
      BY <2>3
    <3>2. \A a \in Request :
             LET b == [a EXCEPT !.pc = "join", !.op = o, !.waits = waits]
             IN  /\ b.pc = "join" /\ b.at = a.at /\ b.body = a.body
                 /\ b.lock = a.lock /\ b.answer = a.answer /\ b.task = a.task
      BY DEF Request
    <3>3. req'[r] = [req[r] EXCEPT !.pc = "join", !.op = o, !.waits = waits] /\ Others(r)
      BY <1>2, <3>1 DEF Others
    <3>4. QED
      BY <1>2, <3>2, <3>3 DEF Chooses
  <2>4. QED
    BY <1>3, <2>2, <2>3 DEF Resolve
<1>4. ASSUME Join(r), NEW item,
             item = IF table[req[r].at][req[r].op] = None THEN r ELSE table[req[r].at][req[r].op]
      PROVE  Joins(r, item)
  <2>1. req'[r] = [req[r] EXCEPT !.pc = "waiting", !.lock = item] /\ Others(r)
    BY <1>2, <1>4 DEF Join, Others
  <2>2. \A a \in Request :
           LET b == [a EXCEPT !.pc = "waiting", !.lock = item]
           IN  /\ b.pc = "waiting" /\ b.at = a.at /\ b.body = a.body /\ b.op = a.op
               /\ b.lock = item /\ b.answer = a.answer /\ b.task = a.task
    BY DEF Request
  <2>3. QED
    BY <1>2, <2>1, <2>2 DEF Joins
<1>5. QED
  BY <1>3, <1>4

LEMMA SubmitEffects ==
    ASSUME IInv, NEW r \in Requests
    PROVE  /\ Reserve(r) => Ended(r) \/ Goes(r, "send")
           /\ Send(r) => Goes(r, "answer") \/ Goes(r, "mark")
           /\ Answer(r) => Goes(r, "mark") \/ ((Goes(r, "wait") \/ Goes(r, "project")) /\ r \in made')
           /\ Wait(r) => Goes(r, "project")
           /\ Mark(r) => Ended(r)
           /\ Project(r) => Ended(r) \/ Goes(r, "alias")
           /\ RecordAlias(r) => Goes(r, "media")
           /\ Respond(r) => Ended(r)
<1>1. {"error", "refused", "accepted", "failed"} \subseteq Answers \ {"replayed"}
  BY DEF Answers
<1>2. req \in [Requests -> Request]
  BY DEF IInv, Shape
<1>3. \A rec : Answered(rec, r) /\ Unlock(r, rec) /\ req[r].pc \in Inside => Ended(r)
  <2>1. req[r].pc \in Inside => req[r].body \in Bodies
    BY DEF IInv, Learned, Inside
  <2>2. QED
    BY <2>1, EndsEnded DEF Unlock, DropReference
<1>4. \A pc : GoTo(r, pc) => Goes(r, pc)
  <2> SUFFICES ASSUME NEW pc, GoTo(r, pc) PROVE Goes(r, pc)
    OBVIOUS
  <2>1. req' = [req EXCEPT ![r] = [req[r] EXCEPT !.pc = pc]]
    BY <1>2 DEF GoTo
  <2>2. QED
    BY <2>1, MovesGo
<1>5. ASSUME Reserve(r) PROVE Ended(r) \/ Goes(r, "send")
  BY <1>1, <1>3, <1>4, <1>5 DEF Reserve, Answered, Inside
<1>6. ASSUME Send(r) PROVE Goes(r, "answer") \/ Goes(r, "mark")
  <2>1. CASE GoTo(r, "answer")
    BY <1>4, <2>1
  <2>2. CASE req' = [req EXCEPT ![r].pc = "mark", ![r].outcome = "rejected"]
    <3>1. req' = [req EXCEPT ![r] = [req[r] EXCEPT !.pc = "mark", !.outcome = "rejected"]]
      BY <1>2, <2>2
    <3>2. QED
      BY <3>1, MovesGo
  <2>3. QED
    BY <1>6, <2>1, <2>2 DEF Send
<1>7. ASSUME Answer(r)
      PROVE  Goes(r, "mark") \/ ((Goes(r, "wait") \/ Goes(r, "project")) /\ r \in made')
  <2>1. PICK reply \in {"task", "refusal", "lost", "unreadable", "no task"}, taken \in BOOLEAN :
           /\ reply = "task" => taken
           /\ made' = IF taken THEN made \cup {r} ELSE made
           /\ LET outcome == Reading(r, reply)
              IN req' = [req EXCEPT ![r].outcome = outcome,
                           ![r].pc = IF outcome # "ok" THEN "mark"
                                     ELSE IF req[r].waits THEN "wait" ELSE "project"]
    BY <1>7 DEF Answer
  <2> DEFINE outcome == Reading(r, reply)
             pc == IF outcome # "ok" THEN "mark" ELSE IF req[r].waits THEN "wait" ELSE "project"
  <2>2. outcome = "ok" => reply = "task"
    BY DEF Reading
  <2>3. req' = [req EXCEPT ![r] = [req[r] EXCEPT !.pc = pc, !.outcome = outcome]]
    BY <1>2, <2>1
  <2>4. pc = "mark" \/ (pc \in {"wait", "project"} /\ r \in made')
    BY <2>1, <2>2
  <2> HIDE DEF pc, outcome
  <2>5. Goes(r, pc)
    BY <2>3, MovesGo
  <2>6. QED
    BY <2>4, <2>5
<1>8. ASSUME Wait(r) PROVE Goes(r, "project")
  <2>1. PICK outcome : req' = [req EXCEPT ![r].pc = "project", ![r].outcome = outcome]
    BY <1>8 DEF Wait
  <2>2. req' = [req EXCEPT ![r] = [req[r] EXCEPT !.pc = "project", !.outcome = outcome]]
    BY <1>2, <2>1
  <2>3. QED
    BY <2>2, MovesGo
<1>9. ASSUME Mark(r) PROVE Ended(r)
  BY <1>1, <1>3, <1>9 DEF Mark, Answered, Inside
<1>10. ASSUME Project(r) PROVE Ended(r) \/ Goes(r, "alias")
  <2>1. CASE Unlock(r, [req[r] EXCEPT !.answer = "error"])
    BY <1>1, <1>3, <1>10, <2>1 DEF Project, Answered, Inside
  <2>2. CASE \E public : req' = [req EXCEPT ![r].pc = "alias", ![r].public = public]
    <3>1. PICK public : req' = [req EXCEPT ![r].pc = "alias", ![r].public = public]
      BY <2>2
    <3>2. req' = [req EXCEPT ![r] = [req[r] EXCEPT !.pc = "alias", !.public = public]]
      BY <1>2, <3>1
    <3>3. QED
      BY <3>2, MovesGo
  <2>3. QED
    BY <1>10, <2>1, <2>2 DEF Project
<1>11. ASSUME RecordAlias(r) PROVE Goes(r, "media")
  BY <1>4, <1>11 DEF RecordAlias
<1>12. ASSUME Respond(r) PROVE Ended(r)
  <2>1. PICK answer \in {"accepted", "error", "failed"} :
           Unlock(r, [req[r] EXCEPT !.answer = answer, !.task = r])
    BY <1>12 DEF Respond
  <2>2. Answered([req[r] EXCEPT !.answer = answer, !.task = r], r)
    BY <1>1 DEF Answered
  <2>3. QED
    BY <1>3, <1>12, <2>1, <2>2 DEF Respond, Inside
<1>13. QED
  BY <1>5, <1>6, <1>7, <1>8, <1>9, <1>10, <1>11, <1>12

LEMMA ArriveEffects ==
    ASSUME IInv, NEW r \in Requests, NEW p, NEW route, NEW body, Arrive(r, p, route, body)
    PROVE  /\ Others(r) /\ req[r].pc = "idle" /\ req'[r].pc = "first"
           /\ req'[r].at = p /\ req'[r].lock = None /\ req'[r].answer = "none"
<1> DEFINE late == \E q \in Alike(r, route, body) : req[q].answer = "accepted"
<1>1. req' = [req EXCEPT ![r] = [Fresh EXCEPT !.pc = "first", !.at = p, !.route = route,
                                              !.body = body, !.late = late]]
  BY DEF Arrive
<1>2. Fresh \in Request /\ Fresh.lock = None /\ Fresh.answer = "none"
  BY DEF Fresh, Request, Answers
<1> HIDE DEF late
<1>3. \A a \in Request :
         LET b == [a EXCEPT !.pc = "first", !.at = p, !.route = route, !.body = body, !.late = late]
         IN  b.pc = "first" /\ b.at = p /\ b.lock = a.lock /\ b.answer = a.answer
  BY DEF Request
<1>4. Others(r) /\ req'[r] = [Fresh EXCEPT !.pc = "first", !.at = p, !.route = route,
                                           !.body = body, !.late = late]
  BY <1>1 DEF Others, IInv, Shape
<1>5. QED
  BY <1>2, <1>3, <1>4 DEF Arrive

LEMMA CrashEffects ==
    ASSUME IInv, NEW p \in Processes, Crash(p), NEW q \in Requests
    PROVE  \/ req'[q] = req[q] /\ (req[q].at # p \/ req[q].pc \in {"idle", "done"})
           \/ /\ req[q].at = p /\ req[q].pc \notin {"idle", "done"}
              /\ req'[q].pc = "done" /\ req'[q].at = p /\ req'[q].body = req[q].body
              /\ req'[q].lock = None /\ (q \in sent => req'[q].op = req[q].op)
              /\ req'[q].answer = req[q].answer /\ req'[q].task = req[q].task
<1> DEFINE gone == {r \in Requests : req[r].at = p /\ req[r].pc \notin {"idle", "done"}}
<1>1. req' = [r \in Requests |-> IF r \in gone THEN Over(r, req[r]) ELSE req[r]]
  BY DEF Crash
<1>2. \A a \in Request :
         LET b == Over(q, a)
         IN  /\ b.pc = "done" /\ b.at = a.at /\ b.body = a.body /\ b.lock = None
             /\ (q \in sent => b.op = a.op) /\ b.answer = a.answer /\ b.task = a.task
  BY DEF Over, Request
<1>3. req[q] \in Request
  BY DEF IInv, Shape
<1>4. CASE q \in gone
  BY <1>1, <1>2, <1>3, <1>4
<1>5. CASE q \notin gone
  BY <1>1, <1>5
<1>6. QED
  BY <1>4, <1>5

-----------------------------------------------------------------------------
(* One submission of an operation and body.                                *)

\* A step after which nobody claims anything new, and no row is forgotten.
NothingClaimed == \A q \in Requests : Claimed(q)' => Claimed(q) /\ Id(q)' = Id(q)
RowsRemembered == \A i \in Ids : row[i].state # "none" => row'[i].state # "none"

LEMMA NothingNew ==
    ASSUME IInv, NothingClaimed, RowsRemembered
    PROVE  Claims'
<1>1. \A q \in Requests : Claimed(q) => Id(q) \in Ids
  BY KindsOfOperations DEF IInv, Shape, Learned, Claimed, Inside, Started
<1>2. QED
  BY <1>1 DEF IInv, Claims, NothingClaimed, RowsRemembered

LEMMA EndedClaims ==
    ASSUME IInv, NEW r \in Requests, Ended(r), sent' = sent
    PROVE  NothingClaimed
BY DEF Ended, Others, NothingClaimed, Claimed, Id

LEMMA GoesClaims ==
    ASSUME IInv, NEW r \in Requests, NEW pc, Goes(r, pc), sent' \subseteq sent \cup {r},
           pc \in {"send", "mark"} \/ r \in sent' => Claimed(r)
    PROVE  NothingClaimed
BY DEF Goes, Others, NothingClaimed, Claimed, Id

LEMMA RowsStay ==
    ASSUME IInv, NEW r \in Requests, Id(r) \in Ids,
           \/ UNCHANGED row
           \/ \E state \in States \ {"none"} : row' = [row EXCEPT ![Id(r)].state = state]
           \/ \E public : row' = [row EXCEPT ![Id(r)].public = public]
           \/ row' = [row EXCEPT ![Id(r)] = Projected(r)]
    PROVE  RowsRemembered
<1>1. row \in [Ids -> Row]
  BY DEF IInv, Shape
<1>2. Projected(r).state = "accepted"
  BY DEF Projected, NoRow
<1>3. \A a \in Row : \A v : /\ [a EXCEPT !.state = v].state = v
                            /\ [a EXCEPT !.public = v].state = a.state
  BY DEF Row
<1>4. CASE UNCHANGED row
  BY <1>4 DEF RowsRemembered
<1>5. CASE \E state \in States \ {"none"} : row' = [row EXCEPT ![Id(r)].state = state]
  <2>1. PICK state \in States \ {"none"} :
           row' = [row EXCEPT ![Id(r)] = [row[Id(r)] EXCEPT !.state = state]]
    BY <1>1, <1>5
  <2>2. row'[Id(r)].state = state /\ \A i \in Ids \ {Id(r)} : row'[i] = row[i]
    BY <1>1, <1>3, <2>1
  <2>3. QED
    BY <2>2 DEF RowsRemembered
<1>6. CASE \E public : row' = [row EXCEPT ![Id(r)].public = public]
  <2>1. PICK public : row' = [row EXCEPT ![Id(r)] = [row[Id(r)] EXCEPT !.public = public]]
    BY <1>1, <1>6
  <2>2. row'[Id(r)].state = row[Id(r)].state /\ \A i \in Ids \ {Id(r)} : row'[i] = row[i]
    BY <1>1, <1>3, <2>1
  <2>3. QED
    BY <2>2 DEF RowsRemembered
<1>7. CASE row' = [row EXCEPT ![Id(r)] = Projected(r)]
  BY <1>1, <1>2, <1>7 DEF RowsRemembered
<1>8. QED
  BY <1>4, <1>5, <1>6, <1>7

LEMMA ClaimsKept ==
    ASSUME SubmissionAssumption, IInv, [Next]_vars
    PROVE  Claims'
<1>1. row \in [Ids -> Row] /\ req \in [Requests -> Request]
  BY DEF IInv, Shape
<1>2. ASSUME NEW r \in Requests,
             FirstLook(r) \/ SecondLook(r) \/ GiveUp(r) \/ Enter(r) \/ Resolve(r) \/ Join(r)
      PROVE  Claims'
  <2>1. sent' = sent /\ row' = row
    BY <1>2 DEF FirstLook, SecondLook, GiveUp, Enter, Resolve, Join, provider
  <2>2. RowsRemembered
    BY <2>1 DEF RowsRemembered
  <2>3. ~Claimed(r)
    BY <1>2 DEF Claimed, FirstLook, SecondLook, GiveUp, Enter, Resolve, Join, IInv, Learned, Started
  <2>4. CASE Ended(r)
    BY <2>1, <2>2, <2>4, EndedClaims, NothingNew
  <2>5. CASE \E pc \in {"first", "resolve", "reserve", "second"} : Goes(r, pc)
    BY <2>1, <2>2, <2>3, <2>5, GoesClaims, NothingNew DEF Claimed
  <2>6. CASE Chooses(r) \/ \E item : Joins(r, item)
    <3>1. NothingClaimed
      BY <2>1, <2>3, <2>6 DEF Chooses, Joins, Others, NothingClaimed, Claimed, Id
    <3>2. QED
      BY <2>2, <3>1, NothingNew
  <2>7. QED
    BY <1>2, <2>4, <2>5, <2>6, LookupEffects, JoinEffects
<1>3. ASSUME NEW r \in Requests,
             Send(r) \/ Answer(r) \/ Wait(r) \/ Mark(r) \/ Project(r) \/ RecordAlias(r) \/ Respond(r)
      PROVE  Claims'
  <2>1. Claimed(r)
    BY <1>3 DEF Claimed, Send, Answer, Wait, Mark, Project, RecordAlias, Respond, IInv, Learned
  <2>2. Id(r) \in Ids
    BY <1>1, <2>1, KindsOfOperations DEF Claimed, IInv, Learned, Inside, Started
  <2>3. \/ UNCHANGED row
        \/ \E state \in States \ {"none"} : row' = [row EXCEPT ![Id(r)].state = state]
        \/ \E public : row' = [row EXCEPT ![Id(r)].public = public]
        \/ row' = [row EXCEPT ![Id(r)] = Projected(r)]
    BY <1>3 DEF Send, Answer, Wait, Mark, Project, RecordAlias, Respond, States
  <2>4. RowsRemembered
    BY <2>2, <2>3, RowsStay
  <2>5. sent' \subseteq sent \cup {r}
    BY <1>3 DEF Send, Answer, Wait, Mark, Project, RecordAlias, Respond, provider
  <2>6. CASE \E pc : Goes(r, pc)
    BY <2>1, <2>4, <2>5, <2>6, GoesClaims, NothingNew
  <2>7. CASE Ended(r) /\ ~Send(r)
    <3>1. sent' = sent
      BY <1>3, <2>7 DEF Answer, Wait, Mark, Project, RecordAlias, Respond, provider
    <3>2. QED
      BY <2>4, <2>7, <3>1, EndedClaims, NothingNew
  <2>8. QED
    BY <1>3, <2>6, <2>7, SubmitEffects
<1>4. ASSUME NEW r \in Requests, Reserve(r)
      PROVE  Claims'
  <2>1. sent' = sent /\ r \notin sent
    BY <1>4 DEF Reserve, provider, IInv, Learned, Started
  <2>2. CASE Ended(r) /\ row' = row
    BY <2>1, <2>2, EndedClaims, NothingNew DEF RowsRemembered
  <2>3. CASE Goes(r, "send") /\ row[Id(r)].state = "none"
             /\ row' = [row EXCEPT ![Id(r)].state = "submitting"]
    <3>1. Id(r) \in Ids
      BY <1>1, <1>4, KindsOfOperations DEF Reserve, IInv, Learned, Inside
    <3>2. row' = [row EXCEPT ![Id(r)] = [row[Id(r)] EXCEPT !.state = "submitting"]]
      BY <1>1, <2>3
    <3>3. row'[Id(r)].state = "submitting" /\ \A i \in Ids \ {Id(r)} : row'[i] = row[i]
      BY <1>1, <3>1, <3>2 DEF Row
    <3>4. /\ Id(r)' = Id(r)
          /\ \A q \in Requests \ {r} : Id(q)' = Id(q) /\ (Claimed(q)' <=> Claimed(q))
      BY <2>1, <2>3 DEF Goes, Others, Claimed, Id
    <3>5. \A q \in Requests : Claimed(q) => Id(q) \in Ids /\ Id(q) # Id(r) /\ row[Id(q)].state # "none"
      BY <1>1, <2>3, KindsOfOperations DEF IInv, Claims, Learned, Claimed, Inside, Started
    <3>6. \A q \in Requests : Claimed(q)' => row'[Id(q)'].state # "none"
      BY <3>3, <3>4, <3>5
    <3>7. \A q, s \in Requests : Claimed(q)' /\ Claimed(s)' /\ Id(q)' = Id(s)' => q = s
      BY <3>4, <3>5 DEF IInv, Claims
    <3>8. QED
      BY <3>6, <3>7 DEF Claims
  <2>4. QED
    <3>1. CASE row[Id(r)].state = "none" /\ row' = [row EXCEPT ![Id(r)].state = "submitting"]
               /\ GoTo(r, "send")
      <4>1. Goes(r, "send")
        <5>1. req' = [req EXCEPT ![r] = [req[r] EXCEPT !.pc = "send"]]
          BY <1>1, <3>1 DEF GoTo
        <5>2. QED
          BY <5>1, MovesGo
      <4>2. QED
        BY <2>3, <3>1, <4>1
    <3>2. CASE row' = row /\ \E answer \in {"refused", "error"} :
                  Unlock(r, [req[r] EXCEPT !.answer = answer])
      <4>1. PICK answer \in {"refused", "error"} : Unlock(r, [req[r] EXCEPT !.answer = answer])
        BY <3>2
      <4>2. answer \in Answers \ {"replayed"}
        BY DEF Answers
      <4>3. Answered([req[r] EXCEPT !.answer = answer], r)
        BY <4>2 DEF Answered
      <4>4. req[r].body \in Bodies
        BY <1>4 DEF Reserve, IInv, Learned
      <4>5. Ended(r)
        BY <4>1, <4>3, <4>4, EndsEnded DEF Unlock, DropReference
      <4>6. QED
        BY <2>2, <3>2, <4>5
    <3>3. QED
      BY <1>4, <3>1, <3>2 DEF Reserve
<1>5. ASSUME NEW r \in Requests, NEW p \in Processes, NEW route \in Routes, NEW body \in Bodies,
             Arrive(r, p, route, body)
      PROVE  Claims'
  <2>1. sent' = sent /\ row' = row
    BY <1>5 DEF Arrive, provider
  <2>2. /\ Others(r) /\ req[r].pc = "idle" /\ req'[r].pc = "first"
    BY <1>5, ArriveEffects
  <2>3. r \notin sent
    BY <2>2 DEF IInv, Learned, Started
  <2>4. NothingClaimed
    BY <2>1, <2>2, <2>3 DEF NothingClaimed, Claimed, Others, Id
  <2>5. QED
    BY <2>1, <2>4, NothingNew DEF RowsRemembered
<1>6. ASSUME NEW p \in Processes, Crash(p)
      PROVE  Claims'
  <2>1. sent' = sent /\ row' = row
    BY <1>6 DEF Crash
  <2>2. NothingClaimed
    BY <1>6, <2>1, CrashEffects DEF NothingClaimed, Claimed, Id
  <2>3. QED
    BY <2>1, <2>2, NothingNew DEF RowsRemembered
<1>7. CASE Rebind \/ UNCHANGED vars
  <2>1. UNCHANGED <<row, req, sent>>
    BY <1>7 DEF Rebind, vars, provider
  <2>2. QED
    BY <2>1, NothingNew DEF NothingClaimed, RowsRemembered, Claimed, Id
<1>8. QED
  BY <1>2, <1>3, <1>4, <1>5, <1>6, <1>7 DEF Next, RequestStep

-----------------------------------------------------------------------------
(* Rows and replays name tasks of their own body.                          *)

\* What a step must not disturb, and what it may write.
TasksStand ==
    /\ \A t \in made : req'[t].body = req[t].body
    /\ \A i \in Ids : \/ row'[i].task = row[i].task
                      \/ row'[i].task \in made' /\ req'[row'[i].task].body = i[2]
AnswersStand ==
    \A q \in Requests : req'[q].answer = "replayed" =>
        /\ req'[q].body = req[q].body
        /\ \/ Replays(q) /\ req[q].body \in Bodies
           \/ req'[q].answer = req[q].answer /\ req'[q].task = req[q].task

LEMMA NothingMixed ==
    ASSUME SubmissionAssumption, IInv, made \subseteq made', TasksStand, AnswersStand
    PROVE  Tasks'
<1>1. \A i \in Ids : row'[i].task # None =>
         row'[i].task \in made' /\ req'[row'[i].task].body = i[2]
  BY DEF IInv, Tasks, TasksStand
<1>2. ASSUME NEW q \in Requests, req'[q].answer = "replayed"
      PROVE  req'[q].task \in made' /\ req'[req'[q].task].body = req'[q].body
  <2>1. CASE Replays(q) /\ req[q].body \in Bodies
    <3>1. PICK o \in Operations : /\ Reusable(<<o, req[q].body>>)
                                  /\ req'[q].task = row[<<o, req[q].body>>].task
      BY <2>1 DEF Replays
    <3>2. <<o, req[q].body>> \in Ids /\ <<o, req[q].body>>[2] = req[q].body
      BY <2>1 DEF Ids
    <3>3. row[<<o, req[q].body>>].task # None
      BY <3>1 DEF Reusable
    <3>4. /\ req'[q].task \in made
          /\ req[req'[q].task].body = req[q].body
      BY <3>1, <3>2, <3>3 DEF IInv, Tasks
    <3>5. QED
      BY <1>2, <3>4 DEF TasksStand, AnswersStand
  <2>2. CASE req'[q].answer = req[q].answer /\ req'[q].task = req[q].task
    BY <1>2, <2>2 DEF IInv, Tasks, ReplayIsTheTask, TasksStand, AnswersStand
  <2>3. QED
    BY <1>2, <2>1, <2>2 DEF AnswersStand
<1>3. QED
  BY <1>1, <1>2 DEF Tasks, ReplayIsTheTask

LEMMA TasksKept ==
    ASSUME SubmissionAssumption, IInv, [Next]_vars
    PROVE  Tasks'
<1>1. /\ row \in [Ids -> Row] /\ req \in [Requests -> Request]
      /\ made \subseteq Requests
  BY DEF IInv, Shape
<1>2. ASSUME NEW r \in Requests, RequestStep(r)
      PROVE  Tasks'
  <2>1. made \subseteq made' /\ req[r].body \in Bodies
    BY <1>2 DEF RequestStep, FirstLook, SecondLook, GiveUp, Enter, Resolve, Join, Reserve, Send,
       Answer, Wait, Mark, Project, RecordAlias, Respond, provider, IInv, Learned
  <2>2. \/ Ended(r) \/ Chooses(r) \/ (\E pc : Goes(r, pc)) \/ (\E item : Joins(r, item))
    BY <1>2, LookupEffects, JoinEffects, SubmitEffects DEF RequestStep
  <2>3. \A q \in Requests : req'[q].body = req[q].body
    BY <2>2 DEF Ended, Chooses, Goes, Joins, Others
  <2>4. AnswersStand
    BY <2>1, <2>2, <2>3 DEF Ended, Chooses, Goes, Joins, Others, AnswersStand
  <2>5. \A i \in Ids : \/ row'[i].task = row[i].task
                       \/ row'[i].task \in made' /\ req'[row'[i].task].body = i[2]
    <3>1. \A a \in Row : \A v : /\ [a EXCEPT !.state = v].task = a.task
                                /\ [a EXCEPT !.public = v].task = a.task
      BY DEF Row
    <3>2. CASE UNCHANGED row
      BY <3>2
    <3>3. CASE \E v : row' = [row EXCEPT ![Id(r)].state = v]
      BY <1>1, <3>1, <3>3
    <3>4. CASE \E v : row' = [row EXCEPT ![Id(r)].public = v]
      BY <1>1, <3>1, <3>4
    <3>5. CASE row' = [row EXCEPT ![Id(r)] = Projected(r)] /\ Project(r)
      <4>1. Projected(r).task = r
        BY DEF Projected, NoRow
      <4>2. r \in made' /\ Id(r)[2] = req[r].body
        BY <2>1, <3>5 DEF Project, IInv, Learned, Id
      <4>3. QED
        BY <1>1, <2>3, <3>5, <4>1, <4>2
    <3>6. QED
      BY <1>2, <3>2, <3>3, <3>4, <3>5
      DEF RequestStep, FirstLook, SecondLook, GiveUp, Enter, Resolve, Join, Reserve, Send,
          Answer, Wait, Mark, Project, RecordAlias, Respond
  <2>6. \A t \in made : req'[t].body = req[t].body
    BY <1>1, <2>3
  <2>7. TasksStand
    BY <2>5, <2>6 DEF TasksStand
  <2>8. QED
    BY <2>1, <2>4, <2>7, NothingMixed
<1>3. ASSUME NEW r \in Requests, NEW p \in Processes, NEW route \in Routes, NEW body \in Bodies,
             Arrive(r, p, route, body)
      PROVE  Tasks'
  <2>1. made' = made /\ row' = row
    BY <1>3 DEF Arrive, provider
  <2>2. Others(r) /\ req[r].pc = "idle" /\ req'[r].answer = "none"
    BY <1>3, ArriveEffects
  <2>3. r \notin made
    BY <2>2 DEF IInv, Shape, Learned, Started
  <2>4. TasksStand
    <3>1. \A t \in made : req'[t].body = req[t].body
      BY <1>1, <2>2, <2>3 DEF Others
    <3>2. QED
      BY <2>1, <3>1 DEF TasksStand
  <2>5. /\ \A i \in Ids : row'[i].task # None =>
              row'[i].task \in made' /\ req'[row'[i].task].body = i[2]
        /\ \A q \in Requests : req'[q].answer = "replayed" => req'[q] = req[q] /\ q # r
    BY <2>1, <2>2, <2>4 DEF IInv, Tasks, TasksStand, Others
  <2>6. QED
    BY <2>1, <2>4, <2>5 DEF IInv, Tasks, ReplayIsTheTask, TasksStand
<1>4. ASSUME NEW p \in Processes, Crash(p)
      PROVE  Tasks'
  <2>1. made \subseteq made' /\ row' = row
    BY <1>4 DEF Crash
  <2>2. \A q \in Requests : /\ req'[q].body = req[q].body
                            /\ req'[q].answer = req[q].answer /\ req'[q].task = req[q].task
    BY <1>4, CrashEffects
  <2>3. QED
    BY <1>1, <2>1, <2>2 DEF IInv, Tasks, ReplayIsTheTask
<1>5. CASE Rebind \/ UNCHANGED vars
  <2>1. UNCHANGED <<row, req, made>>
    BY <1>5 DEF Rebind, vars, provider
  <2>2. QED
    BY <2>1 DEF IInv, Tasks, ReplayIsTheTask
<1>6. QED
  BY <1>2, <1>3, <1>4, <1>5 DEF Next

-----------------------------------------------------------------------------
(* The locks.                                                              *)

LEMMA LockOwners ==
    ASSUME SubmissionAssumption, IInv, NEW q \in Requests, req[q].lock # None
    PROVE  /\ req[q].lock \in Requests /\ req[q].at \in Processes /\ req[q].op \in Operations
           /\ req[req[q].lock].at = req[q].at
           /\ req[q].pc \in {"waiting"} \cup Inside
<1>1. req[q] \in Request /\ req[q].pc \in {"waiting"} \cup Inside
  BY DEF IInv, Shape, Learned
<1>2. req[q].lock \in Requests
  BY <1>1 DEF Request
<1>3. req[q].at \in Processes /\ req[q].op \in Operations
  BY <1>1 DEF IInv, Learned, Inside
<1>4. QED
  BY <1>1, <1>2, <1>3 DEF IInv, Locks

LEMMA UsersFinite ==
    ASSUME SubmissionAssumption, NEW item
    PROVE  IsFiniteSet(Users(item))
BY FS_Subset DEF Users, SubmissionAssumption

\* A step that leaves the locks and their users alone.
LEMMA LocksStand ==
    ASSUME SubmissionAssumption, IInv, UNCHANGED locks,
           \A q \in Requests :
               /\ req'[q].lock = req[q].lock
               /\ req'[q].pc \in Inside <=> req[q].pc \in Inside
               /\ req[q].pc \in {"waiting", "done"} \cup Inside =>
                     /\ req'[q].pc \in {"waiting", "done"} \cup Inside
                     /\ req'[q].at = req[q].at
               /\ req[q].lock # None => req'[q].op = req[q].op
    PROVE  Locks'
<1>1. \A r : Users(r)' = Users(r)
  BY DEF Users
<1>2. \A q \in Requests : req[q].lock # None => req'[q].at = req[q].at
  BY LockOwners
<1>3. \A r \in Requests : req'[r].lock # None => table'[req'[r].at][req'[r].op] = req'[r].lock
  BY <1>2 DEF IInv, Locks, locks
<1>4. ASSUME NEW p \in Processes, NEW o \in Operations, table'[p][o] # None
      PROVE  /\ req'[table'[p][o]].at = p
             /\ req'[table'[p][o]].pc \in {"waiting", "done"} \cup Inside
             /\ \E r \in Requests : req'[r].at = p /\ req'[r].lock = table'[p][o]
             /\ \A s \in Processes, n \in Operations :
                   table'[s][n] = table'[p][o] => s = p /\ n = o
  <2>1. table' = table /\ table[p][o] \in Requests
    BY <1>4 DEF locks, IInv, Shape
  <2>2. QED
    BY <1>2, <1>4, <2>1 DEF IInv, Locks
<1>5. \A r \in Requests : refs'[r] = Cardinality(Users(r)')
  BY <1>1 DEF IInv, Locks, locks
<1>6. \A r \in Requests : holder'[r] # None =>
         req'[holder'[r]].pc \in Inside /\ req'[holder'[r]].lock = r
  BY DEF IInv, Shape, Locks, locks
<1>7. \A r \in Requests : req'[r].pc \in Inside => holder'[req'[r].lock] = r
  BY DEF IInv, Locks, locks
<1>8. QED
  BY <1>3, <1>4, <1>5, <1>6, <1>7 DEF Locks

LEMMA LocksJoined ==
    ASSUME SubmissionAssumption, IInv, NEW r \in Requests, Join(r)
    PROVE  Locks'
<1> DEFINE p == req[r].at
           o == req[r].op
           item == IF table[p][o] = None THEN r ELSE table[p][o]
<1>1. Joins(r, item)
  BY JoinEffects
<1>2. p \in Processes /\ o \in Operations /\ req[r].pc = "join" /\ req[r].lock = None
  BY DEF Join, IInv, Learned, Inside
<1>3. item \in Requests
  BY <1>2 DEF IInv, Shape
<1>4. /\ table' = [table EXCEPT ![p][o] = item]
      /\ refs' = [refs EXCEPT ![item] = refs[item] + 1]
      /\ holder' = holder
  BY DEF Join
<1>5. /\ table'[p][o] = item
      /\ \A s \in Processes, n \in Operations : s # p \/ n # o => table'[s][n] = table[s][n]
  BY <1>2, <1>4 DEF IInv, Shape
<1>6. item # r => item = table[p][o]
  OBVIOUS
<1>7. item = r => \A s \in Processes, n \in Operations : s # p \/ n # o => table[s][n] # r
  BY <1>2 DEF IInv, Locks, Inside, SubmissionAssumption
<1>8. ASSUME NEW q \in Requests, req'[q].lock # None
      PROVE  table'[req'[q].at][req'[q].op] = req'[q].lock
  <2>1. CASE q = r
    BY <1>1, <1>5, <2>1 DEF Joins
  <2>2. CASE q # r
    <3>1. req'[q] = req[q] /\ req[q].lock # None
      BY <1>1, <1>8, <2>2 DEF Joins, Others
    <3>2. table[req[q].at][req[q].op] = req[q].lock
      BY <3>1 DEF IInv, Locks
    <3>3. req[q].at \in Processes /\ req[q].op \in Operations
      BY <3>1, LockOwners
    <3>4. QED
      BY <1>5, <1>8, <3>1, <3>2, <3>3
  <2>3. QED
    BY <2>1, <2>2
<1>9. ASSUME NEW s \in Processes, NEW n \in Operations, table'[s][n] # None
      PROVE  /\ req'[table'[s][n]].at = s
             /\ req'[table'[s][n]].pc \in {"waiting", "done"} \cup Inside
             /\ \E q \in Requests : req'[q].at = s /\ req'[q].lock = table'[s][n]
             /\ \A s2 \in Processes, n2 \in Operations :
                   table'[s2][n2] = table'[s][n] => s2 = s /\ n2 = n
  <2> DEFINE t == table'[s][n]
  <2>1. \/ s = p /\ n = o /\ t = item
        \/ ~(s = p /\ n = o) /\ t = table[s][n]
    BY <1>5
  <2>2. t = table[s][n] \/ (t = r /\ item = r /\ s = p /\ n = o)
    BY <1>6, <2>1
  <2>3. t \in Requests
    BY <1>3, <1>9, <2>1 DEF IInv, Shape
  <2>4. req'[t].at = s /\ req'[t].pc \in {"waiting", "done"} \cup Inside
    <3>1. CASE t = r /\ s = p
      BY <1>1, <3>1 DEF Joins
    <3>2. CASE t = table[s][n]
      <4>1. req[t].at = s /\ req[t].pc \in {"waiting", "done"} \cup Inside
        BY <1>9, <3>2 DEF IInv, Locks
      <4>2. t # r
        BY <1>2, <4>1 DEF Inside
      <4>3. QED
        BY <1>1, <2>3, <4>1, <4>2 DEF Joins, Others
    <3>3. QED
      BY <2>2, <3>1, <3>2
  <2>5. \E q \in Requests : req'[q].at = s /\ req'[q].lock = t
    <3>1. CASE s = p /\ n = o
      BY <1>1, <1>2, <2>1, <3>1 DEF Joins
    <3>2. CASE ~(s = p /\ n = o)
      <4>1. PICK q \in Requests : req[q].at = s /\ req[q].lock = t
        BY <1>9, <2>1, <3>2 DEF IInv, Locks
      <4>2. q # r
        BY <1>2, <1>9, <4>1
      <4>3. QED
        BY <1>1, <4>1, <4>2 DEF Joins, Others
    <3>3. QED
      BY <3>1, <3>2
  <2>6. \A s2 \in Processes, n2 \in Operations : table'[s2][n2] = t => s2 = s /\ n2 = n
    <3>1. CASE item = r
      BY <1>2, <1>5, <1>7, <1>9, <2>1, <3>1 DEF IInv, Locks
    <3>2. CASE item # r
      <4>1. \A s2 \in Processes, n2 \in Operations : table'[s2][n2] = table[s2][n2]
        BY <1>5, <1>6, <3>2
      <4>2. QED
        BY <1>9, <4>1 DEF IInv, Locks
    <3>3. QED
      BY <3>1, <3>2
  <2>7. QED
    BY <2>4, <2>5, <2>6
<1>10. ASSUME NEW q \in Requests
       PROVE  refs'[q] = Cardinality(Users(q)')
  <2>1. refs[q] = Cardinality(Users(q)) /\ refs[q] \in Int
    BY DEF IInv, Locks, Shape
  <2>2. CASE q = item
    <3>1. Users(q)' = Users(q) \cup {r}
      BY <1>1, <2>2 DEF Users, Joins, Others
    <3>2. r \notin Users(q)
      BY <1>2, <2>2, <1>3 DEF Users, SubmissionAssumption
    <3>3. refs'[q] = refs[q] + 1
      BY <1>3, <1>4, <2>2 DEF IInv, Shape
    <3>4. QED
      BY <2>1, <3>1, <3>2, <3>3, UsersFinite, FS_AddElement
  <2>3. CASE q # item
    <3>1. Users(q)' = Users(q)
      BY <1>1, <1>2, <2>3 DEF Users, Joins, Others, SubmissionAssumption
    <3>2. refs'[q] = refs[q]
      BY <1>4, <2>3 DEF IInv, Shape
    <3>3. QED
      BY <2>1, <3>1, <3>2
  <2>4. QED
    BY <2>2, <2>3
<1>11. ASSUME NEW q \in Requests, holder'[q] # None
       PROVE  req'[holder'[q]].pc \in Inside /\ req'[holder'[q]].lock = q
  <2>1. holder[q] \in Requests /\ req[holder[q]].pc \in Inside /\ req[holder[q]].lock = q
    BY <1>4, <1>11 DEF IInv, Locks, Shape
  <2>2. holder[q] # r
    BY <1>2, <2>1 DEF Inside
  <2>3. QED
    BY <1>1, <1>4, <2>1, <2>2 DEF Joins, Others
<1>12. ASSUME NEW q \in Requests, req'[q].pc \in Inside
       PROVE  holder'[req'[q].lock] = q
  <2>1. q # r
    BY <1>1, <1>12 DEF Joins, Inside
  <2>2. req'[q] = req[q] /\ req[q].pc \in Inside
    BY <1>1, <1>12, <2>1 DEF Joins, Others
  <2>3. holder[req[q].lock] = q
    BY <2>2 DEF IInv, Locks
  <2>4. QED
    BY <1>4, <2>2, <2>3
<1>13. QED
  BY <1>8, <1>9, <1>10, <1>11, <1>12 DEF Locks
LEMMA LocksEntered ==
    ASSUME SubmissionAssumption, IInv, NEW r \in Requests, Enter(r)
    PROVE  Locks'
<1> DEFINE item == req[r].lock
<1>1. Goes(r, "second")
  BY LookupEffects
<1>2. req[r].pc = "waiting" /\ item \in Requests
  BY LockOwners DEF Enter, IInv, Learned
<1>3. table' = table /\ refs' = refs /\ holder' = [holder EXCEPT ![item] = r]
  BY DEF Enter
<1>4. /\ holder[item] = None /\ holder'[item] = r
      /\ \A q \in Requests \ {item} : holder'[q] = holder[q]
  BY <1>2, <1>3 DEF Enter, IInv, Shape
<1>5. \A q \in Requests : /\ req'[q].at = req[q].at /\ req'[q].op = req[q].op
                          /\ req'[q].lock = req[q].lock
                          /\ q # r => req'[q].pc = req[q].pc
  BY <1>1 DEF Goes, Others
<1>6. req'[r].pc = "second"
  BY <1>1 DEF Goes
<1>7. \A q \in Requests : req'[q].lock # None => table'[req'[q].at][req'[q].op] = req'[q].lock
  BY <1>3, <1>5 DEF IInv, Locks
<1>8. ASSUME NEW p \in Processes, NEW o \in Operations, table'[p][o] # None
      PROVE  /\ req'[table'[p][o]].at = p
             /\ req'[table'[p][o]].pc \in {"waiting", "done"} \cup Inside
             /\ \E q \in Requests : req'[q].at = p /\ req'[q].lock = table'[p][o]
             /\ \A s \in Processes, n \in Operations :
                   table'[s][n] = table'[p][o] => s = p /\ n = o
  <2>1. table'[p][o] \in Requests
    BY <1>3, <1>8 DEF IInv, Shape
  <2>2. \A q \in Requests : req[q].pc \in {"waiting", "done"} \cup Inside =>
           req'[q].pc \in {"waiting", "done"} \cup Inside
    BY <1>5, <1>6 DEF Inside
  <2>3. QED
    BY <1>3, <1>5, <1>8, <2>1, <2>2 DEF IInv, Locks
<1>9. \A q \in Requests : refs'[q] = Cardinality(Users(q)')
  <2>1. \A q : Users(q)' = Users(q)
    BY <1>5 DEF Users
  <2>2. QED
    BY <1>3, <2>1 DEF IInv, Locks
<1>10. ASSUME NEW q \in Requests, holder'[q] # None
       PROVE  req'[holder'[q]].pc \in Inside /\ req'[holder'[q]].lock = q
  <2>1. CASE q = item
    BY <1>4, <1>5, <1>6, <2>1 DEF Inside
  <2>2. CASE q # item
    <3>1. /\ holder'[q] = holder[q] /\ holder[q] \in Requests
          /\ req[holder[q]].pc \in Inside /\ req[holder[q]].lock = q
      BY <1>4, <1>10, <2>2 DEF IInv, Shape, Locks
    <3>2. QED
      BY <1>5, <2>2, <3>1
  <2>3. QED
    BY <2>1, <2>2
<1>11. ASSUME NEW q \in Requests, req'[q].pc \in Inside
       PROVE  holder'[req'[q].lock] = q
  <2>1. CASE q = r
    BY <1>4, <1>5, <2>1
  <2>2. CASE q # r
    <3>1. req[q].pc \in Inside /\ holder[req[q].lock] = q /\ req[q].lock \in Requests
      BY <1>5, <1>11, <2>2, LockOwners DEF IInv, Learned, Locks
    <3>2. req[q].lock # item
      BY <1>4, <3>1, <1>2 DEF SubmissionAssumption
    <3>3. QED
      BY <1>4, <1>5, <3>1, <3>2
  <2>3. QED
    BY <2>1, <2>2
<1>12. QED
  BY <1>7, <1>8, <1>9, <1>10, <1>11 DEF Locks

\* A user leaves a lock it holds or waits for; with the last one goes the lock.
LEMMA LocksLeft ==
    ASSUME SubmissionAssumption, IInv, NEW r \in Requests, Ended(r),
           NEW item, item = req[r].lock, item # None,
           refs' = [refs EXCEPT ![item] = @ - 1],
           table' = IF refs[item] = 1
                    THEN [table EXCEPT ![req[r].at][req[r].op] = None] ELSE table,
           \/ req[r].pc = "waiting" /\ holder' = holder
           \/ req[r].pc \in Inside /\ holder' = [holder EXCEPT ![item] = None]
    PROVE  Locks'
<1> DEFINE p == req[r].at
           o == req[r].op
<1>1. /\ item \in Requests /\ p \in Processes /\ o \in Operations
      /\ table[p][o] = item
  BY LockOwners DEF IInv, Locks
<1>2. /\ req'[r].pc = "done" /\ req'[r].at = p /\ req'[r].lock = None
      /\ \A q \in Requests \ {r} : req'[q] = req[q]
  BY DEF Ended, Others
<1>3. /\ refs[item] = Cardinality(Users(item)) /\ refs[item] \in Int
      /\ r \in Users(item)
  BY <1>1 DEF IInv, Locks, Shape, Users
<1>4. Users(item)' = Users(item) \ {r} /\ \A q \in Requests \ {item} : Users(q)' = Users(q)
  BY <1>2 DEF Users, SubmissionAssumption
<1>5. ASSUME NEW q \in Requests
      PROVE  refs'[q] = Cardinality(Users(q)')
  <2>1. CASE q = item
    <3>1. Cardinality(Users(item) \ {r}) = refs[item] - 1
      BY <1>3, UsersFinite, FS_RemoveElement
    <3>2. refs'[item] = refs[item] - 1
      BY <1>1 DEF IInv, Shape
    <3>3. QED
      BY <1>4, <2>1, <3>1, <3>2
  <2>2. CASE q # item
    <3>1. Users(q)' = Users(q) /\ refs'[q] = refs[q]
      BY <1>1, <1>4, <2>2 DEF IInv, Shape
    <3>2. QED
      BY <3>1 DEF IInv, Locks
  <2>3. QED
    BY <2>1, <2>2
<1>6. refs[item] = 1 => \A q \in Requests : req[q].lock = item => q = r
  <2> SUFFICES ASSUME refs[item] = 1, NEW q \in Requests, req[q].lock = item PROVE q = r
    OBVIOUS
  <2>1. PICK x : Users(item) = {x}
    BY <1>3, UsersFinite, FS_Singleton
  <2>2. q \in Users(item)
    BY DEF Users
  <2>3. QED
    BY <1>3, <2>1, <2>2
<1>7. refs[item] # 1 => \E q \in Requests \ {r} : req[q].lock = item
  <2> SUFFICES ASSUME refs[item] # 1, Users(item) \subseteq {r} PROVE FALSE
    BY DEF Users
  <2>1. Users(item) = {r}
    BY <1>3
  <2>2. QED
    BY <1>3, <2>1, FS_Singleton
<1>8. ASSUME NEW s \in Processes, NEW n \in Operations
      PROVE  \/ table'[s][n] = table[s][n] /\ (refs[item] = 1 => s # p \/ n # o)
             \/ table'[s][n] = None /\ refs[item] = 1 /\ s = p /\ n = o
  BY <1>1 DEF IInv, Shape
<1>9. ASSUME NEW q \in Requests, req'[q].lock # None
      PROVE  table'[req'[q].at][req'[q].op] = req'[q].lock
  <2>1. q # r /\ req'[q] = req[q]
    BY <1>2, <1>9
  <2>2. /\ req[q].at \in Processes /\ req[q].op \in Operations
        /\ table[req[q].at][req[q].op] = req[q].lock
    BY <1>9, <2>1, LockOwners DEF IInv, Locks
  <2>3. ~(refs[item] = 1 /\ req[q].at = p /\ req[q].op = o)
    BY <1>1, <1>6, <2>1, <2>2
  <2>4. QED
    BY <1>8, <2>1, <2>2, <2>3
<1>10. ASSUME NEW s \in Processes, NEW n \in Operations, table'[s][n] # None
       PROVE  /\ req'[table'[s][n]].at = s
              /\ req'[table'[s][n]].pc \in {"waiting", "done"} \cup Inside
              /\ \E q \in Requests : req'[q].at = s /\ req'[q].lock = table'[s][n]
              /\ \A s2 \in Processes, n2 \in Operations :
                    table'[s2][n2] = table'[s][n] => s2 = s /\ n2 = n
  <2> DEFINE t == table'[s][n]
  <2>1. t = table[s][n] /\ (refs[item] = 1 => s # p \/ n # o)
    BY <1>8, <1>10
  <2>2. t \in Requests
    BY <1>10, <2>1 DEF IInv, Shape
  <2>3. /\ req[t].at = s /\ req[t].pc \in {"waiting", "done"} \cup Inside
        /\ \A s2 \in Processes, n2 \in Operations : table[s2][n2] = t => s2 = s /\ n2 = n
    <3>1. table[s][n] # None /\ t = table[s][n]
      BY <1>10, <2>1
    <3> HIDE DEF t
    <3>2. QED
      BY <3>1 DEF IInv, Locks
  <2>4. req'[t].at = s /\ req'[t].pc \in {"waiting", "done"} \cup Inside
    <3>1. CASE t = r
      BY <1>2, <2>3, <3>1
    <3>2. CASE t # r
      BY <1>2, <2>2, <2>3, <3>2
    <3>3. QED
      BY <3>1, <3>2
  <2>5. PICK q \in Requests : req[q].at = s /\ req[q].lock = t
    BY <1>10, <2>1 DEF IInv, Locks
  <2>6. \E x \in Requests : req'[x].at = s /\ req'[x].lock = t
    <3>1. CASE q # r
      BY <1>2, <2>5, <3>1
    <3>2. CASE q = r
      <4>1. t = item /\ s = p
        BY <2>5, <3>2
      <4>2. n = o
        BY <1>1, <1>10, <2>1, <4>1 DEF IInv, Locks
      <4>3. PICK x \in Requests \ {r} : req[x].lock = item
        BY <1>7, <2>1, <4>1, <4>2
      <4>4. req[x].at = req[item].at /\ req[r].at = req[item].at
        BY <4>3, LockOwners
      <4>5. QED
        BY <1>2, <4>1, <4>3, <4>4
    <3>3. QED
      BY <3>1, <3>2
  <2>7. \A s2 \in Processes, n2 \in Operations : table'[s2][n2] = t => s2 = s /\ n2 = n
    <3>1. t # None
      BY <1>10
    <3>2. TAKE s2 \in Processes, n2 \in Operations
    <3>3. table'[s2][n2] \in {table[s2][n2], None}
      BY <1>8
    <3> HIDE DEF t
    <3>4. QED
      BY <2>3, <3>1, <3>3
  <2>8. QED
    BY <2>4, <2>6, <2>7
<1>11. ASSUME NEW q \in Requests, holder'[q] # None
       PROVE  req'[holder'[q]].pc \in Inside /\ req'[holder'[q]].lock = q
  <2>1. holder'[q] = holder[q] /\ (q = item => holder' = holder)
    BY <1>1, <1>11 DEF IInv, Shape
  <2>2. /\ holder[q] \in Requests
        /\ req[holder[q]].pc \in Inside /\ req[holder[q]].lock = q
    BY <1>11, <2>1 DEF IInv, Shape, Locks
  <2>3. holder[q] # r
    <3>1. CASE req[r].pc = "waiting"
      BY <2>2, <3>1 DEF Inside
    <3>2. CASE req[r].pc \in Inside /\ holder' = [holder EXCEPT ![item] = None]
      BY <1>1, <1>11, <2>2, <3>2 DEF IInv, Shape
    <3>3. QED
      BY <3>1, <3>2
  <2>4. QED
    BY <1>2, <2>1, <2>2, <2>3
<1>12. ASSUME NEW q \in Requests, req'[q].pc \in Inside
       PROVE  holder'[req'[q].lock] = q
  <2>1. q # r
    BY <1>2, <1>12 DEF Inside
  <2>2. /\ req'[q] = req[q] /\ req[q].pc \in Inside /\ holder[req[q].lock] = q
        /\ req[q].lock \in Requests
    BY <1>2, <1>12, <2>1, LockOwners DEF IInv, Learned, Locks
  <2>3. CASE req[r].pc = "waiting" /\ holder' = holder
    BY <2>2, <2>3
  <2>4. CASE req[r].pc \in Inside /\ holder' = [holder EXCEPT ![item] = None]
    <3>1. holder[item] = r
      BY <2>4 DEF IInv, Locks
    <3>2. QED
      BY <1>1, <2>1, <2>2, <2>4, <3>1 DEF IInv, Shape
  <2>5. QED
    BY <2>3, <2>4
<1>13. QED
  BY <1>5, <1>9, <1>10, <1>11, <1>12 DEF Locks
\* With a process go its locks and all their users.
LEMMA LocksCrashed ==
    ASSUME SubmissionAssumption, IInv, NEW p \in Processes, Crash(p)
    PROVE  Locks'
<1>1. /\ holder' = [r \in Requests |-> IF req[r].at = p THEN None ELSE holder[r]]
      /\ refs' = [r \in Requests |-> IF req[r].at = p THEN 0 ELSE refs[r]]
      /\ \A s \in Processes, n \in Operations :
            table'[s][n] = IF s = p THEN None ELSE table[s][n]
  BY DEF Crash, IInv, Shape
<1>2. \A q \in Requests :
         /\ req[q].at = p => req'[q].at = p /\ req'[q].lock = None /\ req'[q].pc \notin Inside
         /\ req[q].at # p => req'[q] = req[q]
  BY CrashEffects DEF IInv, Learned, Inside
<1>3. ASSUME NEW q \in Requests, req'[q].lock # None
      PROVE  table'[req'[q].at][req'[q].op] = req'[q].lock
  <2>1. req[q].at # p /\ req'[q] = req[q]
    BY <1>2, <1>3
  <2>2. req[q].at \in Processes /\ req[q].op \in Operations
    BY <1>3, <2>1, LockOwners
  <2>3. QED
    BY <1>1, <1>3, <2>1, <2>2 DEF IInv, Locks
<1>4. ASSUME NEW s \in Processes, NEW n \in Operations, table'[s][n] # None
      PROVE  /\ req'[table'[s][n]].at = s
             /\ req'[table'[s][n]].pc \in {"waiting", "done"} \cup Inside
             /\ \E q \in Requests : req'[q].at = s /\ req'[q].lock = table'[s][n]
             /\ \A s2 \in Processes, n2 \in Operations :
                   table'[s2][n2] = table'[s][n] => s2 = s /\ n2 = n
  <2>1. s # p /\ table'[s][n] = table[s][n] /\ table[s][n] \in Requests
    BY <1>1, <1>4 DEF IInv, Shape
  <2>2. /\ req[table[s][n]].at = s
        /\ req[table[s][n]].pc \in {"waiting", "done"} \cup Inside
        /\ \E q \in Requests : req[q].at = s /\ req[q].lock = table[s][n]
    BY <1>4, <2>1 DEF IInv, Locks
  <2>3. \A s2 \in Processes, n2 \in Operations :
           table'[s2][n2] = table'[s][n] => s2 = s /\ n2 = n
    BY <1>1, <1>4, <2>1 DEF IInv, Locks
  <2>4. QED
    BY <1>2, <2>1, <2>2, <2>3
<1>5. ASSUME NEW q \in Requests
      PROVE  refs'[q] = Cardinality(Users(q)')
  <2>1. CASE req[q].at = p
    <3>1. Users(q)' = {}
      <4> SUFFICES ASSUME NEW x \in Requests, req'[x].lock = q PROVE FALSE
        BY DEF Users
      <4>1. req[x].at # p /\ req[x].lock = q /\ q # None
        BY <1>2 DEF SubmissionAssumption
      <4>2. QED
        BY <2>1, <4>1, LockOwners
    <3>2. QED
      BY <1>1, <2>1, <3>1, FS_EmptySet
  <2>2. CASE req[q].at # p
    <3>1. \A x \in Requests : req'[x].lock = q <=> req[x].lock = q
      <4> SUFFICES ASSUME NEW x \in Requests, req[x].at = p PROVE req'[x].lock # q /\ req[x].lock # q
        BY <1>2
      <4>1. q # None
        BY DEF SubmissionAssumption
      <4>2. QED
        BY <1>2, <2>2, <4>1, LockOwners
    <3>2. Users(q)' = Users(q) /\ refs'[q] = refs[q]
      BY <1>1, <2>2, <3>1 DEF Users
    <3>3. QED
      BY <3>2 DEF IInv, Locks
  <2>3. QED
    BY <2>1, <2>2
<1>6. ASSUME NEW q \in Requests, holder'[q] # None
      PROVE  req'[holder'[q]].pc \in Inside /\ req'[holder'[q]].lock = q
  <2>1. /\ holder'[q] = holder[q] /\ req[q].at # p /\ holder[q] \in Requests
        /\ req[holder[q]].pc \in Inside /\ req[holder[q]].lock = q
    BY <1>1, <1>6 DEF IInv, Shape, Locks
  <2>2. req[holder[q]].at = req[q].at
    BY <2>1, LockOwners DEF SubmissionAssumption
  <2>3. QED
    BY <1>2, <2>1, <2>2
<1>7. ASSUME NEW q \in Requests, req'[q].pc \in Inside
      PROVE  holder'[req'[q].lock] = q
  <2>1. req'[q] = req[q] /\ req[q].at # p /\ req[q].lock # None
    BY <1>2, <1>7 DEF IInv, Learned
  <2>2. req[q].lock \in Requests /\ req[req[q].lock].at # p
    BY <2>1, LockOwners
  <2>3. QED
    BY <1>1, <1>7, <2>1, <2>2 DEF IInv, Locks
<1>8. QED
  BY <1>3, <1>4, <1>5, <1>6, <1>7 DEF Locks

\* A step of one request on its way, with the lock it has or without one.
LEMMA LocksMoved ==
    ASSUME SubmissionAssumption, IInv, UNCHANGED locks, NEW r \in Requests,
           \/ req[r].pc \in Inside /\ \E pc \in Inside : Goes(r, pc)
           \/ /\ req[r].pc \in {"idle", "first", "resolve"}
              /\ Others(r) /\ req'[r].lock = None /\ req'[r].pc \notin Inside
    PROVE  Locks'
<1>1. CASE req[r].pc \in Inside /\ \E pc \in Inside : Goes(r, pc)
  BY <1>1, LocksStand DEF Goes, Others
<1>2. CASE /\ req[r].pc \in {"idle", "first", "resolve"}
           /\ Others(r) /\ req'[r].lock = None /\ req'[r].pc \notin Inside
  <2>1. req[r].lock = None /\ req[r].pc \notin {"waiting", "done"} \cup Inside
    BY <1>2 DEF IInv, Learned, Inside
  <2>2. QED
    BY <1>2, <2>1, LocksStand DEF Others
<1>3. QED
  BY <1>1, <1>2

LEMMA LocksUnlocked ==
    ASSUME SubmissionAssumption, IInv, NEW r \in Requests, req[r].pc \in Inside,
           NEW rec, Answered(rec, r), Unlock(r, rec)
    PROVE  Locks'
<1>1. req[r].body \in Bodies /\ req[r].lock # None
  BY DEF IInv, Learned, Inside
<1>2. Ended(r)
  BY <1>1, EndsEnded DEF Unlock, DropReference
<1>3. QED
  BY <1>1, <1>2, LocksLeft DEF Unlock, DropReference

LEMMA LocksKept ==
    ASSUME SubmissionAssumption, IInv, [Next]_vars
    PROVE  Locks'
<1>1. req \in [Requests -> Request]
  BY DEF IInv, Shape
<1>2. {"error", "refused", "accepted", "failed"} \subseteq Answers \ {"replayed"}
  BY DEF Answers
<1>3. ASSUME NEW r \in Requests, FirstLook(r) \/ Resolve(r)
      PROVE  Locks'
  <2>1. UNCHANGED locks /\ req[r].pc \in {"first", "resolve"} /\ req[r].lock = None
    BY <1>3 DEF FirstLook, Resolve, IInv, Learned, Inside
  <2>2. Ended(r) \/ Goes(r, "first") \/ Goes(r, "resolve") \/ Chooses(r)
    BY <1>3, LookupEffects, JoinEffects
  <2>3. Others(r) /\ req'[r].lock = None /\ req'[r].pc \notin Inside
    BY <2>1, <2>2 DEF Ended, Goes, Chooses, Inside
  <2>4. QED
    BY <2>1, <2>3, LocksMoved
<1>4. ASSUME NEW r \in Requests, GiveUp(r)
      PROVE  Locks'
  <2>1. req[r].lock # None
    BY <1>4 DEF GiveUp, IInv, Learned
  <2>2. Ended(r)
    BY <1>4, LookupEffects
  <2>3. QED
    BY <1>4, <2>1, <2>2, LocksLeft DEF GiveUp, DropReference
<1>5. ASSUME NEW r \in Requests, SecondLook(r) \/ Reserve(r) \/ Project(r) \/ Mark(r) \/ Respond(r),
             NEW rec, Unlock(r, rec), Answered(rec, r)
      PROVE  Locks'
  <2>1. req[r].pc \in Inside
    BY <1>5 DEF SecondLook, Reserve, Project, Mark, Respond, Inside
  <2>2. QED
    BY <1>5, <2>1, LocksUnlocked
<1>6. ASSUME NEW r \in Requests, UNCHANGED locks, NEW pc \in Inside, Goes(r, pc),
             \/ SecondLook(r) \/ Reserve(r) \/ Send(r) \/ Answer(r) \/ Wait(r)
             \/ Project(r) \/ RecordAlias(r)
      PROVE  Locks'
  <2>1. req[r].pc \in Inside
    BY <1>6 DEF SecondLook, Reserve, Send, Answer, Wait, Project, RecordAlias, Inside
  <2>2. QED
    BY <1>6, <2>1, LocksMoved
<1>7. ASSUME NEW r \in Requests, SecondLook(r)
      PROVE  Locks'
  <2>1. ASSUME NEW rec, Unlock(r, rec), rec = Found(r, req[r].op) \/ rec = [req[r] EXCEPT !.answer = "error"]
        PROVE  Locks'
    <3>1. req[r].op \in Operations
      BY <1>7 DEF SecondLook, IInv, Learned, Inside
    <3>2. Answered(rec, r)
      BY <1>2, <2>1, <3>1 DEF Answered
    <3>3. QED
      BY <1>5, <1>7, <2>1, <3>2
  <2>2. CASE GoTo(r, "reserve") /\ UNCHANGED locks
    <3>1. req' = [req EXCEPT ![r] = [req[r] EXCEPT !.pc = "reserve"]]
      BY <1>1, <2>2 DEF GoTo
    <3>2. Goes(r, "reserve")
      BY <3>1, MovesGo
    <3>3. QED
      BY <1>6, <1>7, <2>2, <3>2 DEF Inside
  <2>3. QED
    BY <1>7, <2>1, <2>2 DEF SecondLook
<1>8. ASSUME NEW r \in Requests, Reserve(r)
      PROVE  Locks'
  <2>1. ASSUME NEW answer \in {"refused", "error"}, Unlock(r, [req[r] EXCEPT !.answer = answer])
        PROVE  Locks'
    <3>1. Answered([req[r] EXCEPT !.answer = answer], r)
      BY <1>2, <2>1 DEF Answered
    <3>2. QED
      BY <1>5, <1>8, <2>1, <3>1
  <2>2. CASE GoTo(r, "send") /\ UNCHANGED locks
    <3>1. req' = [req EXCEPT ![r] = [req[r] EXCEPT !.pc = "send"]]
      BY <1>1, <2>2 DEF GoTo
    <3>2. Goes(r, "send")
      BY <3>1, MovesGo
    <3>3. QED
      BY <1>6, <1>8, <2>2, <3>2 DEF Inside
  <2>3. QED
    BY <1>8, <2>1, <2>2 DEF Reserve
<1>9. ASSUME NEW r \in Requests, Project(r)
      PROVE  Locks'
  <2>1. CASE Unlock(r, [req[r] EXCEPT !.answer = "error"])
    <3>1. Answered([req[r] EXCEPT !.answer = "error"], r)
      BY <1>2 DEF Answered
    <3>2. QED
      BY <1>5, <1>9, <2>1, <3>1
  <2>2. ASSUME NEW public, req' = [req EXCEPT ![r].pc = "alias", ![r].public = public], UNCHANGED locks
        PROVE  Locks'
    <3>1. req' = [req EXCEPT ![r] = [req[r] EXCEPT !.pc = "alias", !.public = public]]
      BY <1>1, <2>2
    <3>2. Goes(r, "alias")
      BY <3>1, MovesGo
    <3>3. QED
      BY <1>6, <1>9, <2>2, <3>2 DEF Inside
  <2>3. QED
    BY <1>9, <2>1, <2>2 DEF Project
<1>10. ASSUME NEW r \in Requests, Mark(r) \/ Respond(r)
       PROVE  Locks'
  <2>1. CASE Mark(r)
    <3>1. Unlock(r, [req[r] EXCEPT !.answer = "error"]) /\ Answered([req[r] EXCEPT !.answer = "error"], r)
      BY <1>2, <2>1 DEF Mark, Answered
    <3>2. QED
      BY <1>5, <2>1, <3>1
  <2>2. CASE Respond(r)
    <3>1. PICK answer \in {"accepted", "error", "failed"} :
             Unlock(r, [req[r] EXCEPT !.answer = answer, !.task = r])
      BY <2>2 DEF Respond
    <3>2. Answered([req[r] EXCEPT !.answer = answer, !.task = r], r)
      BY <1>2 DEF Answered
    <3>3. QED
      BY <1>5, <2>2, <3>1, <3>2
  <2>3. QED
    BY <1>10, <2>1, <2>2
<1>11. ASSUME NEW r \in Requests, Send(r) \/ Answer(r) \/ Wait(r) \/ RecordAlias(r)
       PROVE  Locks'
  <2>1. UNCHANGED locks
    BY <1>11 DEF Send, Answer, Wait, RecordAlias
  <2>2. \E pc \in Inside : Goes(r, pc)
    BY <1>11, SubmitEffects DEF Inside
  <2>3. QED
    BY <1>6, <1>11, <2>1, <2>2
<1>12. ASSUME NEW r \in Requests, NEW p \in Processes, NEW route \in Routes, NEW body \in Bodies,
              Arrive(r, p, route, body)
       PROVE  Locks'
  <2>1. /\ UNCHANGED locks /\ req[r].pc = "idle" /\ Others(r)
        /\ req'[r].lock = None /\ req'[r].pc = "first"
    BY <1>12, ArriveEffects DEF Arrive
  <2>2. QED
    BY <2>1, LocksMoved DEF Inside
<1>13. CASE Rebind \/ UNCHANGED vars
  <2>1. UNCHANGED <<locks, req>>
    BY <1>13 DEF Rebind, vars
  <2>2. QED
    BY <2>1, LocksStand
<1>14. QED
  BY <1>3, <1>4, <1>7, <1>8, <1>9, <1>10, <1>11, <1>12, <1>13, LocksJoined, LocksEntered,
     LocksCrashed DEF Next, RequestStep

-----------------------------------------------------------------------------
(* One submission of an operation on one process, whatever the bodies.     *)

LEMMA LocksExclude ==
    ASSUME IInv
    PROVE  LockExclusive
<1>1. ASSUME NEW r \in Requests, NEW q \in Requests, req[r].pc \in Inside, req[q].pc \in Inside,
             req[r].at = req[q].at, req[r].op = req[q].op
      PROVE  r = q
  <2>1. req[r].lock # None /\ req[q].lock # None
    BY <1>1 DEF IInv, Learned
  <2>2. req[r].lock = req[q].lock
    BY <1>1, <2>1 DEF IInv, Locks
  <2>3. QED
    BY <1>1, <2>2 DEF IInv, Locks
<1>2. QED
  BY <1>1 DEF LockExclusive, IInv, Locks

\* From the reservation on, nobody else of the process has the operation's key:
\* who comes to reserve it has seen under the lock that it is free.
Reserves(r) == Claimed(r) \/ req[r].pc = "reserve"
KeyClaims ==
    \A r, q \in Requests :
        Reserves(r) /\ Claimed(q) /\ req[r].at = req[q].at /\ req[r].op = req[q].op => r = q

LEMMA KeyStands ==
    ASSUME KeyClaims, NEW r \in Requests, Others(r), sent' \subseteq sent \cup {r},
           Claimed(r)' => Claimed(r),
           Reserves(r)' => Reserves(r) /\ req'[r].at = req[r].at /\ req'[r].op = req[r].op
    PROVE  KeyClaims'
BY DEF KeyClaims, Others, Claimed, Reserves

LEMMA KeyClaimsKept ==
    ASSUME SubmissionAssumption, IInv, KeyClaims, [Next]_vars
    PROVE  KeyClaims'
<1>1. row \in [Ids -> Row] /\ req \in [Requests -> Request]
  BY DEF IInv, Shape
<1>2. ASSUME NEW r \in Requests,
             FirstLook(r) \/ SecondLook(r) \/ GiveUp(r) \/ Enter(r) \/ Resolve(r) \/ Join(r)
      PROVE  KeyClaims'
  <2>1. sent' = sent /\ row' = row
    BY <1>2 DEF FirstLook, SecondLook, GiveUp, Enter, Resolve, Join, provider
  <2>2. ~Reserves(r)
    BY <1>2 DEF Reserves, Claimed, FirstLook, SecondLook, GiveUp, Enter, Resolve, Join, IInv, Learned, Started
  <2>3. CASE \/ Ended(r) \/ Chooses(r) \/ \E item : Joins(r, item)
             \/ \E pc \in {"first", "resolve", "second"} : Goes(r, pc)
    <3>1. ~Reserves(r)' /\ Others(r)
      BY <2>1, <2>2, <2>3 DEF Ended, Chooses, Joins, Goes, Reserves, Claimed
    <3>2. QED
      BY <2>1, <3>1, KeyStands DEF Reserves
  <2>4. CASE Goes(r, "reserve") /\ SecondLook(r)
    <3>1. Rows(req[r].op) = {}
      <4>1. req'[r].pc = "reserve"
        BY <2>4 DEF Goes
      <4>2. ASSUME NEW rec, Unlock(r, rec), Answered(rec, r)
            PROVE  req'[r].pc = "done"
        <5>1. req[r].body \in Bodies
          BY <2>4 DEF SecondLook, IInv, Learned, Inside
        <5>2. QED
          BY <4>2, <5>1, EndsEnded DEF Ended, Unlock, DropReference
      <4>3. Answered(Found(r, req[r].op), r) /\ Answered([req[r] EXCEPT !.answer = "error"], r)
        BY <2>4 DEF Answered, Answers, SecondLook, IInv, Learned, Inside
      <4>4. QED
        BY <2>4, <4>1, <4>2, <4>3 DEF SecondLook
    <3>2. \A q \in Requests : Claimed(q) => req[q].op # req[r].op
      <4> SUFFICES ASSUME NEW q \in Requests, Claimed(q), req[q].op = req[r].op PROVE FALSE
        OBVIOUS
      <4>1. req[q].body \in Bodies /\ row[Id(q)].state # "none"
        BY DEF IInv, Claims, Learned, Claimed, Inside, Started
      <4>2. QED
        BY <3>1, <4>1 DEF Rows, Id
    <3>3. \A q \in Requests : /\ Claimed(q)' => Claimed(q) /\ q # r
                              /\ req'[q].at = req[q].at /\ req'[q].op = req[q].op
                              /\ Reserves(q)' => Reserves(q) \/ q = r
      BY <2>1, <2>2, <2>4 DEF Goes, Others, Claimed, Reserves
    <3>4. QED
      BY <3>2, <3>3 DEF KeyClaims
  <2>5. QED
    BY <1>2, <2>3, <2>4, LookupEffects, JoinEffects
<1>3. ASSUME NEW r \in Requests, Reserve(r)
      PROVE  KeyClaims'
  <2>1. sent' = sent /\ Reserves(r)
    BY <1>3 DEF Reserve, provider, Reserves
  <2>2. CASE Ended(r)
    BY <2>1, <2>2, KeyStands DEF Ended, Claimed, Reserves
  <2>3. CASE Goes(r, "send")
    <3>1. \A q \in Requests :
             Reserves(q) /\ req[q].at = req[r].at /\ req[q].op = req[r].op => q = r
      BY <1>3, <2>1, LocksExclude DEF KeyClaims, Reserves, LockExclusive, Reserve, Inside
    <3>2. \A q \in Requests : /\ Claimed(q)' => Claimed(q) \/ q = r
                              /\ req'[q].at = req[q].at /\ req'[q].op = req[q].op
                              /\ Reserves(q)' => Reserves(q) \/ q = r
      BY <2>1, <2>3 DEF Goes, Others, Claimed, Reserves
    <3>3. QED
      BY <2>1, <3>1, <3>2 DEF KeyClaims
  <2>4. QED
    BY <1>3, <2>2, <2>3, SubmitEffects
<1>4. ASSUME NEW r \in Requests,
             Send(r) \/ Answer(r) \/ Wait(r) \/ Mark(r) \/ Project(r) \/ RecordAlias(r) \/ Respond(r)
      PROVE  KeyClaims'
  <2>1. Claimed(r) /\ Reserves(r)
    BY <1>4 DEF Reserves, Claimed, Send, Answer, Wait, Mark, Project, RecordAlias, Respond, IInv, Learned
  <2>2. sent' \subseteq sent \cup {r}
    BY <1>4 DEF Send, Answer, Wait, Mark, Project, RecordAlias, Respond, provider
  <2>3. CASE \E pc : Goes(r, pc)
    BY <2>1, <2>2, <2>3, KeyStands DEF Goes
  <2>4. CASE Ended(r) /\ ~Send(r)
    <3>1. sent' = sent
      BY <1>4, <2>4 DEF Answer, Wait, Mark, Project, RecordAlias, Respond, provider
    <3>2. Reserves(r)' => req'[r].op = req[r].op
      BY <2>4, <3>1 DEF Ended, Reserves, Claimed
    <3>3. QED
      BY <2>1, <2>2, <2>4, <3>2, KeyStands DEF Ended
  <2>5. QED
    BY <1>4, <2>3, <2>4, SubmitEffects
<1>5. ASSUME NEW r \in Requests, NEW p \in Processes, NEW route \in Routes, NEW body \in Bodies,
             Arrive(r, p, route, body)
      PROVE  KeyClaims'
  <2>1. sent' = sent /\ Others(r) /\ req[r].pc = "idle" /\ req'[r].pc = "first"
    BY <1>5, ArriveEffects DEF Arrive, provider
  <2>2. ~Reserves(r)'
    BY <2>1 DEF Reserves, Claimed, IInv, Learned, Started
  <2>3. QED
    BY <2>1, <2>2, KeyStands DEF Reserves
<1>6. ASSUME NEW p \in Processes, Crash(p)
      PROVE  KeyClaims'
  <2>1. sent' = sent
    BY <1>6 DEF Crash
  <2>2. \A q \in Requests :
           /\ Claimed(q)' => Claimed(q)
           /\ Reserves(q)' => Reserves(q) /\ req'[q].at = req[q].at /\ req'[q].op = req[q].op
    BY <1>6, <2>1, CrashEffects DEF Claimed, Reserves
  <2>3. QED
    BY <2>2 DEF KeyClaims, Reserves
<1>7. CASE Rebind \/ UNCHANGED vars
  <2>1. UNCHANGED <<req, sent>>
    BY <1>7 DEF Rebind, vars, provider
  <2>2. QED
    BY <2>1 DEF KeyClaims, Reserves, Claimed
<1>8. QED
  BY <1>2, <1>3, <1>4, <1>5, <1>6, <1>7 DEF Next, RequestStep

-----------------------------------------------------------------------------
(* The theorems, for any finite set of requests.                           *)

\* Every reachable state satisfies the inductive invariant: the locks of a
\* process belong to those who use them, and a reservation to one request.
THEOREM InvariantHolds ==
    ASSUME SubmissionAssumption
    PROVE  Spec => [](IInv /\ KeyClaims)
<1>1. Init => IInv /\ KeyClaims
  BY InitEstablishes DEF Init, KeyClaims, Reserves, Claimed, Fresh
<1>2. IInv /\ KeyClaims /\ [Next]_vars => (IInv /\ KeyClaims)'
  <2>1. IInv /\ [Next]_vars => IInv'
    BY ShapeKept, ClaimsKept, TasksKept, LocksKept DEF IInv
  <2>2. QED
    BY <2>1, KeyClaimsKept
<1>3. QED
  BY <1>1, <1>2, PTL DEF Spec

\* What the table holds is what a lock is made of, and no lock has more users
\* than there are requests.
THEOREM TypesHold ==
    ASSUME SubmissionAssumption
    PROVE  Spec => []TypeOK
<1>1. IInv => TypeOK
  <2>1. ASSUME IInv, NEW r \in Requests
        PROVE  refs[r] \in 0 .. Cardinality(Requests)
    <3>1. Users(r) \subseteq Requests /\ IsFiniteSet(Requests)
      BY DEF Users, SubmissionAssumption
    <3>2. /\ Cardinality(Users(r)) \in Nat /\ Cardinality(Requests) \in Nat
          /\ Cardinality(Users(r)) <= Cardinality(Requests)
      BY <3>1, FS_Subset, FS_CardinalityType
    <3>3. refs[r] = Cardinality(Users(r))
      BY <2>1 DEF IInv, Locks
    <3>4. QED
      BY <3>2, <3>3
  <2>2. QED
    BY <2>1 DEF IInv, Shape, TypeOK
<1>2. QED
  BY <1>1, InvariantHolds, PTL

\* profileSubmitLocks: of the requests of one process that submit under the
\* key, one is between the second lookup and its answer, and a lock is dropped
\* with its last user, never before.
THEOREM OneHolder ==
    ASSUME SubmissionAssumption
    PROVE  Spec => []LockExclusive
<1>1. IInv => LockExclusive
  BY LocksExclude
<1>2. QED
  BY <1>1, InvariantHolds, PTL

\* The reservation of the row lets one submission of an operation and body
\* through, in whatever process the retries arrive and whatever dies between.
THEOREM OneSubmission ==
    ASSUME SubmissionAssumption
    PROVE  Spec => []SubmitOnce
<1>1. IInv => SubmitOnce
  BY DEF IInv, Shape, Claims, Claimed, SubmitOnce
<1>2. QED
  BY <1>1, InvariantHolds, PTL

\* On one process the lock and the second lookup let one submission of an
\* operation through, also when the bodies differ.
THEOREM OneSubmissionOfTheKey ==
    ASSUME SubmissionAssumption
    PROVE  Spec => []KeyOnce
<1>1. IInv /\ KeyClaims => KeyOnce
  BY DEF IInv, Shape, KeyClaims, Reserves, Claimed, KeyOnce
<1>2. QED
  BY <1>1, InvariantHolds, PTL

\* A submission that went out stays in its row, whatever its outcome.
THEOREM SubmissionsAreRemembered ==
    ASSUME SubmissionAssumption
    PROVE  Spec => []SentIsRemembered
<1>1. IInv => SentIsRemembered
  BY DEF IInv, Shape, Claims, Claimed, SentIsRemembered
<1>2. QED
  BY <1>1, InvariantHolds, PTL

\* A replayed answer names a task the provider made for the same body.
THEOREM ReplaysAreTasks ==
    ASSUME SubmissionAssumption
    PROVE  Spec => []ReplayIsTheTask
<1>1. IInv => ReplayIsTheTask
  BY DEF IInv, Tasks
<1>2. QED
  BY <1>1, InvariantHolds, PTL
=============================================================================
