------------------------------- MODULE MCGateway -------------------------------
(***************************************************************************)
(* Gateway in one run.  A behaviour belongs to one part, which says what   *)
(* it stays within, and leaves the others alone.                           *)
(* Submission:                                                             *)
(*   image    two requests with one of two bodies, on either of two        *)
(*            processes, for a route with three operations; one dies       *)
(*   rebound  two requests alike on a process, for a route with two        *)
(*            operations, whose bindings change                            *)
(*   video    three requests alike on a process that dies                  *)
(* GatewayWait:                                                            *)
(*   wait     the loop, with definitions that saturate and that do not     *)
(* Accounts:                                                               *)
(*   logins   three logins of two keys, a table with room for one bucket   *)
(*   sessions a login and two other requests on three sessions             *)
(* Catalog:                                                                *)
(*   catalog  console requests that overlap, and a task                    *)
(*   console  the same one by one, with two bindings                       *)
(*   builtin  ... of a built-in profile with default bindings              *)
(* AuditLog:                                                               *)
(*   log      two status polls of clients, with every status               *)
(*   mishaps  the same with polls of the console and the reconciliation,   *)
(*            and a failed write, a crash or a deletion                    *)
(* Routing:                                                                *)
(*   failover a request for a model of three channels, every answer        *)
(*   turns    requests for three channels with different weights           *)
(***************************************************************************)
EXTENDS Gateway, SequencesExt, TLC

CONSTANTS r1, r3, p1, b1,        \* of the requests, processes and bodies
          n1, h1, w1, w2, c1,    \* of the logins, keys, passwords and calls
          e1,                    \* a console request
          k1, k2, k3             \* channels

VARIABLE part

AllRoutes == {"image.create", "images.generations", "video.create"}
Polling(mode, base, cap, jitter, polls, duration) ==
    [mode |-> mode, base |-> base, cap |-> cap, jitter |-> jitter,
     attempts |-> polls, duration |-> duration]
Pollings == {Polling("fixed", 1, 0, 0, 2, 2), Polling("linear", 3, 5, 1, 3, 6),
             Polling("exponential", 1, 0, 1, 4, 7), Polling("exponential", 1, 1, 0, 6, 5)}
RetryAfters == {-1, 0, 1, 3, 9}

OneOrTwo == [x1 |-> {"create"}, x2 |-> {"create", "edit"}]
DefaultToo == {0, -100}

Channel(tier, weight, offers, mode, keys) ==
    [active |-> TRUE, tier |-> tier, weight |-> weight, allows |-> TRUE, offers |-> offers,
     binding |-> mode, adapter |-> TRUE, keys |-> keys]
Fleet(x, y, z) == (k1 :> x) @@ (k2 :> y) @@ (k3 :> z)

\* As they are; with other bindings; with one channel, or all but the model's
\* default ones, switched off; and without the model.
Failing ==
    LET x == Channel(0, 2, "listed", "direct", 2)
        y == Channel(1, 1, "listed", "direct", 1)
        z == Channel(2, 1, "listed", "async", 1)
    IN  {Fleet(x, y, z),
         Fleet([x EXCEPT !.binding = "async"], [y EXCEPT !.binding = "async"], z),
         Fleet(x, [y EXCEPT !.active = FALSE], z),
         Fleet([x EXCEPT !.offers = "star", !.adapter = FALSE],
               [y EXCEPT !.offers = "unlisted", !.binding = "none"],
               [z EXCEPT !.offers = "star", !.binding = "none"]),
         Fleet([x EXCEPT !.allows = FALSE], [y EXCEPT !.allows = FALSE],
               [z EXCEPT !.active = FALSE])}
Turning ==
    LET channel(w) == Channel(1, w, "listed", "none", 1)
    IN  {Fleet(channel(2), channel(1), channel(0)),
         Fleet(channel(3), channel(2), [channel(1) EXCEPT !.active = FALSE])}

ThreeChannels == <<k1, k2, k3>>
AllFleets == Failing \cup Turning
AllReplies == {"auth", "quota", "absent", "timeout", "refused", "answered", "failed"}

ASSUME InstancesOK == GatewayAssumption

-----------------------------------------------------------------------------
(* What a behaviour of each part stays within. *)

\* Requests, processes and bodies are alike: the first that comes is r1, with b1
\* to p1, and r3 comes last.
InTurn ==
    /\ req[r1].at \in {p1, None} /\ req[r1].body \in {b1, None}
    /\ \A r \in Requests : req[r].pc # "idle" => req[r1].pc # "idle"
    /\ req[r3].pc # "idle" => \A r \in Requests : req[r].pc # "idle"
\* Of the operations with a binding only the most wanted one is looked at, so one
\* at a time is enough.
Asks(requests, route, bodies) ==
    /\ bound \in {{}} \cup {{o} : o \in ToSet(Submits!Wanted(route))}
    /\ \A r \in Requests : req[r].pc # "idle" =>
           r \in requests /\ req[r].route = route /\ req[r].body \in bodies
WithinSubmission ==
    /\ InTurn
    /\ CASE part = "image" -> rebinds = 0 /\ Asks(Requests \ {r3}, "image.create", Bodies)
         [] part = "rebound" -> crashes = 0 /\ Asks(Requests \ {r3}, "images.generations", {b1})
                                /\ \A r \in Requests : req[r].at \in {p1, None}
         [] part = "video" -> rebinds = 0 /\ Asks(Requests, "video.create", {b1})
                              /\ \A r \in Requests : req[r].at \in {p1, None}

\* A client asks for a task, or the caller leaves, only where few polls are made.
WithinWait == asks > 0 \/ gone => definition.attempts <= 3

\* In logins nobody makes another request, and there is one session; in
\* sessions one login at a time comes, none that fails is counted, no time passes
\* during a login, passwords that are given are w1, and c1 is the first of the
\* other requests.
WithinAccounts ==
    CASE part = "logins" -> \A c \in Calls : call[c].pc = "idle"
      [] part = "sessions" -> /\ \A n \in Logins \ {n1} : login[n].pc = "idle"
                              /\ \A c \in Calls : call[c].pc # "idle" => call[c1].pc # "idle"
                              /\ \A c \in Calls : call[c].op = "update" => call[c].guess = w1
                              /\ \A c \in Calls : call[c].token # 3
                              /\ login[n1].key \in {h1, None} /\ login[n1].guess \in {w1, None}
                              /\ \A b \in Buckets : bucket[b].failures = <<>> /\ bucket[b].idle = 0

\* In log the console makes no poll; in mishaps the task does not fail, and is not
\* complete when it is created.
WithinLog ==
    CASE part = "log" -> mishaps = 0 /\ \A p \in 1 .. MaxPolls : ~poll[p].console
      [] part = "mishaps" -> /\ summary.count = 0 => summary.status # "completed"
                             /\ "failed" \notin {summary.status, batch.status}
                             /\ \A p \in 1 .. MaxPolls : poll[p].status # "failed" /\ poll[p].progress = -1

\* In catalog the first revision has one content only, the second one either, and
\* there is one binding, of a creation to the second one; in the others there is no task.  What
\* is bound is enabled, and may be disabled after.
WithinCatalog ==
  /\ edit[e1].pc \in {"peers", "write"} => edit[e1].row.enabled
  /\ CASE part = "catalog" ->
             /\ source = "custom" /\ ~alone /\ binding[2] = Keeps!NoBinding
             /\ revision[1].content # "x2"
             /\ edit[e1].pc \in {"draft", "bind"} => edit[e1].number = 2
             /\ edit[e1].pc = "bind" => edit[e1].content # "x2"
             /\ edit[e1].pc \in {"peers", "write"} =>
                    /\ edit[e1].row.pattern # "*" /\ edit[e1].row.precedence = 0
                    /\ edit[e1].row.op = "create" /\ edit[e1].row.revision = 2
       [] part = "console" ->
             /\ source = "custom" /\ alone /\ \A t \in Tasks : task[t] = Keeps!NoTask
             /\ edit[e1].pc \in {"peers", "write"} => edit[e1].row.precedence = 0
       [] part = "builtin" -> source = "builtin" /\ alone /\ \A t \in Tasks : task[t] = Keeps!NoTask

\* One request, for channels that differ in what they know or in their weights;
\* in turns they stay as they are, every exchange is answered and no client leaves.
WithinRouting ==
    /\ \A r \in Requests \ {r1} : request[r].at = "done"
    /\ CASE part = "failover" -> fleet \in Failing /\ clock <= 3 /\ Cardinality(open) <= 1
         [] part = "turns" -> /\ fleet \in Turning /\ changes = 0 /\ ~request[r1].gone
                              /\ request[r1].asked # <<>> => request[r1].ran # {}

\* What has no part in a behaviour is at rest.
SubmissionRests == Submits!Init /\ bound = {}
WaitRests == Waits!Init /\ ~gone /\ definition.attempts = 2
AccountsRest == Admits!Init /\ user = Admits!NoUser
CatalogRests == Keeps!Init /\ source = "custom" /\ ~there /\ ~alone
AllChannels == CHOOSE f \in Failing : \A c \in {k1, k2, k3} : f[c].active /\ f[c].binding = "async"
RoutingRests == Serves!Init /\ fleet = AllChannels

PartsInit ==
    \/ /\ WaitRests /\ AccountsRest /\ Logs!Init /\ CatalogRests /\ RoutingRests
       /\ part \in {"image", "rebound", "video"} /\ Submits!Init /\ WithinSubmission
    \/ /\ SubmissionRests /\ AccountsRest /\ Logs!Init /\ CatalogRests /\ RoutingRests
       /\ part = "wait" /\ Waits!Init /\ WithinWait
    \/ /\ SubmissionRests /\ WaitRests /\ Logs!Init /\ CatalogRests /\ RoutingRests
       /\ Admits!Init
       /\ \/ part = "logins" /\ user.version = 1 /\ user.password = w1
          \/ part = "sessions" /\ user.password # w2
    \/ /\ SubmissionRests /\ WaitRests /\ AccountsRest /\ CatalogRests /\ RoutingRests
       /\ part \in {"log", "mishaps"} /\ Logs!Init
    \/ /\ SubmissionRests /\ WaitRests /\ AccountsRest /\ Logs!Init /\ RoutingRests
       /\ part \in {"catalog", "console", "builtin"} /\ Keeps!Init /\ WithinCatalog
    \/ /\ SubmissionRests /\ WaitRests /\ AccountsRest /\ Logs!Init /\ CatalogRests
       /\ part \in {"failover", "turns"} /\ Serves!Init /\ WithinRouting

PartsNext ==
    /\ UNCHANGED part
    /\ \/ part \in {"image", "rebound", "video"} /\ SubmissionStep /\ WithinSubmission'
       \/ part = "wait" /\ WaitStep /\ WithinWait'
       \/ part \in {"logins", "sessions"} /\ AccountStep /\ WithinAccounts'
       \/ part \in {"log", "mishaps"} /\ LogStep /\ WithinLog'
       \/ part \in {"failover", "turns"} /\ RoutingStep /\ WithinRouting'
       \/ part \in {"catalog", "console", "builtin"} /\ CatalogStep /\ WithinCatalog'

PartsSpec == PartsInit /\ [][PartsNext]_<<part, vars>>

-----------------------------------------------------------------------------
\* The types of the component that moves.
TypeOK ==
    CASE part \in {"image", "rebound", "video"} -> Submits!TypeOK
      [] part = "wait" -> Waits!TypeOK
      [] part \in {"logins", "sessions"} -> Admits!TypeOK
      [] part \in {"log", "mishaps"} -> Logs!TypeOK
      [] part \in {"catalog", "console", "builtin"} -> Keeps!TypeOK
      [] part \in {"failover", "turns"} -> Serves!TypeOK
=============================================================================
