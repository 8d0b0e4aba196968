------------------------------- MODULE Accounts -------------------------------
(***************************************************************************)
(* The administrator's account: the admission of logins                    *)
(* (security/admission.go), the account, its sessions and the changes of   *)
(* its credentials (security/auth.go), and the routes that call them       *)
(* (router/auth_routes.go).  Every statement on the database is a step:    *)
(* SQLite serialises them, and a transaction is one step.                  *)
(*                                                                         *)
(* A login is counted for its key (address and name) before the account is *)
(* read, and again when its answer is known.  A session is accepted while  *)
(* it carries the version of the credentials it was made with.             *)
(***************************************************************************)
EXTENDS Integers, FiniteSets, Sequences

CONSTANTS Logins,     \* requests to POST /api/auth/login, made again and again
          Calls,      \* other requests: setup, read, logout, update
          Keys,       \* loginAttemptKey: an address with a user name
          Buckets,    \* loginBucket objects in memory
          MaxTokens,  \* bound: sessions ever made
          Passwords,
          Limit,      \* failures and attempts a key may have
          Window,     \* ticks a failure counts, and a lock lasts
          MaxBuckets, \* entries of the table of buckets
          Slots,      \* password checks at one time
          Lifetime,   \* ticks a session lives after it was last extended
          ExtendAfter,  \* ticks in which a session is not extended
          Initial,    \* versions the account may start with; 0: no account
          MaxVersion, \* bound: changes of the credentials
          None

AccountsAssumption ==
    /\ Limit \in Nat \ {0} /\ Window \in Nat \ {0} /\ MaxBuckets \in Nat \ {0}
    /\ Slots \in Nat \ {0} /\ Lifetime \in Nat /\ ExtendAfter \in 0..Lifetime
    /\ Initial \subseteq Nat /\ MaxVersion \in Nat /\ MaxTokens \in Nat
    /\ IsFiniteSet(Logins) /\ IsFiniteSet(Buckets) /\ None \notin Buckets
    /\ Cardinality(Buckets) >= MaxBuckets + Cardinality(Logins)

Tokens == 1 .. MaxTokens

VARIABLES user,      \* the row of the administrator
          session,   \* rows of admin_session_models by token
          proof,     \* the credentials a token was made for, by version
          table,     \* loginAttempts.items
          bucket,    \* the objects it points to, and those it pointed to
          login,     \* the progress of each login
          call       \* ... and of each other request

account == <<user, session, proof>>
admission == <<table, bucket>>
vars == <<user, session, proof, table, bucket, login, call>>

NoUser == [version |-> 0, password |-> None]
Empty == [failures |-> <<>>, locked |-> 0, idle |-> 0, inFlight |-> 0]
Logged == [pc |-> "idle", key |-> None, bucket |-> None, guess |-> None, user |-> NoUser]
Called == [pc |-> "idle", op |-> None, token |-> None, guess |-> None,
           row |-> None, user |-> NoUser, revoked |-> FALSE]

Init ==
    /\ user \in {[version |-> v, password |-> p] : v \in Initial \ {0}, p \in Passwords}
                \cup {NoUser : v \in Initial \cap {0}}
    /\ session = [t \in Tokens |-> None]
    /\ proof = [t \in Tokens |-> 0]
    /\ table = [k \in Keys |-> None]
    /\ bucket = [b \in Buckets |-> Empty]
    /\ login = [r \in Logins |-> Logged]
    /\ call = [c \in Calls |-> Called]

-----------------------------------------------------------------------------
(* Admission of logins. *)

\* pruneLoginBucket: failures count for less than Window.  The oldest come first.
Stale(failures) == Cardinality({i \in DOMAIN failures : failures[i] >= Window})
Recent(b) == [b EXCEPT !.failures = SubSeq(@, Stale(@) + 1, Len(@))]

\* Seeded bug: only failures count.
LoginAllowedIdle(b) == b.locked = 0 /\ Len(b.failures) < Limit

\* loginBucketAllowed, for a pruned bucket.
LoginAllowed(b) == b.locked = 0 /\ Len(b.failures) + b.inFlight < Limit

\* pruneLoginAttempts and evictOldestLoginBucket: the table after room was
\* made, if it was full.  Reserved buckets stay.
Disposable(k) ==
    LET b == Recent(bucket[table[k]])
    IN  b.inFlight = 0 /\ b.locked = 0 /\ b.failures = <<>>
Listed == {k \in Keys : table[k] # None}
\* Seeded bug: the oldest bucket goes, reserved or not.
EvictAny(kept) == {k \in kept : \A i \in kept : bucket[table[i]].idle <= bucket[table[k]].idle}
Oldest(kept) ==
    LET idle == {k \in kept : bucket[table[k]].inFlight = 0}
    IN  {k \in idle : \A i \in idle : bucket[table[i]].idle <= bucket[table[k]].idle}
Full == Cardinality(Listed) >= MaxBuckets
Pruned == IF Full THEN {k \in Listed : ~Disposable(k)} ELSE Listed
Cleaned(b) == IF Full THEN Recent(bucket[b]) ELSE bucket[b]

\* makeLoginBucket: the keys that keep their buckets when one more is made.
Room == IF Cardinality(Pruned) < MaxBuckets THEN {Pruned}
                                            ELSE {Pruned \ {k} : k \in Oldest(Pruned)}

GoTo(r, pc) == login' = [login EXCEPT ![r].pc = pc]

\* An object nothing points to.
Unused(b) == (\A k \in Keys : table[k] # b) /\ \A r \in Logins : login[r].bucket # b

\* BeginLoginAttempt and the guess the request brings.
Admitted(r, k, b) ==
    \E p \in Passwords :
        login' = [login EXCEPT ![r] = [pc |-> "reserved", key |-> k, bucket |-> b,
                                       guess |-> p, user |-> NoUser]]
Begin(r, k) ==
    /\ login[r].pc = "idle" /\ user.version > 0
    /\ \/ LET b == table[k]
              kept == Recent(bucket[b])
          IN  /\ b # None /\ LoginAllowed(kept)
              /\ Admitted(r, k, b)
              /\ bucket' = [bucket EXCEPT ![b] = [kept EXCEPT !.inFlight = @ + 1, !.idle = 0]]
              /\ UNCHANGED table
       \/ /\ table[k] = None
          /\ \E keep \in Room, b \in {CHOOSE x \in Buckets : Unused(x)} :
                /\ table' = [i \in Keys |-> IF i = k THEN b ELSE IF i \in keep THEN table[i] ELSE None]
                /\ Admitted(r, k, b)
                /\ bucket' = [x \in Buckets |->
                     IF x = b THEN [Empty EXCEPT !.inFlight = 1]
                     ELSE IF \E i \in Keys \ {k} : table'[i] = x THEN Cleaned(x)
                     ELSE IF \E q \in Logins : login[q].bucket = x THEN bucket[x] ELSE Empty]
    /\ UNCHANGED <<account, call>>

\* A login that is refused leaves what it looked at pruned: the bucket of its
\* key, or all of them when there is no room for one more.
Refused(k) ==
    /\ user.version > 0
    /\ \/ /\ table[k] # None /\ ~LoginAllowed(Recent(bucket[table[k]]))
          /\ bucket' = [bucket EXCEPT ![table[k]] = Recent(@)]
       \/ /\ table[k] = None /\ Room = {}
          /\ bucket' = [b \in Buckets |-> IF \E i \in Listed : table[i] = b THEN Recent(bucket[b])
                                                                          ELSE bucket[b]]
    /\ UNCHANGED <<account, table, login, call>>

\* recordLoginBucket
Recorded(b, result) ==
    CASE result = "success" -> [b EXCEPT !.failures = <<>>, !.locked = 0, !.idle = 0]
      [] result = "failure" ->
           LET failures == Append(Recent(b).failures, 0)
           IN  [b EXCEPT !.failures = failures,
                         !.locked = IF Len(failures) >= Limit THEN Window ELSE @, !.idle = 0]
      [] OTHER -> b

\* Seeded bug: without the sync.Once, the deferred Cancel follows Finish.
FinishTwice(r, result) ==
    LET b == Recorded([bucket[login[r].bucket] EXCEPT
                           !.inFlight = IF result = "cancel" THEN @ - 1 ELSE @ - 2], result)
    IN  /\ login' = [login EXCEPT ![r] = Logged]
        /\ bucket' = [bucket EXCEPT ![login[r].bucket] = b]
        /\ UNCHANGED table

\* LoginAttempt.finish, of Finish or the deferred Cancel: it works on the
\* bucket it began with, and deletes the entry of its key.
Finish(r, result) ==
    LET k == login[r].key
        b == Recorded([bucket[login[r].bucket] EXCEPT !.inFlight = @ - 1], result)
        gone == b.inFlight = 0 /\ b.failures = <<>>
    IN  /\ login' = [login EXCEPT ![r] = Logged]
        /\ bucket' = [bucket EXCEPT ![login[r].bucket] = IF gone THEN Empty ELSE b]
        /\ table' = [table EXCEPT ![k] = IF gone THEN None ELSE @]

\* Requests inside acquirePasswordWork and its release.
Checking == {r \in Logins : login[r].pc = "checking"} \cup {c \in Calls : call[c].pc = "checking"}

\* LoginContext: the account is read; no such name is a failure ...
ReadUser(r) ==
    /\ login[r].pc = "reserved"
    /\ \/ login' = [login EXCEPT ![r].pc = "read", ![r].user = user] /\ UNCHANGED admission
       \/ Finish(r, "failure")
    /\ UNCHANGED <<account, call>>

\* ... a full budget is not counted ...
Acquire(r) ==
    /\ login[r].pc = "read"
    /\ IF Cardinality(Checking) < Slots
          THEN GoTo(r, "checking") /\ UNCHANGED admission
          ELSE Finish(r, "cancel")
    /\ UNCHANGED <<account, call>>

\* Seeded bug: the session carries the version the account has by now.
NewSessionNow(t, version) ==
    /\ session' = [session EXCEPT ![t] = [version |-> user.version, left |-> Lifetime]]
    /\ proof' = [proof EXCEPT ![t] = version]

\* newSessionRecord, with what the token was made for.
NewSession(t, version) ==
    /\ session' = [session EXCEPT ![t] = [version |-> version, left |-> Lifetime]]
    /\ proof' = [proof EXCEPT ![t] = version]

\* Tokens are numbered as they are made.
NextToken(t) == \A i \in Tokens : proof[i] = 0 <=> i >= t

\* verifyPassword: the stored hash is of this password.
Verified(guess, row) == guess = row.password

\* ... and the password decides, by what was read: newSessionRecord inserts the
\* session with the version that was read.
Verify(r) ==
    /\ login[r].pc = "checking"
    /\ \/ /\ ~Verified(login[r].guess, login[r].user)
          /\ Finish(r, "failure") /\ UNCHANGED account
       \/ /\ Verified(login[r].guess, login[r].user)
          /\ \E t \in Tokens :
                NextToken(t) /\ NewSession(t, login[r].user.version)
          /\ UNCHANGED user
          /\ Finish(r, "success")
    /\ UNCHANGED call

\* A caller who leaves is not counted, even when the password was checked and
\* the session is in the database; nor is a login whose session is not stored.
CallerLeaves(r) ==
    /\ login[r].pc # "idle"
    /\ Finish(r, "cancel")
    /\ \/ UNCHANGED account
       \/ /\ login[r].pc = "checking" /\ Verified(login[r].guess, login[r].user)
          /\ \E t \in Tokens : NextToken(t) /\ NewSession(t, login[r].user.version)
          /\ UNCHANGED user
    /\ UNCHANGED call

-----------------------------------------------------------------------------
(* Setup, and requests with a session. *)

Step(c, pc) == call' = [call EXCEPT ![c].pc = pc]
Refuse(c) == call' = [call EXCEPT ![c] = [Called EXCEPT !.pc = "refused"]]
Standing(t) == session[t] # None /\ session[t].version = user.version
Current(t) == Standing(t) /\ session[t].left > 0

\* A request arrives, with the token it was given earlier.
Arrive(c) ==
    /\ call[c].pc = "idle"
    /\ \/ call' = [call EXCEPT ![c].pc = "count", ![c].op = "setup"]
       \/ \E t \in Tokens, op \in {"read", "logout", "update"}, p \in Passwords :
             /\ proof[t] > 0
             /\ op # "update" => p = CHOOSE q \in Passwords : TRUE
             /\ call' = [call EXCEPT ![c] = [Called EXCEPT !.pc = "session", !.op = op, !.token = t,
                                                           !.guess = p, !.revoked = ~Standing(t)]]
    /\ UNCHANGED <<account, admission, login>>

\* handleSetupAdmin, SetupAdminContext: nothing is hashed for an account that exists.
Count(c) ==
    /\ call[c].pc = "count"
    /\ IF user.version > 0 \/ Cardinality(Checking) >= Slots
          THEN Refuse(c) ELSE Step(c, "checking")
    /\ UNCHANGED <<account, admission, login>>

\* Seeded bug: the transaction trusts the count that was made before the hash.
SetupUnchecked(c) ==
    /\ call[c].pc = "checking" /\ call[c].op = "setup"
    /\ \E t \in Tokens, p \in Passwords :
          /\ NextToken(t) /\ NewSession(t, 1)
          /\ user' = [version |-> 1, password |-> p]
          /\ Step(c, "accepted")
    /\ UNCHANGED <<admission, login>>

\* setupFn: count again, account, session, in one transaction.
Setup(c) ==
    /\ call[c].pc = "checking" /\ call[c].op = "setup"
    /\ \/ user.version > 0 /\ Refuse(c) /\ UNCHANGED account
       \/ /\ user.version = 0
          /\ \E t \in Tokens, p \in Passwords :
                /\ NextToken(t) /\ NewSession(t, 1)
                /\ user' = [version |-> 1, password |-> p]
          /\ Step(c, "accepted")
    /\ UNCHANGED <<admission, login>>

\* ValidateSessionContext, statement by statement.  A row that has expired is
\* deleted.
ReadSession(c) ==
    LET t == call[c].token
    IN  /\ call[c].pc = "session"
        /\ \/ session[t] = None /\ Refuse(c) /\ UNCHANGED session
           \/ /\ session[t] # None /\ session[t].left > 0
              /\ call' = [call EXCEPT ![c].pc = "user", ![c].row = session[t]]
              /\ UNCHANGED session
           \/ /\ session[t] # None /\ session[t].left = 0
              /\ Step(c, "expired") /\ UNCHANGED session
        /\ UNCHANGED <<user, proof, admission, login>>

DeleteExpired(c) ==
    /\ call[c].pc = "expired"
    /\ session' = [session EXCEPT ![call[c].token] = None]
    /\ Refuse(c)
    /\ UNCHANGED <<user, proof, admission, login>>

\* Seeded bug: a session is as good as its row.
CheckAny(c) ==
    /\ call[c].pc = "user"
    /\ call' = [call EXCEPT ![c].pc = IF call[c].row.left <= Lifetime - ExtendAfter THEN "extend" ELSE call[c].op,
                            ![c].user = user]
    /\ UNCHANGED <<account, admission, login>>

CheckUser(c) ==
    /\ call[c].pc = "user"
    /\ IF user.version # call[c].row.version THEN Refuse(c)
          ELSE call' = [call EXCEPT ![c].pc = IF call[c].row.left <= Lifetime - ExtendAfter
                                                 THEN "extend" ELSE call[c].op,
                                    ![c].user = user]
    /\ UNCHANGED <<account, admission, login>>

\* Seeded bug: the row is saved, and comes back when it was deleted meanwhile.
ExtendBySaving(c) ==
    /\ call[c].pc = "extend"
    /\ session' = [session EXCEPT ![call[c].token] = [call[c].row EXCEPT !.left = Lifetime]]
    /\ Step(c, call[c].op)
    /\ UNCHANGED <<user, proof, admission, login>>

\* An UPDATE of the row that was read: nothing happens when it is gone.
Extend(c) ==
    LET t == call[c].token
    IN  /\ call[c].pc = "extend"
        /\ session' = IF session[t] = None THEN session
                      ELSE [session EXCEPT ![t].left = Lifetime]
        /\ Step(c, call[c].op)
        /\ UNCHANGED <<user, proof, admission, login>>

Read(c) ==
    /\ call[c].pc = "read" /\ Step(c, "accepted")
    /\ UNCHANGED <<account, admission, login>>

\* csrfSessionHashContext: one query joins the session with its account.
ValidateCSRF(c) ==
    /\ call[c].pc \in {"logout", "update"}
    /\ IF Current(call[c].token) THEN Step(c, IF call[c].op = "logout" THEN "leave" ELSE "reread")
                                 ELSE Refuse(c)
    /\ UNCHANGED <<account, admission, login>>

Logout(c) ==
    /\ call[c].pc = "leave"
    /\ session' = [session EXCEPT ![call[c].token] = None]
    /\ Step(c, "accepted")
    /\ UNCHANGED <<user, proof, admission, login>>

\* UpdateCredentialsContext: the account is read, the budget asked ...
Reread(c) ==
    /\ call[c].pc = "reread"
    /\ IF Cardinality(Checking) < Slots
          THEN call' = [call EXCEPT ![c].pc = "checking", ![c].user = user]
          ELSE Refuse(c)
    /\ UNCHANGED <<account, admission, login>>

\* ... and updateFn replaces the credentials that were verified: every session
\* goes, and one for the new credentials comes.  An empty password keeps the old.
Replace(c) ==
    \E t \in Tokens, p \in Passwords :
        /\ NextToken(t) /\ call[c].user.version < MaxVersion
        /\ user' = [version |-> call[c].user.version + 1, password |-> p]
        /\ session' = [i \in Tokens |->
             IF i = t THEN [version |-> call[c].user.version + 1, left |-> Lifetime] ELSE None]
        /\ proof' = [proof EXCEPT ![t] = call[c].user.version + 1]
        /\ Step(c, "accepted")

\* Seeded bug: the account is written by its id alone.
UpdateUnconditionally(c) ==
    /\ call[c].pc = "checking" /\ call[c].op = "update"
    /\ \/ ~Verified(call[c].guess, call[c].user) /\ Refuse(c) /\ UNCHANGED account
       \/ Verified(call[c].guess, call[c].user) /\ Replace(c)
    /\ UNCHANGED <<admission, login>>

Update(c) ==
    /\ call[c].pc = "checking" /\ call[c].op = "update"
    /\ \/ /\ ~Verified(call[c].guess, call[c].user) \/ user.version # call[c].user.version
          /\ Refuse(c) /\ UNCHANGED account
       \/ /\ Verified(call[c].guess, call[c].user) /\ user.version = call[c].user.version
          /\ Replace(c)
    /\ UNCHANGED <<admission, login>>

\* Time: failures age, locks end, sessions run out.
Older(n, most) == IF n < most THEN n + 1 ELSE n
Sooner(n) == IF n > 0 THEN n - 1 ELSE n
Tick ==
    /\ bucket' = [b \in Buckets |->
         IF Unused(b) THEN bucket[b]
         ELSE [bucket[b] EXCEPT !.failures = [i \in DOMAIN @ |-> Older(@[i], Window)],
                                !.locked = Sooner(@), !.idle = Older(@, Window)]]
    /\ session' = [t \in Tokens |-> IF session[t] = None THEN None
                                    ELSE [session[t] EXCEPT !.left = Sooner(@)]]
    /\ UNCHANGED <<user, proof, table, login, call>>

Next ==
    \/ \E r \in Logins, k \in Keys : Begin(r, k)
    \/ \E k \in Keys : Refused(k)
    \/ \E r \in Logins : ReadUser(r) \/ Acquire(r) \/ Verify(r) \/ CallerLeaves(r)
    \/ \E c \in Calls :
          \/ Arrive(c) \/ Count(c) \/ Setup(c) \/ ReadSession(c) \/ DeleteExpired(c)
          \/ CheckUser(c) \/ Extend(c) \/ Read(c) \/ ValidateCSRF(c) \/ Logout(c)
          \/ Reread(c) \/ Update(c)
    \/ Tick

Spec == Init /\ [][Next]_vars

-----------------------------------------------------------------------------
User == [version : Nat, password : Passwords \cup {None}]
Bucket == [failures : Seq(0..Window), locked : 0..Window, idle : 0..Window, inFlight : Nat]
Row == [version : Nat, left : 0..Lifetime]

TypeOK ==
    /\ user \in User
    /\ session \in [Tokens -> Row \cup {None}]
    /\ proof \in [Tokens -> Nat]
    /\ table \in [Keys -> Buckets \cup {None}]
    /\ bucket \in [Buckets -> Bucket]
    /\ login \in [Logins -> [pc : {"idle", "reserved", "read", "checking"}, key : Keys \cup {None},
                             bucket : Buckets \cup {None}, guess : Passwords \cup {None}, user : User]]
    /\ call \in [Calls -> [pc : {"idle", "count", "checking", "session", "expired", "user", "extend",
                                 "read", "logout", "update", "leave", "reread", "accepted", "refused"},
                           op : {None, "setup", "read", "logout", "update"}, token : Tokens \cup {None},
                           guess : Passwords \cup {None}, row : Row \cup {None}, user : User,
                           revoked : BOOLEAN]]

\* The attempts of a key that are under way and its failures of the last
\* Window never exceed Limit, whatever overlaps, and an attempt reports to the
\* bucket that the table shows to the next one (BeginLoginAttempt, finish,
\* makeLoginBucket).
Attempts(k) == {r \in Logins : login[r].pc # "idle" /\ login[r].key = k}
AttemptsBounded ==
    /\ \A k \in Keys : \A r \in Attempts(k) : login[r].bucket = table[k]
    /\ \A k \in Listed :
          /\ bucket[table[k]].inFlight = Cardinality(Attempts(k))
          /\ Len(Recent(bucket[table[k]]).failures) + Cardinality(Attempts(k)) <= Limit

\* A session that would be accepted was made with the credentials in force.
SessionsAreCurrent == \A t \in Tokens : Current(t) => proof[t] = user.version

\* A request that came with a session that had been revoked, by a logout or by a
\* change of the credentials, is never served; a session that was left does not
\* come back.  (One that has run out may be extended by a request that read it in
\* time.)
RevokedAreRefused ==
    \A c \in Calls : call[c].pc = "accepted" =>
        /\ ~call[c].revoked
        /\ call[c].op = "logout" => session[call[c].token] = None

\* The account changes by one request at a time: the one that replaces it has
\* verified the password it replaces, and one setup succeeds.
CredentialsSerial ==
    [][user # user' =>
          /\ user'.version = user.version + 1
          /\ \E c \in Calls :
                /\ call'[c].pc = "accepted" /\ call[c].pc = "checking"
                /\ user.version > 0 => call[c].guess = user.password]_vars
=============================================================================
