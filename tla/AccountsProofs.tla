--------------------------- MODULE AccountsProofs ---------------------------
(* Proofs about the sessions, the credentials and the admission of logins   *)
(* of Accounts, for any logins and requests, tokens, passwords and changes. *)
EXTENDS Accounts, FiniteSetTheorems, SequenceTheorems, TLAPS

-----------------------------------------------------------------------------
(* The inductive invariant. *)

Call == [pc : {"idle", "count", "checking", "session", "expired", "user", "extend", "read",
               "logout", "update", "leave", "reread", "accepted", "refused"},
         op : {None, "setup", "read", "logout", "update"}, token : Tokens \cup {None},
         guess : Passwords \cup {None}, row : Row \cup {None}, user : User, revoked : BOOLEAN]

\* The types of the account, and of what the logins read of it.
Kinds ==
    /\ user \in User
    /\ session \in [Tokens -> Row \cup {None}]
    /\ proof \in [Tokens -> Nat]
    /\ call \in [Calls -> Call]

\* A session carries the version it was made for, which is not one to come.
Made(t) ==
    /\ proof[t] <= user.version
    /\ session[t] # None => session[t].version = proof[t]

\* A login knows an account that was.
Knows(r) ==
    /\ "user" \in DOMAIN login[r] /\ "pc" \in DOMAIN login[r]
    /\ login[r].user \in User /\ login[r].user.version <= user.version

Lapsed(t) == session[t] = None \/ proof[t] < user.version

\* The steps of a request that are about its session, and where each leads.
OfSession == {"read", "logout", "update"}
Route(c) ==
    /\ call[c].pc = "idle" => call[c] = Called
    /\ call[c].pc = "count" => call[c].op = "setup"
    /\ call[c].pc \in {"session", "expired", "user", "extend"} => call[c].op \in OfSession
    /\ call[c].pc \in OfSession => call[c].op = call[c].pc
    /\ call[c].pc = "leave" => call[c].op = "logout"
    /\ call[c].pc = "reread" => call[c].op = "update"

\* What a request holds of the account: the token it came with was made, the
\* row it read says for which credentials, and the account it verifies is the
\* one in force or an older one.
Holds(c) ==
    /\ call[c].pc \notin {"idle", "refused"} /\ call[c].op \in OfSession =>
          call[c].token \in Tokens /\ proof[call[c].token] > 0
    /\ call[c].pc = "user" => call[c].row \in Row /\ call[c].row.version = proof[call[c].token]
    /\ call[c].user.version <= user.version
    /\ call[c].pc = "checking" /\ call[c].op = "update"
          /\ call[c].user.version = user.version => call[c].user = user

\* A request whose session was revoked when it came does not get past the
\* check of the account; after a logout there is no session.
Outcome(c) ==
    /\ call[c].revoked =>
          /\ call[c].op \in OfSession
          /\ Lapsed(call[c].token)
          /\ call[c].pc \in {"session", "expired", "user"}
          /\ call[c].pc = "user" => call[c].row.version < user.version
    /\ call[c].pc = "accepted" /\ call[c].op = "logout" => session[call[c].token] = None

Request(c) == Route(c) /\ Holds(c) /\ Outcome(c)

IInv ==
    /\ Kinds
    /\ \A t \in Tokens : Made(t)
    /\ DOMAIN login = Logins /\ \A r \in Logins : Knows(r)
    /\ \A c \in Calls : Request(c)

LEMMA InitEstablishes ==
    ASSUME AccountsAssumption, Init
    PROVE  IInv
<1>1. NoUser \in User
  BY DEF NoUser, User
<1>2. user \in User
  BY <1>1 DEF Init, User, AccountsAssumption
<1>3. Called \in Call /\ Called.pc = "idle" /\ ~Called.revoked
  BY <1>1 DEF Called, Call
<1>4. Kinds
  BY <1>2, <1>3 DEF Init, Kinds
<1>5. \A t \in Tokens : Made(t)
  BY <1>2 DEF Init, Made, User
<1>6. DOMAIN login = Logins /\ \A r \in Logins : Knows(r)
  BY <1>1, <1>2 DEF Init, Knows, Logged, User, NoUser
<1>7. \A c \in Calls : Request(c)
  BY <1>2 DEF Init, Called, NoUser, User, Request, Route, Holds, Outcome, OfSession
<1>8. QED
  BY <1>4, <1>5, <1>6, <1>7 DEF IInv

-----------------------------------------------------------------------------
(* What a step may do to the account. *)

\* The version grows with each change; a token is made once, and a session
\* that has gone stays away.
Grows ==
    /\ user' \in User /\ user.version <= user'.version
    /\ user' # user => user'.version = user.version + 1
    /\ session' \in [Tokens -> Row \cup {None}] /\ proof' \in [Tokens -> Nat]
    /\ \A t \in Tokens : Made(t)'
    /\ \A t \in Tokens : proof[t] > 0 =>
          /\ proof'[t] = proof[t]
          /\ session[t] = None => session'[t] = None

LEMMA UnchangedGrows ==
    ASSUME IInv, UNCHANGED account
    PROVE  Grows
BY DEF IInv, Kinds, User, Made, account, Grows

LEMMA NewSessionGrows ==
    ASSUME IInv, AccountsAssumption, UNCHANGED user, NEW t \in Tokens, NextToken(t),
           NEW v \in Nat, v <= user.version, NewSession(t, v)
    PROVE  Grows
<1>1. proof[t] = 0
  BY DEF NextToken, Tokens, AccountsAssumption
<1>2. [version |-> v, left |-> Lifetime] \in Row
  BY DEF Row, AccountsAssumption
<1>3. user \in User /\ user.version \in Nat
  BY DEF IInv, Kinds, User
<1>4. session' \in [Tokens -> Row \cup {None}] /\ proof' \in [Tokens -> Nat]
  BY <1>2 DEF NewSession, IInv, Kinds
<1>5. \A i \in Tokens : Made(i)'
  BY <1>2, <1>3 DEF NewSession, IInv, Kinds, Made
<1>6. \A i \in Tokens : proof[i] > 0 =>
        proof'[i] = proof[i] /\ (session[i] = None => session'[i] = None)
  BY <1>1 DEF NewSession, IInv, Kinds
<1>7. QED
  BY <1>3, <1>4, <1>5, <1>6 DEF Grows

\* Rows are deleted, and their time is moved.
LEMMA AgingGrows ==
    ASSUME IInv, UNCHANGED <<user, proof>>, session' \in [Tokens -> Row \cup {None}],
           \A t \in Tokens : session'[t] # None =>
              session[t] # None /\ session'[t].version = session[t].version
    PROVE  Grows
<1>1. user \in User /\ user.version \in Nat
  BY DEF IInv, Kinds, User
<1>2. \A t \in Tokens : Made(t)'
  BY <1>1 DEF IInv, Kinds, Made
<1>3. QED
  BY <1>1, <1>2 DEF Grows, IInv, Kinds

LEMMA SetupGrows ==
    ASSUME IInv, AccountsAssumption, user.version = 0,
           NEW t \in Tokens, NextToken(t), NewSession(t, 1),
           NEW p \in Passwords, user' = [version |-> 1, password |-> p]
    PROVE  Grows
<1>1. proof[t] = 0
  BY DEF NextToken, Tokens, AccountsAssumption
<1>2. [version |-> 1, left |-> Lifetime] \in Row
  BY DEF Row, AccountsAssumption
<1>3. user' \in User /\ user'.version = 1
  BY DEF User
<1>4. session' \in [Tokens -> Row \cup {None}] /\ proof' \in [Tokens -> Nat]
  BY <1>2 DEF NewSession, IInv, Kinds
<1>5. \A i \in Tokens : Made(i)'
  BY <1>2, <1>3 DEF NewSession, IInv, Kinds, Made
<1>6. \A i \in Tokens : proof[i] > 0 =>
        proof'[i] = proof[i] /\ (session[i] = None => session'[i] = None)
  BY <1>1 DEF NewSession, IInv, Kinds
<1>7. QED
  BY <1>3, <1>4, <1>5, <1>6 DEF Grows

LEMMA ReplaceGrows ==
    ASSUME IInv, AccountsAssumption, NEW c \in Calls,
           user.version = call[c].user.version, Replace(c)
    PROVE  Grows
<1>1. PICK t \in Tokens, p \in Passwords :
        /\ NextToken(t)
        /\ user' = [version |-> user.version + 1, password |-> p]
        /\ session' = [i \in Tokens |->
             IF i = t THEN [version |-> user.version + 1, left |-> Lifetime] ELSE None]
        /\ proof' = [proof EXCEPT ![t] = user.version + 1]
  BY DEF Replace
<1>2. proof[t] = 0
  BY <1>1 DEF NextToken, Tokens, AccountsAssumption
<1>3. user.version \in Nat
  BY DEF IInv, Kinds, User
<1>4. user' \in User /\ user'.version = user.version + 1
  BY <1>1, <1>3 DEF User
<1>5. [version |-> user.version + 1, left |-> Lifetime] \in Row
  BY <1>3 DEF Row, AccountsAssumption
<1>6. session' \in [Tokens -> Row \cup {None}] /\ proof' \in [Tokens -> Nat]
  BY <1>1, <1>3, <1>5 DEF IInv, Kinds
<1>7. \A i \in Tokens : Made(i)'
  BY <1>1, <1>3, <1>4, <1>5 DEF IInv, Kinds, Made
<1>8. \A i \in Tokens : proof[i] > 0 =>
        proof'[i] = proof[i] /\ (session[i] = None => session'[i] = None)
  BY <1>1, <1>2 DEF IInv, Kinds
<1>9. QED
  BY <1>3, <1>4, <1>6, <1>7, <1>8 DEF Grows

-----------------------------------------------------------------------------
(* The invariant through a step of the account. *)

\* A request that does not move keeps what it holds.
LEMMA RequestStands ==
    ASSUME IInv, Grows, NEW c \in Calls, call'[c] = call[c]
    PROVE  Request(c)'
<1>1. /\ call[c] \in Call /\ call[c].user.version \in Nat /\ Request(c)
      /\ user.version \in Nat /\ user'.version \in Nat
  BY DEF IInv, Kinds, Call, User, Grows
<1>2. Route(c)'
  BY <1>1 DEF Request, Route
<1>3. Holds(c)'
  <2>1. call[c].pc \notin {"idle", "refused"} /\ call[c].op \in OfSession =>
          call[c].token \in Tokens /\ proof[call[c].token] > 0
             /\ proof'[call[c].token] = proof[call[c].token]
    BY <1>1 DEF Request, Holds, Grows
  <2>2. call[c].pc = "user" => call[c].op \in OfSession
    BY <1>1 DEF Request, Route
  <2>3. user'.version = call[c].user.version => user' = user
    BY <1>1 DEF Request, Holds, Grows
  <2>4. QED
    BY <1>1, <2>1, <2>2, <2>3 DEF Request, Holds, Grows
<1>4. Outcome(c)'
  <2>1. call[c].pc \notin {"idle", "refused"} /\ call[c].op \in OfSession =>
          LET t == call[c].token IN
             /\ proof'[t] = proof[t] /\ (session[t] = None => session'[t] = None)
             /\ proof[t] \in Nat
    BY <1>1 DEF Request, Holds, Grows, IInv, Kinds
  <2>2. call[c].revoked => Lapsed(call[c].token)'
    BY <1>1, <2>1 DEF Request, Outcome, Lapsed, Grows
  <2>3. call[c].pc = "user" /\ call[c].row.version < user.version =>
          call[c].row.version < user'.version
    BY <1>1 DEF Request, Holds, Row, Grows
  <2>4. QED
    BY <1>1, <2>1, <2>2, <2>3 DEF Request, Outcome, OfSession
<1>5. QED
  BY <1>2, <1>3, <1>4 DEF Request

LEMMA LoginStands ==
    ASSUME IInv, Grows, NEW r \in Logins, login'[r] = login[r] \/ login'[r] = Logged
    PROVE  Knows(r)'
BY DEF IInv, Kinds, Grows, Knows, Logged, NoUser, User

\* A step of one login, or of none.
LEMMA LoginsMove ==
    ASSUME IInv, Grows, UNCHANGED call, DOMAIN login' = Logins,
           \A r \in Logins : login'[r] = login[r] \/ login'[r] = Logged \/ Knows(r)'
    PROVE  IInv'
<1>1. \A r \in Logins : Knows(r)'
  BY LoginStands
<1>2. \A c \in Calls : Request(c)'
  BY RequestStands
<1>3. QED
  BY <1>1, <1>2 DEF IInv, Kinds, Grows

\* A step of one request.
LEMMA CallMoves ==
    ASSUME IInv, Grows, UNCHANGED login, NEW c \in Calls, NEW rec \in Call,
           call' = [call EXCEPT ![c] = rec], Request(c)'
    PROVE  IInv'
<1>1. \A r \in Logins : Knows(r)'
  BY LoginStands
<1>2. \A d \in Calls : Request(d)'
  <2> SUFFICES ASSUME NEW d \in Calls, d # c PROVE Request(d)'
    OBVIOUS
  <2>1. call'[d] = call[d]
    BY DEF IInv, Kinds
  <2>2. QED
    BY <2>1, RequestStands
<1>3. call' \in [Calls -> Call]
  BY DEF IInv, Kinds
<1>4. QED
  BY <1>1, <1>2, <1>3 DEF IInv, Kinds, Grows

-----------------------------------------------------------------------------
(* Logins. *)

LEMMA FinishMoves ==
    ASSUME IInv, NEW r \in Logins, NEW result, Finish(r, result)
    PROVE  /\ DOMAIN login' = Logins
           /\ \A q \in Logins : login'[q] = login[q] \/ login'[q] = Logged
BY DEF Finish, IInv

LEMMA AdmittedMoves ==
    ASSUME IInv, Grows, NEW r \in Logins, NEW k, NEW b, Admitted(r, k, b)
    PROVE  /\ DOMAIN login' = Logins
           /\ \A q \in Logins : login'[q] = login[q] \/ Knows(q)'
BY DEF IInv, Kinds, Grows, Admitted, Knows, NoUser, User

LEMMA BeginKeeps ==
    ASSUME IInv, AccountsAssumption, NEW r \in Logins, NEW k \in Keys, Begin(r, k)
    PROVE  IInv'
<1>1. Grows
  BY UnchangedGrows DEF Begin
<1>2. \E b : Admitted(r, k, b)
  BY DEF Begin
<1>3. UNCHANGED call
  BY DEF Begin
<1>4. QED
  BY <1>1, <1>2, <1>3, AdmittedMoves, LoginsMove

LEMMA ReadUserKeeps ==
    ASSUME IInv, AccountsAssumption, NEW r \in Logins, ReadUser(r)
    PROVE  IInv'
<1>1. Grows /\ UNCHANGED <<call, user>>
  BY UnchangedGrows DEF ReadUser, account
<1>2. CASE login' = [login EXCEPT ![r].pc = "read", ![r].user = user]
  <2>1. DOMAIN login' = Logins /\ \A q \in Logins : login'[q] = login[q] \/ Knows(q)'
    BY <1>1, <1>2 DEF IInv, Kinds, Knows, User
  <2>2. QED
    BY <1>1, <2>1, LoginsMove
<1>3. CASE Finish(r, "failure")
  BY <1>1, <1>3, FinishMoves, LoginsMove
<1>4. QED
  BY <1>2, <1>3 DEF ReadUser

LEMMA AcquireKeeps ==
    ASSUME IInv, AccountsAssumption, NEW r \in Logins, Acquire(r)
    PROVE  IInv'
<1>1. Grows /\ UNCHANGED <<call, user>>
  BY UnchangedGrows DEF Acquire, account
<1>2. CASE GoTo(r, "checking")
  <2>1. DOMAIN login' = Logins /\ \A q \in Logins : login'[q] = login[q] \/ Knows(q)'
    BY <1>1, <1>2 DEF IInv, Knows, GoTo
  <2>2. QED
    BY <1>1, <2>1, LoginsMove
<1>3. CASE Finish(r, "cancel")
  BY <1>1, <1>3, FinishMoves, LoginsMove
<1>4. QED
  BY <1>2, <1>3 DEF Acquire

\* The session a login makes is for the account it has read.
LEMMA LoginSessionGrows ==
    ASSUME IInv, AccountsAssumption, NEW r \in Logins, UNCHANGED user,
           \E t \in Tokens : NextToken(t) /\ NewSession(t, login[r].user.version)
    PROVE  Grows
<1>1. login[r].user.version \in Nat /\ login[r].user.version <= user.version
  BY DEF IInv, Knows, User
<1>2. QED
  BY <1>1, NewSessionGrows

LEMMA VerifyKeeps ==
    ASSUME IInv, AccountsAssumption, NEW r \in Logins, Verify(r)
    PROVE  IInv'
<1>1. Grows
  BY UnchangedGrows, LoginSessionGrows DEF Verify
<1>2. UNCHANGED call /\ \E result : Finish(r, result)
  BY DEF Verify
<1>3. QED
  BY <1>1, <1>2, FinishMoves, LoginsMove

LEMMA CallerLeavesKeeps ==
    ASSUME IInv, AccountsAssumption, NEW r \in Logins, CallerLeaves(r)
    PROVE  IInv'
<1>1. Grows
  BY UnchangedGrows, LoginSessionGrows DEF CallerLeaves
<1>2. UNCHANGED call /\ Finish(r, "cancel")
  BY DEF CallerLeaves
<1>3. QED
  BY <1>1, <1>2, FinishMoves, LoginsMove

-----------------------------------------------------------------------------
(* Other requests. *)

LEMMA CallShaped ==
    /\ Called \in Call
    /\ \A pc \in {"count", "refused"} : [Called EXCEPT !.pc = pc] \in Call
BY DEF Called, Call, NoUser, User

\* A request that goes on with what it holds.
LEMMA StepShaped ==
    ASSUME IInv, NEW c \in Calls, NEW pc, Step(c, pc),
           pc \in {"idle", "count", "checking", "session", "expired", "user", "extend", "read",
                   "logout", "update", "leave", "reread", "accepted", "refused"}
    PROVE  \E rec \in Call : /\ call' = [call EXCEPT ![c] = rec]
                             /\ rec.pc = pc /\ rec.op = call[c].op
                             /\ rec.token = call[c].token /\ rec.row = call[c].row
                             /\ rec.user = call[c].user /\ rec.revoked = call[c].revoked
<1>1. call[c] \in Call
  BY DEF IInv, Kinds
<1>2. [call[c] EXCEPT !.pc = pc] \in Call
  BY <1>1 DEF Call
<1> WITNESS [call[c] EXCEPT !.pc = pc] \in Call
<1>3. QED
  BY <1>1 DEF Step, Call

LEMMA RefuseKeeps ==
    ASSUME IInv, Grows, NEW c \in Calls, Refuse(c), UNCHANGED login
    PROVE  IInv'
<1> DEFINE rec == [Called EXCEPT !.pc = "refused"]
<1>1. rec \in Call /\ call' = [call EXCEPT ![c] = rec] /\ call'[c] = rec
  BY CallShaped DEF Refuse, IInv, Kinds
<1>2. Request(c)'
  BY <1>1 DEF Called, NoUser, Request, Route, Holds, Outcome, OfSession, Grows, User
<1>3. QED
  BY <1>1, <1>2, CallMoves

LEMMA ArriveKeeps ==
    ASSUME IInv, AccountsAssumption, NEW c \in Calls, Arrive(c)
    PROVE  IInv'
<1>1. Grows /\ UNCHANGED <<login, user, session, proof>>
  BY UnchangedGrows DEF Arrive, account
<1>2. call[c] = Called
  BY DEF Arrive, IInv, Request, Route
<1>3. user.version \in Nat
  BY DEF IInv, Kinds, User
<1>4. CASE call' = [call EXCEPT ![c].pc = "count", ![c].op = "setup"]
  <2> DEFINE rec == [Called EXCEPT !.pc = "count", !.op = "setup"]
  <2>1. rec \in Call /\ ~rec.revoked /\ rec.user.version = 0
    BY DEF Called, Call, NoUser, User
  <2>2. call' = [call EXCEPT ![c] = rec] /\ call'[c] = rec
    BY <1>2, <1>4 DEF IInv, Kinds
  <2>3. Request(c)'
    <3>1. /\ call'[c].pc = "count" /\ call'[c].op = "setup" /\ ~call'[c].revoked
          /\ call'[c].user.version = 0
      BY <2>1, <2>2 DEF Called
    <3>2. Route(c)' /\ Outcome(c)'
      BY <3>1 DEF Route, Outcome, OfSession
    <3>3. Holds(c)'
      BY <1>1, <1>3, <3>1 DEF Holds, OfSession
    <3>4. QED
      BY <3>2, <3>3 DEF Request
  <2>4. QED
    BY <1>1, <2>1, <2>2, <2>3, CallMoves
<1>5. CASE \E t \in Tokens, op \in {"read", "logout", "update"}, p \in Passwords :
             /\ proof[t] > 0
             /\ op # "update" => p = CHOOSE q \in Passwords : TRUE
             /\ call' = [call EXCEPT ![c] = [Called EXCEPT !.pc = "session", !.op = op, !.token = t,
                                                           !.guess = p, !.revoked = ~Standing(t)]]
  <2>1. PICK t \in Tokens, op \in {"read", "logout", "update"}, p \in Passwords :
             /\ proof[t] > 0
             /\ op # "update" => p = CHOOSE q \in Passwords : TRUE
             /\ call' = [call EXCEPT ![c] = [Called EXCEPT !.pc = "session", !.op = op, !.token = t,
                                                           !.guess = p, !.revoked = ~Standing(t)]]
    BY <1>5
  <2> DEFINE gone == ~Standing(t)
  <2> DEFINE rec == [Called EXCEPT !.pc = "session", !.op = op, !.token = t,
                                   !.guess = p, !.revoked = gone]
  <2>2. gone \in BOOLEAN
    BY DEF Standing
  <2> HIDE DEF gone
  <2>3. /\ rec \in Call /\ rec.user.version = 0 /\ rec.pc = "session" /\ rec.op = op
        /\ rec.token = t /\ rec.revoked = gone
    <3>1. \A x \in Call : LET y == [x EXCEPT !.pc = "session", !.op = op, !.token = t,
                                           !.guess = p, !.revoked = gone]
                          IN  /\ y \in Call /\ y.user = x.user /\ y.pc = "session" /\ y.op = op
                              /\ y.token = t /\ y.revoked = gone
      BY <2>2 DEF Call
    <3>2. Called \in Call /\ Called.user.version = 0
      BY CallShaped DEF Called, NoUser
    <3>3. QED
      BY <3>1, <3>2
  <2>4. call' = [call EXCEPT ![c] = rec] /\ call'[c] = rec
    <3>1. call' = [call EXCEPT ![c] = rec]
      BY <2>1 DEF gone
    <3> HIDE DEF rec
    <3>2. QED
      BY <3>1 DEF IInv, Kinds
  <2> HIDE DEF rec
  <2>5. ~Standing(t) => Lapsed(t)
    BY <1>3 DEF Standing, Lapsed, IInv, Kinds, Made
  <2>6. ~Standing(t) => Lapsed(t)'
    BY <1>1, <2>5 DEF Lapsed
  <2>7. Request(c)'
    <3>1. /\ call'[c].pc = "session" /\ call'[c].op = op /\ (call'[c].revoked => ~Standing(t))
          /\ call'[c].token = t /\ call'[c].user.version = 0
      BY <2>3, <2>4, Zenon DEF gone
    <3>2. Route(c)' /\ Outcome(c)'
      BY <2>6, <3>1 DEF Route, Outcome, OfSession
    <3>3. Holds(c)'
      BY <1>1, <1>3, <2>1, <3>1 DEF Holds, OfSession
    <3>4. QED
      BY <3>2, <3>3 DEF Request
  <2>8. QED
    BY <1>1, <2>3, <2>4, <2>7, CallMoves
<1>6. QED
  BY <1>4, <1>5, Zenon DEF Arrive

\* What the call of a request is, from the invariant.
LEMMA CallFacts ==
    ASSUME IInv, NEW c \in Calls
    PROVE  /\ call[c] \in Call /\ Request(c)
           /\ call[c].user.version \in Nat /\ user.version \in Nat /\ user \in User
BY DEF IInv, Kinds, Call, User

\* A step that changes nothing but where a request stands, or to its outcome.
LEMMA StepKeeps ==
    ASSUME IInv, Grows, UNCHANGED login, NEW c \in Calls, NEW pc, Step(c, pc),
           pc \in {"checking", "expired", "extend", "read", "logout", "update", "leave",
                   "reread", "accepted"},
           pc = "expired" => call[c].pc = "session",
           pc # "expired" => ~call[c].revoked,
           pc \in {"expired", "extend"} => call[c].op \in OfSession,
           pc \in OfSession => call[c].op = pc,
           pc = "leave" => call[c].op = "logout",
           pc = "reread" => call[c].op = "update",
           pc = "checking" => call[c].op # "update",
           call[c].op \in OfSession => call[c].pc \notin {"idle", "refused"},
           pc = "accepted" /\ call[c].op = "logout" => session'[call[c].token] = None
    PROVE  IInv'
<1>1. PICK rec \in Call :
        /\ call' = [call EXCEPT ![c] = rec] /\ rec.pc = pc /\ rec.op = call[c].op
        /\ rec.token = call[c].token /\ rec.row = call[c].row
        /\ rec.user = call[c].user /\ rec.revoked = call[c].revoked
  BY StepShaped
<1>2. call'[c] = rec
  BY <1>1 DEF IInv, Kinds
<1>3. Request(c) /\ call[c].user.version \in Nat /\ user.version \in Nat /\ user'.version \in Nat
  BY CallFacts DEF Grows, User
<1>4. Route(c)'
  BY <1>1, <1>2 DEF Route
<1>5. call[c].op \in OfSession => call[c].token \in Tokens /\ proof[call[c].token] > 0
  BY <1>3 DEF Request, Holds
<1>6. Holds(c)'
  BY <1>1, <1>2, <1>3, <1>5 DEF Request, Holds, Grows, OfSession
<1>7. Outcome(c)'
  <2>1. rec.revoked =>
          pc = "expired" /\ call[c].op \in OfSession /\ Lapsed(call[c].token)
    BY <1>1, <1>3 DEF Request, Outcome
  <2>2. rec.revoked => session'[rec.token] = None \/ proof'[rec.token] < user'.version
    BY <1>1, <1>3, <1>5, <2>1 DEF Lapsed, Grows, IInv, Kinds
  <2>3. QED
    BY <1>1, <1>2, <2>1, <2>2 DEF Outcome, Lapsed
<1>8. QED
  BY <1>1, <1>2, <1>4, <1>6, <1>7, CallMoves DEF Request

LEMMA CountKeeps ==
    ASSUME IInv, AccountsAssumption, NEW c \in Calls, Count(c)
    PROVE  IInv'
<1>1. Grows /\ UNCHANGED login
  BY UnchangedGrows DEF Count
<1>2. call[c].op = "setup" /\ ~call[c].revoked
  BY CallFacts DEF Count, Request, Route, Outcome, OfSession
<1>3. CASE Refuse(c)
  BY <1>1, <1>3, RefuseKeeps
<1>4. CASE Step(c, "checking")
  BY <1>1, <1>2, <1>4, StepKeeps DEF OfSession
<1>5. QED
  BY <1>3, <1>4 DEF Count

LEMMA SetupKeeps ==
    ASSUME IInv, AccountsAssumption, NEW c \in Calls, Setup(c)
    PROVE  IInv'
<1>1. UNCHANGED login
  BY DEF Setup
<1>2. call[c].op = "setup" /\ ~call[c].revoked
  BY CallFacts DEF Setup, Request, Outcome, OfSession
<1>3. CASE Refuse(c) /\ UNCHANGED account
  BY <1>1, <1>3, RefuseKeeps, UnchangedGrows
<1>4. CASE ~(Refuse(c) /\ UNCHANGED account)
  <2>1. Grows /\ Step(c, "accepted")
    BY <1>4, SetupGrows DEF Setup
  <2>2. QED
    BY <1>1, <1>2, <2>1, StepKeeps DEF OfSession
<1>5. QED
  BY <1>3, <1>4

LEMMA ReadSessionKeeps ==
    ASSUME IInv, AccountsAssumption, NEW c \in Calls, ReadSession(c)
    PROVE  IInv'
<1> DEFINE t == call[c].token
<1>1. Grows /\ UNCHANGED <<login, user, session, proof>>
  BY UnchangedGrows DEF ReadSession, account
<1>2. /\ call[c].pc = "session" /\ call[c].op \in OfSession /\ t \in Tokens /\ proof[t] > 0
      /\ call[c] \in Call /\ Request(c) /\ call[c].user.version \in Nat /\ user.version \in Nat
  BY CallFacts DEF ReadSession, Request, Route, Holds
<1>3. CASE Refuse(c)
  BY <1>1, <1>3, RefuseKeeps
<1>4. CASE session[t] # None /\ call' = [call EXCEPT ![c].pc = "user", ![c].row = session[t]]
  <2>1. session[t] \in Row /\ session[t].version = proof[t] /\ proof[t] \in Nat
    BY <1>2, <1>4 DEF IInv, Kinds, Made
  <2> DEFINE rec == [call[c] EXCEPT !.pc = "user", !.row = session[t]]
  <2>2. /\ rec \in Call /\ rec.pc = "user" /\ rec.op = call[c].op /\ rec.token = t
        /\ rec.row = session[t] /\ rec.user = call[c].user /\ rec.revoked = call[c].revoked
    BY <1>2, <2>1 DEF Call
  <2>3. call' = [call EXCEPT ![c] = rec] /\ call'[c] = rec
    BY <1>4 DEF IInv, Kinds
  <2> HIDE DEF rec
  <2>4. Route(c)'
    BY <1>2, <2>2, <2>3 DEF Route, OfSession
  <2>5. Holds(c)'
    BY <1>1, <1>2, <2>1, <2>2, <2>3 DEF Holds, Request
  <2>6. Outcome(c)'
    <3>1. call[c].revoked => proof[t] < user.version
      BY <1>2, <1>4, <2>1 DEF Request, Outcome, Lapsed
    <3>2. QED
      BY <1>1, <1>2, <2>1, <2>2, <2>3, <3>1 DEF Outcome, Lapsed
  <2>7. QED
    BY <1>1, <2>2, <2>3, <2>4, <2>5, <2>6, CallMoves DEF Request
<1>5. CASE Step(c, "expired")
  BY <1>1, <1>2, <1>5, StepKeeps DEF OfSession
<1>6. QED
  BY <1>3, <1>4, <1>5 DEF ReadSession

LEMMA DeleteExpiredKeeps ==
    ASSUME IInv, AccountsAssumption, NEW c \in Calls, DeleteExpired(c)
    PROVE  IInv'
<1>1. Grows
  BY AgingGrows DEF DeleteExpired, IInv, Kinds
<1>2. QED
  BY <1>1, RefuseKeeps DEF DeleteExpired

\* A request with a session that is past the check of the account.
LEMMA PastTheCheck ==
    ASSUME IInv, NEW c \in Calls,
           call[c].pc \in {"extend", "read", "logout", "update", "leave", "reread"}
    PROVE  /\ call[c].op \in OfSession /\ ~call[c].revoked
           /\ call[c].token \in Tokens /\ proof[call[c].token] > 0
BY CallFacts DEF Request, Route, Holds, Outcome, OfSession

\* A request that reads the account, and goes on with it.
Reads(c, pc) == call' = [call EXCEPT ![c].pc = pc, ![c].user = user]
LEMMA AccountRead ==
    ASSUME IInv, UNCHANGED <<login, user, session, proof>>, NEW c \in Calls, NEW pc,
           call[c].pc \in {"user", "reread"}, ~call[c].revoked,
           \/ pc \in OfSession /\ call[c].op = pc
           \/ pc = "extend"
           \/ pc = "checking" /\ call[c].op = "update",
           Reads(c, pc)
    PROVE  IInv'
<1>1. Grows
  BY UnchangedGrows DEF account
<1>2. /\ call[c] \in Call /\ Request(c) /\ user.version \in Nat /\ user \in User
      /\ call[c].op \in OfSession
  BY CallFacts DEF Request, Route, OfSession
<1> DEFINE rec == [call[c] EXCEPT !.pc = pc, !.user = user]
<1>3. /\ rec \in Call /\ rec.pc = pc /\ rec.op = call[c].op /\ rec.token = call[c].token
      /\ rec.user = user /\ rec.revoked = call[c].revoked
  BY <1>2 DEF Call, OfSession
<1>4. call' = [call EXCEPT ![c] = rec] /\ call'[c] = rec
  BY DEF IInv, Kinds, Reads
<1> HIDE DEF rec
<1>5. Route(c)'
  BY <1>2, <1>3, <1>4 DEF Route, OfSession
<1>6. Holds(c)'
  BY <1>2, <1>3, <1>4 DEF Holds, Request, OfSession
<1>7. Outcome(c)'
  BY <1>3, <1>4 DEF Outcome, OfSession
<1>8. QED
  BY <1>1, <1>3, <1>4, <1>5, <1>6, <1>7, CallMoves DEF Request

LEMMA CheckUserKeeps ==
    ASSUME IInv, AccountsAssumption, NEW c \in Calls, CheckUser(c)
    PROVE  IInv'
<1>1. Grows /\ UNCHANGED <<login, user, session, proof>>
  BY UnchangedGrows DEF CheckUser, account
<1>2. CASE Refuse(c)
  BY <1>1, <1>2, RefuseKeeps
<1>3. CASE user.version = call[c].row.version
  <2>1. call[c].pc = "user" /\ ~call[c].revoked /\ call[c].op \in OfSession
    BY <1>3, CallFacts DEF CheckUser, Request, Route, Outcome, OfSession
  <2> DEFINE pc == IF call[c].row.left <= Lifetime - ExtendAfter THEN "extend" ELSE call[c].op
  <2>2. Reads(c, pc)
    BY <1>3 DEF CheckUser, Reads
  <2>3. pc = "extend" \/ (pc \in OfSession /\ call[c].op = pc)
    BY <2>1
  <2> HIDE DEF pc
  <2>4. QED
    BY <1>1, <2>1, <2>2, <2>3, AccountRead
<1>4. QED
  BY <1>2, <1>3 DEF CheckUser

LEMMA ExtendKeeps ==
    ASSUME IInv, AccountsAssumption, NEW c \in Calls, Extend(c)
    PROVE  IInv'
<1> DEFINE t == call[c].token
<1>1. call[c].op \in OfSession /\ ~call[c].revoked /\ t \in Tokens
  BY PastTheCheck DEF Extend
<1>2. session[t] # None =>
        /\ [session[t] EXCEPT !.left = Lifetime] \in Row
        /\ [session[t] EXCEPT !.left = Lifetime].version = session[t].version
  <2> SUFFICES ASSUME session[t] # None
               PROVE  /\ [session[t] EXCEPT !.left = Lifetime] \in Row
                      /\ [session[t] EXCEPT !.left = Lifetime].version = session[t].version
    OBVIOUS
  <2>1. session[t] \in Row
    BY <1>1 DEF IInv, Kinds
  <2>2. QED
    BY <2>1 DEF Row, AccountsAssumption
<1>3. /\ session' \in [Tokens -> Row \cup {None}]
      /\ \A i \in Tokens : session'[i] # None =>
            session[i] # None /\ session'[i].version = session[i].version
  BY <1>1, <1>2 DEF Extend, IInv, Kinds
<1>4. Grows
  BY <1>3, AgingGrows DEF Extend
<1>5. QED
  BY <1>1, <1>4, StepKeeps DEF Extend, OfSession

LEMMA ReadKeeps ==
    ASSUME IInv, AccountsAssumption, NEW c \in Calls, Read(c)
    PROVE  IInv'
<1>1. Grows /\ UNCHANGED login
  BY UnchangedGrows DEF Read
<1>2. ~call[c].revoked /\ call[c].op = "read"
  BY PastTheCheck, CallFacts DEF Read, Request, Route, OfSession
<1>3. QED
  BY <1>1, <1>2, StepKeeps DEF Read, OfSession

LEMMA ValidateCSRFKeeps ==
    ASSUME IInv, AccountsAssumption, NEW c \in Calls, ValidateCSRF(c)
    PROVE  IInv'
<1>1. Grows /\ UNCHANGED login
  BY UnchangedGrows DEF ValidateCSRF
<1>2. ~call[c].revoked /\ call[c].op = call[c].pc /\ call[c].pc \in {"logout", "update"}
  BY PastTheCheck, CallFacts DEF ValidateCSRF, Request, Route, OfSession
<1>3. CASE Refuse(c)
  BY <1>1, <1>3, RefuseKeeps
<1>4. CASE Step(c, IF call[c].op = "logout" THEN "leave" ELSE "reread")
  BY <1>1, <1>2, <1>4, StepKeeps DEF OfSession
<1>5. QED
  BY <1>3, <1>4 DEF ValidateCSRF

LEMMA LogoutKeeps ==
    ASSUME IInv, AccountsAssumption, NEW c \in Calls, Logout(c)
    PROVE  IInv'
<1>1. ~call[c].revoked /\ call[c].op = "logout" /\ call[c].token \in Tokens
  BY PastTheCheck, CallFacts DEF Logout, Request, Route
<1>2. Grows
  BY AgingGrows DEF Logout, IInv, Kinds
<1>3. session'[call[c].token] = None
  BY <1>1 DEF Logout, IInv, Kinds
<1>4. QED
  BY <1>1, <1>2, <1>3, StepKeeps DEF Logout, OfSession

LEMMA RereadKeeps ==
    ASSUME IInv, AccountsAssumption, NEW c \in Calls, Reread(c)
    PROVE  IInv'
<1>1. Grows /\ UNCHANGED <<login, user, session, proof>>
  BY UnchangedGrows DEF Reread, account
<1>2. ~call[c].revoked /\ call[c].op = "update"
  BY PastTheCheck, CallFacts DEF Reread, Request, Route
<1>3. CASE Refuse(c)
  BY <1>1, <1>3, RefuseKeeps
<1>4. CASE Reads(c, "checking")
  BY <1>1, <1>2, <1>4, AccountRead DEF Reread
<1>5. QED
  BY <1>3, <1>4 DEF Reread, Reads

\* The one that replaces the credentials is served: nothing else is asked of it.
LEMMA UpdateKeeps ==
    ASSUME IInv, AccountsAssumption, NEW c \in Calls, Update(c)
    PROVE  IInv'
<1>1. CASE Refuse(c) /\ UNCHANGED account
  BY <1>1, RefuseKeeps, UnchangedGrows DEF Update
<1>2. CASE ~(Refuse(c) /\ UNCHANGED account)
  <2>1. /\ user.version = call[c].user.version /\ Replace(c) /\ UNCHANGED login
        /\ call[c].pc = "checking" /\ call[c].op = "update"
    BY <1>2 DEF Update
  <2>2. Grows /\ Step(c, "accepted")
    BY <2>1, ReplaceGrows DEF Replace
  <2>3. ~call[c].revoked
    BY <2>1, CallFacts DEF Request, Outcome
  <2>4. QED
    BY <2>1, <2>2, <2>3, StepKeeps DEF OfSession
<1>3. QED
  BY <1>1, <1>2

LEMMA TickKeeps ==
    ASSUME IInv, AccountsAssumption, Tick
    PROVE  IInv'
<1>1. \A t \in Tokens : session[t] # None =>
        /\ [session[t] EXCEPT !.left = Sooner(@)] \in Row
        /\ [session[t] EXCEPT !.left = Sooner(@)].version = session[t].version
  <2> SUFFICES ASSUME NEW t \in Tokens, session[t] # None
               PROVE  /\ [session[t] EXCEPT !.left = Sooner(@)] \in Row
                      /\ [session[t] EXCEPT !.left = Sooner(@)].version = session[t].version
    OBVIOUS
  <2>1. session[t] \in Row
    BY DEF IInv, Kinds
  <2>2. QED
    BY <2>1 DEF Row, Sooner, AccountsAssumption
<1>2. /\ session' \in [Tokens -> Row \cup {None}]
      /\ \A t \in Tokens : session'[t] # None =>
            session[t] # None /\ session'[t].version = session[t].version
  BY <1>1 DEF Tick
<1>3. Grows
  BY <1>2, AgingGrows DEF Tick
<1>4. QED
  BY <1>3, LoginsMove DEF Tick, IInv

-----------------------------------------------------------------------------
LEMMA NextKeeps ==
    ASSUME AccountsAssumption
    PROVE  IInv /\ [Next]_vars => IInv'
<1> SUFFICES ASSUME IInv, [Next]_vars PROVE IInv'
  OBVIOUS
<1>1. CASE \E r \in Logins, k \in Keys : Begin(r, k)
  BY <1>1, BeginKeeps
<1>9. CASE \E k \in Keys : Refused(k)
  <2>1. Grows /\ UNCHANGED <<login, call>>
    BY <1>9, UnchangedGrows DEF Refused
  <2>2. QED
    BY <2>1, LoginsMove DEF IInv
<1>2. CASE \E r \in Logins : ReadUser(r) \/ Acquire(r) \/ Verify(r) \/ CallerLeaves(r)
  BY <1>2, ReadUserKeeps, AcquireKeeps, VerifyKeeps, CallerLeavesKeeps
<1>3. CASE \E c \in Calls : Arrive(c) \/ Count(c) \/ Setup(c) \/ ReadSession(c) \/ DeleteExpired(c)
  BY <1>3, ArriveKeeps, CountKeeps, SetupKeeps, ReadSessionKeeps, DeleteExpiredKeeps
<1>4. CASE \E c \in Calls : CheckUser(c) \/ Extend(c) \/ Read(c) \/ ValidateCSRF(c)
  BY <1>4, CheckUserKeeps, ExtendKeeps, ReadKeeps, ValidateCSRFKeeps
<1>5. CASE \E c \in Calls : Logout(c) \/ Reread(c) \/ Update(c)
  BY <1>5, LogoutKeeps, RereadKeeps, UpdateKeeps
<1>6. CASE Tick
  BY <1>6, TickKeeps
<1>7. CASE UNCHANGED vars
  <2>1. Grows
    BY <1>7, UnchangedGrows DEF vars, account
  <2>2. QED
    BY <1>7, <2>1, LoginsMove DEF vars, IInv
<1>8. QED
  BY <1>1, <1>2, <1>3, <1>4, <1>5, <1>6, <1>7, <1>9 DEF Next

\* In every reachable state, sessions carry the version they were made for, and
\* requests know an account that was.
THEOREM InvariantHolds ==
    ASSUME AccountsAssumption
    PROVE  Spec => []IInv
<1>1. Init => IInv
  BY InitEstablishes
<1>2. IInv /\ [Next]_vars => IInv'
  BY NextKeeps
<1>3. QED
  BY <1>1, <1>2, PTL DEF Spec

\* Whoever is served has a session that was made with the credentials in force
\* and had not been revoked when the request came, whatever logins, logouts and
\* changes overlap.
THEOREM SessionsCarryTheCredentials ==
    ASSUME AccountsAssumption
    PROVE  Spec => [](SessionsAreCurrent /\ RevokedAreRefused)
<1>1. IInv => SessionsAreCurrent /\ RevokedAreRefused
  <2> SUFFICES ASSUME IInv PROVE SessionsAreCurrent /\ RevokedAreRefused
    OBVIOUS
  <2>1. \A t \in Tokens : Current(t) => proof[t] = user.version
    BY DEF IInv, Made, Current, Standing
  <2>2. \A c \in Calls : call[c].pc = "accepted" =>
          ~call[c].revoked /\ (call[c].op = "logout" => session[call[c].token] = None)
    BY DEF IInv, Request, Outcome
  <2>3. QED
    BY <2>1, <2>2 DEF SessionsAreCurrent, RevokedAreRefused
<1>2. QED
  BY <1>1, InvariantHolds, PTL

\* The credentials change by one request at a time, which has verified the
\* password it replaces, and one setup succeeds.
THEOREM CredentialsChangeSerially ==
    ASSUME AccountsAssumption
    PROVE  Spec => CredentialsSerial
<1> DEFINE Serially ==
      user # user' =>
          /\ user'.version = user.version + 1
          /\ \E c \in Calls :
                /\ call'[c].pc = "accepted" /\ call[c].pc = "checking"
                /\ user.version > 0 => call[c].guess = user.password
<1>1. IInv /\ [Next]_vars => [Serially]_vars
  <2> SUFFICES ASSUME IInv, Next, user # user' PROVE Serially
    BY DEF vars
  <2>1. PICK c \in Calls :
          \/ Setup(c) /\ ~UNCHANGED account
          \/ Update(c) /\ ~UNCHANGED account
    BY DEF Next, Begin, Refused, ReadUser, Acquire, Verify, CallerLeaves, Arrive, Count, ReadSession,
       DeleteExpired, CheckUser, Extend, Read, ValidateCSRF, Logout, Reread, Tick, account,
       Setup, Update
  <2>2. Step(c, "accepted") /\ call[c].pc = "checking"
    BY <2>1 DEF Setup, Update, Replace
  <2>3. call'[c].pc = "accepted"
    BY <2>2, CallFacts DEF Step, IInv, Kinds, Call
  <2>4. user'.version = user.version + 1
    BY <2>1, CallFacts DEF Setup, Update, Replace
  <2>5. user.version > 0 => call[c].guess = user.password
    BY <2>1, CallFacts DEF Setup, Update, Verified, Request, Holds
  <2>6. QED
    BY <2>2, <2>3, <2>4, <2>5
<1>2. QED
  BY <1>1, InvariantHolds, PTL DEF Spec, CredentialsSerial

-----------------------------------------------------------------------------
(* Admission: the inductive invariant of the attempts of a key.            *)

Progress == [pc : {"idle", "reserved", "read", "checking"}, key : Keys \cup {None},
             bucket : Buckets \cup {None}, guess : Passwords \cup {None}, user : User]

\* Failures that still count.
Live(b) == Len(b.failures) - Stale(b.failures)

\* An attempt under way holds the bucket the table has for its key.
Reserved(r) ==
    IF login[r].pc = "idle" THEN login[r].bucket = None
    ELSE login[r].key \in Keys /\ login[r].bucket \in Buckets
         /\ table[login[r].key] = login[r].bucket

\* A bucket in the table counts the attempts of its key, within the limit.
Counted(k) ==
    table[k] # None =>
        /\ bucket[table[k]].inFlight = Cardinality(Attempts(k))
        /\ Live(bucket[table[k]]) + Cardinality(Attempts(k)) <= Limit

AdmissionKinds ==
    /\ login \in [Logins -> Progress]
    /\ table \in [Keys -> Buckets \cup {None}]
    /\ bucket \in [Buckets -> Bucket]

AInv ==
    /\ AdmissionKinds
    /\ \A r \in Logins : Reserved(r)
    /\ \A i, k \in Keys : table[i] # None /\ table[i] = table[k] => i = k
    /\ \A k \in Keys : Counted(k)
    /\ IsFiniteSet(Listed) /\ Cardinality(Listed) <= MaxBuckets

-----------------------------------------------------------------------------
(* Buckets. *)

LEMMA StaleBound ==
    ASSUME NEW f \in Seq(0 .. Window), AccountsAssumption
    PROVE  Stale(f) \in 0 .. Len(f)
<1> DEFINE old == {i \in DOMAIN f : f[i] >= Window}
<1>1. IsFiniteSet(1 .. Len(f)) /\ Cardinality(1 .. Len(f)) = Len(f)
  <2>1. Len(f) \in Nat
    OBVIOUS
  <2>2. QED
    BY <2>1, FS_Interval
<1>2. old \in SUBSET (1 .. Len(f))
  OBVIOUS
<1>3. IsFiniteSet(old) /\ Cardinality(old) <= Len(f)
  BY <1>1, <1>2, FS_Subset
<1>4. Cardinality(old) \in Nat
  BY <1>3, FS_CardinalityType
<1>5. QED
  BY <1>3, <1>4 DEF Stale

LEMMA Rest ==
    ASSUME NEW f \in Seq(0 .. Window), NEW n \in 0 .. Len(f)
    PROVE  LET g == SubSeq(f, n + 1, Len(f))
           IN  g \in Seq(0 .. Window) /\ Len(g) = Len(f) - n
<1>1. \A i \in 1 .. Len(f) : f[i] \in 0 .. Window
  BY ElementOfSeq
<1>2. Len(f) \in Nat
  OBVIOUS
<1>3. \A i \in n + 1 .. Len(f) : f[i] \in 0 .. Window
  BY <1>1, <1>2
<1>4. QED
  BY <1>2, <1>3, SubSeqProperties

\* Pruning leaves the failures that count.
LEMMA PruningKeeps ==
    ASSUME NEW b \in Bucket, AccountsAssumption
    PROVE  /\ Recent(b) \in Bucket
           /\ Recent(b).inFlight = b.inFlight
           /\ Len(Recent(b).failures) = Live(b)
           /\ Live(b) \in Nat /\ Live(Recent(b)) \in Nat
           /\ Live(Recent(b)) <= Live(b)
<1> DEFINE f == b.failures
           g == SubSeq(f, Stale(f) + 1, Len(f))
<1>1. f \in Seq(0 .. Window) /\ Len(f) \in Nat
  BY DEF Bucket
<1>2. Stale(f) \in 0 .. Len(f)
  BY <1>1, StaleBound
<1>3. g \in Seq(0 .. Window) /\ Len(g) = Len(f) - Stale(f)
  BY <1>1, <1>2, Rest
<1>4. Stale(g) \in 0 .. Len(g)
  BY <1>3, StaleBound
<1>5. Recent(b) = [b EXCEPT !.failures = g]
  BY DEF Recent
<1> HIDE DEF f, g
<1>6. Recent(b) \in Bucket /\ Recent(b).inFlight = b.inFlight /\ Recent(b).failures = g
  BY <1>3, <1>5 DEF Bucket
<1>7. Live(b) = Len(f) - Stale(f)
  BY DEF Live, f
<1>8. Live(Recent(b)) = Len(g) - Stale(g)
  BY <1>6 DEF Live
<1>9. QED
  BY <1>1, <1>2, <1>3, <1>4, <1>6, <1>7, <1>8

\* Time takes failures out of the count.
LEMMA AgingKeeps ==
    ASSUME NEW b \in Bucket, AccountsAssumption,
           NEW a, a = [b EXCEPT !.failures = [i \in DOMAIN @ |-> Older(@[i], Window)],
                                !.locked = Sooner(@), !.idle = Older(@, Window)]
    PROVE  /\ a \in Bucket /\ a.inFlight = b.inFlight
           /\ Live(a) \in Nat /\ Live(b) \in Nat /\ Live(a) <= Live(b)
<1> DEFINE f == b.failures
           g == [i \in DOMAIN f |-> Older(f[i], Window)]
           old(s) == {i \in DOMAIN s : s[i] >= Window}
<1>1. f \in Seq(0 .. Window) /\ Window \in Nat
  BY DEF Bucket, AccountsAssumption
<1>2. g \in Seq(0 .. Window) /\ Len(g) = Len(f)
  BY <1>1 DEF Older
<1>3. old(f) \in SUBSET old(g)
  BY <1>1 DEF Older
<1>4. IsFiniteSet(old(g))
  <2>1. old(g) \in SUBSET (1 .. Len(g)) /\ Len(g) \in Nat
    BY <1>2
  <2>2. IsFiniteSet(1 .. Len(g))
    BY <2>1, FS_Interval
  <2>3. QED
    BY <2>1, <2>2, FS_Subset
<1>5. Cardinality(old(f)) <= Cardinality(old(g))
  BY <1>3, <1>4, FS_Subset
<1>6. Stale(f) <= Stale(g)
  BY <1>5 DEF Stale
<1>7. Stale(f) \in 0 .. Len(f) /\ Stale(g) \in 0 .. Len(g)
  BY <1>1, <1>2, StaleBound
<1>8. Sooner(b.locked) \in 0 .. Window /\ Older(b.idle, Window) \in 0 .. Window
  BY <1>1 DEF Bucket, Sooner, Older
<1>9. a = [b EXCEPT !.failures = g, !.locked = Sooner(b.locked), !.idle = Older(b.idle, Window)]
  OBVIOUS
<1> HIDE DEF g
<1>10. a \in Bucket /\ a.failures = g /\ a.inFlight = b.inFlight
  BY <1>2, <1>8, <1>9 DEF Bucket
<1>11. QED
  BY <1>1, <1>2, <1>6, <1>7, <1>10 DEF Live

LEMMA EmptyBucket ==
    ASSUME AccountsAssumption
    PROVE  Empty \in Bucket /\ Live(Empty) = 0 /\ Empty.inFlight = 0
<1> DEFINE e == <<>>
           z == 0
<1>1. e \in Seq(0 .. Window) /\ Len(e) = 0 /\ z \in 0 .. Window /\ z \in Nat
  BY DEF AccountsAssumption
<1>2. Empty = [failures |-> e, locked |-> z, idle |-> z, inFlight |-> z]
  BY DEF Empty
<1>3. Empty.inFlight = 0
  BY DEF Empty
<1> HIDE DEF e, z
<1>4. Empty \in Bucket /\ Empty.failures = e
  BY <1>1, <1>2 DEF Bucket
<1>5. Stale(e) \in 0 .. Len(e)
  BY <1>1, StaleBound
<1>6. QED
  BY <1>1, <1>3, <1>4, <1>5 DEF Live

\* One failure more counts for one.
LEMMA RecordingKeeps ==
    ASSUME NEW b \in Bucket, AccountsAssumption, NEW result \in {"success", "failure", "cancel"}
    PROVE  /\ Recorded(b, result) \in Bucket
           /\ Recorded(b, result).inFlight = b.inFlight
           /\ Live(Recorded(b, result)) \in Nat /\ Live(b) \in Nat
           /\ Live(Recorded(b, result)) <= Live(b) + 1
           /\ result # "failure" => Live(Recorded(b, result)) <= Live(b)
<1> DEFINE a == Recorded(b, result)
<1>1. Live(b) \in Nat
  BY PruningKeeps
<1>2. CASE result = "success"
  <2> DEFINE e == <<>>
             z == 0
  <2>0. e \in Seq(0 .. Window) /\ Len(e) = 0 /\ z \in 0 .. Window
    BY DEF AccountsAssumption
  <2>1. a \in Bucket /\ a.failures = e /\ a.inFlight = b.inFlight
    <3>1. a = [b EXCEPT !.failures = e, !.locked = z, !.idle = z]
      BY <1>2 DEF Recorded
    <3> HIDE DEF e, z, a
    <3>2. QED
      BY <2>0, <3>1 DEF Bucket
  <2> HIDE DEF e, z, a
  <2>2. Live(a) = 0
    <3>1. Stale(e) \in 0 .. Len(e)
      BY <2>0, StaleBound
    <3>2. QED
      BY <2>0, <2>1, <3>1 DEF Live
  <2>3. QED
    BY <1>1, <1>2, <2>1, <2>2 DEF a
<1>3. CASE result = "failure"
  <2> DEFINE g == Append(Recent(b).failures, 0)
  <2>1. Recent(b).failures \in Seq(0 .. Window) /\ Len(Recent(b).failures) = Live(b)
    BY PruningKeeps DEF Bucket
  <2>2. g \in Seq(0 .. Window) /\ Len(g) = Live(b) + 1
    BY <2>1 DEF AccountsAssumption
  <2>3. Stale(g) \in 0 .. Len(g)
    BY <2>2, StaleBound
  <2> DEFINE l == IF Len(g) >= Limit THEN Window ELSE b.locked
             z == 0
  <2>4. l \in 0 .. Window /\ z \in 0 .. Window
    BY DEF Bucket, AccountsAssumption
  <2>5. a \in Bucket /\ a.failures = g /\ a.inFlight = b.inFlight
    <3>1. a = [b EXCEPT !.failures = g, !.locked = l, !.idle = z]
      BY <1>3 DEF Recorded
    <3> HIDE DEF g, l, z, a
    <3>2. QED
      BY <2>2, <2>4, <3>1 DEF Bucket
  <2> HIDE DEF g, a
  <2>6. Live(a) = Len(g) - Stale(g)
    BY <2>5 DEF Live
  <2>7. QED
    BY <1>1, <1>3, <2>2, <2>3, <2>5, <2>6 DEF a
<1>4. CASE result = "cancel"
  BY <1>1, <1>4 DEF Recorded
<1>5. QED
  BY <1>2, <1>3, <1>4

-----------------------------------------------------------------------------
(* The attempts of a key. *)

LEMMA AttemptsFinite ==
    ASSUME AccountsAssumption, NEW k
    PROVE  IsFiniteSet(Attempts(k)) /\ Cardinality(Attempts(k)) \in Nat
<1>1. Attempts(k) \in SUBSET Logins /\ IsFiniteSet(Logins)
  BY DEF Attempts, AccountsAssumption
<1>2. QED
  BY <1>1, FS_Subset, FS_CardinalityType

\* A key with an attempt under way is in the table, and its bucket is its own.
LEMMA ReservedBucket ==
    ASSUME AInv, AccountsAssumption, NEW r \in Logins, login[r].pc # "idle"
    PROVE  /\ login[r].key \in Keys /\ login[r].bucket \in Buckets
           /\ table[login[r].key] = login[r].bucket /\ login[r].bucket # None
           /\ r \in Attempts(login[r].key)
           /\ bucket[login[r].bucket].inFlight = Cardinality(Attempts(login[r].key))
           /\ Live(bucket[login[r].bucket]) + Cardinality(Attempts(login[r].key)) <= Limit
BY DEF AInv, Reserved, Counted, Attempts, AccountsAssumption

\* The table and the attempts stand; buckets lose failures at most.
LEMMA BucketsAge ==
    ASSUME AInv, AccountsAssumption, UNCHANGED table,
           login' \in [Logins -> Progress],
           \A r \in Logins : /\ login'[r].pc = "idle" <=> login[r].pc = "idle"
                             /\ login'[r].key = login[r].key
                             /\ login'[r].bucket = login[r].bucket,
           bucket' \in [Buckets -> Bucket],
           \A b \in Buckets : /\ bucket'[b].inFlight = bucket[b].inFlight
                              /\ Live(bucket'[b]) <= Live(bucket[b])
    PROVE  AInv'
<1>1. AdmissionKinds'
  BY DEF AInv, AdmissionKinds
<1>2. \A r \in Logins : Reserved(r)'
  BY DEF AInv, Reserved
<1>3. \A k : Attempts(k)' = Attempts(k)
  BY DEF Attempts
<1>4. \A k \in Keys : Counted(k)'
  <2> SUFFICES ASSUME NEW k \in Keys, table[k] # None PROVE Counted(k)'
    BY DEF Counted
  <2>1. table[k] \in Buckets /\ bucket[table[k]] \in Bucket /\ bucket'[table[k]] \in Bucket
    BY DEF AInv, AdmissionKinds
  <2>2. Live(bucket[table[k]]) \in Nat /\ Live(bucket'[table[k]]) \in Nat
    BY <2>1, PruningKeeps
  <2>3. Cardinality(Attempts(k)) \in Nat
    BY AttemptsFinite
  <2>4. /\ bucket[table[k]].inFlight = Cardinality(Attempts(k))
        /\ Live(bucket[table[k]]) + Cardinality(Attempts(k)) <= Limit
    BY DEF AInv, Counted
  <2>5. Live(bucket'[table[k]]) + Cardinality(Attempts(k)) <= Limit
    BY <2>1, <2>2, <2>3, <2>4 DEF AccountsAssumption
  <2>6. QED
    BY <1>3, <2>1, <2>4, <2>5 DEF Counted
<1>5. Listed' = Listed
  BY DEF Listed
<1>6. QED
  BY <1>1, <1>2, <1>4, <1>5 DEF AInv

LEMMA AdmissionStands ==
    ASSUME AInv, AccountsAssumption, UNCHANGED admission,
           login' \in [Logins -> Progress],
           \A r \in Logins : /\ login'[r].pc = "idle" <=> login[r].pc = "idle"
                             /\ login'[r].key = login[r].key
                             /\ login'[r].bucket = login[r].bucket
    PROVE  AInv'
<1>1. \A b \in Buckets : Live(bucket[b]) \in Nat
  BY PruningKeeps DEF AInv, AdmissionKinds
<1>2. \A b \in Buckets : bucket'[b].inFlight = bucket[b].inFlight /\ Live(bucket'[b]) <= Live(bucket[b])
  BY <1>1 DEF admission
<1>3. QED
  BY <1>2, BucketsAge DEF admission, AInv, AdmissionKinds

-----------------------------------------------------------------------------
(* An attempt ends. *)

LEMMA FinishCounts ==
    ASSUME AInv, AccountsAssumption, NEW r \in Logins, login[r].pc # "idle",
           NEW result \in {"success", "failure", "cancel"}, Finish(r, result)
    PROVE  AInv'
<1>0. PICK k, o : k = login[r].key /\ o = login[r].bucket
  OBVIOUS
<1> DEFINE one == 1
           b == [bucket[o] EXCEPT !.inFlight = @ - one]
           a == Recorded(b, result)
           gone == a.inFlight = 0 /\ a.failures = <<>>
<1>1. /\ k \in Keys /\ o \in Buckets /\ table[k] = o /\ o # None
      /\ r \in Attempts(k)
      /\ bucket[o].inFlight = Cardinality(Attempts(k))
      /\ Live(bucket[o]) + Cardinality(Attempts(k)) <= Limit
  BY <1>0, ReservedBucket
<1>2. bucket[o] \in Bucket
  BY <1>1 DEF AInv, AdmissionKinds
<1>3. /\ login' = [login EXCEPT ![r] = Logged]
      /\ bucket' = [bucket EXCEPT ![o] = IF gone THEN Empty ELSE a]
      /\ table' = [table EXCEPT ![k] = IF gone THEN None ELSE @]
  BY <1>0 DEF Finish
<1>4. Attempts(k)' = Attempts(k) \ {r} /\ \A i : i # k => Attempts(i)' = Attempts(i)
  <2>1. /\ \A q \in Logins \ {r} : login'[q] = login[q]
        /\ login'[r].pc = "idle"
    BY <1>3 DEF Logged, AInv, AdmissionKinds
  <2>2. QED
    BY <1>0, <2>1 DEF Attempts
<1>5. /\ Cardinality(Attempts(k)') = Cardinality(Attempts(k)) - 1
      /\ Cardinality(Attempts(k)) \in Nat /\ Cardinality(Attempts(k)') \in Nat
      /\ IsFiniteSet(Attempts(k)')
  <2>1. IsFiniteSet(Attempts(k)) /\ Cardinality(Attempts(k)) \in Nat
    BY AttemptsFinite
  <2>2. /\ Cardinality(Attempts(k) \ {r}) = Cardinality(Attempts(k)) - 1
        /\ IsFiniteSet(Attempts(k) \ {r})
    BY <1>1, <2>1, FS_RemoveElement
  <2>3. Cardinality(Attempts(k) \ {r}) \in Nat
    BY <2>2, FS_CardinalityType
  <2>4. QED
    BY <1>4, <2>1, <2>2, <2>3
<1>6. /\ b \in Bucket /\ b.inFlight = Cardinality(Attempts(k)') /\ b.failures = bucket[o].failures
  <2>1. bucket[o].inFlight - one = Cardinality(Attempts(k)')
    BY <1>1, <1>5
  <2>2. bucket[o].inFlight - one \in Nat
    BY <1>5, <2>1
  <2> HIDE DEF one
  <2>3. QED
    BY <1>2, <2>1, <2>2 DEF Bucket
<1> HIDE DEF one, b
<1>7. /\ a \in Bucket /\ a.inFlight = b.inFlight /\ Live(a) \in Nat /\ Live(b) \in Nat
      /\ Live(a) <= Live(b) + 1
  BY <1>6, RecordingKeeps
<1>8. Live(b) = Live(bucket[o])
  BY <1>6 DEF Live
<1> HIDE DEF a
<1>9. Live(a) + Cardinality(Attempts(k)') <= Limit
  BY <1>1, <1>5, <1>7, <1>8 DEF AccountsAssumption
<1>10. Empty \in Bucket
  BY EmptyBucket
<1>11. gone => Attempts(k)' = {}
  BY <1>5, <1>6, <1>7, FS_EmptySet
<1>12. Logged \in Progress /\ Logged.pc = "idle" /\ Logged.bucket = None
  BY DEF Logged, Progress, User, NoUser
<1>13. AdmissionKinds'
  <2>1. login' \in [Logins -> Progress]
    BY <1>3, <1>12 DEF AInv, AdmissionKinds
  <2>2. table' \in [Keys -> Buckets \cup {None}]
    BY <1>3 DEF AInv, AdmissionKinds
  <2>3. bucket' \in [Buckets -> Bucket]
    BY <1>3, <1>7, <1>10 DEF AInv, AdmissionKinds
  <2>4. QED
    BY <2>1, <2>2, <2>3 DEF AdmissionKinds
<1>14. \A q \in Logins : Reserved(q)'
  <2> SUFFICES ASSUME NEW q \in Logins PROVE Reserved(q)'
    OBVIOUS
  <2>1. CASE q = r
    BY <1>3, <1>12, <2>1 DEF Reserved, AInv, AdmissionKinds
  <2>2. CASE q # r
    <3>1. login'[q] = login[q]
      BY <1>3, <2>2 DEF AInv, AdmissionKinds
    <3>2. CASE login[q].pc = "idle"
      BY <3>1, <3>2 DEF Reserved, AInv
    <3>3. CASE login[q].pc # "idle"
      <4>1. /\ login[q].key \in Keys /\ login[q].bucket \in Buckets
            /\ table[login[q].key] = login[q].bucket
        BY <3>3, ReservedBucket
      <4>2. login[q].key = k => ~gone
        <5>1. login[q].key = k => q \in Attempts(k)'
          BY <3>1, <3>3 DEF Attempts
        <5>2. QED
          BY <1>11, <5>1
      <4>3. table'[login[q].key] = table[login[q].key]
        BY <1>3, <4>1, <4>2 DEF AInv, AdmissionKinds
      <4>4. QED
        BY <3>1, <3>3, <4>1, <4>3 DEF Reserved
    <3>4. QED
      BY <3>2, <3>3
  <2>3. QED
    BY <2>1, <2>2
<1>15. \A i \in Keys : table'[i] = table[i] \/ table'[i] = None
  BY <1>3 DEF AInv, AdmissionKinds
<1>16. \A i, j \in Keys : table'[i] # None /\ table'[i] = table'[j] => i = j
  BY <1>15 DEF AInv
<1>17. \A i \in Keys : Counted(i)'
  <2> SUFFICES ASSUME NEW i \in Keys, table'[i] # None PROVE Counted(i)'
    BY DEF Counted
  <2>1. CASE i = k
    <3>1. ~gone /\ table'[i] = o
      BY <1>1, <1>3, <2>1 DEF AInv, AdmissionKinds
    <3>2. bucket'[o] = a
      BY <1>1, <1>3, <3>1 DEF AInv, AdmissionKinds
    <3>3. a.inFlight = Cardinality(Attempts(k)')
      BY <1>6, <1>7
    <3>4. QED
      BY <1>9, <2>1, <3>1, <3>2, <3>3 DEF Counted
  <2>2. CASE i # k
    <3>1. table'[i] = table[i] /\ table[i] # o /\ table[i] \in Buckets
      BY <1>1, <1>15, <2>2 DEF AInv, AdmissionKinds
    <3>2. bucket'[table[i]] = bucket[table[i]]
      BY <1>3, <3>1 DEF AInv, AdmissionKinds
    <3>3. Counted(i)
      BY DEF AInv
    <3>4. QED
      BY <1>4, <2>2, <3>1, <3>2, <3>3 DEF Counted
  <2>3. QED
    BY <2>1, <2>2
<1>18. IsFiniteSet(Listed') /\ Cardinality(Listed') <= MaxBuckets
  <2>1. Listed' \in SUBSET Listed
    BY <1>15 DEF Listed
  <2>2. IsFiniteSet(Listed) /\ Cardinality(Listed) <= MaxBuckets
    BY DEF AInv
  <2>3. IsFiniteSet(Listed') /\ Cardinality(Listed') <= Cardinality(Listed)
    BY <2>1, <2>2, FS_Subset
  <2>4. Cardinality(Listed') \in Nat /\ Cardinality(Listed) \in Nat
    BY <2>2, <2>3, FS_CardinalityType
  <2>5. QED
    BY <2>2, <2>3, <2>4 DEF AccountsAssumption
<1>19. QED
  BY <1>13, <1>14, <1>16, <1>17, <1>18 DEF AInv

-----------------------------------------------------------------------------
(* An attempt begins. *)

LEMMA UnusedBucket ==
    ASSUME AInv, AccountsAssumption, NEW r \in Logins
    PROVE  \E b \in Buckets : Unused(b)
<1> SUFFICES ASSUME \A b \in Buckets : ~Unused(b) PROVE FALSE
  OBVIOUS
<1> DEFINE f == [k \in Listed |-> table[k]]
<1>1. \A b \in Buckets : \E k \in Listed : table[k] = b
  <2> SUFFICES ASSUME NEW b \in Buckets PROVE \E k \in Listed : table[k] = b
    OBVIOUS
  <2>1. b # None
    BY DEF AccountsAssumption
  <2>2. CASE \E k \in Keys : table[k] = b
    BY <2>1, <2>2 DEF Listed
  <2>3. CASE \E q \in Logins : login[q].bucket = b
    <3>1. PICK q \in Logins : login[q].bucket = b
      BY <2>3
    <3>2. login[q].pc # "idle"
      BY <2>1, <3>1 DEF AInv, Reserved
    <3>3. QED
      BY <3>1, <3>2, ReservedBucket DEF Listed
  <2>4. QED
    BY <2>2, <2>3 DEF Unused
<1>2. f \in [Listed -> Buckets]
  BY DEF AInv, AdmissionKinds, Listed
<1>3. f \in Surjection(Listed, Buckets)
  BY <1>1, <1>2 DEF Surjection
<1>4. IsFiniteSet(Listed) /\ Cardinality(Listed) <= MaxBuckets
  BY DEF AInv
<1>5. Cardinality(Buckets) <= Cardinality(Listed)
  BY <1>3, <1>4, FS_Surjection
<1>6. IsFiniteSet(Logins) /\ IsFiniteSet(Buckets)
      /\ Cardinality(Buckets) >= MaxBuckets + Cardinality(Logins)
  BY DEF AccountsAssumption
<1>7. Cardinality(Logins) # 0
  BY <1>6, FS_EmptySet
<1>8. Cardinality(Logins) \in Nat /\ Cardinality(Buckets) \in Nat /\ Cardinality(Listed) \in Nat
  BY <1>4, <1>6, FS_CardinalityType
<1>9. QED
  BY <1>4, <1>5, <1>6, <1>7, <1>8 DEF AccountsAssumption

LEMMA NoAttempts ==
    ASSUME AInv, AccountsAssumption, NEW k \in Keys, table[k] # None, bucket[table[k]].inFlight = 0
    PROVE  Attempts(k) = {}
<1>1. Cardinality(Attempts(k)) = 0
  BY DEF AInv, Counted
<1>2. QED
  BY <1>1, AttemptsFinite, FS_EmptySet

\* Room for one more: what goes has no attempt under way.
LEMMA RoomIsMade ==
    ASSUME AInv, AccountsAssumption, NEW keep \in Room
    PROVE  /\ keep \in SUBSET Listed /\ IsFiniteSet(keep)
           /\ Cardinality(keep) \in Nat /\ Cardinality(keep) + 1 <= MaxBuckets
           /\ \A i \in Listed \ keep : Attempts(i) = {}
<1>1. /\ IsFiniteSet(Listed) /\ Cardinality(Listed) <= MaxBuckets /\ MaxBuckets \in Nat
      /\ Cardinality(Listed) \in Nat
  BY FS_CardinalityType DEF AInv, AccountsAssumption
<1>2. Pruned \in SUBSET Listed
  BY DEF Pruned
<1>3. IsFiniteSet(Pruned) /\ Cardinality(Pruned) <= Cardinality(Listed)
  BY <1>1, <1>2, FS_Subset
<1>4. Cardinality(Pruned) \in Nat
  BY <1>3, FS_CardinalityType
<1>5. \A i \in Listed \ Pruned : Attempts(i) = {}
  <2> SUFFICES ASSUME NEW i \in Listed, i \notin Pruned PROVE Attempts(i) = {}
    OBVIOUS
  <2>1. Disposable(i)
    BY DEF Pruned
  <2>2. i \in Keys /\ table[i] # None /\ bucket[table[i]] \in Bucket
    BY DEF Listed, AInv, AdmissionKinds
  <2>3. bucket[table[i]].inFlight = 0
    BY <2>1, <2>2, PruningKeeps DEF Disposable
  <2>4. QED
    BY <2>2, <2>3, NoAttempts
<1>6. CASE Cardinality(Pruned) < MaxBuckets
  <2>1. keep = Pruned
    BY <1>6 DEF Room
  <2>2. QED
    BY <1>1, <1>2, <1>3, <1>4, <1>5, <1>6, <2>1
<1>7. CASE ~(Cardinality(Pruned) < MaxBuckets)
  <2>1. PICK k \in Oldest(Pruned) : keep = Pruned \ {k}
    BY <1>7 DEF Room
  <2>2. k \in Pruned /\ bucket[table[k]].inFlight = 0
    BY <2>1 DEF Oldest
  <2>3. Attempts(k) = {}
    BY <1>2, <2>2, NoAttempts DEF Listed
  <2>4. IsFiniteSet(keep) /\ Cardinality(keep) = Cardinality(Pruned) - 1
    BY <1>3, <2>1, <2>2, FS_RemoveElement
  <2>5. Cardinality(keep) \in Nat
    BY <2>4, FS_CardinalityType
  <2>6. \A i \in Listed \ keep : Attempts(i) = {}
    BY <1>5, <2>1, <2>3
  <2>7. QED
    BY <1>1, <1>2, <1>3, <1>4, <2>1, <2>4, <2>5, <2>6
<1>8. QED
  BY <1>6, <1>7

\* The login that begins is one attempt more of its key.
LEMMA AdmittedAttempts ==
    ASSUME AInv, AccountsAssumption, NEW r \in Logins, login[r].pc = "idle",
           NEW k \in Keys, NEW b \in Buckets, Admitted(r, k, b)
    PROVE  /\ login' \in [Logins -> Progress]
           /\ login'[r].pc # "idle" /\ login'[r].key = k /\ login'[r].bucket = b
           /\ \A q \in Logins \ {r} : login'[q] = login[q]
           /\ Attempts(k)' = Attempts(k) \cup {r}
           /\ Cardinality(Attempts(k)') = Cardinality(Attempts(k)) + 1
           /\ \A i : i # k => Attempts(i)' = Attempts(i)
<1>1. PICK p \in Passwords :
         login' = [login EXCEPT ![r] = [pc |-> "reserved", key |-> k, bucket |-> b,
                                        guess |-> p, user |-> NoUser]]
  BY DEF Admitted
<1>2. [pc |-> "reserved", key |-> k, bucket |-> b, guess |-> p, user |-> NoUser] \in Progress
  BY DEF Progress, NoUser, User
<1>3. /\ login' \in [Logins -> Progress]
      /\ login'[r].pc # "idle" /\ login'[r].key = k /\ login'[r].bucket = b
      /\ \A q \in Logins \ {r} : login'[q] = login[q]
  BY <1>1, <1>2 DEF AInv, AdmissionKinds
<1>4. /\ Attempts(k)' = Attempts(k) \cup {r} /\ r \notin Attempts(k)
      /\ \A i : i # k => Attempts(i)' = Attempts(i)
  BY <1>3 DEF Attempts
<1>5. Cardinality(Attempts(k) \cup {r}) = Cardinality(Attempts(k)) + 1
  BY <1>4, AttemptsFinite, FS_AddElement
<1>6. QED
  BY <1>3, <1>4, <1>5

LEMMA BeginInBucket ==
    ASSUME AInv, AccountsAssumption, NEW r \in Logins, login[r].pc = "idle", NEW k \in Keys,
           NEW b, b = table[k], b # None, LoginAllowed(Recent(bucket[b])), Admitted(r, k, b),
           bucket' = [bucket EXCEPT ![b] = [Recent(bucket[b]) EXCEPT !.inFlight = @ + 1, !.idle = 0]],
           UNCHANGED table
    PROVE  AInv'
<1> DEFINE kept == Recent(bucket[b])
           z == 0
           more == kept.inFlight + 1
           a == [kept EXCEPT !.inFlight = more, !.idle = z]
<1>1. b \in Buckets /\ bucket[b] \in Bucket
  BY DEF AInv, AdmissionKinds
<1>2. /\ kept \in Bucket /\ kept.inFlight = bucket[b].inFlight
      /\ Len(kept.failures) = Live(bucket[b]) /\ Live(kept) \in Nat /\ Live(bucket[b]) \in Nat
      /\ Live(kept) <= Live(bucket[b])
  BY <1>1, PruningKeeps
<1>3. bucket[b].inFlight = Cardinality(Attempts(k)) /\ Cardinality(Attempts(k)) \in Nat
  BY AttemptsFinite DEF AInv, Counted
<1>4. Live(bucket[b]) + Cardinality(Attempts(k)) < Limit
  BY <1>2, <1>3 DEF LoginAllowed
<1>5. more = Cardinality(Attempts(k)) + 1 /\ more \in Nat /\ z \in 0 .. Window
  BY <1>2, <1>3 DEF AccountsAssumption
<1>6. bucket' = [bucket EXCEPT ![b] = a]
  OBVIOUS
<1> HIDE DEF kept, z, more
<1>7. a \in Bucket /\ a.inFlight = more /\ a.failures = kept.failures
  BY <1>2, <1>5 DEF Bucket
<1>8. Live(a) = Live(kept)
  BY <1>7 DEF Live
<1> HIDE DEF a
<1>9. /\ login' \in [Logins -> Progress]
      /\ login'[r].pc # "idle" /\ login'[r].key = k /\ login'[r].bucket = b
      /\ \A q \in Logins \ {r} : login'[q] = login[q]
      /\ Cardinality(Attempts(k)') = Cardinality(Attempts(k)) + 1
      /\ \A i : i # k => Attempts(i)' = Attempts(i)
  BY <1>1, AdmittedAttempts
<1>10. Live(a) + Cardinality(Attempts(k)') <= Limit
  BY <1>2, <1>3, <1>4, <1>8, <1>9 DEF AccountsAssumption
<1>11. AdmissionKinds'
  BY <1>6, <1>7, <1>9 DEF AdmissionKinds, AInv
<1>12. \A q \in Logins : Reserved(q)'
  BY <1>1, <1>9 DEF AInv, Reserved
<1>13. \A i \in Keys : Counted(i)'
  <2> SUFFICES ASSUME NEW i \in Keys, table[i] # None PROVE Counted(i)'
    BY DEF Counted
  <2>1. CASE i = k
    <3>1. bucket'[table[i]] = a
      BY <1>1, <1>6, <2>1 DEF AInv, AdmissionKinds
    <3>2. a.inFlight = Cardinality(Attempts(k)')
      BY <1>5, <1>7, <1>9
    <3>3. QED
      BY <1>10, <2>1, <3>1, <3>2 DEF Counted
  <2>2. CASE i # k
    <3>1. table[i] # b
      BY <2>2 DEF AInv
    <3>2. bucket'[table[i]] = bucket[table[i]]
      BY <1>1, <1>6, <3>1 DEF AInv, AdmissionKinds
    <3>3. Counted(i)
      BY DEF AInv
    <3>4. QED
      BY <1>9, <2>2, <3>2, <3>3 DEF Counted
  <2>3. QED
    BY <2>1, <2>2
<1>14. Listed' = Listed
  BY DEF Listed
<1>15. QED
  BY <1>11, <1>12, <1>13, <1>14 DEF AInv

\* What is cleaned keeps its attempts and loses failures at most.
LEMMA CleanedKeeps ==
    ASSUME AInv, AccountsAssumption, NEW b \in Buckets
    PROVE  /\ Cleaned(b) \in Bucket /\ Cleaned(b).inFlight = bucket[b].inFlight
           /\ Live(Cleaned(b)) \in Nat /\ Live(bucket[b]) \in Nat
           /\ Live(Cleaned(b)) <= Live(bucket[b])
<1>1. bucket[b] \in Bucket
  BY DEF AInv, AdmissionKinds
<1>2. /\ Recent(bucket[b]) \in Bucket /\ Recent(bucket[b]).inFlight = bucket[b].inFlight
      /\ Live(Recent(bucket[b])) \in Nat /\ Live(bucket[b]) \in Nat
      /\ Live(Recent(bucket[b])) <= Live(bucket[b])
  BY <1>1, PruningKeeps
<1>3. CASE Full
  BY <1>2, <1>3 DEF Cleaned
<1>4. CASE ~Full
  BY <1>1, <1>2, <1>4 DEF Cleaned
<1>5. QED
  BY <1>3, <1>4

LEMMA BeginWithBucket ==
    ASSUME AInv, AccountsAssumption, NEW r \in Logins, login[r].pc = "idle", NEW k \in Keys,
           table[k] = None, NEW keep \in Room, NEW b \in Buckets, Unused(b), Admitted(r, k, b),
           table' = [i \in Keys |-> IF i = k THEN b ELSE IF i \in keep THEN table[i] ELSE None],
           bucket' = [x \in Buckets |->
                         IF x = b THEN [Empty EXCEPT !.inFlight = 1]
                         ELSE IF \E i \in Keys \ {k} : table'[i] = x THEN Cleaned(x)
                         ELSE IF \E q \in Logins : login[q].bucket = x THEN bucket[x] ELSE Empty]
    PROVE  AInv'
<1> DEFINE one == 1
           a == [Empty EXCEPT !.inFlight = one]
<1>1. b # None
  BY DEF AccountsAssumption
<1>2. /\ keep \in SUBSET Listed /\ IsFiniteSet(keep)
      /\ Cardinality(keep) \in Nat /\ Cardinality(keep) + 1 <= MaxBuckets
      /\ \A i \in Listed \ keep : Attempts(i) = {}
  BY RoomIsMade
<1>3. k \notin Listed /\ Listed \subseteq Keys
  BY DEF Listed
<1>4. Attempts(k) = {}
  <2> SUFFICES ASSUME NEW q \in Attempts(k) PROVE FALSE
    OBVIOUS
  <2>1. q \in Logins /\ login[q].pc # "idle" /\ login[q].key = k
    BY DEF Attempts
  <2>2. table[k] # None
    BY <2>1, ReservedBucket
  <2>3. QED
    BY <2>2
<1>5. /\ login' \in [Logins -> Progress]
      /\ login'[r].pc # "idle" /\ login'[r].key = k /\ login'[r].bucket = b
      /\ \A q \in Logins \ {r} : login'[q] = login[q]
      /\ \A i : i # k => Attempts(i)' = Attempts(i)
  BY AdmittedAttempts
<1>6. Cardinality(Attempts(k)') = 1
  <2>1. Cardinality(Attempts(k)') = Cardinality(Attempts(k)) + 1
    BY AdmittedAttempts
  <2>2. QED
    BY <1>4, <2>1, FS_EmptySet
<1>7. a \in Bucket /\ a.inFlight = 1 /\ Live(a) = 0
  <2>1. Empty \in Bucket /\ Live(Empty) = 0
    BY EmptyBucket
  <2>2. one \in Nat /\ one = 1
    OBVIOUS
  <2> HIDE DEF one
  <2>3. a \in Bucket /\ a.inFlight = one /\ a.failures = Empty.failures
    BY <2>1, <2>2 DEF Bucket
  <2>4. Live(a) = Live(Empty)
    BY <2>3 DEF Live
  <2>5. QED
    BY <2>1, <2>2, <2>3, <2>4
<1>8. bucket' = [x \in Buckets |-> IF x = b THEN a
                         ELSE IF \E i \in Keys \ {k} : table'[i] = x THEN Cleaned(x)
                         ELSE IF \E q \in Logins : login[q].bucket = x THEN bucket[x] ELSE Empty]
  OBVIOUS
<1> HIDE DEF a
<1>9. bucket' \in [Buckets -> Bucket] /\ bucket'[b] = a
  <2>1. \A x \in Buckets : Cleaned(x) \in Bucket /\ bucket[x] \in Bucket
    BY CleanedKeeps DEF AInv, AdmissionKinds
  <2>2. QED
    BY <1>7, <1>8, <2>1, EmptyBucket
<1>10. /\ table' \in [Keys -> Buckets \cup {None}]
       /\ table'[k] = b
       /\ \A i \in keep : table'[i] = table[i] /\ table[i] # b /\ table[i] \in Buckets /\ i # k
       /\ \A i \in Keys : table'[i] # None => i = k \/ i \in keep
  BY <1>2, <1>3 DEF AInv, AdmissionKinds, Unused, Listed
<1>11. \A i \in keep : bucket'[table'[i]] = Cleaned(table[i])
  <2> SUFFICES ASSUME NEW i \in keep PROVE bucket'[table'[i]] = Cleaned(table[i])
    OBVIOUS
  <2>1. i \in Keys \ {k} /\ table'[i] = table[i] /\ table[i] # b /\ table[i] \in Buckets
    BY <1>2, <1>3, <1>10
  <2>2. QED
    BY <1>8, <2>1
<1>12. \A q \in Logins : Reserved(q)'
  <2> SUFFICES ASSUME NEW q \in Logins PROVE Reserved(q)'
    OBVIOUS
  <2>1. CASE q = r
    BY <1>5, <1>10, <2>1 DEF Reserved
  <2>2. CASE q # r /\ login[q].pc = "idle"
    BY <1>5, <2>2 DEF Reserved, AInv
  <2>3. CASE q # r /\ login[q].pc # "idle"
    <3>1. /\ login[q].key \in Keys /\ login[q].bucket \in Buckets
          /\ table[login[q].key] = login[q].bucket /\ login[q].bucket # None
          /\ q \in Attempts(login[q].key)
      BY <2>3, ReservedBucket
    <3>2. login[q].key \in keep
      BY <1>2, <3>1 DEF Listed
    <3>3. login'[q] = login[q]
      BY <1>5, <2>3
    <3>4. QED
      BY <1>10, <2>3, <3>1, <3>2, <3>3 DEF Reserved
  <2>4. QED
    BY <2>1, <2>2, <2>3
<1>13. \A i, j \in Keys : table'[i] # None /\ table'[i] = table'[j] => i = j
  <2> SUFFICES ASSUME NEW i \in Keys, NEW j \in Keys, table'[i] # None, table'[i] = table'[j]
               PROVE  i = j
    OBVIOUS
  <2>1. (i = k \/ i \in keep) /\ (j = k \/ j \in keep)
    BY <1>10
  <2>2. CASE i \in keep /\ j \in keep
    BY <1>2, <1>10, <2>2 DEF AInv, Listed
  <2>3. QED
    BY <1>10, <2>1, <2>2
<1>14. \A i \in Keys : Counted(i)'
  <2> SUFFICES ASSUME NEW i \in Keys, table'[i] # None PROVE Counted(i)'
    BY DEF Counted
  <2>1. CASE i = k
    BY <1>6, <1>7, <1>9, <1>10, <2>1 DEF Counted, AccountsAssumption
  <2>2. CASE i \in keep
    <3>1. table'[i] = table[i] /\ table[i] \in Buckets /\ i # k /\ table[i] # None
      BY <1>2, <1>10, <2>2 DEF Listed
    <3>2. /\ bucket[table[i]].inFlight = Cardinality(Attempts(i))
          /\ Live(bucket[table[i]]) + Cardinality(Attempts(i)) <= Limit
      BY <3>1 DEF AInv, Counted
    <3>3. /\ Cleaned(table[i]).inFlight = bucket[table[i]].inFlight
          /\ Live(Cleaned(table[i])) \in Nat /\ Live(bucket[table[i]]) \in Nat
          /\ Live(Cleaned(table[i])) <= Live(bucket[table[i]])
      BY <3>1, CleanedKeeps
    <3>4. Cardinality(Attempts(i)) \in Nat
      BY AttemptsFinite
    <3>5. Live(Cleaned(table[i])) + Cardinality(Attempts(i)) <= Limit
      BY <3>2, <3>3, <3>4 DEF AccountsAssumption
    <3>6. bucket'[table'[i]] = Cleaned(table[i]) /\ Attempts(i)' = Attempts(i)
      BY <1>5, <1>11, <2>2, <3>1
    <3>7. QED
      BY <3>2, <3>3, <3>5, <3>6 DEF Counted
  <2>3. QED
    BY <1>10, <2>1, <2>2
<1>15. IsFiniteSet(Listed') /\ Cardinality(Listed') <= MaxBuckets
  <2>1. Listed' = keep \cup {k}
    BY <1>1, <1>2, <1>3, <1>10 DEF Listed
  <2>2. IsFiniteSet(keep \cup {k}) /\ Cardinality(keep \cup {k}) = Cardinality(keep) + 1
    BY <1>2, <1>3, FS_AddElement
  <2>3. QED
    BY <1>2, <2>1, <2>2
<1>16. AdmissionKinds'
  BY <1>5, <1>9, <1>10 DEF AdmissionKinds
<1>17. QED
  BY <1>12, <1>13, <1>14, <1>15, <1>16 DEF AInv

LEMMA BeginCounts ==
    ASSUME AInv, AccountsAssumption, NEW r \in Logins, NEW k \in Keys, Begin(r, k)
    PROVE  AInv'
<1>1. login[r].pc = "idle"
  BY DEF Begin
<1>2. CASE /\ table[k] # None /\ LoginAllowed(Recent(bucket[table[k]]))
           /\ Admitted(r, k, table[k])
           /\ bucket' = [bucket EXCEPT ![table[k]] =
                             [Recent(bucket[table[k]]) EXCEPT !.inFlight = @ + 1, !.idle = 0]]
           /\ UNCHANGED table
  BY <1>1, <1>2, BeginInBucket
<1>3. CASE /\ table[k] = None
           /\ \E keep \in Room, b \in {CHOOSE x \in Buckets : Unused(x)} :
                /\ table' = [i \in Keys |-> IF i = k THEN b ELSE IF i \in keep THEN table[i] ELSE None]
                /\ Admitted(r, k, b)
                /\ bucket' = [x \in Buckets |->
                     IF x = b THEN [Empty EXCEPT !.inFlight = 1]
                     ELSE IF \E i \in Keys \ {k} : table'[i] = x THEN Cleaned(x)
                     ELSE IF \E q \in Logins : login[q].bucket = x THEN bucket[x] ELSE Empty]
  <2> DEFINE new == CHOOSE x \in Buckets : Unused(x)
  <2>1. new \in Buckets /\ Unused(new)
    BY UnusedBucket
  <2>2. PICK keep \in Room, b \in {new} :
                /\ table' = [i \in Keys |-> IF i = k THEN b ELSE IF i \in keep THEN table[i] ELSE None]
                /\ Admitted(r, k, b)
                /\ bucket' = [x \in Buckets |->
                     IF x = b THEN [Empty EXCEPT !.inFlight = 1]
                     ELSE IF \E i \in Keys \ {k} : table'[i] = x THEN Cleaned(x)
                     ELSE IF \E q \in Logins : login[q].bucket = x THEN bucket[x] ELSE Empty]
    BY <1>3
  <2>3. b \in Buckets /\ Unused(b)
    BY <2>1, <2>2
  <2> HIDE DEF new
  <2>4. QED
    BY <1>1, <1>3, <2>2, <2>3, BeginWithBucket
<1>4. QED
  BY <1>2, <1>3 DEF Begin

-----------------------------------------------------------------------------
(* The other steps. *)

LEMMA RefusedCounts ==
    ASSUME AInv, AccountsAssumption, NEW k \in Keys, Refused(k)
    PROVE  AInv'
<1>1. \A b \in Buckets :
        /\ bucket[b] \in Bucket /\ Recent(bucket[b]) \in Bucket
        /\ Recent(bucket[b]).inFlight = bucket[b].inFlight
        /\ Live(bucket[b]) \in Nat /\ Live(Recent(bucket[b])) <= Live(bucket[b])
  BY PruningKeeps DEF AInv, AdmissionKinds
<1>2. \A b \in Buckets : bucket'[b] = bucket[b] \/ bucket'[b] = Recent(bucket[b])
  BY DEF Refused, AInv, AdmissionKinds
<1>3. DOMAIN bucket' = Buckets /\ bucket' = [b \in Buckets |-> bucket'[b]]
  BY DEF Refused, AInv, AdmissionKinds
<1>4. bucket' \in [Buckets -> Bucket]
  BY <1>1, <1>2, <1>3
<1>5. \A b \in Buckets : bucket'[b].inFlight = bucket[b].inFlight /\ Live(bucket'[b]) <= Live(bucket[b])
  BY <1>1, <1>2
<1>6. UNCHANGED <<table, login>> /\ login' \in [Logins -> Progress]
  BY DEF Refused, AInv, AdmissionKinds
<1>7. QED
  BY <1>4, <1>5, <1>6, BucketsAge

LEMMA TickCounts ==
    ASSUME AInv, AccountsAssumption, Tick
    PROVE  AInv'
<1> DEFINE older(b) == [bucket[b] EXCEPT !.failures = [i \in DOMAIN @ |-> Older(@[i], Window)],
                                         !.locked = Sooner(@), !.idle = Older(@, Window)]
<1>1. \A b \in Buckets :
        /\ bucket[b] \in Bucket /\ older(b) \in Bucket
        /\ older(b).inFlight = bucket[b].inFlight
        /\ Live(bucket[b]) \in Nat /\ Live(older(b)) <= Live(bucket[b])
  <2> SUFFICES ASSUME NEW b \in Buckets
               PROVE  /\ bucket[b] \in Bucket /\ older(b) \in Bucket
                      /\ older(b).inFlight = bucket[b].inFlight
                      /\ Live(bucket[b]) \in Nat /\ Live(older(b)) <= Live(bucket[b])
    OBVIOUS
  <2>1. bucket[b] \in Bucket
    BY DEF AInv, AdmissionKinds
  <2>2. QED
    BY <2>1, AgingKeeps
<1>2. bucket' = [b \in Buckets |-> IF Unused(b) THEN bucket[b] ELSE older(b)]
  BY DEF Tick
<1> HIDE DEF older
<1>3. bucket' \in [Buckets -> Bucket]
  BY <1>1, <1>2
<1>4. \A b \in Buckets : bucket'[b].inFlight = bucket[b].inFlight /\ Live(bucket'[b]) <= Live(bucket[b])
  BY <1>1, <1>2
<1>5. UNCHANGED <<table, login>> /\ login' \in [Logins -> Progress]
  BY DEF Tick, AInv, AdmissionKinds
<1>6. QED
  BY <1>3, <1>4, <1>5, BucketsAge

LEMMA ReadUserCounts ==
    ASSUME AInv, AccountsAssumption, user \in User, NEW r \in Logins, ReadUser(r)
    PROVE  AInv'
<1>1. login[r].pc = "reserved"
  BY DEF ReadUser
<1>2. CASE login' = [login EXCEPT ![r].pc = "read", ![r].user = user] /\ UNCHANGED admission
  <2>1. login[r] \in Progress
    BY DEF AInv, AdmissionKinds
  <2>2. [login[r] EXCEPT !.pc = "read", !.user = user] \in Progress
    BY <2>1 DEF Progress
  <2>3. /\ login' \in [Logins -> Progress]
        /\ \A q \in Logins \ {r} : login'[q] = login[q]
        /\ login'[r] = [login[r] EXCEPT !.pc = "read", !.user = user]
    BY <1>2, <2>2 DEF AInv, AdmissionKinds
  <2>4. login'[r].pc = "read" /\ login'[r].key = login[r].key /\ login'[r].bucket = login[r].bucket
    BY <2>1, <2>3 DEF Progress
  <2>5. \A q \in Logins : /\ login'[q].pc = "idle" <=> login[q].pc = "idle"
                          /\ login'[q].key = login[q].key
                          /\ login'[q].bucket = login[q].bucket
    BY <1>1, <2>3, <2>4
  <2>6. QED
    BY <1>2, <2>3, <2>5, AdmissionStands
<1>3. CASE Finish(r, "failure")
  BY <1>1, <1>3, FinishCounts
<1>4. QED
  BY <1>2, <1>3 DEF ReadUser

LEMMA AcquireCounts ==
    ASSUME AInv, AccountsAssumption, NEW r \in Logins, Acquire(r)
    PROVE  AInv'
<1>1. login[r].pc = "read"
  BY DEF Acquire
<1>2. CASE GoTo(r, "checking") /\ UNCHANGED admission
  <2>1. login[r] \in Progress
    BY DEF AInv, AdmissionKinds
  <2>2. /\ login' \in [Logins -> Progress]
        /\ \A q \in Logins \ {r} : login'[q] = login[q]
        /\ login'[r] = [login[r] EXCEPT !.pc = "checking"]
    BY <1>2, <2>1 DEF AInv, AdmissionKinds, GoTo, Progress
  <2>3. login'[r].pc = "checking" /\ login'[r].key = login[r].key /\ login'[r].bucket = login[r].bucket
    BY <2>1, <2>2 DEF Progress
  <2>4. \A q \in Logins : /\ login'[q].pc = "idle" <=> login[q].pc = "idle"
                          /\ login'[q].key = login[q].key
                          /\ login'[q].bucket = login[q].bucket
    BY <1>1, <2>2, <2>3
  <2>5. QED
    BY <1>2, <2>2, <2>4, AdmissionStands
<1>3. CASE Finish(r, "cancel")
  BY <1>1, <1>3, FinishCounts
<1>4. QED
  BY <1>2, <1>3 DEF Acquire

LEMMA VerifyCounts ==
    ASSUME AInv, AccountsAssumption, NEW r \in Logins, Verify(r) \/ CallerLeaves(r)
    PROVE  AInv'
<1>1. login[r].pc # "idle"
  BY DEF Verify, CallerLeaves
<1>2. \E result \in {"success", "failure", "cancel"} : Finish(r, result)
  BY DEF Verify, CallerLeaves
<1>3. QED
  BY <1>1, <1>2, FinishCounts

LEMMA OthersCount ==
    ASSUME AInv, AccountsAssumption, UNCHANGED <<admission, login>>
    PROVE  AInv'
<1>1. login' \in [Logins -> Progress]
  BY DEF AInv, AdmissionKinds
<1>2. QED
  BY <1>1, AdmissionStands DEF admission

LEMMA NextCounts ==
    ASSUME AccountsAssumption
    PROVE  IInv /\ AInv /\ [Next]_vars => AInv'
<1> SUFFICES ASSUME IInv, AInv, [Next]_vars PROVE AInv'
  OBVIOUS
<1>1. CASE \E r \in Logins, k \in Keys : Begin(r, k)
  BY <1>1, BeginCounts
<1>2. CASE \E k \in Keys : Refused(k)
  BY <1>2, RefusedCounts
<1>3. CASE \E r \in Logins : ReadUser(r) \/ Acquire(r) \/ Verify(r) \/ CallerLeaves(r)
  <2>1. user \in User
    BY DEF IInv, Kinds
  <2>2. QED
    BY <1>3, <2>1, ReadUserCounts, AcquireCounts, VerifyCounts
<1>4. CASE \E c \in Calls :
          \/ Arrive(c) \/ Count(c) \/ Setup(c) \/ ReadSession(c) \/ DeleteExpired(c)
          \/ CheckUser(c) \/ Extend(c) \/ Read(c) \/ ValidateCSRF(c) \/ Logout(c)
          \/ Reread(c) \/ Update(c)
  <2>1. UNCHANGED <<admission, login>>
    BY <1>4 DEF Arrive, Count, Setup, ReadSession, DeleteExpired, CheckUser, Extend, Read,
                ValidateCSRF, Logout, Reread, Update
  <2>2. QED
    BY <2>1, OthersCount
<1>5. CASE Tick
  BY <1>5, TickCounts
<1>6. CASE UNCHANGED vars
  BY <1>6, OthersCount DEF vars, admission
<1>7. QED
  BY <1>1, <1>2, <1>3, <1>4, <1>5, <1>6 DEF Next

LEMMA InitCounts ==
    ASSUME AccountsAssumption, Init
    PROVE  AInv
<1>1. /\ Logged \in Progress /\ Logged.pc = "idle" /\ Logged.bucket = None
  BY DEF Logged, Progress, User, NoUser
<1>2. AdmissionKinds
  BY <1>1, EmptyBucket DEF Init, AdmissionKinds
<1>3. \A r \in Logins : Reserved(r)
  BY <1>1 DEF Init, Reserved
<1>4. \A k \in Keys : table[k] = None
  BY DEF Init
<1>5. Listed = {}
  BY <1>4 DEF Listed
<1>6. IsFiniteSet(Listed) /\ Cardinality(Listed) <= MaxBuckets
  BY <1>5, FS_EmptySet DEF AccountsAssumption
<1>7. QED
  BY <1>2, <1>3, <1>4, <1>6 DEF AInv, Counted

\* The attempts of a key that are under way and the failures that count stay
\* within the limit, for any number of logins, keys and buckets, and every
\* attempt reports to the bucket that the next one is counted in.
THEOREM AttemptsStayWithinTheLimit ==
    ASSUME AccountsAssumption
    PROVE  Spec => []AttemptsBounded
<1>1. Init => AInv
  BY InitCounts
<1>2. IInv /\ AInv /\ [Next]_vars => AInv'
  BY NextCounts
<1>3. AInv => AttemptsBounded
  <2> SUFFICES ASSUME AInv PROVE AttemptsBounded
    OBVIOUS
  <2>1. \A k \in Keys : \A r \in Attempts(k) : login[r].bucket = table[k]
    BY DEF AInv, Reserved, Attempts
  <2>2. \A k \in Listed :
          /\ bucket[table[k]].inFlight = Cardinality(Attempts(k))
          /\ Len(Recent(bucket[table[k]]).failures) + Cardinality(Attempts(k)) <= Limit
    <3> SUFFICES ASSUME NEW k \in Listed
                 PROVE  /\ bucket[table[k]].inFlight = Cardinality(Attempts(k))
                        /\ Len(Recent(bucket[table[k]]).failures) + Cardinality(Attempts(k)) <= Limit
      OBVIOUS
    <3>1. k \in Keys /\ table[k] # None /\ bucket[table[k]] \in Bucket
      BY DEF Listed, AInv, AdmissionKinds
    <3>2. Len(Recent(bucket[table[k]]).failures) = Live(bucket[table[k]])
      BY <3>1, PruningKeeps
    <3>3. QED
      BY <3>1, <3>2 DEF AInv, Counted
  <2>3. QED
    BY <2>1, <2>2 DEF AttemptsBounded
<1>4. QED
  BY <1>1, <1>2, <1>3, InvariantHolds, PTL DEF Spec

\* Every variable keeps its type.
THEOREM TypesHold ==
    ASSUME AccountsAssumption
    PROVE  Spec => []TypeOK
<1>1. Init => AInv
  BY InitCounts
<1>2. IInv /\ AInv /\ [Next]_vars => AInv'
  BY NextCounts
<1>3. IInv /\ AInv => TypeOK
  BY DEF IInv, Kinds, Call, AInv, AdmissionKinds, Progress, TypeOK
<1>4. QED
  BY <1>1, <1>2, <1>3, InvariantHolds, PTL DEF Spec
=============================================================================
