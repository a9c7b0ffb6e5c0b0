---------------------------- MODULE AuthSessions ----------------------------
(***************************************************************************)
(* Sign-up, sign-in and refresh of internal/usecase/auth_usecase.go: one   *)
(* Redis key per account holds the only refresh token that is accepted.    *)
(*                                                                         *)
(* A refresh reads the key, compares, deletes it, looks the account up,    *)
(* issues a token and writes the key: five round trips that other requests *)
(* interleave with.                                                        *)
(*                                                                         *)
(* A token is a signed function of the account and of the second it is     *)
(* issued in, with no random part, so a token is that second: two requests *)
(* for one account in the same second get the same token.  The seconds     *)
(* modelled lie well within a token's life of days, so none expires.       *)
(***************************************************************************)
EXTENDS Naturals

CONSTANTS
    Requests,   \* requests in flight, one handler each
    Accounts,   \* user ids
    MaxClock,   \* bound on the seconds that pass
    NoToken,    \* an absent key, or no token
    Faults      \* which disturbances happen: subset of FaultKinds

FaultKinds == {"db", "redis", "crash", "removal"}

Token == 0 .. MaxClock

ASSUME AuthAssumption ==
    /\ MaxClock \in Nat
    /\ NoToken \notin Nat
    /\ Faults \subseteq FaultKinds

VARIABLES
    clock,      \* the current second
    account,    \* is the row absent, active or (soft) deleted
    stored,     \* the Redis keys auth:refresh:<id>
    handed,     \* history: the refresh tokens clients were answered with
    req,        \* the handler each request runs, and for which account
    pc,         \* how far each handler has got
    presented,  \* the token a refresh was sent
    tok,        \* the token each request issued
    res,        \* what each handler answered
    calm        \* history: accounts no fault or removal has touched so far

vars == <<clock, account, stored, handed, req, pc, presented, tok, res, calm>>

Op(r) == req[r].op
Acct(r) == req[r].acct

Init ==
    /\ clock = 0
    /\ account \in [Accounts -> {"absent", "active"}]
    /\ stored = [a \in Accounts |-> NoToken]
    /\ handed = [a \in Accounts |-> {}]
    /\ req \in [Requests -> [op : {"register", "login", "refresh"}, acct : Accounts]]
    /\ pc = [r \in Requests |-> "start"]
    /\ presented = [r \in Requests |-> NoToken]
    /\ tok = [r \in Requests |-> NoToken]
    /\ res = [r \in Requests |-> "none"]
    /\ calm = Accounts

\* A round trip for account a fails, or somebody else changes its row.
Disturb(kind, a) == kind \in Faults /\ calm' = calm \ {a}

Goto(r, l) == pc' = [pc EXCEPT ![r] = l]

Answer(r, a) == Goto(r, "done") /\ res' = [res EXCEPT ![r] = a]

-----------------------------------------------------------------------------
\* Register up to its commit, whose steps module Users has.  A failure leaves
\* no account, or, when the reply of the commit is lost, one without a session.
Register(r) ==
    /\ pc[r] = "start" /\ Op(r) = "register"
    /\ \/ account[Acct(r)] = "active" /\ Answer(r, "conflict") /\ UNCHANGED <<account, calm>>
       \/ /\ account[Acct(r)] = "absent"
          /\ account' = [account EXCEPT ![Acct(r)] = "active"]
          /\ Goto(r, "issue") /\ UNCHANGED <<res, calm>>
       \/ /\ Disturb("db", Acct(r)) /\ Answer(r, "error")
          /\ \/ UNCHANGED account
             \/ /\ account[Acct(r)] = "absent"
                /\ account' = [account EXCEPT ![Acct(r)] = "active"]
    /\ UNCHANGED <<clock, stored, handed, req, presented, tok>>

\* FindByEmail and the password check; any failure is the same 401.
Login(r) ==
    /\ pc[r] = "start" /\ Op(r) = "login"
    /\ \/ account[Acct(r)] = "active" /\ Goto(r, "issue") /\ UNCHANGED <<res, calm>>
       \/ account[Acct(r)] # "active" /\ Answer(r, "unauthorized") /\ UNCHANGED calm
       \/ Disturb("db", Acct(r)) /\ Answer(r, "unauthorized")
    /\ UNCHANGED <<clock, account, stored, handed, req, presented, tok>>

\* Mutant: a token that does not match revokes the session.
MatchOrRevoke(r) ==
    /\ pc[r] = "start" /\ Op(r) = "refresh"
    /\ \E t \in handed[Acct(r)] :
          /\ presented' = [presented EXCEPT ![r] = t]
          /\ \/ stored[Acct(r)] = t /\ Goto(r, "matched") /\ UNCHANGED <<stored, res, calm>>
             \/ /\ stored[Acct(r)] # t
                /\ stored' = [stored EXCEPT ![Acct(r)] = NoToken]
                /\ Answer(r, "unauthorized") /\ UNCHANGED calm
             \/ Disturb("redis", Acct(r)) /\ Answer(r, "unauthorized") /\ UNCHANGED stored
    /\ UNCHANGED <<clock, account, handed, req, tok>>

\* A client sends some token it was handed; Get, then compare.
Match(r) ==
    /\ pc[r] = "start" /\ Op(r) = "refresh"
    /\ \E t \in handed[Acct(r)] :
          /\ presented' = [presented EXCEPT ![r] = t]
          /\ \/ stored[Acct(r)] = t /\ Goto(r, "matched") /\ UNCHANGED <<res, calm>>
             \/ stored[Acct(r)] # t /\ Answer(r, "unauthorized") /\ UNCHANGED calm
             \/ Disturb("redis", Acct(r)) /\ Answer(r, "unauthorized")
    /\ UNCHANGED <<clock, account, stored, handed, req, tok>>

\* rdb.Del, its error ignored: it deletes whatever the key holds by then.
DropOld(r) ==
    /\ pc[r] = "matched"
    /\ \/ stored' = [stored EXCEPT ![Acct(r)] = NoToken] /\ UNCHANGED calm
       \/ Disturb("redis", Acct(r)) /\ UNCHANGED stored
    /\ Goto(r, "dropped")
    /\ UNCHANGED <<clock, account, handed, req, presented, tok, res>>

\* Mutant: the token that matched is enough, and the account is not looked up.
RecheckSkipped(r) ==
    /\ pc[r] = "dropped"
    /\ Goto(r, "issue")
    /\ UNCHANGED <<clock, account, stored, handed, req, presented, tok, res, calm>>

\* FindByID; any failure is a 401, with the old session already gone.
Recheck(r) ==
    /\ pc[r] = "dropped"
    /\ \/ account[Acct(r)] = "active" /\ Goto(r, "issue") /\ UNCHANGED <<res, calm>>
       \/ account[Acct(r)] # "active" /\ Answer(r, "unauthorized") /\ UNCHANGED calm
       \/ Disturb("db", Acct(r)) /\ Answer(r, "unauthorized")
    /\ UNCHANGED <<clock, account, stored, handed, req, presented, tok>>

\* generateAndStoreTokens: sign at the current second, then Set.
Issue(r) ==
    /\ pc[r] = "issue"
    /\ tok' = [tok EXCEPT ![r] = clock]
    /\ Goto(r, "store")
    /\ UNCHANGED <<clock, account, stored, handed, req, presented, res, calm>>

\* Mutant: the key is written only when it is absent (SETNX for SET).
StoreIfAbsent(r) ==
    /\ pc[r] = "store"
    /\ stored' = [stored EXCEPT ![Acct(r)] = IF @ = NoToken THEN tok[r] ELSE @]
    /\ handed' = [handed EXCEPT ![Acct(r)] = @ \cup {tok[r]}]
    /\ Answer(r, "ok")
    /\ UNCHANGED <<clock, account, req, presented, tok, calm>>

\* Mutant: the answer carries the token the request came with.
StoreAnswersOld(r) ==
    /\ pc[r] = "store"
    /\ stored' = [stored EXCEPT ![Acct(r)] = tok[r]]
    /\ handed' = [handed EXCEPT ![Acct(r)] = @ \cup {presented[r]}]
    /\ Answer(r, "ok")
    /\ UNCHANGED <<clock, account, req, presented, tok, calm>>

Store(r) ==
    /\ pc[r] = "store"
    /\ stored' = [stored EXCEPT ![Acct(r)] = tok[r]]
    /\ handed' = [handed EXCEPT ![Acct(r)] = @ \cup {tok[r]}]
    /\ Answer(r, "ok")
    /\ UNCHANGED <<clock, account, req, presented, tok, calm>>

-----------------------------------------------------------------------------
\* Set fails, or takes effect without its reply: no token reaches the client.
StoreFails(r) ==
    /\ pc[r] = "store"
    /\ Disturb("redis", Acct(r))
    /\ \/ stored' = [stored EXCEPT ![Acct(r)] = tok[r]]
       \/ UNCHANGED stored
    /\ Answer(r, "error")
    /\ UNCHANGED <<clock, account, handed, req, presented, tok>>

Crash(r) ==
    /\ pc[r] \notin {"start", "done", "crashed"}
    /\ Disturb("crash", Acct(r))
    /\ Goto(r, "crashed")
    /\ UNCHANGED <<clock, account, stored, handed, req, presented, tok, res>>

\* DELETE /users/:id leaves the session alone.
Remove(a) ==
    /\ account[a] = "active"
    /\ Disturb("removal", a)
    /\ account' = [account EXCEPT ![a] = "deleted"]
    /\ UNCHANGED <<clock, stored, handed, req, pc, presented, tok, res>>

\* An Update that read the row before its removal saves it with the empty
\* deleted_at it read: the account is back, and so is the session it still has.
Revive(a) ==
    /\ account[a] = "deleted"
    /\ Disturb("removal", a)
    /\ account' = [account EXCEPT ![a] = "active"]
    /\ UNCHANGED <<clock, stored, handed, req, pc, presented, tok, res>>

Tick ==
    /\ clock < MaxClock
    /\ clock' = clock + 1
    /\ UNCHANGED <<account, stored, handed, req, pc, presented, tok, res, calm>>

Handle(r) == Register(r) \/ Login(r) \/ Match(r) \/ DropOld(r) \/ Recheck(r) \/ Issue(r) \/ Store(r)

Next ==
    \/ \E r \in Requests : Handle(r) \/ StoreFails(r) \/ Crash(r)
    \/ \E a \in Accounts : Remove(a) \/ Revive(a)
    \/ Tick

Spec == Init /\ [][Next]_vars

-----------------------------------------------------------------------------
(***************************************************************************)
(* Properties.                                                             *)
(***************************************************************************)

\* Every variable has its type.
TypeOK ==
    /\ clock \in Token
    /\ account \in [Accounts -> {"absent", "active", "deleted"}]
    /\ stored \in [Accounts -> Token \cup {NoToken}]
    /\ handed \in [Accounts -> SUBSET Token]
    /\ req \in [Requests -> [op : {"register", "login", "refresh"}, acct : Accounts]]
    /\ pc \in [Requests -> {"start", "matched", "dropped", "issue", "store", "done", "crashed"}]
    /\ presented \in [Requests -> Token \cup {NoToken}]
    /\ tok \in [Requests -> Token \cup {NoToken}]
    /\ res \in [Requests -> {"none", "ok", "conflict", "unauthorized", "error"}]
    /\ calm \in SUBSET Accounts

Refreshed(r, t) == Op(r) = "refresh" /\ res[r] = "ok" /\ presented[r] = t

\* Only one request issued t for a.
IssuedOnce(a, t) ==
    \A q, r \in Requests : Acct(q) = a /\ Acct(r) = a /\ tok[q] = t /\ tok[r] = t => q = r

\* A refresh token that has been exchanged, and that no other request got in
\* the same second, is not accepted again: no slow login, no slower refresh
\* and no failed round trip puts it back.
SpentStaysSpent ==
    \A r \in Requests, t \in Token :
        Refreshed(r, t) /\ IssuedOnce(Acct(r), t) => stored[Acct(r)] # t

\* No request for this account is between its start and its end.
Quiet(a) == \A r \in Requests : Acct(r) = a => pc[r] \in {"start", "done"}

\* As long as no round trip fails, concurrent logins and refreshes never leave
\* an account that has signed in without a session: when they are done the key
\* holds a token that a client was given.
QuietSessionLives ==
    \A a \in calm : Quiet(a) /\ handed[a] # {} => stored[a] \in handed[a]

\* A removed account none of whose requests is past its look at the row.
Locked(a) ==
    /\ account[a] = "deleted"
    /\ \A r \in Requests : Acct(r) = a => pc[r] \notin {"issue", "store"}

\* Removing a user leaves the session where it is, and yet nobody gets anything
\* from it while the user is gone: once the requests that had looked at the row
\* before are through, no token is handed out or stored for the account, by a
\* refresh with the token it still has, a late login or a retry of either.  The
\* only way out is that a stale save brings the row itself back.
RemovedGetsNoToken ==
    [][\A a \in Accounts : Locked(a) =>
          /\ Locked(a)' \/ account'[a] = "active"
          /\ handed'[a] = handed[a]
          /\ stored'[a] \in {stored[a], NoToken}]_vars

\* A refresh rotates: no token is exchanged twice.
ExchangedOnce ==
    \A q, r \in Requests, t \in Token :
        Acct(q) = Acct(r) /\ Refreshed(q, t) /\ Refreshed(r, t) => q = r
=============================================================================
