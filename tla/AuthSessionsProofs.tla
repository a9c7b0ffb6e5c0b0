--------------------------- MODULE AuthSessionsProofs ---------------------------
(***************************************************************************)
(* Proofs about AuthSessions for every set of requests and accounts, every *)
(* bound on the clock and every set of faults.                             *)
(*                                                                         *)
(* A token in a client's hands was issued by a request that has ended      *)
(* (Issuers), so a request about to write the key carries a token of its   *)
(* own unless another got the same one in the same second.  An account     *)
(* without a stored session has a request on its way to store one          *)
(* (Sessions), as long as nothing failed.                                  *)
(***************************************************************************)
EXTENDS AuthSessions, TLAPS

\* What each point of a handler knows of its own request.
Points ==
    \A r \in Requests :
        /\ pc[r] \in {"start", "matched", "dropped", "issue"} => tok[r] = NoToken
        /\ pc[r] = "store" => tok[r] \in Token
        /\ pc[r] \in {"matched", "dropped"} => Op(r) = "refresh"
        /\ pc[r] \notin {"start", "done"} /\ Op(r) = "refresh" => presented[r] \in Token
        /\ res[r] = "ok" => pc[r] = "done"

\* Every token handed out comes from a request that has ended, and only such
\* tokens are presented.
Issuers ==
    /\ \A a \in Accounts : \A t \in handed[a] :
          \E r \in Requests : Acct(r) = a /\ tok[r] = t /\ pc[r] = "done"
    /\ \A r \in Requests : presented[r] # NoToken => presented[r] \in handed[Acct(r)]

\* Who can be signed in, or on the way to it.
Presence ==
    /\ \A a \in calm : account[a] # "deleted"
    /\ \A a \in Accounts : account[a] = "absent" => handed[a] = {}
    /\ \A r \in Requests :
          pc[r] \notin {"start", "done"} => account[Acct(r)] # "absent"

\* An undisturbed account that has signed in has a session or gets one.
Sessions ==
    \A a \in calm : handed[a] # {} =>
          \/ stored[a] \in handed[a]
          \/ \E r \in Requests : Acct(r) = a /\ pc[r] \in {"dropped", "issue", "store"}

Inv == TypeOK /\ Points /\ Issuers /\ Presence /\ Sessions /\ SpentStaysSpent

\* A request runs one of the handlers for one of the accounts.
LEMMA ReqFacts ==
    TypeOK => \A r \in Requests :
        Acct(r) \in Accounts /\ Op(r) \in {"register", "login", "refresh"}
  BY DEF TypeOK, Acct, Op

\* An absent key is no token.
LEMMA TokenFacts == NoToken \notin Token
  BY AuthAssumption DEF Token

-----------------------------------------------------------------------------

\* At the start nobody has signed in.
LEMMA InitInv == Init => Inv
<1> SUFFICES ASSUME Init PROVE Inv
  OBVIOUS
<1>1. TypeOK
  BY AuthAssumption DEF Init, TypeOK, Token
<1>2. QED
  BY <1>1, TokenFacts DEF Init, Inv, Points, Issuers, Presence, Sessions, SpentStaysSpent, Refreshed

\* Every step keeps the types.
LEMMA NextTypeOK == TypeOK /\ Points /\ [Next]_vars => TypeOK'
<1> SUFFICES ASSUME TypeOK, Points, [Next]_vars PROVE TypeOK'
  OBVIOUS
<1> USE ReqFacts DEF TypeOK, Goto, Answer, Disturb
<1>1. ASSUME NEW r \in Requests, Register(r) PROVE TypeOK'
  <2>1. /\ account' = account \/ account' = [account EXCEPT ![Acct(r)] = "active"]
        /\ pc' = [pc EXCEPT ![r] = "issue"] \/ pc' = [pc EXCEPT ![r] = "done"]
        /\ \E x \in {res[r], "conflict", "error"} : res' = [res EXCEPT ![r] = x]
        /\ calm' \subseteq calm
    BY <1>1 DEF Register
  <2>2. account' \in [Accounts -> {"absent", "active", "deleted"}]
    BY <2>1
  <2>3. pc' \in [Requests -> {"start", "matched", "dropped", "issue", "store", "done", "crashed"}]
    BY <2>1
  <2>4. res' \in [Requests -> {"none", "ok", "conflict", "unauthorized", "error"}]
    BY <2>1
  <2>5. UNCHANGED <<clock, stored, handed, req, presented, tok>>
    BY <1>1 DEF Register
  <2>6. QED
    BY <2>1, <2>2, <2>3, <2>4, <2>5
<1>2. ASSUME NEW r \in Requests, Login(r) PROVE TypeOK'
  BY <1>2 DEF Login
<1>3. ASSUME NEW r \in Requests, Match(r) PROVE TypeOK'
  <2>1. PICK t \in Token : presented' = [presented EXCEPT ![r] = t]
    BY <1>3 DEF Match
  <2>2. /\ pc' = [pc EXCEPT ![r] = "matched"] \/ pc' = [pc EXCEPT ![r] = "done"]
        /\ res' = res \/ res' = [res EXCEPT ![r] = "unauthorized"]
        /\ calm' \subseteq calm
    BY <1>3 DEF Match
  <2>3. QED
    BY <1>3, <2>1, <2>2 DEF Match
<1>4. ASSUME NEW r \in Requests, DropOld(r) PROVE TypeOK'
  BY <1>4 DEF DropOld
<1>5. ASSUME NEW r \in Requests, Recheck(r) PROVE TypeOK'
  BY <1>5 DEF Recheck
<1>6. ASSUME NEW r \in Requests, Issue(r) PROVE TypeOK'
  BY <1>6 DEF Issue
<1>7. ASSUME NEW r \in Requests, Store(r) PROVE TypeOK'
  <2>1. tok[r] \in Token
    BY <1>7 DEF Store, Points
  <2>2. QED
    BY <1>7, <2>1 DEF Store
<1>8. ASSUME NEW r \in Requests, StoreFails(r) PROVE TypeOK'
  <2>1. tok[r] \in Token
    BY <1>8 DEF StoreFails, Points
  <2>2. QED
    BY <1>8, <2>1 DEF StoreFails
<1>9. ASSUME NEW r \in Requests, Crash(r) PROVE TypeOK'
  BY <1>9 DEF Crash
<1>10. ASSUME NEW a \in Accounts, Remove(a) PROVE TypeOK'
  BY <1>10 DEF Remove
<1>11. ASSUME NEW a \in Accounts, Revive(a) PROVE TypeOK'
  BY <1>11 DEF Revive
<1>12. ASSUME Tick PROVE TypeOK'
  <2>1. clock' \in Token
    BY <1>12, AuthAssumption DEF Tick, Token
  <2>2. QED
    BY <1>12, <2>1 DEF Tick
<1>13. CASE UNCHANGED vars
  BY <1>13 DEF vars
<1>14. QED
  BY <1>1, <1>2, <1>3, <1>4, <1>5, <1>6, <1>7, <1>8, <1>9, <1>10, <1>11, <1>12,
     <1>13
  DEF Next, Handle

\* A handler has a token of its own exactly from its issue on.
LEMMA NextPoints == TypeOK /\ Points /\ [Next]_vars => Points'
<1> SUFFICES ASSUME TypeOK, Points, [Next]_vars PROVE Points'
  OBVIOUS
<1> USE ReqFacts DEF TypeOK, Points, Goto, Answer, Disturb, Op
<1>1. ASSUME NEW r \in Requests, Register(r) PROVE Points'
  BY <1>1 DEF Register
<1>2. ASSUME NEW r \in Requests, Login(r) PROVE Points'
  BY <1>2, SMTT(60) DEF Login
<1>3. ASSUME NEW r \in Requests, Match(r) PROVE Points'
  BY <1>3 DEF Match
<1>4. ASSUME NEW r \in Requests, DropOld(r) PROVE Points'
  BY <1>4 DEF DropOld
<1>5. ASSUME NEW r \in Requests, Recheck(r) PROVE Points'
  BY <1>5 DEF Recheck
<1>6. ASSUME NEW r \in Requests, Issue(r) PROVE Points'
  BY <1>6 DEF Issue
<1>7. ASSUME NEW r \in Requests, Store(r) PROVE Points'
  BY <1>7 DEF Store
<1>8. ASSUME NEW r \in Requests, StoreFails(r) PROVE Points'
  BY <1>8 DEF StoreFails
<1>9. ASSUME NEW r \in Requests, Crash(r) PROVE Points'
  BY <1>9 DEF Crash
<1>10. ASSUME NEW a \in Accounts, Remove(a) PROVE Points'
  BY <1>10 DEF Remove
<1>11. ASSUME NEW a \in Accounts, Revive(a) PROVE Points'
  BY <1>11 DEF Revive
<1>12. ASSUME Tick PROVE Points'
  BY <1>12 DEF Tick
<1>13. CASE UNCHANGED vars
  BY <1>13 DEF vars
<1>14. QED
  BY <1>1, <1>2, <1>3, <1>4, <1>5, <1>6, <1>7, <1>8, <1>9, <1>10, <1>11, <1>12,
     <1>13
  DEF Next, Handle

\* A token gets to a client only by a request that ends with it.
LEMMA NextIssuers == TypeOK /\ Points /\ Issuers /\ [Next]_vars => Issuers'
<1> SUFFICES ASSUME TypeOK, Points, Issuers, [Next]_vars PROVE Issuers'
  OBVIOUS
<1> USE ReqFacts, TokenFacts DEF TypeOK, Points, Issuers, Goto, Answer, Disturb, Acct
<1>1. ASSUME NEW r \in Requests, Register(r) PROVE Issuers'
  BY <1>1 DEF Register
<1>2. ASSUME NEW r \in Requests, Login(r) PROVE Issuers'
  BY <1>2 DEF Login
<1>3. ASSUME NEW r \in Requests, Match(r) PROVE Issuers'
  BY <1>3 DEF Match
<1>4. ASSUME NEW r \in Requests, DropOld(r) PROVE Issuers'
  BY <1>4 DEF DropOld
<1>5. ASSUME NEW r \in Requests, Recheck(r) PROVE Issuers'
  BY <1>5 DEF Recheck
<1>6. ASSUME NEW r \in Requests, Issue(r) PROVE Issuers'
  BY <1>6 DEF Issue
<1>7. ASSUME NEW r \in Requests, Store(r) PROVE Issuers'
  BY <1>7 DEF Store
<1>8. ASSUME NEW r \in Requests, StoreFails(r) PROVE Issuers'
  BY <1>8 DEF StoreFails
<1>9. ASSUME NEW r \in Requests, Crash(r) PROVE Issuers'
  BY <1>9 DEF Crash
<1>10. ASSUME NEW a \in Accounts, Remove(a) PROVE Issuers'
  BY <1>10 DEF Remove
<1>11. ASSUME NEW a \in Accounts, Revive(a) PROVE Issuers'
  BY <1>11 DEF Revive
<1>12. ASSUME Tick PROVE Issuers'
  BY <1>12 DEF Tick
<1>13. CASE UNCHANGED vars
  BY <1>13 DEF vars
<1>14. QED
  BY <1>1, <1>2, <1>3, <1>4, <1>5, <1>6, <1>7, <1>8, <1>9, <1>10, <1>11, <1>12,
     <1>13
  DEF Next, Handle

\* An undisturbed account is never removed, and only a registered one
\* signs in.
LEMMA NextPresence == TypeOK /\ Points /\ Presence /\ [Next]_vars => Presence'
<1> SUFFICES ASSUME TypeOK, Points, Presence, [Next]_vars PROVE Presence'
  OBVIOUS
<1> USE ReqFacts, TokenFacts DEF TypeOK, Points, Presence, Goto, Answer, Disturb, Acct
<1>1. ASSUME NEW r \in Requests, Register(r) PROVE Presence'
  <2>1. \A q \in Requests \ {r} : pc'[q] = pc[q] /\ Acct(q)' = Acct(q)
    BY <1>1 DEF Register
  <2>2. account' = account \/ account' = [account EXCEPT ![Acct(r)] = "active"]
    BY <1>1 DEF Register
  <2>3. QED
    BY <1>1, <2>1, <2>2 DEF Register
<1>2. ASSUME NEW r \in Requests, Login(r) PROVE Presence'
  BY <1>2 DEF Login
<1>3. ASSUME NEW r \in Requests, Match(r) PROVE Presence'
  BY <1>3 DEF Match
<1>4. ASSUME NEW r \in Requests, DropOld(r) PROVE Presence'
  BY <1>4 DEF DropOld
<1>5. ASSUME NEW r \in Requests, Recheck(r) PROVE Presence'
  BY <1>5 DEF Recheck
<1>6. ASSUME NEW r \in Requests, Issue(r) PROVE Presence'
  BY <1>6 DEF Issue
<1>7. ASSUME NEW r \in Requests, Store(r) PROVE Presence'
  BY <1>7 DEF Store
<1>8. ASSUME NEW r \in Requests, StoreFails(r) PROVE Presence'
  BY <1>8 DEF StoreFails
<1>9. ASSUME NEW r \in Requests, Crash(r) PROVE Presence'
  BY <1>9 DEF Crash
<1>10. ASSUME NEW a \in Accounts, Remove(a) PROVE Presence'
  BY <1>10 DEF Remove
<1>11. ASSUME NEW a \in Accounts, Revive(a) PROVE Presence'
  BY <1>11 DEF Revive
<1>12. ASSUME Tick PROVE Presence'
  BY <1>12 DEF Tick
<1>13. CASE UNCHANGED vars
  BY <1>13 DEF vars
<1>14. QED
  BY <1>1, <1>2, <1>3, <1>4, <1>5, <1>6, <1>7, <1>8, <1>9, <1>10, <1>11, <1>12,
     <1>13
  DEF Next, Handle

\* The request that drops a session is on its way to store the next.
LEMMA NextSessions == TypeOK /\ Points /\ Presence /\ Sessions /\ [Next]_vars => Sessions'
<1> SUFFICES ASSUME TypeOK, Points, Presence, Sessions, [Next]_vars PROVE Sessions'
  OBVIOUS
<1> USE ReqFacts, TokenFacts DEF TypeOK, Sessions, Goto, Answer, Disturb, Acct
<1>1. ASSUME NEW r \in Requests, Register(r) PROVE Sessions'
  <2>1. \A q \in Requests \ {r} : pc'[q] = pc[q] /\ Acct(q)' = Acct(q)
    BY <1>1 DEF Register
  <2>2. pc[r] = "start"
    BY <1>1 DEF Register
  <2>3. QED
    BY <1>1, <2>1, <2>2 DEF Register
<1>2. ASSUME NEW r \in Requests, Login(r) PROVE Sessions'
  <2>1. \A q \in Requests \ {r} : pc'[q] = pc[q] /\ Acct(q)' = Acct(q)
    BY <1>2 DEF Login
  <2>2. pc[r] = "start"
    BY <1>2 DEF Login
  <2>3. QED
    BY <1>2, <2>1, <2>2 DEF Login
<1>3. ASSUME NEW r \in Requests, Match(r) PROVE Sessions'
  BY <1>3 DEF Match
<1>4. ASSUME NEW r \in Requests, DropOld(r) PROVE Sessions'
  BY <1>4 DEF DropOld
<1>5. ASSUME NEW r \in Requests, Recheck(r) PROVE Sessions'
  <2>1. \A q \in Requests \ {r} : pc'[q] = pc[q] /\ Acct(q)' = Acct(q)
    BY <1>5 DEF Recheck
  <2>2. Acct(r) \in calm' => pc'[r] = "issue"
    BY <1>5 DEF Recheck, Presence, Points
  <2>3. QED
    BY <1>5, <2>1, <2>2 DEF Recheck
<1>6. ASSUME NEW r \in Requests, Issue(r) PROVE Sessions'
  BY <1>6 DEF Issue
<1>7. ASSUME NEW r \in Requests, Store(r) PROVE Sessions'
  <2>1. \A q \in Requests \ {r} : pc'[q] = pc[q] /\ Acct(q)' = Acct(q)
    BY <1>7 DEF Store
  <2>2. QED
    BY <1>7, <2>1 DEF Store
<1>8. ASSUME NEW r \in Requests, StoreFails(r) PROVE Sessions'
  BY <1>8 DEF StoreFails
<1>9. ASSUME NEW r \in Requests, Crash(r) PROVE Sessions'
  BY <1>9 DEF Crash
<1>10. ASSUME NEW a \in Accounts, Remove(a) PROVE Sessions'
  BY <1>10 DEF Remove
<1>11. ASSUME NEW a \in Accounts, Revive(a) PROVE Sessions'
  BY <1>11 DEF Revive
<1>12. ASSUME Tick PROVE Sessions'
  BY <1>12 DEF Tick
<1>13. CASE UNCHANGED vars
  BY <1>13 DEF vars
<1>14. QED
  BY <1>1, <1>2, <1>3, <1>4, <1>5, <1>6, <1>7, <1>8, <1>9, <1>10, <1>11, <1>12,
     <1>13
  DEF Next, Handle

\* A write that could bring an exchanged token back would be by a second
\* issuer of that token.
LEMMA NextSpent == TypeOK /\ Points /\ Issuers /\ SpentStaysSpent /\ [Next]_vars => SpentStaysSpent'
<1> SUFFICES ASSUME TypeOK, Points, Issuers, SpentStaysSpent, [Next]_vars PROVE SpentStaysSpent'
  OBVIOUS
<1> USE ReqFacts, TokenFacts DEF TypeOK, Points, Issuers, SpentStaysSpent, Refreshed, IssuedOnce, Goto,
    Answer, Disturb, Acct, Op
<1>1. ASSUME NEW r \in Requests, Register(r) PROVE SpentStaysSpent'
  BY <1>1 DEF Register
<1>2. ASSUME NEW r \in Requests, Login(r) PROVE SpentStaysSpent'
  BY <1>2 DEF Login
<1>3. ASSUME NEW r \in Requests, Match(r) PROVE SpentStaysSpent'
  BY <1>3 DEF Match
<1>4. ASSUME NEW r \in Requests, DropOld(r) PROVE SpentStaysSpent'
  BY <1>4 DEF DropOld
<1>5. ASSUME NEW r \in Requests, Recheck(r) PROVE SpentStaysSpent'
  BY <1>5 DEF Recheck
<1>6. ASSUME NEW r \in Requests, Issue(r) PROVE SpentStaysSpent'
  <2>1. \A a \in Accounts, t \in Token : IssuedOnce(a, t)' => IssuedOnce(a, t)
    BY <1>6 DEF Issue
  <2>2. QED
    BY <1>6, <2>1 DEF Issue
<1>7. ASSUME NEW r \in Requests, Store(r) PROVE SpentStaysSpent'
  BY <1>7 DEF Store
<1>8. ASSUME NEW r \in Requests, StoreFails(r) PROVE SpentStaysSpent'
  BY <1>8 DEF StoreFails
<1>9. ASSUME NEW r \in Requests, Crash(r) PROVE SpentStaysSpent'
  BY <1>9 DEF Crash
<1>10. ASSUME NEW a \in Accounts, Remove(a) PROVE SpentStaysSpent'
  BY <1>10 DEF Remove
<1>11. ASSUME NEW a \in Accounts, Revive(a) PROVE SpentStaysSpent'
  BY <1>11 DEF Revive
<1>12. ASSUME Tick PROVE SpentStaysSpent'
  BY <1>12 DEF Tick
<1>13. CASE UNCHANGED vars
  BY <1>13 DEF vars
<1>14. QED
  BY <1>1, <1>2, <1>3, <1>4, <1>5, <1>6, <1>7, <1>8, <1>9, <1>10, <1>11, <1>12,
     <1>13
  DEF Next, Handle

-----------------------------------------------------------------------------
\* Inv holds in every reachable state.
THEOREM Inductive == Spec => []Inv
<1>1. Inv /\ [Next]_vars => Inv'
  BY NextTypeOK, NextPoints, NextIssuers, NextPresence, NextSessions, NextSpent DEF Inv
<1>2. QED
  BY <1>1, InitInv, PTL DEF Spec

\* Every reachable state is well typed.
THEOREM TypeCorrect == Spec => []TypeOK
<1>1. Inv => TypeOK
  BY DEF Inv
<1>2. QED
  BY <1>1, Inductive, PTL

\* A token issued once is exchanged for good, whatever overlaps or fails.
THEOREM NoReturn == Spec => []SpentStaysSpent
<1>1. Inv => SpentStaysSpent
  BY DEF Inv
<1>2. QED
  BY <1>1, Inductive, PTL

\* Undisturbed, no interleaving of logins and refreshes signs an account out.
THEOREM NoSignOut == Spec => []QuietSessionLives
<1>1. Inv => QuietSessionLives
  BY DEF Inv, TypeOK, Sessions, QuietSessionLives, Quiet
<1>2. QED
  BY <1>1, Inductive, PTL

-----------------------------------------------------------------------------
(***************************************************************************)
(* What a step may never do.                                               *)
(***************************************************************************)

\* Nobody gets past its look at a removed row while it stays removed.
LEMMA LockedOrRevived ==
    ASSUME TypeOK, [Next]_vars, NEW a \in Accounts, Locked(a)
    PROVE  /\ Locked(a)' \/ account'[a] = "active"
           /\ handed'[a] = handed[a]
           /\ stored'[a] \in {stored[a], NoToken}
<1> DEFINE Out == (Locked(a)' \/ account'[a] = "active") /\ handed'[a] = handed[a] /\ stored'[a] \in {stored[a], NoToken}
<1> USE ReqFacts DEF TypeOK, Locked, Goto, Answer, Acct
<1>1. ASSUME NEW r \in Requests, Register(r) PROVE Out
  BY <1>1 DEF Register
<1>2. ASSUME NEW r \in Requests, Login(r) PROVE Out
  BY <1>2 DEF Login
<1>3. ASSUME NEW r \in Requests, Match(r) PROVE Out
  BY <1>3 DEF Match
<1>4. ASSUME NEW r \in Requests, DropOld(r) PROVE Out
  BY <1>4 DEF DropOld
<1>5. ASSUME NEW r \in Requests, Recheck(r) PROVE Out
  BY <1>5 DEF Recheck
<1>6. ASSUME NEW r \in Requests, Issue(r) PROVE Out
  BY <1>6 DEF Issue
<1>7. ASSUME NEW r \in Requests, Store(r) PROVE Out
  BY <1>7 DEF Store
<1>8. ASSUME NEW r \in Requests, StoreFails(r) PROVE Out
  BY <1>8 DEF StoreFails
<1>9. ASSUME NEW r \in Requests, Crash(r) PROVE Out
  BY <1>9 DEF Crash
<1>10. ASSUME NEW b \in Accounts, Remove(b) PROVE Out
  BY <1>10 DEF Remove
<1>11. ASSUME NEW b \in Accounts, Revive(b) PROVE Out
  BY <1>11 DEF Revive
<1>12. CASE Tick
  BY <1>12 DEF Tick
<1>13. CASE UNCHANGED vars
  BY <1>13 DEF vars
<1>14. QED
  BY <1>1, <1>2, <1>3, <1>4, <1>5, <1>6, <1>7, <1>8, <1>9, <1>10, <1>11, <1>12,
     <1>13
  DEF Next, Handle

\* From the moment no request is past its look at a removed row, none is until
\* a stale save revives the row, and the account gets no token.
THEOREM NoTokenWhileRemoved == Spec => RemovedGetsNoToken
<1>1. TypeOK /\ [Next]_vars =>
        [\A a \in Accounts : Locked(a) =>
            /\ Locked(a)' \/ account'[a] = "active"
            /\ handed'[a] = handed[a]
            /\ stored'[a] \in {stored[a], NoToken}]_vars
  BY LockedOrRevived
<1>2. QED
  BY <1>1, TypeCorrect, PTL DEF Spec, RemovedGetsNoToken

\* Only a refresh that begins before the exchange of its token has ended can
\* exchange it again (finding 3), or one whose token two requests got in the
\* same second: no later refresh gets past the comparison with the key.
THEOREM NoLateReplay ==
    Spec => [][\A q, r \in Requests :
                  pc[r] = "start" /\ pc'[r] = "matched" /\ Acct(q) = Acct(r)
                      /\ Refreshed(q, presented'[r])
                  => ~IssuedOnce(Acct(r), presented'[r])]_vars
<1> DEFINE Late == \A q, r \in Requests :
                       pc[r] = "start" /\ pc'[r] = "matched" /\ Acct(q) = Acct(r)
                           /\ Refreshed(q, presented'[r])
                       => ~IssuedOnce(Acct(r), presented'[r])
<1>1. ASSUME Inv, Next, NEW q \in Requests, NEW r \in Requests,
             pc[r] = "start", pc'[r] = "matched", Acct(q) = Acct(r), Refreshed(q, presented'[r])
      PROVE  ~IssuedOnce(Acct(r), presented'[r])
  <2>1. Match(r)
    <3> USE <1>1, ReqFacts DEF Inv, TypeOK, Goto, Answer
    <3>1. PICK s \in Requests : Handle(s) \/ StoreFails(s) \/ Crash(s)
      BY DEF Next, Remove, Revive, Tick
    <3>2. ~Register(s) /\ ~Login(s) /\ ~Issue(s)
      BY DEF Register, Login, Issue
    <3>3. ~DropOld(s) /\ ~Recheck(s) /\ ~Store(s)
      BY DEF DropOld, Recheck, Store
    <3>4. ~StoreFails(s) /\ ~Crash(s)
      BY DEF StoreFails, Crash
    <3>5. Match(s)
      BY <3>1, <3>2, <3>3, <3>4 DEF Handle
    <3>6. QED
      BY <3>5 DEF Match
  <2>2. presented'[r] \in Token /\ stored[Acct(r)] = presented'[r]
    BY <1>1, <2>1, ReqFacts DEF Inv, TypeOK, Match, Goto, Answer, Disturb
  <2>3. QED
    BY <1>1, <2>2 DEF Inv, SpentStaysSpent
<1>2. Inv /\ [Next]_vars => [Late]_vars
  BY <1>1
<1>3. QED
  BY <1>2, Inductive, PTL DEF Spec
================================================================================
