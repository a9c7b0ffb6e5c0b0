----------------------- MODULE ResilientClientProofs -----------------------
(***************************************************************************)
(* The safety properties of ResilientClient for any number of concurrent   *)
(* calls, attempts, failures and probes.  What the breaker does and what a *)
(* call does meet only in counted, so each has an invariant of its own:    *)
(* Probes over the breaker, Counts and Effects over the calls.             *)
(***************************************************************************)
EXTENDS ResilientClient, FiniteSetTheorems, TLAPS

\* Only attempts under way are counted, and the half-open breaker knows how
\* many it let through: each is still out or came back with success.
Probes ==
    /\ IsFiniteSet(counted)
    /\ \A c \in counted : pc[c] = "sent"
    /\ breaker.state = "half-open" => Cardinality(counted) + breaker.successes = breaker.requests
    /\ breaker.state = "open" => counted = {}

\* No call waits after its last attempt, and no attempt is admitted twice.
Counts ==
    \A c \in Calls :
        /\ pc[c] = "waiting" => attempt[c] + 1 < MaxAttempts
        /\ tries[c] <= attempt[c] + 1
        /\ pc[c] = "ready" => tries[c] <= attempt[c]

\* What was carried out, is on the wire or was given up there was let through,
\* and what was answered was carried out.
Effects ==
    \A c \in Calls :
        /\ applied[c] + late[c] <= tries[c]
        /\ pc[c] = "sent" /\ wire[c] = "sent" => applied[c] + late[c] + 1 <= tries[c]
        /\ pc[c] = "sent" /\ wire[c] = "served" => applied[c] > 0
        /\ pc[c] = "replied" \/ res[c] = "ok" => applied[c] > 0

\* The types of the variables of the breaker, and those of the calls.
GateType ==
    /\ breaker \in [state : {"closed", "open", "half-open"}, requests : 0 .. HalfOpenMaxReqs,
                    successes : Nat, failures : 0 .. MaxFailures - 1, elapsed : BOOLEAN]
    /\ counted \in SUBSET Calls

CallType ==
    /\ pc \in [Calls -> {"ready", "sent", "waiting", "replied", "done"}]
    /\ attempt \in [Calls -> 0 .. MaxAttempts - 1]
    /\ tries \in [Calls -> Nat]
    /\ expired \in [Calls -> BOOLEAN]
    /\ wire \in [Calls -> {"none", "sent", "served"}]
    /\ applied \in [Calls -> Nat]
    /\ late \in [Calls -> Nat]
    /\ res \in [Calls -> {"none", "ok", "rejected", "unread", "error"}]

Gate == GateType /\ Probes
CallInv == CallType /\ Counts /\ Effects
Inv == healthy \in BOOLEAN /\ Gate /\ CallInv

\* A call is carried out at most as often as the breaker let it through, and at
\* most MaxAttempts times, however late; so one that was only refused never is.
AppliedWithinTries ==
    \A c \in Calls : applied[c] + late[c] <= tries[c] /\ tries[c] <= MaxAttempts

\* What was answered with success was carried out.
OkIsApplied == \A c \in Calls : res[c] = "ok" => applied[c] > 0

-----------------------------------------------------------------------------
(***************************************************************************)
(* The breaker starts closed with nothing out, and no call has begun.      *)
(***************************************************************************)
LEMMA InitInv == Init => Inv
<1> SUFFICES ASSUME Init PROVE Inv
  OBVIOUS
<1>1. Gate
  BY FS_EmptySet, ClientAssumption DEF Init, Gate, GateType, Probes, Generation
<1>2. CallInv
  BY ClientAssumption DEF Init, CallInv, CallType, Counts, Effects
<1> QED BY <1>1, <1>2 DEF Init, Inv

(***************************************************************************)
(* Bringing the breaker up to date keeps its type.                         *)
(***************************************************************************)
LEMMA CurrentType ==
    ASSUME Gate
    PROVE  /\ Current \in [state : {"closed", "open", "half-open"}, requests : 0 .. HalfOpenMaxReqs,
                           successes : Nat, failures : 0 .. MaxFailures - 1, elapsed : BOOLEAN]
           /\ \/ Current = breaker
              \/ Current = Generation("half-open") /\ breaker.state = "open"
BY ClientAssumption DEF Gate, GateType, Current, Generation

(***************************************************************************)
(* Nothing is disturbed when a call that is not counted moves, or the      *)
(* breaker is merely brought up to date.                                   *)
(***************************************************************************)
LEMMA RefreshGate ==
    ASSUME Gate, Become(Current, counted),
           \A c \in counted : pc'[c] = "sent"
    PROVE  Gate'
<1>1. CASE Current = breaker
  BY <1>1 DEF Gate, GateType, Probes, Become
<1>2. CASE Current = Generation("half-open") /\ breaker.state = "open"
  BY <1>2, CurrentType, FS_EmptySet DEF Gate, GateType, Probes, Become, Generation
<1> QED BY <1>1, <1>2, CurrentType

(***************************************************************************)
(* An attempt reports back: the sum of probes out and probes returned is   *)
(* kept, or a new generation starts without any.                           *)
(***************************************************************************)
LEMMA SettleGate ==
    ASSUME Gate, NEW c \in Calls, NEW success \in BOOLEAN, Settle(c, success),
           \A d \in Calls \ {c} : pc'[d] = pc[d]
    PROVE  Gate'
<1>1. CASE c \notin counted
  <2>1. counted \ {c} = counted /\ Become(Current, counted)
    BY <1>1 DEF Settle
  <2>2. \A d \in counted : pc'[d] = "sent"
    BY <1>1 DEF Gate, GateType, Probes
  <2> QED BY <2>1, <2>2, RefreshGate
<1>2. CASE c \in counted
  <2>1. Become(Count(breaker, success), counted \ {c})
    BY <1>2 DEF Settle, Current, Gate, Probes
  <2>2. /\ IsFiniteSet(counted \ {c})
        /\ Cardinality(counted \ {c}) = Cardinality(counted) - 1
    BY <1>2, FS_RemoveElement DEF Gate, Probes
  <2>3. Cardinality(counted) \in Nat
    BY FS_CardinalityType DEF Gate, Probes
  <2>4. \A d \in counted \ {c} : pc'[d] = "sent"
    BY DEF Gate, GateType, Probes
  <2>5. breaker.state # "open"
    BY <1>2 DEF Gate, Probes
  <2>6. IsFiniteSet({}) /\ Cardinality({}) = 0
    BY FS_EmptySet
  <2>7. CASE breaker.state = "closed"
    BY <2>1, <2>2, <2>4, <2>6, <2>7, ClientAssumption
       DEF Gate, GateType, Probes, Become, Count, Generation
  <2>8. CASE breaker.state = "half-open"
    BY <2>1, <2>2, <2>3, <2>4, <2>6, <2>8, ClientAssumption
       DEF Gate, GateType, Probes, Become, Count, Generation
  <2> QED BY <2>5, <2>7, <2>8 DEF Gate, GateType
<1> QED BY <1>1, <1>2

(***************************************************************************)
(* An admitted attempt is one more probe, and there was room for it.       *)
(***************************************************************************)
LEMMA AdmitGate ==
    ASSUME Gate, CallType, NEW c \in Calls, Admit(c)
    PROVE  Gate'
<1> DEFINE S == IF Current.state = breaker.state THEN counted ELSE {}
<1>1. /\ IsFiniteSet(S) /\ S \subseteq counted
      /\ Current.state = "half-open" => Cardinality(S) + Current.successes = Current.requests
  <2>1. CASE Current = breaker
    BY <2>1 DEF Gate, Probes
  <2>2. CASE Current = Generation("half-open") /\ breaker.state = "open"
    BY <2>2, FS_EmptySet DEF Generation
  <2> QED BY <2>1, <2>2, CurrentType
<1>2. c \notin S
  BY <1>1 DEF Admit, Gate, Probes
<1>3. IsFiniteSet(S \cup {c}) /\ Cardinality(S \cup {c}) = Cardinality(S) + 1
  BY <1>1, <1>2, FS_AddElement
<1>4. Cardinality(S) \in Nat
  BY <1>1, FS_CardinalityType
<1>5. counted' = S \cup {c} /\ breaker' = Taken(Current)
  BY DEF Admit
<1>6. \A d \in counted' : pc'[d] = "sent"
  BY <1>1, <1>5 DEF Admit, Goto, Gate, GateType, Probes, CallType
<1>7. Current.state = "closed" \/ (Current.state = "half-open" /\ Current.requests < HalfOpenMaxReqs)
  BY DEF Admit, Admits
<1>8. counted' \in SUBSET Calls
  BY <1>1, <1>5 DEF Gate, GateType
<1>9. CASE Current.state = "closed"
  BY <1>3, <1>5, <1>6, <1>8, <1>9, CurrentType DEF Gate, GateType, Probes, Taken
<1>10. CASE Current.state = "half-open" /\ Current.requests < HalfOpenMaxReqs
  BY <1>1, <1>3, <1>4, <1>5, <1>6, <1>8, <1>10, CurrentType, ClientAssumption
     DEF Gate, GateType, Probes, Taken
<1> QED BY <1>7, <1>9, <1>10

-----------------------------------------------------------------------------
(***************************************************************************)
(* An attempt that is tried again or answered without success leaves the   *)
(* books of its call right.                                                *)
(***************************************************************************)
LEMMA RetryCalls ==
    ASSUME CallInv, NEW c \in Calls, NEW a \in {"rejected", "error"},
           pc[c] \in {"ready", "sent"}, pc[c] = "sent" \/ UNCHANGED late,
           GiveUp(c), Retry(c, a),
           UNCHANGED <<tries, expired, wire, applied>>
    PROVE  CallInv'
<1>1. CallType'
  BY DEF CallInv, CallType, Retry, Goto, Return, GiveUp
<1>2. /\ pc' = [pc EXCEPT ![c] = pc'[c]]
      /\ \/ pc'[c] = "waiting" /\ attempt[c] + 1 < MaxAttempts
         \/ pc'[c] = "done"
      /\ attempt' = attempt
      /\ res' = res \/ res' = [res EXCEPT ![c] = a]
  BY DEF CallInv, CallType, Retry, Goto, Return
<1>3. Counts'
  BY <1>2 DEF CallInv, CallType, Counts
<1>4. Effects'
  BY <1>2 DEF CallInv, CallType, Effects, GiveUp
<1> QED BY <1>1, <1>3, <1>4 DEF CallInv

(***************************************************************************)
(* Every step keeps the invariant: a call's step disturbs the breaker only *)
(* through Admit, Settle or Become, and the calls as the books say.        *)
(***************************************************************************)
LEMMA NextInv == Inv /\ [Next]_vars => Inv'
<1> SUFFICES ASSUME Inv, [Next]_vars PROVE Inv'
  OBVIOUS
<1>0. Gate /\ CallInv /\ healthy \in BOOLEAN /\ CallType
  BY DEF Inv, CallInv
<1>1. ASSUME NEW c \in Calls, Admit(c) PROVE Inv'
  <2>1. Gate'
    BY <1>0, <1>1, AdmitGate
  <2>2. CallType'
    <3>1. \A w \in Sendable(c) : w \in {"none", "sent"}
      BY DEF Sendable
    <3> QED BY <1>0, <1>1, <3>1 DEF Admit, Goto, CallType
  <2>3. Counts'
    BY <1>0, <1>1 DEF Admit, Goto, CallInv, CallType, Counts
  <2>4. Effects'
    <3>1. \A w \in Sendable(c) : w # "served"
      BY DEF Sendable
    <3> QED BY <1>0, <1>1, <3>1 DEF Admit, Goto, CallInv, CallType, Effects
  <2> QED BY <1>1, <2>1, <2>2, <2>3, <2>4, <1>0 DEF Admit, Inv, CallInv
<1>2. ASSUME NEW c \in Calls, Refuse(c) PROVE Inv'
  <2>1. Gate'
    <3>1. \A d \in counted : pc'[d] = "sent"
      BY <1>0, <1>2 DEF Refuse, Retry, Goto, Return, Gate, GateType, Probes, CallType
    <3> QED BY <1>0, <1>2, <3>1, RefreshGate DEF Refuse
  <2>2. CallInv'
    BY <1>0, <1>2, RetryCalls DEF Refuse, GiveUp
  <2> QED BY <1>0, <1>2, <2>1, <2>2 DEF Refuse, Inv
<1>3. ASSUME NEW c \in Calls, Reply(c) PROVE Inv'
  <2>1. Gate'
    <3>1. \A d \in Calls \ {c} : pc'[d] = pc[d]
      BY <1>0, <1>3 DEF Reply, Goto, CallType
    <3> QED BY <1>0, <1>3, <3>1, SettleGate DEF Reply
  <2>2. CallInv'
    BY <1>0, <1>3 DEF Reply, Goto, CallInv, CallType, Counts, Effects
  <2> QED BY <1>0, <1>3, <2>1, <2>2 DEF Reply, Inv
<1>4. ASSUME NEW c \in Calls, Reject(c) PROVE Inv'
  <2>1. Gate'
    <3>1. \A d \in Calls \ {c} : pc'[d] = pc[d]
      BY <1>0, <1>4 DEF Reject, Return, CallType
    <3> QED BY <1>0, <1>4, <3>1, SettleGate DEF Reject
  <2>2. CallInv'
    BY <1>0, <1>4 DEF Reject, Return, CallInv, CallType, Counts, Effects
  <2> QED BY <1>0, <1>4, <2>1, <2>2 DEF Reject, Inv
<1>5. ASSUME NEW c \in Calls, Overloaded(c) PROVE Inv'
  <2>1. Gate'
    <3>1. \A d \in Calls \ {c} : pc'[d] = pc[d]
      BY <1>0, <1>5 DEF Overloaded, Retry, Goto, Return, CallType
    <3> QED BY <1>0, <1>5, <3>1, SettleGate DEF Overloaded
  <2>2. CallInv'
    BY <1>0, <1>5, RetryCalls DEF Overloaded
  <2> QED BY <1>0, <1>5, <2>1, <2>2 DEF Overloaded, Inv
<1>6. ASSUME NEW c \in Calls, Fail(c) PROVE Inv'
  <2>1. Gate'
    <3>1. \A d \in Calls \ {c} : pc'[d] = pc[d]
      BY <1>0, <1>6 DEF Fail, Retry, Goto, Return, CallType
    <3> QED BY <1>0, <1>6, <3>1, SettleGate DEF Fail
  <2>2. CallInv'
    BY <1>0, <1>6, RetryCalls DEF Fail, Failing
  <2> QED BY <1>0, <1>6, <2>1, <2>2 DEF Fail, Inv
<1>7. ASSUME NEW c \in Calls, Wake(c) PROVE Inv'
  <2>1. Gate'
    BY <1>0, <1>7 DEF Wake, gate, Gate, GateType, Probes, CallType
  <2>2. CallInv'
    BY <1>0, <1>7, ClientAssumption DEF Wake, CallInv, CallType, Counts, Effects
  <2> QED BY <1>0, <1>7, <2>1, <2>2 DEF Wake, Inv
<1>8. ASSUME NEW c \in Calls, ReadBody(c) PROVE Inv'
  <2>1. Gate'
    BY <1>0, <1>8 DEF ReadBody, Return, gate, Gate, GateType, Probes, CallType
  <2>2. CallInv'
    BY <1>0, <1>8 DEF ReadBody, Return, CallInv, CallType, Counts, Effects
  <2> QED BY <1>0, <1>8, <2>1, <2>2 DEF ReadBody, Inv
<1>9. ASSUME NEW c \in Calls, Renew(c) PROVE Inv'
  <2>1. Gate'
    BY <1>0, <1>9 DEF Renew, gate, Gate, GateType, Probes, CallType
  <2>2. CallInv'
    BY <1>0, <1>9, ClientAssumption DEF Renew, CallInv, CallType, Counts, Effects
  <2> QED BY <1>0, <1>9, <2>1, <2>2 DEF Renew, Inv
<1>10. ASSUME NEW c \in Calls, Serve(c) \/ ServeLate(c) \/ Deadline(c) PROVE Inv'
  <2>1. Gate' /\ healthy' \in BOOLEAN
    BY <1>0, <1>10 DEF Serve, ServeLate, Deadline, loop, gate, Gate, GateType, Probes
  <2>2. CASE Serve(c)
    BY <1>0, <2>1, <2>2 DEF Serve, loop, Inv, CallInv, CallType, Counts, Effects
  <2>3. CASE ServeLate(c)
    BY <1>0, <2>1, <2>3 DEF ServeLate, loop, Inv, CallInv, CallType, Counts, Effects
  <2>4. CASE Deadline(c)
    BY <1>0, <2>1, <2>4 DEF Deadline, loop, Inv, CallInv, CallType, Counts, Effects
  <2> QED BY <1>10, <2>2, <2>3, <2>4
<1>11. CASE ResetElapses
  BY <1>0, <1>11 DEF ResetElapses, loop, Inv, Gate, GateType, Probes, CallInv, CallType, Counts, Effects
<1>12. CASE ChangeHealth \/ UNCHANGED vars
  BY <1>0, <1>12 DEF ChangeHealth, vars, gate, loop,
     Inv, Gate, GateType, Probes, CallInv, CallType, Counts, Effects
<1> QED BY <1>1, <1>2, <1>3, <1>4, <1>5, <1>6, <1>7, <1>8, <1>9, <1>10, <1>11, <1>12
        DEF Next, Attempt

(***************************************************************************)
(* The inductive invariant holds in every reachable state.                 *)
(***************************************************************************)
THEOREM Inductive == Spec => []Inv
BY InitInv, NextInv, PTL DEF Spec

(***************************************************************************)
(* Every variable keeps its type.                                          *)
(***************************************************************************)
THEOREM TypeCorrect == Spec => []TypeOK
<1>1. Inv => TypeOK
  BY DEF Inv, Gate, GateType, CallInv, CallType, TypeOK
<1> QED BY <1>1, Inductive, PTL

(***************************************************************************)
(* The half-open breaker never has more attempts out, or returned with     *)
(* success, than it admits.                                                *)
(***************************************************************************)
THEOREM ProbesAreLimited == Spec => []ProbesLimited
<1>1. Inv => ProbesLimited
  BY ClientAssumption DEF Inv, Gate, GateType, Probes, ProbesLimited
<1> QED BY <1>1, Inductive, PTL

(***************************************************************************)
(* A request is carried out at most as often as it was let through, and    *)
(* never more than MaxAttempts times.                                      *)
(***************************************************************************)
THEOREM NoExtraEffects == Spec => []AppliedWithinTries
<1>1. Inv => AppliedWithinTries
  BY ClientAssumption DEF Inv, CallInv, CallType, Counts, Effects, AppliedWithinTries
<1> QED BY <1>1, Inductive, PTL

(***************************************************************************)
(* Success is only answered for what was carried out.                      *)
(***************************************************************************)
THEOREM NoFalseSuccess == Spec => []OkIsApplied
<1>1. Inv => OkIsApplied
  BY DEF Inv, CallInv, Effects, OkIsApplied
<1> QED BY <1>1, Inductive, PTL

-----------------------------------------------------------------------------
(***************************************************************************)
(* The promise to the callers: every step of the client is a step of one   *)
(* call, or none that its caller or the upstream notices.                  *)
(***************************************************************************)

\* A caller gets an answer that the books allow, and gets it once.
LEMMA AnswerStep ==
    ASSUME CallType, NEW c \in Calls, res[c] = "none",
           NEW a \in {"ok", "rejected", "unread", "error"}, Return(c, a),
           a = "rejected" => tries[c] > 0,
           a \in {"ok", "unread"} => applied[c] > 0,
           UNCHANGED <<tries, applied>>
    PROVE  Call!Next
<1>1. a \in Call!Answers(c)
  BY DEF Call!Answers
<1>2. Call!Answer(c)
  BY <1>1 DEF Call!Answer, Return
<1> QED BY <1>2 DEF Call!Next

\* Trying again is nobody's business.
LEMMA RetryStep ==
    ASSUME CallType, NEW c \in Calls, res[c] = "none",
           NEW a \in {"rejected", "error"}, Retry(c, a),
           a = "rejected" => tries[c] > 0,
           UNCHANGED <<tries, applied>>
    PROVE  [Call!Next]_(Call!call)
<1>1. CASE attempt[c] + 1 < MaxAttempts
  BY <1>1 DEF Retry, Goto, Call!call
<1>2. CASE ~(attempt[c] + 1 < MaxAttempts)
  BY <1>2, AnswerStep DEF Retry
<1> QED BY <1>1, <1>2

\* An attempt that was sent is on the books.
LEMMA SentIsTried ==
    ASSUME CallInv, NEW c \in Calls, pc[c] = "sent", wire[c] # "none"
    PROVE  tries[c] > 0
  BY DEF CallInv, CallType, Effects

\* A call that goes on has not answered.
Unanswered == \A c \in Calls : res[c] = "none" <=> pc[c] # "done"

LEMMA UnansweredInv ==
    ASSUME CallType, Unanswered, [Next]_vars
    PROVE  Unanswered'
<1> USE DEF CallType, Unanswered, loop, gate
<1>1. ASSUME NEW c \in Calls, Admit(c) \/ Reply(c) \/ Wake(c) PROVE Unanswered'
  BY <1>1 DEF Admit, Reply, Wake, Goto
<1>2. ASSUME NEW c \in Calls, NEW a \in {"ok", "rejected", "unread", "error"},
             pc[c] # "done", Retry(c, a) \/ Return(c, a)
      PROVE  Unanswered'
  BY <1>2 DEF Retry, Goto, Return
<1>3. ASSUME NEW c \in Calls, Refuse(c) \/ Reject(c) \/ Overloaded(c) \/ Fail(c) \/ ReadBody(c)
      PROVE  Unanswered'
  <2>1. pc[c] # "done"
    BY <1>3 DEF Refuse, Reject, Overloaded, Fail, Failing, ReadBody
  <2> QED BY <1>2, <1>3, <2>1 DEF Refuse, Reject, Overloaded, Fail, ReadBody
<1>4. ASSUME NEW c \in Calls, Renew(c) PROVE Unanswered'
  BY <1>4 DEF Renew
<1>5. ASSUME NEW c \in Calls, Serve(c) \/ ServeLate(c) \/ Deadline(c) PROVE Unanswered'
  BY <1>5 DEF Serve, ServeLate, Deadline
<1>6. CASE ResetElapses \/ ChangeHealth \/ UNCHANGED vars
  BY <1>6 DEF ResetElapses, ChangeHealth, vars
<1> QED BY <1>1, <1>3, <1>4, <1>5, <1>6 DEF Next, Attempt

\* What one call does.
LEMMA AttemptStep ==
    ASSUME CallInv, Unanswered, NEW c \in Calls, Attempt(c)
    PROVE  [Call!Next]_(Call!call)
<1> CallType
  BY DEF CallInv
<1>0. res[c] = "none"
  BY DEF Attempt, Admit, Refuse, Reply, Reject, Overloaded, Fail, Failing, Wake, ReadBody, Unanswered
<1>1. CASE Admit(c)
  <2>1. tries[c] < MaxAttempts
    BY <1>1, ClientAssumption DEF Admit, CallInv, CallType, Counts
  <2>2. Call!Send(c)
    BY <1>0, <1>1, <2>1 DEF Call!Send, Admit, Goto
  <2> QED BY <2>2 DEF Call!Next
<1>2. CASE Refuse(c)
  BY <1>0, <1>2, RetryStep DEF Refuse
<1>3. CASE Reply(c) \/ Wake(c)
  BY <1>3 DEF Reply, Wake, Goto, Call!call
<1>4. CASE Reject(c)
  BY <1>0, <1>4, SentIsTried, AnswerStep DEF Reject
<1>5. CASE Overloaded(c)
  BY <1>0, <1>5, SentIsTried, RetryStep DEF Overloaded
<1>6. CASE Fail(c)
  BY <1>0, <1>6, RetryStep DEF Fail
<1>7. CASE ReadBody(c)
  <2>1. applied[c] > 0
    BY <1>7 DEF ReadBody, CallInv, Effects
  <2> QED BY <1>0, <1>7, <2>1, AnswerStep DEF ReadBody
<1> QED BY <1>1, <1>2, <1>3, <1>4, <1>5, <1>6, <1>7 DEF Attempt

\* What the upstream carries out was sent, and not carried out before.
LEMMA ServeStep ==
    ASSUME CallInv, NEW c \in Calls, Serve(c) \/ ServeLate(c)
    PROVE  Call!Next
<1>1. applied[c] < tries[c]
  BY DEF CallInv, CallType, Effects, Serve, ServeLate
<1>2. Call!CarryOut(c)
  BY <1>1 DEF Call!CarryOut, Serve, ServeLate, loop
<1> QED BY <1>2 DEF Call!Next

\* The client implements the call it promises: at most MaxAttempts sendings,
\* none after the answer, and an answer that is true of the request.
THEOREM CallKept == Spec => ImplementsCall
<1>1. Init => Call!Init /\ Unanswered
  BY DEF Init, Call!Init, Unanswered
<1>2. ASSUME CallInv, Unanswered, [Next]_vars PROVE [Call!Next]_(Call!call)
  <2>1. ASSUME NEW c \in Calls, Renew(c) PROVE Call!Next
    <3>1. res[c] # "none"
      BY <1>2, <2>1 DEF Renew, Unanswered
    <3>2. Call!Renew(c)
      BY <2>1, <3>1 DEF Renew, Call!Renew
    <3> QED BY <3>2 DEF Call!Next
  <2>2. ASSUME NEW c \in Calls, Deadline(c) PROVE UNCHANGED Call!call
    BY <2>2 DEF Deadline, loop, Call!call
  <2>3. CASE ResetElapses \/ ChangeHealth \/ UNCHANGED vars
    BY <2>3 DEF ResetElapses, ChangeHealth, vars, loop, Call!call
  <2> QED BY <1>2, <2>1, <2>2, <2>3, AttemptStep, ServeStep DEF Next
<1>3. Inv => CallInv /\ CallType
  BY DEF Inv, CallInv
<1>4. CallType /\ Unanswered /\ [Next]_vars => Unanswered'
  BY UnansweredInv
<1> QED BY <1>1, <1>2, <1>3, <1>4, Inductive, PTL DEF Spec, ImplementsCall, Call!Spec

-----------------------------------------------------------------------------
(***************************************************************************)
(* What closes the breaker.                                                *)
(***************************************************************************)

\* Bringing the breaker up to date never closes it.
LEMMA RefreshNeverCloses == breaker.state # "closed" => Current.state # "closed"
  BY DEF Current, Generation

\* A report that closes the breaker is a success of the last probe that is out,
\* and all that were admitted before it have come back.
LEMMA LastProbeCloses ==
    ASSUME Gate, NEW c \in Calls, NEW success \in BOOLEAN, Settle(c, success),
           breaker.state # "closed", breaker'.state = "closed"
    PROVE  /\ breaker.state = "half-open" /\ breaker.requests = HalfOpenMaxReqs
           /\ counted = {c} /\ success
<1>1. c \in counted
  BY RefreshNeverCloses DEF Settle, Become
<1>2. breaker.state = "half-open"
  BY <1>1 DEF Gate, GateType, Probes
<1>3. breaker' = Count(breaker, success)
  BY <1>1, <1>2 DEF Settle, Become, Current
<1>4. success /\ breaker.successes + 1 >= HalfOpenMaxReqs
  BY <1>2, <1>3 DEF Count, Generation, Gate, GateType
<1>5. /\ IsFiniteSet(counted \ {c}) /\ Cardinality(counted \ {c}) = Cardinality(counted) - 1
      /\ Cardinality(counted \ {c}) \in Nat /\ Cardinality(counted) \in Nat
  BY <1>1, FS_RemoveElement, FS_CardinalityType DEF Gate, Probes
<1>6. /\ Cardinality(counted) + breaker.successes = breaker.requests
      /\ breaker.successes \in Nat /\ breaker.requests \in 0 .. HalfOpenMaxReqs
  BY <1>2 DEF Gate, GateType, Probes
<1>7. Cardinality(counted \ {c}) = 0 /\ breaker.requests = HalfOpenMaxReqs
  BY <1>4, <1>5, <1>6, ClientAssumption
<1>8. counted \ {c} = {}
  BY <1>5, <1>7, FS_EmptySet
<1> QED BY <1>1, <1>2, <1>4, <1>7, <1>8

\* Only a complete test of the upstream closes the breaker, whatever stragglers
\* of earlier generations report meanwhile.
THEOREM ProbesClose == Spec => ClosesOnProbes
<1> DEFINE Tested == /\ breaker.state = "half-open" /\ breaker.requests = HalfOpenMaxReqs
                     /\ \E c \in Calls : counted = {c} /\ wire[c] # "none"
<1>1. ASSUME Inv, [Next]_vars, breaker.state # "closed", breaker'.state = "closed" PROVE Tested
  <2>0. Gate
    BY <1>1 DEF Inv
  <2>1. ASSUME NEW c \in Calls, Admit(c) PROVE FALSE
    BY <1>1, <2>1, RefreshNeverCloses DEF Admit, Taken
  <2>2. ASSUME NEW c \in Calls, Refuse(c) PROVE FALSE
    BY <1>1, <2>2, RefreshNeverCloses DEF Refuse, Become
  <2>3. ASSUME NEW c \in Calls, Reply(c) \/ Reject(c) \/ Overloaded(c) PROVE Tested
    <3>1. Settle(c, TRUE) /\ wire[c] # "none"
      BY <2>3 DEF Reply, Reject, Overloaded
    <3> QED BY <1>1, <2>0, <3>1, LastProbeCloses
  <2>4. ASSUME NEW c \in Calls, Fail(c) PROVE FALSE
    BY <1>1, <2>0, <2>4, LastProbeCloses DEF Fail
  <2>5. ASSUME NEW c \in Calls, Wake(c) \/ ReadBody(c) \/ Renew(c) PROVE FALSE
    BY <1>1, <2>5 DEF Wake, ReadBody, Renew, gate
  <2>6. ASSUME NEW c \in Calls, Serve(c) \/ ServeLate(c) \/ Deadline(c) PROVE FALSE
    BY <1>1, <2>6 DEF Serve, ServeLate, Deadline, gate
  <2>7. ~(ResetElapses \/ ChangeHealth \/ UNCHANGED vars)
    BY <1>1, <2>0 DEF ResetElapses, ChangeHealth, vars, gate, Gate, GateType
  <2> QED BY <1>1, <2>1, <2>2, <2>3, <2>4, <2>5, <2>6, <2>7 DEF Next, Attempt
<1>2. Inv /\ [Next]_vars =>
        [breaker.state # "closed" /\ breaker'.state = "closed" => Tested]_vars
  BY <1>1
<1> QED BY <1>2, Inductive, PTL DEF Spec, ClosesOnProbes
=============================================================================
