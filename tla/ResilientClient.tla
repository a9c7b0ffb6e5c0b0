-------------------------- MODULE ResilientClient --------------------------
(***************************************************************************)
(* The shared outbound HTTP client of internal/pkg/httpclient: concurrent  *)
(* calls, each a loop of attempts with waits in between, all of them       *)
(* passing one circuit breaker (gobreaker, used as circuitbreaker.go sets  *)
(* it up) on their way to an upstream.                                     *)
(*                                                                         *)
(* An attempt takes a slot of the breaker, travels, and reports back; what *)
(* other calls do in between may have opened, half-opened or closed the    *)
(* breaker, which then no longer counts the attempt.  A request given up   *)
(* may still be on the wire and be carried out later.  Calls keep coming:  *)
(* when one has been answered its place is taken by the next.              *)
(***************************************************************************)
EXTENDS Naturals, FiniteSets

CONSTANTS
    Calls,            \* calls in flight at the same time
    MaxAttempts,      \* RetryConfig.MaxAttempts (0 counts as 1)
    MaxFailures,      \* consecutive failures that open the breaker
    HalfOpenMaxReqs   \* probes the half-open breaker admits (0 counts as 1)

ASSUME ClientAssumption ==
    /\ MaxAttempts \in Nat \ {0}
    /\ MaxFailures \in Nat \ {0}
    /\ HalfOpenMaxReqs \in Nat \ {0}

VARIABLES
    healthy,   \* does the upstream answer, in time?
    breaker,   \* the breaker
    counted,   \* calls whose attempt belongs to the breaker's current generation
    pc,        \* how far each call has got
    attempt,   \* the attempt each call is at, from 0
    tries,     \* how many attempts of the call the breaker admitted
    expired,   \* has the call's context run out?
    wire,      \* the current attempt: not sent, sent, carried out
    applied,   \* how often the upstream carried the request out
    late,      \* attempts given up that are still on the wire
    res        \* what the call answered

loop == <<pc, attempt, res>>
gate == <<breaker, counted>>
vars == <<healthy, gate, loop, tries, expired, wire, applied, late>>

\* A new generation starts whenever the breaker changes its state.
Generation(s) == [state |-> s, requests |-> 0, successes |-> 0, failures |-> 0, elapsed |-> FALSE]

Init ==
    /\ healthy \in BOOLEAN
    /\ breaker = Generation("closed")
    /\ counted = {}
    /\ pc = [c \in Calls |-> "ready"]
    /\ attempt = [c \in Calls |-> 0]
    /\ tries = [c \in Calls |-> 0]
    /\ expired = [c \in Calls |-> FALSE]
    /\ wire = [c \in Calls |-> "none"]
    /\ applied = [c \in Calls |-> 0]
    /\ late = [c \in Calls |-> 0]
    /\ res = [c \in Calls |-> "none"]

-----------------------------------------------------------------------------
(***************************************************************************)
(* The breaker, under its mutex.                                           *)
(***************************************************************************)

\* The state is brought up to date before each use.
Current == IF breaker.state = "open" /\ breaker.elapsed THEN Generation("half-open") ELSE breaker

\* Mutant: the half-open breaker lets everything through.
AdmitsUnlessOpen(b) == b.state # "open"

Admits(b) ==
    \/ b.state = "closed"
    \/ b.state = "half-open" /\ b.requests < HalfOpenMaxReqs

\* Only the half-open breaker looks at the number of requests.
Taken(b) == IF b.state = "half-open" THEN [b EXCEPT !.requests = @ + 1] ELSE b

Count(b, success) ==
    CASE b.state = "closed" /\ success -> [b EXCEPT !.failures = 0]
      [] b.state = "closed" /\ ~success ->
            IF b.failures + 1 >= MaxFailures THEN Generation("open") ELSE [b EXCEPT !.failures = @ + 1]
      [] b.state = "half-open" /\ success ->
            IF b.successes + 1 >= HalfOpenMaxReqs
            THEN Generation("closed") ELSE [b EXCEPT !.successes = @ + 1]
      [] b.state = "half-open" /\ ~success -> Generation("open")
      [] OTHER -> b

\* Mutant: a change of state forgets nobody.
BecomeForgetsNobody(b, S) ==
    /\ breaker' = b
    /\ counted' = S

\* The breaker becomes b, and the calls in S are of its generation if it stays
\* in its state; a change of state forgets those before it.
Become(b, S) ==
    /\ breaker' = b
    /\ counted' = IF b.state = breaker.state THEN S ELSE {}

\* An attempt reports back; one of an earlier generation is not counted.
Settle(c, success) ==
    Become(IF c \in counted THEN Count(Current, success) ELSE Current, counted \ {c})

ResetElapses ==
    /\ breaker.state = "open" /\ ~breaker.elapsed
    /\ breaker' = [breaker EXCEPT !.elapsed = TRUE]
    /\ UNCHANGED <<healthy, counted, loop, tries, expired, wire, applied, late>>

-----------------------------------------------------------------------------
(***************************************************************************)
(* The retry loop.                                                         *)
(***************************************************************************)
Goto(c, l) == pc' = [pc EXCEPT ![c] = l] /\ UNCHANGED <<attempt, res>>

Return(c, a) ==
    /\ pc' = [pc EXCEPT ![c] = "done"]
    /\ res' = [res EXCEPT ![c] = a]
    /\ UNCHANGED attempt

\* Mutant: the last attempt is retried too.
RetryOnceMore(c, a) ==
    IF attempt[c] < MaxAttempts THEN Goto(c, "waiting") ELSE Return(c, a)

\* Mutant: the caller has its answer and the loop goes on behind it.
RetryBehind(c, a) ==
    IF attempt[c] + 1 < MaxAttempts
    THEN pc' = [pc EXCEPT ![c] = "waiting"] /\ res' = [res EXCEPT ![c] = a] /\ UNCHANGED attempt
    ELSE Return(c, a)

\* What would be answered a is tried again unless it was the last attempt.
Retry(c, a) ==
    IF attempt[c] + 1 < MaxAttempts THEN Goto(c, "waiting") ELSE Return(c, a)

\* Whether the attempt goes out: not on a context that has run out, and maybe
\* not when an earlier attempt has consumed the body, which only the transport
\* rewinds, and only on a connection it reuses.
Sendable(c) ==
    IF expired[c] THEN {"none"} ELSE IF tries[c] > 0 THEN {"none", "sent"} ELSE {"sent"}

Admit(c) ==
    /\ pc[c] = "ready"
    /\ Admits(Current)
    /\ breaker' = Taken(Current)
    /\ counted' = (IF Current.state = breaker.state THEN counted ELSE {}) \cup {c}
    /\ \E w \in Sendable(c) : wire' = [wire EXCEPT ![c] = w]
    /\ tries' = [tries EXCEPT ![c] = @ + 1]
    /\ Goto(c, "sent")
    /\ UNCHANGED <<healthy, expired, applied, late>>

\* Mutant: a refused call asks again at once and gives up no attempt for it.
RefuseForFree(c) ==
    /\ pc[c] = "ready"
    /\ ~Admits(Current)
    /\ Become(Current, counted)
    /\ UNCHANGED <<healthy, loop, tries, expired, wire, applied, late>>

\* A refusal is an error like any other to the loop.
Refuse(c) ==
    /\ pc[c] = "ready"
    /\ ~Admits(Current)
    /\ Become(Current, counted)
    /\ Retry(c, "error")
    /\ UNCHANGED <<healthy, tries, expired, wire, applied, late>>

\* A 2xx: the loop ends and the caller gets a response to read.
Reply(c) ==
    /\ pc[c] = "sent" /\ wire[c] = "served" /\ ~expired[c]
    /\ Settle(c, TRUE)
    /\ Goto(c, "replied")
    /\ UNCHANGED <<healthy, tries, expired, wire, applied, late>>

\* Mutant: the breaker takes every status outside 2xx for a failure.
RejectCounts(c) ==
    /\ pc[c] = "sent" /\ wire[c] # "none" /\ ~expired[c]
    /\ Settle(c, FALSE)
    /\ Return(c, "rejected")
    /\ UNCHANGED <<healthy, tries, expired, wire, applied, late>>

\* A status that is not retried, 4xx or 500, applied or not; to the breaker
\* every response is a success.
Reject(c) ==
    /\ pc[c] = "sent" /\ wire[c] # "none" /\ ~expired[c]
    /\ Settle(c, TRUE)
    /\ Return(c, "rejected")
    /\ UNCHANGED <<healthy, tries, expired, wire, applied, late>>

\* An attempt that is given up may be carried out later if it was sent.
GiveUp(c) ==
    \/ UNCHANGED late
    \/ wire[c] = "sent" /\ late' = [late EXCEPT ![c] = @ + 1]

\* 429, 502, 503 or 504.
Overloaded(c) ==
    /\ ~healthy
    /\ pc[c] = "sent" /\ wire[c] # "none" /\ ~expired[c]
    /\ Settle(c, TRUE)
    /\ GiveUp(c)
    /\ Retry(c, "rejected")
    /\ UNCHANGED <<healthy, tries, expired, wire, applied>>

Failing(c) ==
    /\ pc[c] = "sent"
    /\ wire[c] = "none" \/ expired[c] \/ ~healthy

\* A transport error, or the context has run out.
Fail(c) ==
    /\ Failing(c)
    /\ Settle(c, FALSE)
    /\ GiveUp(c)
    /\ Retry(c, "error")
    /\ UNCHANGED <<healthy, tries, expired, wire, applied>>

\* The wait does not look at the context.
Wake(c) ==
    /\ pc[c] = "waiting"
    /\ pc' = [pc EXCEPT ![c] = "ready"]
    /\ attempt' = [attempt EXCEPT ![c] = @ + 1]
    /\ UNCHANGED <<healthy, gate, res, tries, expired, wire, applied, late>>

\* Do cancelled the context when it returned: reading the body may fail.
ReadBody(c) ==
    /\ pc[c] = "replied"
    /\ Return(c, "ok") \/ Return(c, "unread")
    /\ UNCHANGED <<healthy, gate, tries, expired, wire, applied, late>>

\* The next call takes the place of one that was answered.
Renew(c) ==
    /\ pc[c] = "done"
    /\ pc' = [pc EXCEPT ![c] = "ready"]
    /\ attempt' = [attempt EXCEPT ![c] = 0]
    /\ tries' = [tries EXCEPT ![c] = 0]
    /\ expired' = [expired EXCEPT ![c] = FALSE]
    /\ wire' = [wire EXCEPT ![c] = "none"]
    /\ applied' = [applied EXCEPT ![c] = 0]
    /\ late' = [late EXCEPT ![c] = 0]
    /\ res' = [res EXCEPT ![c] = "none"]
    /\ UNCHANGED <<healthy, gate>>

-----------------------------------------------------------------------------
(***************************************************************************)
(* The upstream and the clock.                                             *)
(***************************************************************************)
Serve(c) ==
    /\ pc[c] = "sent" /\ wire[c] = "sent"
    /\ wire' = [wire EXCEPT ![c] = "served"]
    /\ applied' = [applied EXCEPT ![c] = @ + 1]
    /\ UNCHANGED <<healthy, gate, loop, tries, expired, late>>

ServeLate(c) ==
    /\ late[c] > 0
    /\ late' = [late EXCEPT ![c] = @ - 1]
    /\ applied' = [applied EXCEPT ![c] = @ + 1]
    /\ UNCHANGED <<healthy, gate, loop, tries, expired, wire>>

\* A healthy upstream answers before the deadline.
Deadline(c) ==
    /\ ~healthy
    /\ pc[c] \in {"ready", "sent", "waiting"} /\ ~expired[c]
    /\ expired' = [expired EXCEPT ![c] = TRUE]
    /\ UNCHANGED <<healthy, gate, loop, tries, wire, applied, late>>

ChangeHealth ==
    /\ healthy' = ~healthy
    /\ UNCHANGED <<gate, loop, tries, expired, wire, applied, late>>

Attempt(c) ==
    Admit(c) \/ Refuse(c) \/ Reply(c) \/ Reject(c) \/ Overloaded(c) \/ Fail(c) \/ Wake(c) \/ ReadBody(c)

Next ==
    \/ \E c \in Calls : Attempt(c) \/ Renew(c) \/ Serve(c) \/ ServeLate(c) \/ Deadline(c)
    \/ ResetElapses \/ ChangeHealth

Spec == Init /\ [][Next]_vars

(***************************************************************************)
(* Calls run, the reset timeout ends, and what reaches the upstream is     *)
(* carried out or fails: an attempt's own context bounds it.  Nothing      *)
(* obliges new calls, failures or health.                                  *)
(***************************************************************************)
FairSpec ==
    /\ Spec
    /\ \A c \in Calls : WF_vars(Attempt(c)) /\ WF_vars(Serve(c))
    /\ WF_vars(ResetElapses)

-----------------------------------------------------------------------------
(***************************************************************************)
(* Properties.                                                             *)
(***************************************************************************)

\* Every variable has its type.
TypeOK ==
    /\ healthy \in BOOLEAN
    /\ breaker \in [state : {"closed", "open", "half-open"}, requests : 0 .. HalfOpenMaxReqs,
                    successes : Nat, failures : 0 .. MaxFailures - 1, elapsed : BOOLEAN]
    /\ counted \in SUBSET Calls
    /\ pc \in [Calls -> {"ready", "sent", "waiting", "replied", "done"}]
    /\ attempt \in [Calls -> 0 .. MaxAttempts - 1]
    /\ tries \in [Calls -> Nat]
    /\ expired \in [Calls -> BOOLEAN]
    /\ wire \in [Calls -> {"none", "sent", "served"}]
    /\ applied \in [Calls -> Nat]
    /\ late \in [Calls -> Nat]
    /\ res \in [Calls -> {"none", "ok", "rejected", "unread", "error"}]

\* While it tests the upstream the breaker has no more attempts out, or back
\* with success, than it admits, however many older ones are still under way;
\* while it is open no attempt of its own generation is out.
ProbesLimited ==
    /\ breaker.state = "half-open" =>
          Cardinality(counted) + breaker.successes <= HalfOpenMaxReqs
    /\ breaker.state = "open" => counted = {}

\* The breaker closes only when it has let through all the probes it admits and
\* the last one that is out comes back with success, as all before it did: the
\* answer of an attempt that began before it opened closes it as little as a
\* probe of an earlier test, however late they arrive.
ClosesOnProbes ==
    [][breaker.state # "closed" /\ breaker'.state = "closed" =>
          /\ breaker.state = "half-open" /\ breaker.requests = HalfOpenMaxReqs
          /\ \E c \in Calls : counted = {c} /\ wire[c] # "none"]_vars

Call == INSTANCE RemoteCall WITH sent <- tries, carried <- applied, answer <- res

\* Retries, breaker, deadlines and stragglers together keep the promise of a
\* call: nothing is sent after the answer or beyond the attempts, an answer is
\* never taken back, and it says of the request what happened to it.
ImplementsCall == Call!Spec

\* Every call ends, whatever the breaker and the upstream do.
EveryCallEnds == \A c \in Calls : pc[c] # "done" ~> pc[c] = "done"

NewCall == \E c \in Calls : pc[c] = "ready" /\ attempt[c] = 0

\* Once the upstream stays healthy, and as long as new calls come, the breaker
\* closes and stays closed: no straggler, no expired context and no consumed
\* body keeps opening it.
RecoversWithUpstream == <>[]healthy /\ []<>NewCall => <>[](breaker.state = "closed")
=============================================================================
