--------------------------- MODULE RequestPipeline ---------------------------
(***************************************************************************)
(* The HTTP pipeline: what internal/handler/router.go wraps around every   *)
(* route (Recover, the error wrapper, the rate limiters, authentication)   *)
(* and what the handlers do before and after their use case.               *)
(*                                                                         *)
(* A request runs in one goroutine of one API process, so all that the     *)
(* requests share is the limiter's entry in Redis.  The requests here come *)
(* from one address: entries are kept per address, and requests of two     *)
(* addresses share nothing.  The middleware of the limiter reads the entry *)
(* and writes it back under a mutex of its own; the default and the auth   *)
(* limiter of each process have a mutex each and one entry between them.   *)
(*                                                                         *)
(* The processes' clocks agree, and both policies have the same window, as *)
(* in the example configuration.                                           *)
(***************************************************************************)
EXTENDS Naturals, Sequences

CONSTANTS
    Requests,        \* requests of one client address
    Procs,           \* API processes
    Workload,        \* what the requests may be
    DefaultMax, AuthMax,  \* rate_limit.default.max, rate_limit.auth.max
    Window,          \* the window of both, in ticks of the clock
    MaxClock,        \* bound on the clock
    NoEntry,         \* no entry in Redis
    MaxFaults,       \* bound on the failures of Redis
    Outcomes,        \* what the use cases may return
    RuleRegistered   \* does the shared validator know "indonesian_phone"?

Limiters == {"default", "auth"}

Codes == {"BAD_REQUEST", "UNAUTHORIZED", "FORBIDDEN", "NOT_FOUND", "CONFLICT",
          "UNPROCESSABLE_ENTITY", "INTERNAL_ERROR", "SERVICE_UNAVAILABLE"}

(***************************************************************************)
(* The routes by what they pass through: probe is /healthz and /readyz,    *)
(* nowhere a path below /api/v1 that no route has, read the two GETs of    *)
(* /users, session login and refresh, signup /auth/register, and create,   *)
(* update and remove the POST, PUT and DELETE of /users.                   *)
(***************************************************************************)
Routes == {"probe", "nowhere", "read", "session", "signup", "create", "update", "remove"}

Inputs == {"good", "malformed", "invalid"}

\* token: is it valid when it is checked?  Only a route with fields or a path
\* parameter can have bad input, and only one with a body can have a body that
\* parses and is invalid.
Kind == [route : Routes, token : BOOLEAN, input : Inputs]

ASSUME PipelineAssumption ==
    /\ Workload \subseteq Kind
    /\ DefaultMax \in Nat \ {0}
    /\ AuthMax \in Nat \ {0}
    /\ Window \in Nat \ {0}
    /\ MaxClock \in Nat
    /\ NoEntry \notin [hits : Nat, exp : Nat]
    /\ MaxFaults \in Nat
    /\ Outcomes \subseteq {"ok"} \cup Codes
    /\ RuleRegistered \in BOOLEAN

VARIABLES
    now,        \* the clock
    entry,      \* the client's entry in Redis: hits and the end of its window
    kind,       \* what each request is
    proc,       \* the process that serves it
    pc,         \* how far it has got
    passed,     \* how many limiters let it pass
    seen,       \* the entry it is about to write, or was refused with
    outcome,    \* what its use case returned
    res,        \* the status it was answered with
    made,       \* history: hits counted in the window that ends at each time
    through,    \* history: how many of them each limiter let pass
    disturbed,  \* history: two hits overlapped, or Redis failed
    faults      \* how often Redis failed

local == <<kind, proc>>
history == <<made, through, disturbed, faults>>
vars == <<now, entry, local, pc, passed, seen, outcome, res, history>>

Windows == 1..MaxClock + Window

Entry == [hits : Nat \ {0}, exp : Windows]

Limits(r) ==
    CASE kind[r].route = "probe" -> <<>>
      [] kind[r].route \in {"session", "signup"} -> <<"default", "auth">>
      [] OTHER -> <<"default">>

Protected(r) == kind[r].route \in {"create", "update", "remove"}

\* Do the fields of the request carry the rule "indonesian_phone"?
Ruled(r) == kind[r].route \in {"signup", "create", "update"}

AllowedBy(l) == IF l = "auth" THEN AuthMax ELSE DefaultMax

Pending(r) == passed[r] < Len(Limits(r))

Limiter(r) == Limits(r)[passed[r] + 1]

\* Mutant: LimitReached returns before the mutex is unlocked.
HoldsWhenRefused(r) == pc[r] = "counting" \/ (pc[r] = "done" /\ res[r] = 429)

\* The mutex of its process and limiter.
Holds(r) == pc[r] = "counting"

MutexFree(r) ==
    \A q \in Requests \ {r} : Holds(q) => proc[q] # proc[r] \/ Limiter(q) # Limiter(r)

-----------------------------------------------------------------------------
Init ==
    /\ now = 0
    /\ entry = NoEntry
    /\ kind \in [Requests -> Workload]
    /\ proc \in [Requests -> Procs]
    /\ pc = [r \in Requests |-> "received"]
    /\ passed = [r \in Requests |-> 0]
    /\ seen = [r \in Requests |-> NoEntry]
    /\ outcome = [r \in Requests |-> "none"]
    /\ res = [r \in Requests |-> 0]
    /\ made = [w \in Windows |-> 0]
    /\ through = [l \in Limiters |-> [w \in Windows |-> 0]]
    /\ disturbed = FALSE
    /\ faults = 0

Goto(r, l) == pc' = [pc EXCEPT ![r] = l]

Answer(r, status) == Goto(r, "done") /\ res' = [res EXCEPT ![r] = status]

-----------------------------------------------------------------------------
(***************************************************************************)
(* The limiter: read the entry, count the hit, write the entry, compare.   *)
(***************************************************************************)
\* Mutant: the entry of an ended window goes on counting.
HitForEver(e) ==
    IF e = NoEntry
    THEN [hits |-> 1, exp |-> now + Window]
    ELSE [hits |-> e.hits + 1, exp |-> IF now < e.exp THEN e.exp ELSE now + Window]

\* Mutant: every hit extends the window.
HitSliding(e) ==
    IF e = NoEntry \/ now >= e.exp
    THEN [hits |-> 1, exp |-> now + Window]
    ELSE [hits |-> e.hits + 1, exp |-> e.exp + Window]

Hit(e) ==
    IF e = NoEntry \/ now >= e.exp
    THEN [hits |-> 1, exp |-> now + Window]
    ELSE [hits |-> e.hits + 1, exp |-> e.exp]

\* A failed Get is taken for a missing entry.
ReadHits(r) ==
    /\ pc[r] = "received" /\ Pending(r)
    /\ MutexFree(r)
    /\ \E e \in {entry, NoEntry} :
          /\ faults' = IF e = entry THEN faults ELSE faults + 1
          /\ faults' <= MaxFaults
          /\ seen' = [seen EXCEPT ![r] = Hit(e)]
          /\ made' = [made EXCEPT ![Hit(e).exp] = @ + 1]
          /\ disturbed' = (disturbed \/ e # entry \/ \E q \in Requests \ {r} : Holds(q))
    /\ Goto(r, "counting")
    /\ UNCHANGED <<now, entry, local, passed, outcome, res, through>>

\* Mutant: the hits are compared before this one is counted.
WithinOneMore(r) == seen[r].hits <= AllowedBy(Limiter(r)) + 1

Within(r) == seen[r].hits <= AllowedBy(Limiter(r))

\* The error of Set is ignored.
WriteHits(r) ==
    /\ pc[r] = "counting"
    /\ \/ entry' = seen[r] /\ UNCHANGED <<disturbed, faults>>
       \/ /\ faults < MaxFaults
          /\ faults' = faults + 1
          /\ disturbed' = TRUE
          /\ UNCHANGED entry
    /\ \/ /\ Within(r)
          /\ passed' = [passed EXCEPT ![r] = @ + 1]
          /\ through' = [through EXCEPT ![Limiter(r)][seen[r].exp] = @ + 1]
          /\ seen' = [seen EXCEPT ![r] = NoEntry]
          /\ Goto(r, "received")
          /\ UNCHANGED res
       \/ /\ ~Within(r)
          /\ Answer(r, 429)
          /\ UNCHANGED <<passed, through, seen>>
    /\ UNCHANGED <<now, local, outcome, made>>

-----------------------------------------------------------------------------
(***************************************************************************)
(* Behind the limiters: authentication, then the handler binds the path    *)
(* parameter and the body and validates the body.  None of this leaves the *)
(* process, so it is one step.                                             *)
(***************************************************************************)
\* No lookup of the user and no check of the role.
Authenticated(r) == Protected(r) => kind[r].token

\* The first use of a struct's rules panics when one of them is unknown.
Panics(r) == Ruled(r) /\ ~RuleRegistered

\* What a panic becomes.
Recover(r) == Answer(r, 500)

\* Mutant: recover() leaves the answer as it was, which is an empty 200.
BindRecoverSilently(r) ==
    \/ kind[r].input = "malformed" /\ Answer(r, 400)
    \/ kind[r].input # "malformed" /\ Panics(r) /\ Answer(r, 200)
    \/ kind[r].input = "invalid" /\ ~Panics(r) /\ Answer(r, 400)
    \/ kind[r].input = "good" /\ ~Panics(r) /\ Goto(r, "bound") /\ UNCHANGED res

Bind(r) ==
    \/ kind[r].input = "malformed" /\ Answer(r, 400)
    \/ kind[r].input # "malformed" /\ Panics(r) /\ Recover(r)
    \/ kind[r].input = "invalid" /\ ~Panics(r) /\ Answer(r, 400)
    \/ kind[r].input = "good" /\ ~Panics(r) /\ Goto(r, "bound") /\ UNCHANGED res

Handle(r) ==
    /\ pc[r] = "received" /\ ~Pending(r)
    /\ CASE kind[r].route = "probe" -> Answer(r, 200)
         [] kind[r].route = "nowhere" -> Answer(r, 404)
         [] ~Authenticated(r) -> Answer(r, 401)
         [] kind[r].route \notin {"probe", "nowhere"} /\ Authenticated(r) -> Bind(r)
    /\ UNCHANGED <<now, entry, local, passed, seen, outcome, history>>

Status(code) ==
    CASE code = "BAD_REQUEST" -> 400
      [] code = "UNAUTHORIZED" -> 401
      [] code = "FORBIDDEN" -> 403
      [] code = "NOT_FOUND" -> 404
      [] code = "CONFLICT" -> 409
      [] code = "UNPROCESSABLE_ENTITY" -> 422
      [] code = "SERVICE_UNAVAILABLE" -> 503
      [] OTHER -> 500

Success(route) ==
    CASE route = "remove" -> 204
      [] route \in {"signup", "create"} -> 201
      [] OTHER -> 200

\* The use case returns, and the handler or the error handler answers.
Respond(r) ==
    /\ pc[r] = "bound"
    /\ \E o \in Outcomes :
          /\ outcome' = [outcome EXCEPT ![r] = o]
          /\ Answer(r, IF o = "ok" THEN Success(kind[r].route) ELSE Status(o))
    /\ UNCHANGED <<now, entry, local, passed, seen, history>>

-----------------------------------------------------------------------------
Tick ==
    /\ now < MaxClock
    /\ now' = now + 1
    /\ UNCHANGED <<entry, local, pc, passed, seen, outcome, res, history>>

Serve(r) == ReadHits(r) \/ WriteHits(r) \/ Handle(r) \/ Respond(r)

Answered(r) == pc[r] = "done"

Terminated == (\A r \in Requests : Answered(r)) /\ UNCHANGED vars

Next == (\E r \in Requests : Serve(r)) \/ Tick \/ Terminated

Spec == Init /\ [][Next]_vars

(***************************************************************************)
(* The Go scheduler runs every goroutine, Redis and the use cases answer   *)
(* or fail, and a Go mutex does not starve its waiters.                    *)
(***************************************************************************)
Fairness == \A r \in Requests : WF_vars(Serve(r))

FairSpec == Spec /\ Fairness

-----------------------------------------------------------------------------
(***************************************************************************)
(* Properties.                                                             *)
(***************************************************************************)
Statuses == {0, 200, 201, 204, 400, 401, 403, 404, 409, 422, 429, 500, 503}

\* Every variable has its type.
TypeOK ==
    /\ now \in 0..MaxClock
    /\ entry \in Entry \cup {NoEntry}
    /\ kind \in [Requests -> Kind]
    /\ proc \in [Requests -> Procs]
    /\ pc \in [Requests -> {"received", "counting", "bound", "done"}]
    /\ passed \in [Requests -> 0..2]
    /\ \A r \in Requests : passed[r] <= Len(Limits(r))
    /\ seen \in [Requests -> Entry \cup {NoEntry}]
    /\ outcome \in [Requests -> {"none", "ok"} \cup Codes]
    /\ res \in [Requests -> Statuses]
    /\ made \in [Windows -> Nat]
    /\ through \in [Limiters -> [Windows -> Nat]]
    /\ disturbed \in BOOLEAN
    /\ faults \in 0..MaxFaults

LetThrough(w) == through["default"][w] + through["auth"][w]

\* A client gets more through than the policies allow only when two of its
\* requests were counted at the same time or Redis failed: otherwise the auth
\* limiter lets at most AuthMax requests of a window pass, and both together
\* no more than the larger allowance, although they share the entry, run in
\* several processes and start windows as they find them.
OnlyRacesOvershoot ==
    disturbed \/ \A w \in Windows :
        /\ through["auth"][w] <= AuthMax
        /\ LetThrough(w) <= DefaultMax \/ LetThrough(w) <= AuthMax

\* No client is refused before its hits of the window have used up the
\* allowance of the limiter, whatever overlaps and fails, and the window it has
\* to wait for ends within Window of the present.
RefusalDeserved ==
    \A r \in Requests :
        res[r] = 429 =>
            /\ Pending(r)
            /\ made[seen[r].exp] > AllowedBy(Limiter(r))
            /\ seen[r].exp <= now + Window

\* What a use case needs to run.
Admitted(r) ==
    /\ passed[r] = Len(Limits(r))
    /\ Protected(r) => kind[r].token
    /\ kind[r].input = "good"
    /\ ~Panics(r)

Honest(r) ==
    CASE outcome[r] = "ok" -> res[r] \in {200, 201, 204}
      [] outcome[r] \in Codes -> res[r] \in Statuses \ {0, 200, 201, 204, 429}
      [] OTHER -> \/ res[r] \in {400, 401, 404, 429}
                  \/ res[r] = 200 /\ kind[r].route = "probe"
                  \/ res[r] = 500 /\ Panics(r)

\* A status tells what happened: a use case that ran was let through by every
\* limiter, by authentication where the route asks for it and by validation,
\* and is answered by what it returned; success without a use case is for the
\* probes; only an unregistered rule makes the pipeline itself fail.
AnswerTellsOutcome ==
    \A r \in Requests :
        /\ outcome[r] # "none" => Admitted(r)
        /\ Answered(r) => Honest(r)

\* Every request is answered: no mutex stays locked behind a refusal, and a
\* panic ends in an answer.
EveryRequestAnswered == <>(\A r \in Requests : Answered(r))
=============================================================================
