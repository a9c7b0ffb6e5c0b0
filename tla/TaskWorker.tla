----------------------------- MODULE TaskWorker -----------------------------
(***************************************************************************)
(* Background tasks: taskqueue.Enqueue puts a task in its Redis queue, the *)
(* worker processes of cmd/worker take it, run its handler and settle it,  *)
(* with asynq between them as internal/worker/server.go sets it up.        *)
(*                                                                         *)
(* A task taken from its queue is active under a lease that the worker's   *)
(* heartbeat extends.  One goroutine waits for the handler's result, the   *)
(* end of the lease or the end of the shutdown timeout, whichever comes    *)
(* first; the handler runs in another, which nobody stops.  Every process  *)
(* also recovers the active tasks whose lease has ended.                   *)
(***************************************************************************)
EXTENDS Naturals, FiniteSets

CONSTANTS
    Tasks,        \* tasks of the six types, one enqueue call each
    Servers,      \* worker processes
    Nobody,       \* no server
    Malformed,    \* tasks whose payload the handler cannot decode
    MaxRetry,     \* of each task: five for refunds, three for the others
    Concurrency,  \* worker.concurrency
    MaxStops,     \* bound on the signals of a behaviour
    MaxFaults,    \* bound on the faults of a behaviour
    Faults        \* which faults happen: subset of FaultKinds

FaultKinds == {"redis", "crash"}

ASSUME WorkerAssumption ==
    /\ Nobody \notin Servers
    /\ Malformed \subseteq Tasks
    /\ MaxRetry \in [Tasks -> Nat]
    /\ Concurrency \in Nat \ {0}
    /\ MaxStops \in Nat
    /\ MaxFaults \in Nat
    /\ Faults \subseteq FaultKinds

VARIABLES
    task,        \* the task in Redis
    retried,     \* how often it was scheduled for a retry
    holder,      \* the server whose lease on the active task is valid
    answer,      \* what Enqueue answered
    server,      \* the worker processes
    waits,       \* does main's cleanup wait for the shutdown?
    attempts,    \* how often the task was taken from its queue
    work,        \* the goroutine of each server that waits for each task
    ticket,      \* which attempt that goroutine waits for, 0 for none
    stray,       \* attempts whose handler each server has left running
    effects,     \* attempts whose handler did its work
    requeued,    \* history: how often a shutdown put the task back
    disturbed,   \* history: what came between the task and its completion
    stops, spent \* how many signals and faults there were

queue == <<task, retried, holder>>
process == <<server, waits>>
waiting == <<attempts, work, ticket>>
bounds == <<stops, spent>>
vars == <<queue, answer, process, waiting, stray, effects, requeued, disturbed, bounds>>

Disturbances == {"stop", "exit", "fault"}

Init ==
    /\ task = [t \in Tasks |-> "none"]
    /\ retried = [t \in Tasks |-> 0]
    /\ holder = [t \in Tasks |-> Nobody]
    /\ answer = [t \in Tasks |-> "none"]
    /\ server = [s \in Servers |-> "down"]
    /\ waits = [s \in Servers |-> FALSE]
    /\ attempts = [t \in Tasks |-> 0]
    /\ work = [s \in Servers |-> [t \in Tasks |-> "idle"]]
    /\ ticket = [s \in Servers |-> [t \in Tasks |-> 0]]
    /\ stray = [s \in Servers |-> [t \in Tasks |-> {}]]
    /\ effects = [t \in Tasks |-> {}]
    /\ requeued = [t \in Tasks |-> 0]
    /\ disturbed = [t \in Tasks |-> {}]
    /\ stops = 0
    /\ spent = 0

Put(t, q) == task' = [task EXCEPT ![t] = q]

Busy(s) == {t \in Tasks : work[s][t] # "idle"}

Disturb(S, kind) == disturbed' = [t \in Tasks |-> disturbed[t] \cup IF t \in S THEN {kind} ELSE {}]

\* Every handler first decodes the payload and does nothing without it.
Effect(t, n) == effects' = [effects EXCEPT ![t] = IF t \in Malformed THEN @ ELSE @ \cup {n}]

-----------------------------------------------------------------------------
(***************************************************************************)
(* The caller.                                                             *)
(***************************************************************************)
Enqueue(t) ==
    /\ answer[t] = "none"
    /\ Put(t, "pending")
    /\ answer' = [answer EXCEPT ![t] = "ok"]
    /\ UNCHANGED <<retried, holder, process, waiting, stray, effects, requeued, disturbed, bounds>>

Fault(kind) == kind \in Faults /\ spent < MaxFaults /\ spent' = spent + 1 /\ UNCHANGED stops

\* The task may be in its queue although the caller is told of an error.
EnqueueFails(t) ==
    /\ answer[t] = "none"
    /\ Fault("redis")
    /\ task[t] = "none" /\ (UNCHANGED task \/ Put(t, "pending"))
    /\ answer' = [answer EXCEPT ![t] = "error"]
    /\ UNCHANGED <<retried, holder, process, waiting, stray, effects, requeued, disturbed>>

-----------------------------------------------------------------------------
(***************************************************************************)
(* A worker process and its tasks.                                         *)
(***************************************************************************)
Take(s, t) ==
    /\ Put(t, "active")
    /\ holder' = [holder EXCEPT ![t] = s]
    /\ attempts' = [attempts EXCEPT ![t] = @ + 1]
    /\ ticket' = [ticket EXCEPT ![s][t] = attempts[t] + 1]
    /\ work' = [work EXCEPT ![s][t] = "handling"]
    /\ UNCHANGED <<retried, answer, process, stray, effects, requeued, disturbed, bounds>>

Dequeue(s, t) ==
    /\ server[s] = "up"
    /\ task[t] = "pending"
    /\ work[s][t] = "idle" /\ Cardinality(Busy(s)) < Concurrency
    /\ Take(s, t)

\* The handler returns: nil after its work, SkipRetry on a malformed payload.
Handle(s, t) ==
    /\ work[s][t] = "handling"
    /\ Effect(t, ticket[s][t])
    /\ work' = [work EXCEPT ![s][t] = "returned"]
    /\ UNCHANGED <<queue, answer, process, attempts, ticket, stray, requeued, disturbed, bounds>>

\* The waiting goroutine leaves; its handler, if it still runs, stays behind.
Leave(s, t) ==
    /\ work' = [work EXCEPT ![s][t] = "idle"]
    /\ ticket' = [ticket EXCEPT ![s][t] = 0]
    /\ stray' = [stray EXCEPT ![s][t] = IF work[s][t] = "handling" THEN @ \cup {ticket[s][t]} ELSE @]
    /\ UNCHANGED attempts

\* Mutant: a worker settles its task without a look at its lease.
SettleUnleased(s, t) ==
    /\ work[s][t] = "returned"
    /\ Put(t, IF t \in Malformed THEN "archived" ELSE "completed")
    /\ holder' = [holder EXCEPT ![t] = Nobody]
    /\ Leave(s, t)
    /\ UNCHANGED <<retried, answer, process, effects, requeued, disturbed, bounds>>

\* Redis is asked again until the lease ends.
Settle(s, t) ==
    /\ work[s][t] = "returned" /\ holder[t] = s
    /\ Put(t, IF t \in Malformed THEN "archived" ELSE "completed")
    /\ holder' = [holder EXCEPT ![t] = Nobody]
    /\ Leave(s, t)
    /\ UNCHANGED <<retried, answer, process, effects, requeued, disturbed, bounds>>

\* Its lease has ended: whatever the handler returned, it settles nothing.
Forget(s, t) ==
    /\ work[s][t] # "idle" /\ holder[t] # s
    /\ Leave(s, t)
    /\ UNCHANGED <<queue, answer, process, effects, requeued, disturbed, bounds>>

Straggle(s, t) ==
    /\ \E n \in stray[s][t] :
          /\ stray' = [stray EXCEPT ![s][t] = @ \ {n}]
          /\ Effect(t, n)
    /\ UNCHANGED <<queue, answer, process, waiting, requeued, disturbed, bounds>>

-----------------------------------------------------------------------------
(***************************************************************************)
(* Retries and recovery.                                                   *)
(***************************************************************************)
Forward(s, t) ==
    /\ server[s] = "up"
    /\ task[t] = "retry"
    /\ Put(t, "pending")
    /\ UNCHANGED <<retried, holder, answer, process, waiting, stray, effects, requeued, disturbed, bounds>>

\* A lease nobody extends any more.
LeaseEnds(t) ==
    /\ \E s \in Servers : holder[t] = s /\ work[s][t] = "idle"
    /\ holder' = [holder EXCEPT ![t] = Nobody]
    /\ UNCHANGED <<task, retried, answer, process, waiting, stray, effects, requeued, disturbed, bounds>>

\* Mutant: one retry too many.
RecoverOnceMore(s, t) ==
    /\ server[s] # "down"
    /\ task[t] = "active" /\ holder[t] = Nobody
    /\ \/ /\ retried[t] <= MaxRetry[t]
          /\ Put(t, "retry")
          /\ retried' = [retried EXCEPT ![t] = @ + 1]
       \/ /\ retried[t] > MaxRetry[t]
          /\ Put(t, "archived")
          /\ UNCHANGED retried
    /\ UNCHANGED <<holder, answer, process, waiting, stray, effects, requeued, disturbed, bounds>>

\* Mutant: a task that has used up its retries is left where it is.
RecoverUnlessExhausted(s, t) ==
    /\ server[s] # "down"
    /\ task[t] = "active" /\ holder[t] = Nobody
    /\ retried[t] < MaxRetry[t]
    /\ Put(t, "retry")
    /\ retried' = [retried EXCEPT ![t] = @ + 1]
    /\ UNCHANGED <<holder, answer, process, waiting, stray, effects, requeued, disturbed, bounds>>

Recover(s, t) ==
    /\ server[s] # "down"
    /\ task[t] = "active" /\ holder[t] = Nobody
    /\ \/ /\ retried[t] < MaxRetry[t]
          /\ Put(t, "retry")
          /\ retried' = [retried EXCEPT ![t] = @ + 1]
       \/ /\ retried[t] >= MaxRetry[t]
          /\ Put(t, "archived")
          /\ UNCHANGED retried
    /\ UNCHANGED <<holder, answer, process, waiting, stray, effects, requeued, disturbed, bounds>>

-----------------------------------------------------------------------------
(***************************************************************************)
(* Start, shutdown and death of a worker process.                          *)
(***************************************************************************)
Start(s) ==
    /\ server[s] = "down"
    /\ server' = [server EXCEPT ![s] = "up"]
    /\ UNCHANGED <<queue, answer, waits, waiting, stray, effects, requeued, disturbed, bounds>>

\* SIGTERM wakes both main, whose deferred cleanup calls Shutdown, and asynq's
\* Run, which calls it as well; the second of the two calls returns at once.
Signal(s) ==
    /\ server[s] = "up"
    /\ stops < MaxStops
    /\ stops' = stops + 1
    /\ server' = [server EXCEPT ![s] = "draining"]
    /\ \E b \in BOOLEAN : waits' = [waits EXCEPT ![s] = b]
    /\ UNCHANGED <<queue, answer, waiting, stray, effects, requeued, disturbed, spent>>

\* ShutdownTimeout has passed and a handler has not returned.
TimeIsUp(s) ==
    /\ server[s] = "draining" /\ Busy(s) # {}
    /\ server' = [server EXCEPT ![s] = "aborting"]
    /\ UNCHANGED <<queue, answer, waits, waiting, stray, effects, requeued, disturbed, bounds>>

\* Mutant: the goroutine leaves without putting its task back.
AbortDrops(s, t) ==
    /\ server[s] = "aborting" /\ work[s][t] # "idle" /\ holder[t] = s
    /\ requeued' = [requeued EXCEPT ![t] = @ + 1]
    /\ Disturb({t}, "stop")
    /\ Leave(s, t)
    /\ UNCHANGED <<queue, answer, process, effects, bounds>>

\* The task goes back to its queue, not counted as a retry.
Abort(s, t) ==
    /\ server[s] = "aborting" /\ work[s][t] # "idle" /\ holder[t] = s
    /\ Put(t, "pending")
    /\ holder' = [holder EXCEPT ![t] = Nobody]
    /\ requeued' = [requeued EXCEPT ![t] = @ + 1]
    /\ Disturb({t}, "stop")
    /\ Leave(s, t)
    /\ UNCHANGED <<retried, answer, process, effects, bounds>>

AbortFails(s, t) ==
    /\ server[s] = "aborting" /\ work[s][t] # "idle" /\ holder[t] = s
    /\ Fault("redis")
    /\ Disturb({t}, "fault")
    /\ Leave(s, t)
    /\ UNCHANGED <<queue, answer, process, effects, requeued>>

Die(s) ==
    /\ server' = [server EXCEPT ![s] = "down"]
    /\ work' = [work EXCEPT ![s] = [t \in Tasks |-> "idle"]]
    /\ ticket' = [ticket EXCEPT ![s] = [t \in Tasks |-> 0]]
    /\ stray' = [stray EXCEPT ![s] = [t \in Tasks |-> {}]]
    /\ UNCHANGED <<queue, answer, waits, attempts, effects, requeued>>

\* Mutant: main does not wait even if its own call does the shutdown.
ExitAtOnce(s) ==
    /\ server[s] \in {"draining", "aborting"}
    /\ Disturb(IF waits[s] THEN {} ELSE Busy(s), "exit")
    /\ Die(s)
    /\ UNCHANGED bounds

\* main returns when its call to Shutdown has: every goroutine has left, or
\* asynq's own call came first and nothing is waited for.
Exit(s) ==
    /\ server[s] \in {"draining", "aborting"}
    /\ waits[s] => Busy(s) = {}
    /\ Disturb(Busy(s), "exit")
    /\ Die(s)
    /\ UNCHANGED bounds

Crash(s) ==
    /\ server[s] # "down"
    /\ Fault("crash")
    /\ Disturb(Busy(s), "fault")
    /\ Die(s)

\* A stalled process, or a Redis it cannot reach, for longer than the lease.
LeaseLost(s, t) ==
    /\ work[s][t] # "idle" /\ holder[t] = s
    /\ Fault("redis")
    /\ holder' = [holder EXCEPT ![t] = Nobody]
    /\ Disturb({t}, "fault")
    /\ UNCHANGED <<task, retried, answer, process, waiting, stray, effects, requeued>>

-----------------------------------------------------------------------------
Process(s, t) == Dequeue(s, t) \/ Handle(s, t) \/ Settle(s, t) \/ Forget(s, t) \/ Abort(s, t)

Maintain(s, t) == Forward(s, t) \/ Recover(s, t)

\* Every task is settled and the workers poll empty queues.
Idle ==
    /\ \A t \in Tasks : answer[t] # "none" /\ task[t] \in {"none", "completed", "archived"}
    /\ \A s \in Servers : server[s] = "up" /\ Busy(s) = {}
    /\ UNCHANGED vars

Next ==
    \/ \E t \in Tasks : Enqueue(t) \/ EnqueueFails(t) \/ LeaseEnds(t)
    \/ \E s \in Servers, t \in Tasks :
          Process(s, t) \/ Maintain(s, t) \/ Straggle(s, t) \/ AbortFails(s, t) \/ LeaseLost(s, t)
    \/ \E s \in Servers : Start(s) \/ Signal(s) \/ TimeIsUp(s) \/ Exit(s) \/ Crash(s)
    \/ Idle

Spec == Init /\ [][Next]_vars

(***************************************************************************)
(* Goroutines run, asynq's loops come round, leases end, a process that    *)
(* has been told to stop does, and one that has exited is started again.   *)
(* Nothing obliges a call, a signal, the shutdown timeout or a fault.      *)
(***************************************************************************)
FairSpec ==
    /\ Spec
    /\ \A s \in Servers, t \in Tasks : WF_vars(Process(s, t)) /\ WF_vars(Maintain(s, t))
    /\ \A t \in Tasks : WF_vars(LeaseEnds(t))
    /\ \A s \in Servers : WF_vars(Start(s)) /\ WF_vars(Exit(s))

-----------------------------------------------------------------------------
(***************************************************************************)
(* Properties.                                                             *)
(***************************************************************************)

\* Every variable has its type.
TypeOK ==
    /\ task \in [Tasks -> {"none", "pending", "active", "retry", "archived", "completed"}]
    /\ retried \in [Tasks -> Nat] /\ \A t \in Tasks : retried[t] <= MaxRetry[t]
    /\ holder \in [Tasks -> Servers \cup {Nobody}]
    /\ answer \in [Tasks -> {"none", "ok", "error"}]
    /\ server \in [Servers -> {"down", "up", "draining", "aborting"}]
    /\ waits \in [Servers -> BOOLEAN]
    /\ attempts \in [Tasks -> Nat]
    /\ work \in [Servers -> [Tasks -> {"idle", "handling", "returned"}]]
    /\ ticket \in [Servers -> [Tasks -> Nat]]
    /\ stray \in [Servers -> [Tasks -> SUBSET Nat]]
    /\ effects \in [Tasks -> SUBSET Nat]
    /\ requeued \in [Tasks -> Nat]
    /\ disturbed \in [Tasks -> SUBSET Disturbances]
    /\ stops \in 0 .. MaxStops
    /\ spent \in 0 .. MaxFaults

\* Without a fault or an interrupted handler a task runs once, whichever
\* processes start, stop and recover around it; a retry takes a fault or an
\* exit that did not wait.
OnlyDisturbedRepeat ==
    \A t \in Tasks :
        /\ Cardinality(effects[t]) > 1 => disturbed[t] # {}
        /\ retried[t] > 0 => disturbed[t] \ {"stop"} # {}

\* Active for ever as far as the workers are concerned: nobody waits for it.
Orphan(t) == task[t] = "active" /\ \A s \in Servers : work[s][t] = "idle"

\* A shutdown that is waited for settles or puts back what it interrupts: only a
\* fault or an exit that did not wait leaves a task to the lease.
OnlyFaultsOrphan == \A t \in Tasks : Orphan(t) => disturbed[t] \ {"stop"} # {}

\* What the caller of Enqueue sees of a task.
Stage(t) == IF task[t] \in {"pending", "active", "retry"} THEN "open" ELSE task[t]

Ledger == INSTANCE TaskLedger WITH
    state <- [t \in Tasks |-> Stage(t)], runs <- effects, retries <- retried, returns <- requeued

\* The worker processes, their leases, shutdowns and stragglers together keep
\* the ledger: nothing is settled twice or reopened, whoever answers late, no
\* retry is counted on a settled task, and no handler runs beyond its turns.
ImplementsLedger == Ledger!Spec

\* A task that reached its queue is completed or archived in the end, whatever
\* stops, crashes and lost leases come first, also if the caller was told of an
\* error.
EveryTaskSettles ==
    \A t \in Tasks : task[t] = "pending" ~> task[t] \in {"completed", "archived"}
=============================================================================
