-------------------------- MODULE TaskWorkerProofs --------------------------
(***************************************************************************)
(* The safety properties of TaskWorker for any number of tasks, processes, *)
(* retries, signals and faults.  Attempts are numbered, so what a handler  *)
(* did is a set of numbers that never exceeds the attempts made, however   *)
(* late it did it; and a new attempt takes a first one, a retry or a task  *)
(* put back.                                                               *)
(***************************************************************************)
EXTENDS TaskWorker, FiniteSetTheorems, TLAPS

\* Somebody waits for the task and may settle it.
Attended(t) == \E s \in Servers : holder[t] = s /\ work[s][t] # "idle"

\* The attempts that were made, against those that were due.
Counted ==
    \A t \in Tasks :
        /\ answer[t] = "none" => task[t] = "none"
        /\ task[t] = "none" => attempts[t] = 0
        /\ attempts[t] <= 1 + retried[t] + requeued[t]
        /\ task[t] \in {"none", "pending", "retry"} => attempts[t] <= retried[t] + requeued[t]

\* Whoever handles a task, or did, has the number of an attempt; a handler that
\* returned nil has done its work.
Numbered ==
    \A t \in Tasks :
        /\ effects[t] \subseteq 1 .. attempts[t]
        /\ \A s \in Servers :
              /\ stray[s][t] \subseteq 1 .. attempts[t]
              /\ work[s][t] # "idle" => ticket[s][t] \in 1 .. attempts[t]
              /\ work[s][t] = "returned" /\ t \notin Malformed => ticket[s][t] \in effects[t]

\* Only active tasks are held, and every retry, every task put back and every
\* active task that nobody attends has its reason.
Explained ==
    \A t \in Tasks :
        /\ holder[t] # Nobody => task[t] = "active"
        /\ requeued[t] > 0 => "stop" \in disturbed[t]
        /\ retried[t] > 0 => disturbed[t] \ {"stop"} # {}
        /\ task[t] = "active" /\ ~Attended(t) => disturbed[t] \ {"stop"} # {}

\* A task is carried out at most once more than it was retried and put back,
\* handlers that outlive their lease or their shutdown included.
EffectsBounded ==
    \A t \in Tasks : Cardinality(effects[t]) <= 1 + retried[t] + requeued[t]

\* What is completed was carried out; what is archived is malformed or has used
\* up its retries.
SettledForReason ==
    \A t \in Tasks :
        /\ task[t] = "completed" => effects[t] # {}
        /\ task[t] = "archived" => t \in Malformed \/ retried[t] = MaxRetry[t]

Inv == TypeOK /\ Counted /\ Numbered /\ Explained /\ SettledForReason

(***************************************************************************)
(* Nothing has been asked for and no process runs.                         *)
(***************************************************************************)
LEMMA InitInv == Init => Inv
<1> SUFFICES ASSUME Init PROVE Inv
  OBVIOUS
<1>1. TypeOK
  BY WorkerAssumption DEF Init, TypeOK
<1>2. Counted /\ Numbered /\ Explained /\ SettledForReason
  BY <1>1 DEF Init, TypeOK, Counted, Numbered, Explained, SettledForReason
<1> QED BY <1>1, <1>2 DEF Inv

\* The first attempt is due.
LEMMA EnqueueInv ==
    ASSUME Inv, NEW t \in Tasks, Enqueue(t)
    PROVE  Inv'
<1>1. TypeOK'
  BY WorkerAssumption DEF Inv, TypeOK, Disturbances, FaultKinds, Enqueue, Put, queue, process, waiting, bounds
<1>2. Counted'
  BY <1>1 DEF Inv, TypeOK, Counted, Enqueue, Put, queue, process, waiting, bounds
<1>3. Numbered'
  BY <1>1 DEF Inv, TypeOK, Numbered, Enqueue, Put, queue, process, waiting, bounds
<1>4. Explained'
  BY <1>1, WorkerAssumption DEF Inv, TypeOK, Counted, Explained, Attended, Enqueue, Put, queue, process, waiting, bounds
<1>5. SettledForReason'
  BY <1>1 DEF Inv, TypeOK, Numbered, SettledForReason, Enqueue, Put, queue, process, waiting, bounds
<1> QED BY <1>1, <1>2, <1>3, <1>4, <1>5 DEF Inv

\* As Enqueue, or nothing.
LEMMA EnqueueFailsInv ==
    ASSUME Inv, NEW t \in Tasks, EnqueueFails(t)
    PROVE  Inv'
<1>1. TypeOK'
  BY WorkerAssumption DEF Inv, TypeOK, Disturbances, FaultKinds, EnqueueFails, Put, Fault, queue, process, waiting, bounds
<1>2. Counted'
  BY <1>1 DEF Inv, TypeOK, Counted, EnqueueFails, Put, Fault, queue, process, waiting, bounds
<1>3. Numbered'
  BY <1>1 DEF Inv, TypeOK, Numbered, EnqueueFails, Put, Fault, queue, process, waiting, bounds
<1>4. Explained'
  BY <1>1, WorkerAssumption DEF Inv, TypeOK, Explained, Attended, EnqueueFails, Put, Fault, queue, process, waiting, bounds
<1>5. SettledForReason'
  BY <1>1 DEF Inv, TypeOK, Numbered, SettledForReason, EnqueueFails, Put, Fault, queue, process, waiting, bounds
<1> QED BY <1>1, <1>2, <1>3, <1>4, <1>5 DEF Inv

\* The attempt that was due is made, under a new number.
LEMMA DequeueInv ==
    ASSUME Inv, NEW s \in Servers, NEW t \in Tasks, Dequeue(s, t)
    PROVE  Inv'
<1>1. TypeOK'
  BY WorkerAssumption DEF Inv, TypeOK, Disturbances, FaultKinds, Dequeue, Take, Put, queue, process, waiting, bounds
<1>2. Counted'
  BY <1>1 DEF Inv, TypeOK, Counted, Dequeue, Take, Put, queue, process, waiting, bounds
<1>3. Numbered'
  BY <1>1 DEF Inv, TypeOK, Numbered, Dequeue, Take, Put, queue, process, waiting, bounds
<1>4. Explained'
  BY <1>1, WorkerAssumption DEF Inv, TypeOK, Explained, Attended, Dequeue, Take, Put, queue, process, waiting, bounds
<1>5. SettledForReason'
  BY <1>1 DEF Inv, TypeOK, Numbered, SettledForReason, Dequeue, Take, Put, queue, process, waiting, bounds
<1> QED BY <1>1, <1>2, <1>3, <1>4, <1>5 DEF Inv

\* The attempt has done its work.
LEMMA HandleInv ==
    ASSUME Inv, NEW s \in Servers, NEW t \in Tasks, Handle(s, t)
    PROVE  Inv'
<1>1. TypeOK'
  BY WorkerAssumption DEF Inv, TypeOK, Disturbances, FaultKinds, Handle, Effect, queue, process, waiting, bounds
<1>2. Counted'
  BY <1>1 DEF Inv, TypeOK, Counted, Handle, Effect, queue, process, waiting, bounds
<1>3. Numbered'
  BY <1>1 DEF Inv, TypeOK, Numbered, Handle, Effect, queue, process, waiting, bounds
<1>4. Explained'
  BY <1>1, WorkerAssumption DEF Inv, TypeOK, Explained, Attended, Handle, Effect, queue, process, waiting, bounds
<1>5. SettledForReason'
  BY <1>1 DEF Inv, TypeOK, Numbered, SettledForReason, Handle, Effect, queue, process, waiting, bounds
<1> QED BY <1>1, <1>2, <1>3, <1>4, <1>5 DEF Inv

\* A task is settled by the attempt that holds its lease.
LEMMA SettleInv ==
    ASSUME Inv, NEW s \in Servers, NEW t \in Tasks, Settle(s, t)
    PROVE  Inv'
<1>1. TypeOK'
  BY WorkerAssumption DEF Inv, TypeOK, Disturbances, FaultKinds, Settle, Put, Leave, queue, process, waiting, bounds
<1>2. Counted'
  <2>1. task[t] = "active" /\ answer' = answer /\ attempts' = attempts /\ retried' = retried
    BY WorkerAssumption DEF Inv, Explained, Settle, Leave, queue
  <2>2. \A u \in Tasks \ {t} : task'[u] = task[u] /\ requeued'[u] = requeued[u]
    BY DEF Inv, TypeOK, Settle, Put
  <2>3. task'[t] \in {"archived", "completed"} /\ requeued' = requeued
    BY DEF Inv, TypeOK, Settle, Put
  <2> QED BY <2>1, <2>2, <2>3 DEF Inv, TypeOK, Counted
<1>3. Numbered'
  BY <1>1 DEF Inv, TypeOK, Numbered, Settle, Put, Leave, queue, process, waiting, bounds
<1>4. Explained'
  BY <1>1, WorkerAssumption DEF Inv, TypeOK, Explained, Attended, Settle, Put, Leave, queue, process, waiting, bounds
<1>5. SettledForReason'
  BY <1>1 DEF Inv, TypeOK, Numbered, SettledForReason, Settle, Put, Leave, queue, process, waiting, bounds
<1> QED BY <1>1, <1>2, <1>3, <1>4, <1>5 DEF Inv

\* Without the lease nothing is settled.
LEMMA ForgetInv ==
    ASSUME Inv, NEW s \in Servers, NEW t \in Tasks, Forget(s, t)
    PROVE  Inv'
<1>1. TypeOK'
  BY WorkerAssumption DEF Inv, TypeOK, Disturbances, FaultKinds, Forget, Leave, queue, process, waiting, bounds
<1>2. Counted'
  BY <1>1 DEF Inv, TypeOK, Counted, Forget, Leave, queue, process, waiting, bounds
<1>3. Numbered'
  BY <1>1 DEF Inv, TypeOK, Numbered, Forget, Leave, queue, process, waiting, bounds
<1>4. Explained'
  BY <1>1, WorkerAssumption DEF Inv, TypeOK, Explained, Attended, Forget, Leave, queue, process, waiting, bounds
<1>5. SettledForReason'
  BY <1>1 DEF Inv, TypeOK, Numbered, SettledForReason, Forget, Leave, queue, process, waiting, bounds
<1> QED BY <1>1, <1>2, <1>3, <1>4, <1>5 DEF Inv

\* A handler left behind does the work of an attempt that was counted.
LEMMA StraggleInv ==
    ASSUME Inv, NEW s \in Servers, NEW t \in Tasks, Straggle(s, t)
    PROVE  Inv'
<1>1. TypeOK'
  BY WorkerAssumption DEF Inv, TypeOK, Disturbances, FaultKinds, Straggle, Effect, queue, process, waiting, bounds
<1>2. Counted'
  BY <1>1 DEF Inv, TypeOK, Counted, Straggle, Effect, queue, process, waiting, bounds
<1>3. Numbered'
  BY <1>1 DEF Inv, TypeOK, Numbered, Straggle, Effect, queue, process, waiting, bounds
<1>4. Explained'
  BY <1>1, WorkerAssumption DEF Inv, TypeOK, Explained, Attended, Straggle, Effect, queue, process, waiting, bounds
<1>5. SettledForReason'
  BY <1>1 DEF Inv, TypeOK, Numbered, SettledForReason, Straggle, Effect, queue, process, waiting, bounds
<1> QED BY <1>1, <1>2, <1>3, <1>4, <1>5 DEF Inv

\* A retry is due already.
LEMMA ForwardInv ==
    ASSUME Inv, NEW s \in Servers, NEW t \in Tasks, Forward(s, t)
    PROVE  Inv'
<1>1. TypeOK'
  BY WorkerAssumption DEF Inv, TypeOK, Disturbances, FaultKinds, Forward, Put, queue, process, waiting, bounds
<1>2. Counted'
  BY <1>1 DEF Inv, TypeOK, Counted, Forward, Put, queue, process, waiting, bounds
<1>3. Numbered'
  BY <1>1 DEF Inv, TypeOK, Numbered, Forward, Put, queue, process, waiting, bounds
<1>4. Explained'
  BY <1>1, WorkerAssumption DEF Inv, TypeOK, Explained, Attended, Forward, Put, queue, process, waiting, bounds
<1>5. SettledForReason'
  BY <1>1 DEF Inv, TypeOK, Numbered, SettledForReason, Forward, Put, queue, process, waiting, bounds
<1> QED BY <1>1, <1>2, <1>3, <1>4, <1>5 DEF Inv

\* Nobody attended the task before.
LEMMA LeaseEndsInv ==
    ASSUME Inv, NEW t \in Tasks, LeaseEnds(t)
    PROVE  Inv'
<1>1. TypeOK'
  BY WorkerAssumption DEF Inv, TypeOK, Disturbances, FaultKinds, LeaseEnds, queue, process, waiting, bounds
<1>2. Counted'
  BY <1>1 DEF Inv, TypeOK, Counted, LeaseEnds, queue, process, waiting, bounds
<1>3. Numbered'
  BY <1>1 DEF Inv, TypeOK, Numbered, LeaseEnds, queue, process, waiting, bounds
<1>4. Explained'
  BY <1>1, WorkerAssumption DEF Inv, TypeOK, Explained, Attended, LeaseEnds, queue, process, waiting, bounds
<1>5. SettledForReason'
  BY <1>1 DEF Inv, TypeOK, Numbered, SettledForReason, LeaseEnds, queue, process, waiting, bounds
<1> QED BY <1>1, <1>2, <1>3, <1>4, <1>5 DEF Inv

\* The retry is counted, and the task has its reason.
LEMMA RecoverInv ==
    ASSUME Inv, NEW s \in Servers, NEW t \in Tasks, Recover(s, t)
    PROVE  Inv'
<1>1. disturbed[t] \ {"stop"} # {}
  BY WorkerAssumption DEF Inv, TypeOK, Explained, Attended, Recover
<1>2. CASE retried[t] < MaxRetry[t]
  <2>1. /\ task' = [task EXCEPT ![t] = "retry"]
        /\ retried' = [retried EXCEPT ![t] = @ + 1]
    BY <1>2, WorkerAssumption DEF Inv, TypeOK, Recover, Put
  <2>2. UNCHANGED <<holder, answer, process, waiting, stray, effects, requeued, disturbed, bounds>>
    BY DEF Recover
  <2>3. TypeOK'
    <3>1. retried' \in [Tasks -> Nat] /\ \A u \in Tasks : retried'[u] <= MaxRetry[u]
      <4>1. MaxRetry[t] \in Nat /\ retried \in [Tasks -> Nat] /\ \A u \in Tasks : retried[u] <= MaxRetry[u]
        BY WorkerAssumption DEF Inv, TypeOK
      <4>2. retried[t] + 1 <= MaxRetry[t]
        BY <1>2, <4>1
      <4> QED BY <2>1, <4>1, <4>2
    <3> QED BY <3>1, <2>1, <2>2 DEF Inv, TypeOK, process, waiting, bounds
  <2>4. Counted'
    BY <2>1, <2>2, <2>3 DEF Inv, TypeOK, Counted, Recover, process, waiting, bounds
  <2>5. Numbered'
    BY <2>1, <2>2, <2>3 DEF Inv, TypeOK, Numbered, process, waiting, bounds
  <2>6. Explained'
    BY <1>1, <2>1, <2>2, <2>3 DEF Inv, TypeOK, Explained, Attended, Recover, process, waiting, bounds
  <2>7. SettledForReason'
    BY <2>1, <2>2, <2>3 DEF Inv, TypeOK, SettledForReason, Recover, process, waiting, bounds
  <2> QED BY <2>3, <2>4, <2>5, <2>6, <2>7 DEF Inv
<1>3. CASE ~(retried[t] < MaxRetry[t])
  <2>1. task' = [task EXCEPT ![t] = "archived"] /\ retried' = retried
    BY <1>3 DEF Recover, Put
  <2>2. UNCHANGED <<holder, answer, process, waiting, stray, effects, requeued, disturbed, bounds>>
    BY DEF Recover
  <2>3. TypeOK'
    BY <2>1, <2>2, WorkerAssumption DEF Inv, TypeOK, process, waiting, bounds
  <2>4. Counted'
    BY <2>1, <2>2, <2>3 DEF Inv, TypeOK, Counted, Recover, process, waiting, bounds
  <2>5. Numbered'
    BY <2>1, <2>2, <2>3 DEF Inv, TypeOK, Numbered, process, waiting, bounds
  <2>6. Explained'
    BY <1>1, <2>1, <2>2, <2>3 DEF Inv, TypeOK, Explained, Attended, Recover, process, waiting, bounds
  <2>7. SettledForReason'
    <3>1. retried[t] = MaxRetry[t]
      <4>1. MaxRetry[t] \in Nat /\ retried[t] \in Nat /\ retried[t] <= MaxRetry[t]
        BY WorkerAssumption DEF Inv, TypeOK
      <4> QED BY <1>3, <4>1
    <3> QED BY <3>1, <2>1, <2>2, <2>3 DEF Inv, TypeOK, SettledForReason, process, waiting, bounds
  <2> QED BY <2>3, <2>4, <2>5, <2>6, <2>7 DEF Inv
<1> QED BY <1>2, <1>3

\* The task put back is counted, and the shutdown is its reason.
LEMMA AbortInv ==
    ASSUME Inv, NEW s \in Servers, NEW t \in Tasks, Abort(s, t)
    PROVE  Inv'
<1>1. TypeOK'
  BY WorkerAssumption DEF Inv, TypeOK, Disturbances, FaultKinds, Abort, Put, Leave, Disturb, queue, process, waiting, bounds
<1>2. Counted'
  <2>1. task[t] = "active" /\ answer' = answer /\ attempts' = attempts /\ retried' = retried
    BY WorkerAssumption DEF Inv, Explained, Abort, Leave, queue
  <2>2. \A u \in Tasks \ {t} : task'[u] = task[u] /\ requeued'[u] = requeued[u]
    BY DEF Inv, TypeOK, Abort, Put
  <2>3. task'[t] = "pending" /\ requeued'[t] = requeued[t] + 1
    BY DEF Inv, TypeOK, Abort, Put
  <2> QED BY <2>1, <2>2, <2>3 DEF Inv, TypeOK, Counted
<1>3. Numbered'
  BY <1>1 DEF Inv, TypeOK, Numbered, Abort, Put, Leave, Disturb, queue, process, waiting, bounds
<1>4. Explained'
  BY <1>1, WorkerAssumption DEF Inv, TypeOK, Explained, Attended, Abort, Put, Leave, Disturb, queue, process, waiting, bounds
<1>5. SettledForReason'
  BY <1>1 DEF Inv, TypeOK, Numbered, SettledForReason, Abort, Put, Leave, Disturb, queue, process, waiting, bounds
<1> QED BY <1>1, <1>2, <1>3, <1>4, <1>5 DEF Inv

\* The task stays active, for a reason.
LEMMA AbortFailsInv ==
    ASSUME Inv, NEW s \in Servers, NEW t \in Tasks, AbortFails(s, t)
    PROVE  Inv'
<1>1. TypeOK'
  BY WorkerAssumption DEF Inv, TypeOK, Disturbances, FaultKinds, AbortFails, Leave, Disturb, Fault, queue, process, waiting, bounds
<1>2. Counted'
  BY <1>1 DEF Inv, TypeOK, Counted, AbortFails, Leave, Disturb, Fault, queue, process, waiting, bounds
<1>3. Numbered'
  BY <1>1 DEF Inv, TypeOK, Numbered, AbortFails, Leave, Disturb, Fault, queue, process, waiting, bounds
<1>4. Explained'
  <2>1. disturbed'[t] = disturbed[t] \cup {"fault"} /\ \A u \in Tasks \ {t} : disturbed'[u] = disturbed[u]
    BY DEF Inv, TypeOK, Disturb, AbortFails
  <2>2. \A u \in Tasks \ {t} : Attended(u)' <=> Attended(u)
    BY DEF Inv, TypeOK, Attended, AbortFails, Leave, queue, process
  <2>3. /\ task' = task /\ retried' = retried /\ requeued' = requeued
        /\ \A u \in Tasks : holder'[u] # Nobody => holder[u] # Nobody
    BY DEF Inv, TypeOK, AbortFails, Leave, queue, process
  <2> QED BY <2>1, <2>2, <2>3 DEF Inv, Explained
<1>5. SettledForReason'
  BY <1>1 DEF Inv, TypeOK, Numbered, SettledForReason, AbortFails, Leave, Disturb, Fault, queue, process, waiting, bounds
<1> QED BY <1>1, <1>2, <1>3, <1>4, <1>5 DEF Inv

\* The task stays active, for a reason.
LEMMA LeaseLostInv ==
    ASSUME Inv, NEW s \in Servers, NEW t \in Tasks, LeaseLost(s, t)
    PROVE  Inv'
<1>1. TypeOK'
  BY WorkerAssumption DEF Inv, TypeOK, Disturbances, FaultKinds, LeaseLost, Disturb, Fault, queue, process, waiting, bounds
<1>2. Counted'
  BY <1>1 DEF Inv, TypeOK, Counted, LeaseLost, Disturb, Fault, queue, process, waiting, bounds
<1>3. Numbered'
  BY <1>1 DEF Inv, TypeOK, Numbered, LeaseLost, Disturb, Fault, queue, process, waiting, bounds
<1>4. Explained'
  <2>1. disturbed'[t] = disturbed[t] \cup {"fault"} /\ \A u \in Tasks \ {t} : disturbed'[u] = disturbed[u]
    BY DEF Inv, TypeOK, Disturb, LeaseLost
  <2>2. \A u \in Tasks \ {t} : Attended(u)' <=> Attended(u)
    BY DEF Inv, TypeOK, Attended, LeaseLost, waiting, process
  <2>3. /\ task' = task /\ retried' = retried /\ requeued' = requeued
        /\ \A u \in Tasks : holder'[u] # Nobody => holder[u] # Nobody
    BY DEF Inv, TypeOK, LeaseLost, waiting, process
  <2> QED BY <2>1, <2>2, <2>3 DEF Inv, Explained
<1>5. SettledForReason'
  BY <1>1 DEF Inv, TypeOK, Numbered, SettledForReason, LeaseLost, Disturb, Fault, queue, process, waiting, bounds
<1> QED BY <1>1, <1>2, <1>3, <1>4, <1>5 DEF Inv

(***************************************************************************)
(* A process that dies leaves its tasks active: the exit or the fault is   *)
(* their reason unless there were none.                                    *)
(***************************************************************************)
LEMMA DieInv ==
    ASSUME Inv, NEW s \in Servers, NEW kind \in {"exit", "fault"},
           Die(s), Disturb(Busy(s), kind), stops' = stops, spent' \in 0 .. MaxFaults
    PROVE  Inv'
<1>1. TypeOK'
  BY WorkerAssumption DEF Inv, TypeOK, Disturbances, Disturb, Die, queue
<1>2. Counted'
  BY <1>1 DEF Inv, TypeOK, Counted, Die, queue
<1>3. Numbered'
  BY <1>1 DEF Inv, TypeOK, Numbered, Die, queue
<1>4. Explained'
  <2>1. \A t \in Tasks : disturbed[t] \subseteq disturbed'[t] /\ (t \in Busy(s) => kind \in disturbed'[t])
    BY DEF Disturb
  <2>2. \A t \in Tasks \ Busy(s) : Attended(t) => Attended(t)'
    BY DEF Inv, TypeOK, Attended, Busy, Die, queue
  <2> QED BY <2>1, <2>2 DEF Inv, Explained, Die, queue
<1>5. SettledForReason'
  BY DEF Inv, SettledForReason, Die, queue
<1> QED BY <1>1, <1>2, <1>3, <1>4, <1>5 DEF Inv

(***************************************************************************)
(* A process changes its state and touches no task.                        *)
(***************************************************************************)
LEMMA ProcessInv ==
    ASSUME Inv, NEW s \in Servers, Start(s) \/ Signal(s) \/ TimeIsUp(s)
    PROVE  Inv'
<1>1. UNCHANGED <<queue, answer, waiting, stray, effects, requeued, disturbed>>
  BY DEF Start, Signal, TimeIsUp, bounds
<1>2. TypeOK'
  <2>1. CASE Start(s)
    BY <1>1, <2>1 DEF Inv, TypeOK, Start, queue, waiting, bounds
  <2>2. CASE Signal(s)
    <3>1. stops' \in 0 .. MaxStops
      BY <2>2, WorkerAssumption DEF Inv, TypeOK, Signal
    <3>2. waits' \in [Servers -> BOOLEAN]
      BY <2>2 DEF Inv, TypeOK, Signal
    <3> QED BY <1>1, <2>2, <3>1, <3>2 DEF Inv, TypeOK, Signal, queue, waiting
  <2>3. CASE TimeIsUp(s)
    BY <1>1, <2>3 DEF Inv, TypeOK, TimeIsUp, queue, waiting, bounds
  <2> QED BY <2>1, <2>2, <2>3
<1> QED BY <1>1, <1>2
        DEF Inv, Counted, Numbered, Explained, Attended, SettledForReason, queue, waiting

(***************************************************************************)
(* Every step of the workers keeps the invariant.                          *)
(***************************************************************************)
LEMMA NextInv == Inv /\ [Next]_vars => Inv'
<1> SUFFICES ASSUME Inv, [Next]_vars PROVE Inv'
  OBVIOUS
<1>1. ASSUME NEW t \in Tasks, Enqueue(t) \/ EnqueueFails(t) \/ LeaseEnds(t) PROVE Inv'
  BY <1>1, EnqueueInv, EnqueueFailsInv, LeaseEndsInv
<1>2. ASSUME NEW s \in Servers, NEW t \in Tasks, Process(s, t) \/ Maintain(s, t) \/ Straggle(s, t)
      PROVE Inv'
  BY <1>2, DequeueInv, HandleInv, SettleInv, ForgetInv, AbortInv, ForwardInv, RecoverInv, StraggleInv
     DEF Process, Maintain
<1>3. ASSUME NEW s \in Servers, NEW t \in Tasks, AbortFails(s, t) \/ LeaseLost(s, t) PROVE Inv'
  BY <1>3, AbortFailsInv, LeaseLostInv
<1>4. ASSUME NEW s \in Servers, Start(s) \/ Signal(s) \/ TimeIsUp(s) PROVE Inv'
  BY <1>4, ProcessInv
<1>5. ASSUME NEW s \in Servers, Exit(s) PROVE Inv'
  BY <1>5, DieInv DEF Exit, bounds, Inv, TypeOK
<1>6. ASSUME NEW s \in Servers, Crash(s) PROVE Inv'
  <2>1. spent' \in 0 .. MaxFaults /\ stops' = stops
    BY <1>6, WorkerAssumption DEF Crash, Fault, Inv, TypeOK
  <2> QED BY <1>6, <2>1, DieInv DEF Crash
<1>7. CASE UNCHANGED vars
  BY <1>7 DEF Inv, TypeOK, Counted, Numbered, Explained, Attended, SettledForReason,
     vars, queue, process, waiting, bounds
<1>8. CASE Idle
  BY <1>7, <1>8 DEF Idle
<1> QED BY <1>1, <1>2, <1>3, <1>4, <1>5, <1>6, <1>7, <1>8 DEF Next

(***************************************************************************)
(* The attempts, and therefore the effects, are bounded.                   *)
(***************************************************************************)
LEMMA EffectsFinite ==
    ASSUME Inv, NEW t \in Tasks
    PROVE  IsFiniteSet(effects[t]) /\ Cardinality(effects[t]) \in Nat
           /\ Cardinality(effects[t]) <= attempts[t]
<1>1. attempts[t] \in Nat /\ effects[t] \subseteq 1 .. attempts[t]
  BY DEF Inv, TypeOK, Numbered
<1>2. IsFiniteSet(1 .. attempts[t]) /\ Cardinality(1 .. attempts[t]) = attempts[t]
  BY <1>1, FS_Interval
<1>3. IsFiniteSet(effects[t]) /\ Cardinality(effects[t]) <= attempts[t]
  BY <1>1, <1>2, FS_Subset
<1> QED BY <1>3, FS_CardinalityType

\* The invariant holds in every reachable state.
THEOREM Inductive == Spec => []Inv
<1> QED BY InitInv, NextInv, PTL DEF Spec

\* TaskWorker is type correct, and no task is retried beyond its maximum.
THEOREM TypeCorrect == Spec => []TypeOK
<1>1. Inv => TypeOK
  BY DEF Inv
<1> QED BY <1>1, Inductive, PTL

\* A handler works at most once more often than the task was retried and put
\* back, whatever outlives its lease.
THEOREM BoundedEffects == Spec => []EffectsBounded
<1>1. Inv => EffectsBounded
  <2> SUFFICES ASSUME Inv, NEW t \in Tasks
               PROVE  Cardinality(effects[t]) <= 1 + retried[t] + requeued[t]
    BY DEF EffectsBounded
  <2> QED BY EffectsFinite DEF Inv, TypeOK, Counted
<1> QED BY <1>1, Inductive, PTL

\* Completed tasks were carried out, archived ones had no retry left or no
\* payload.
THEOREM SettledRightly == Spec => []SettledForReason
<1>1. Inv => SettledForReason
  BY DEF Inv
<1> QED BY <1>1, Inductive, PTL

\* Undisturbed tasks run once, and a retry takes more than a shutdown that is
\* waited for.
THEOREM RunsOnce == Spec => []OnlyDisturbedRepeat
<1>1. Inv => OnlyDisturbedRepeat
  <2> SUFFICES ASSUME Inv, NEW t \in Tasks
               PROVE  /\ Cardinality(effects[t]) > 1 => disturbed[t] # {}
                      /\ retried[t] > 0 => disturbed[t] \ {"stop"} # {}
    BY DEF OnlyDisturbedRepeat
  <2>1. Cardinality(effects[t]) > 1 => retried[t] > 0 \/ requeued[t] > 0
    BY EffectsFinite DEF Inv, TypeOK, Counted
  <2> QED BY <2>1 DEF Inv, Explained
<1> QED BY <1>1, Inductive, PTL

\* Shutdowns that are waited for leave no task behind.
THEOREM NoOrphans == Spec => []OnlyFaultsOrphan
<1>1. Inv => OnlyFaultsOrphan
  BY DEF Inv, Explained, Attended, OnlyFaultsOrphan, Orphan
<1> QED BY <1>1, Inductive, PTL

-----------------------------------------------------------------------------
(***************************************************************************)
(* The ledger: every step of the workers is a step of one task in it, or   *)
(* none.                                                                   *)
(***************************************************************************)
Stages == [t \in Tasks |-> Stage(t)]

\* A step that leaves the task, the counts and the effects alone.
LEMMA Unrecorded ==
    ASSUME UNCHANGED <<task, effects, retried, requeued>>
    PROVE  UNCHANGED Ledger!ledger
  BY DEF Ledger!ledger, Stage

\* What a handler does, now or late, it does in a turn of an accepted task.
LEMMA RunStep ==
    ASSUME Inv, NEW t \in Tasks, NEW n \in 1 .. attempts[t], Effect(t, n),
           UNCHANGED <<task, retried, requeued>>
    PROVE  [Ledger!Next]_(Ledger!ledger)
<1>1. CASE t \in Malformed
  <2>1. effects' = effects
    BY <1>1 DEF Effect, Inv, TypeOK
  <2> QED BY <2>1, Unrecorded
<1>2. CASE t \notin Malformed
  <2>1. n \in 1 .. Ledger!Turns(t)
    BY DEF Inv, TypeOK, Counted, Ledger!Turns
  <2>2. Stages[t] # "none" /\ Stages' = Stages
    BY DEF Inv, TypeOK, Counted, Stages, Stage
  <2>3. effects' = [effects EXCEPT ![t] = @ \cup {n}]
    BY <1>2 DEF Effect
  <2>4. Ledger!Run(t)
    BY <1>2, <2>1, <2>2, <2>3 DEF Ledger!Run, Stages
  <2> QED BY <2>4 DEF Ledger!Next
<1> QED BY <1>1, <1>2

\* A task that moves between the queues stays open.
LEMMA OpenStays ==
    ASSUME Inv, NEW t \in Tasks, NEW q \in {"pending", "active", "retry"}, Put(t, q)
    PROVE  /\ Stages' = [Stages EXCEPT ![t] = "open"]
           /\ task[t] \in {"pending", "active", "retry"} => Stages[t] = "open" /\ Stages' = Stages
  BY DEF Inv, TypeOK, Put, Stages, Stage

\* A task is accepted once, whatever Enqueue answers.
LEMMA AcceptStep ==
    ASSUME Inv, NEW t \in Tasks, task[t] = "none", Put(t, "pending"),
           UNCHANGED <<effects, retried, requeued>>
    PROVE  Ledger!Next
<1>1. Stages[t] = "none" /\ Stages' = [Stages EXCEPT ![t] = "open"]
  BY OpenStays DEF Stages, Stage
<1>2. Ledger!Accept(t)
  BY <1>1 DEF Ledger!Accept, Stages
<1> QED BY <1>2 DEF Ledger!Next

\* Who settles a task holds its lease, so the task is active.
LEMMA SettleStep ==
    ASSUME Inv, NEW t \in Tasks, task[t] = "active",
           NEW q \in {"completed", "archived"}, Put(t, q),
           q = "completed" => effects[t] # {},
           q = "archived" => t \in Malformed \/ retried[t] = MaxRetry[t],
           UNCHANGED <<effects, retried, requeued>>
    PROVE  Ledger!Next
<1>1. Stages[t] = "open" /\ Stages' = [Stages EXCEPT ![t] = q]
  BY DEF Inv, TypeOK, Put, Stages, Stage
<1>2. Ledger!Settle(t)
  BY <1>1 DEF Ledger!Settle, Stages
<1> QED BY <1>2 DEF Ledger!Next

\* A retry or the end of the retries.
LEMMA RecoverStep ==
    ASSUME Inv, NEW s \in Servers, NEW t \in Tasks, Recover(s, t)
    PROVE  Ledger!Next
<1>1. CASE retried[t] < MaxRetry[t] /\ Put(t, "retry") /\ retried' = [retried EXCEPT ![t] = @ + 1]
  <2>1. Stages[t] = "open" /\ Stages' = Stages
    BY <1>1, OpenStays DEF Recover
  <2>2. Ledger!Retry(t)
    BY <1>1, <2>1 DEF Ledger!Retry, Stages, Recover
  <2> QED BY <2>2 DEF Ledger!Next
<1>2. CASE retried[t] >= MaxRetry[t] /\ Put(t, "archived") /\ UNCHANGED retried
  <2>1. retried[t] = MaxRetry[t]
    <3>1. MaxRetry[t] \in Nat /\ retried[t] \in Nat /\ retried[t] <= MaxRetry[t]
      BY WorkerAssumption DEF Inv, TypeOK
    <3> QED BY <1>2, <3>1
  <2> QED BY <1>2, <2>1, SettleStep DEF Recover
<1> QED BY <1>1, <1>2 DEF Recover

\* A task put back is one its server still holds.
LEMMA AbortStep ==
    ASSUME Inv, NEW s \in Servers, NEW t \in Tasks, Abort(s, t)
    PROVE  Ledger!Next
<1>1. task[t] = "active"
  BY WorkerAssumption DEF Abort, Inv, Explained
<1>2. Stages[t] = "open" /\ Stages' = Stages
  BY <1>1, OpenStays DEF Abort
<1>3. Ledger!Return(t)
  BY <1>2 DEF Ledger!Return, Stages, Abort
<1> QED BY <1>3 DEF Ledger!Next

\* Everything a worker does for one task.
LEMMA ProcessStep ==
    ASSUME Inv, NEW s \in Servers, NEW t \in Tasks, Process(s, t)
    PROVE  [Ledger!Next]_(Ledger!ledger)
<1>1. CASE Dequeue(s, t)
  <2>1. Stages' = Stages
    BY <1>1, OpenStays DEF Dequeue, Take
  <2> QED BY <1>1, <2>1 DEF Dequeue, Take, Stages, Ledger!ledger
<1>2. CASE Handle(s, t)
  <2>1. ticket[s][t] \in 1 .. attempts[t]
    BY <1>2 DEF Handle, Inv, Numbered
  <2> QED BY <1>2, <2>1, RunStep DEF Handle, queue
<1>3. CASE Settle(s, t)
  <2>1. task[t] = "active"
    BY <1>3, WorkerAssumption DEF Settle, Inv, Explained
  <2>2. t \notin Malformed => effects[t] # {}
    BY <1>3 DEF Settle, Inv, Numbered
  <2> QED BY <1>3, <2>1, <2>2, SettleStep DEF Settle
<1>4. CASE Forget(s, t)
  BY <1>4, Unrecorded DEF Forget, queue
<1>5. CASE Abort(s, t)
  BY <1>5, AbortStep
<1> QED BY <1>1, <1>2, <1>3, <1>4, <1>5 DEF Process

\* What asynq's loops and late handlers do to one task, and what goes wrong.
LEMMA RestStep ==
    ASSUME Inv, NEW s \in Servers, NEW t \in Tasks,
           Maintain(s, t) \/ Straggle(s, t) \/ AbortFails(s, t) \/ LeaseLost(s, t)
    PROVE  [Ledger!Next]_(Ledger!ledger)
<1>1. CASE Forward(s, t)
  <2>1. Stages' = Stages
    BY <1>1, OpenStays DEF Forward
  <2> QED BY <1>1, <2>1 DEF Forward, Stages, Ledger!ledger
<1>2. CASE Straggle(s, t)
  <2>1. PICK n \in stray[s][t] : Effect(t, n)
    BY <1>2 DEF Straggle
  <2>2. n \in 1 .. attempts[t]
    BY DEF Inv, Numbered
  <2> QED BY <1>2, <2>1, <2>2, RunStep DEF Straggle, queue
<1>3. CASE AbortFails(s, t) \/ LeaseLost(s, t)
  BY <1>3, Unrecorded DEF AbortFails, LeaseLost, queue
<1> QED BY <1>1, <1>2, <1>3, RecoverStep DEF Maintain

\* Queues, leases, processes and stragglers implement the ledger: what is
\* settled is final, only open tasks are retried and put back, and no turn is
\* run before it is due.
THEOREM LedgerKept == Spec => ImplementsLedger
<1>1. Init => Ledger!Init
  BY DEF Init, Ledger!Init, Stage
<1>2. ASSUME Inv, [Next]_vars PROVE [Ledger!Next]_(Ledger!ledger)
  <2>1. ASSUME NEW t \in Tasks, Enqueue(t) PROVE Ledger!Next
    BY <1>2, <2>1, AcceptStep DEF Enqueue, Inv, Counted
  <2>2. ASSUME NEW t \in Tasks, EnqueueFails(t) PROVE [Ledger!Next]_(Ledger!ledger)
    BY <1>2, <2>2, AcceptStep, Unrecorded DEF EnqueueFails
  <2>3. ASSUME NEW t \in Tasks, LeaseEnds(t) PROVE UNCHANGED Ledger!ledger
    BY <2>3, Unrecorded DEF LeaseEnds
  <2>4. ASSUME NEW s \in Servers, Start(s) \/ Signal(s) \/ TimeIsUp(s) PROVE UNCHANGED Ledger!ledger
    BY <2>4, Unrecorded DEF Start, Signal, TimeIsUp, queue
  <2>5. ASSUME NEW s \in Servers, Exit(s) \/ Crash(s) PROVE UNCHANGED Ledger!ledger
    BY <2>5, Unrecorded DEF Exit, Crash, Die, queue
  <2>6. CASE UNCHANGED vars \/ Idle
    BY <2>6, Unrecorded DEF Idle, vars, queue
  <2> QED BY <1>2, <2>1, <2>2, <2>3, <2>4, <2>5, <2>6, ProcessStep, RestStep DEF Next
<1> QED BY <1>1, <1>2, Inductive, PTL DEF Spec, ImplementsLedger, Ledger!Spec
=============================================================================
