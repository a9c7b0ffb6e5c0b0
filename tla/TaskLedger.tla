----------------------------- MODULE TaskLedger -----------------------------
(***************************************************************************)
(* What the queue promises to whoever enqueues a task, with no processes,  *)
(* leases or faults.  A task is open from its acceptance until it is       *)
(* completed, never without having run, or archived, never without a       *)
(* reason, and what is settled stays settled.  It has one turn, one more   *)
(* for every retry of which there are MaxRetry, and one more for every     *)
(* time it is put back; a turn is run at most once, but possibly late,     *)
(* when the next has begun or the task is settled.                         *)
(***************************************************************************)
EXTENDS Naturals

CONSTANTS Tasks, Malformed, MaxRetry

VARIABLES
    state,      \* of each task
    runs,       \* the turns in which it was carried out
    retries,    \* how often it was scheduled for a retry
    returns     \* how often it was put back, not counted as a retry

ledger == <<state, runs, retries, returns>>

Init ==
    /\ state = [t \in Tasks |-> "none"]
    /\ runs = [t \in Tasks |-> {}]
    /\ retries = [t \in Tasks |-> 0]
    /\ returns = [t \in Tasks |-> 0]

Turns(t) == 1 + retries[t] + returns[t]

Accept(t) ==
    /\ state[t] = "none"
    /\ state' = [state EXCEPT ![t] = "open"]
    /\ UNCHANGED <<runs, retries, returns>>

Run(t) ==
    /\ state[t] # "none" /\ t \notin Malformed
    /\ \E n \in 1 .. Turns(t) : runs' = [runs EXCEPT ![t] = @ \cup {n}]
    /\ UNCHANGED <<state, retries, returns>>

Retry(t) ==
    /\ state[t] = "open" /\ retries[t] < MaxRetry[t]
    /\ retries' = [retries EXCEPT ![t] = @ + 1]
    /\ UNCHANGED <<state, runs, returns>>

Return(t) ==
    /\ state[t] = "open"
    /\ returns' = [returns EXCEPT ![t] = @ + 1]
    /\ UNCHANGED <<state, runs, retries>>

Settle(t) ==
    /\ state[t] = "open"
    /\ \/ runs[t] # {} /\ state' = [state EXCEPT ![t] = "completed"]
       \/ /\ t \in Malformed \/ retries[t] = MaxRetry[t]
          /\ state' = [state EXCEPT ![t] = "archived"]
    /\ UNCHANGED <<runs, retries, returns>>

Next == \E t \in Tasks : Accept(t) \/ Run(t) \/ Retry(t) \/ Return(t) \/ Settle(t)

Spec == Init /\ [][Next]_ledger
=============================================================================
