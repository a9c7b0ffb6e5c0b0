--------------------------- MODULE IndexBootstrap ---------------------------
(***************************************************************************)
(* esindex.Bootstrap, run by every API process before it serves            *)
(* (cmd/api/main.go): for each configured index, look for the alias; when  *)
(* it is missing create the index, then the alias.  Any failure ends the   *)
(* process, and whoever runs it starts it again.                           *)
(*                                                                         *)
(* Several processes start at the same time, each request to Elasticsearch *)
(* is one step, and each can fail before or after it was applied.          *)
(***************************************************************************)
EXTENDS Naturals

CONSTANTS
    Instances,   \* API processes
    NumIndexes,  \* length of the list of configured indexes
    MaxFaults,   \* bound on the faults of a behaviour
    Faults       \* which faults happen: subset of FaultKinds

FaultKinds == {"es", "crash"}

\* Positions in the list of configured indexes, each with its alias.
Targets == 1 .. NumIndexes

ASSUME BootstrapAssumption ==
    /\ NumIndexes \in Nat \ {0}
    /\ MaxFaults \in Nat
    /\ Faults \subseteq FaultKinds

VARIABLES
    index,      \* targets whose index exists
    alias,      \* targets whose alias exists
    pc,         \* how far each process has got
    at,         \* the target each process is working on
    spent,      \* how many faults have happened
    disturbed   \* history: targets during whose work a fault happened

vars == <<index, alias, pc, at, spent, disturbed>>

Init ==
    /\ index = {}
    /\ alias = {}
    /\ pc = [i \in Instances |-> "down"]
    /\ at = [i \in Instances |-> 1]
    /\ spent = 0
    /\ disturbed = {}

Goto(i, l) == pc' = [pc EXCEPT ![i] = l]

\* Mutant: the loop has lost its end.
AdvancePastEnd(i) == Goto(i, "check") /\ at' = [at EXCEPT ![i] = @ + 1]

\* Mutant: an alias that exists ends the whole bootstrap, not just its turn.
AdvanceReturns(i) == Goto(i, "up") /\ UNCHANGED at

\* ensureIndex returned nil: the next target, or the server starts.
Advance(i) ==
    IF at[i] = NumIndexes
    THEN Goto(i, "up") /\ UNCHANGED at
    ELSE Goto(i, "check") /\ at' = [at EXCEPT ![i] = @ + 1]

\* logger.Fatal
Exit(i) == Goto(i, "down") /\ UNCHANGED at

-----------------------------------------------------------------------------
Start(i) ==
    /\ pc[i] = "down"
    /\ Goto(i, "check")
    /\ at' = [at EXCEPT ![i] = 1]
    /\ UNCHANGED <<index, alias, spent, disturbed>>

CheckAliasExists(i) ==
    /\ pc[i] = "check"
    /\ \/ at[i] \in alias /\ Advance(i)
       \/ at[i] \notin alias /\ Goto(i, "create") /\ UNCHANGED at
    /\ UNCHANGED <<index, alias, spent, disturbed>>

\* Mutant: a created index is taken for a finished one.
CreateIndexOnly(i) ==
    /\ pc[i] = "create"
    /\ \/ at[i] \notin index /\ Advance(i)
       \/ at[i] \in index /\ Exit(i)
    /\ index' = index \cup {at[i]}
    /\ UNCHANGED <<alias, spent, disturbed>>

\* Mutant: a refused creation is tried again instead of ending the process.
CreateIndexRetries(i) ==
    /\ pc[i] = "create"
    /\ \/ at[i] \notin index /\ Goto(i, "link") /\ UNCHANGED at
       \/ at[i] \in index /\ UNCHANGED <<pc, at>>
    /\ index' = index \cup {at[i]}
    /\ UNCHANGED <<alias, spent, disturbed>>

\* Elasticsearch refuses an index that exists, and the process exits.
CreateIndex(i) ==
    /\ pc[i] = "create"
    /\ \/ at[i] \notin index /\ Goto(i, "link") /\ UNCHANGED at
       \/ at[i] \in index /\ Exit(i)
    /\ index' = index \cup {at[i]}
    /\ UNCHANGED <<alias, spent, disturbed>>

CreateAlias(i) ==
    /\ pc[i] = "link"
    /\ alias' = alias \cup {at[i]}
    /\ Advance(i)
    /\ UNCHANGED <<index, spent, disturbed>>

\* SIGTERM to a serving process.
Stop(i) ==
    /\ pc[i] = "up"
    /\ Exit(i)
    /\ UNCHANGED <<index, alias, spent, disturbed>>

-----------------------------------------------------------------------------
Disturb(kind, i) ==
    /\ kind \in Faults
    /\ spent < MaxFaults
    /\ spent' = spent + 1
    /\ disturbed' = disturbed \cup {at[i]}

\* A status other than 200, whatever it is, reads as "no such alias".
CheckMisread(i) ==
    /\ pc[i] = "check"
    /\ Disturb("es", i)
    /\ Goto(i, "create")
    /\ UNCHANGED <<index, alias, at>>

\* A request fails before it was applied, or its reply is lost after.
RequestFails(i) ==
    /\ pc[i] \in {"check", "create", "link"}
    /\ Disturb("es", i)
    /\ \/ UNCHANGED <<index, alias>>
       \/ pc[i] = "create" /\ index' = index \cup {at[i]} /\ UNCHANGED alias
       \/ pc[i] = "link" /\ alias' = alias \cup {at[i]} /\ UNCHANGED index
    /\ Exit(i)

Crash(i) ==
    /\ pc[i] \in {"check", "create", "link"}
    /\ Disturb("crash", i)
    /\ Exit(i)
    /\ UNCHANGED <<index, alias>>

Bootstrap(i) == Start(i) \/ CheckAliasExists(i) \/ CreateIndex(i) \/ CreateAlias(i)

Next ==
    \E i \in Instances :
        Bootstrap(i) \/ Stop(i) \/ CheckMisread(i) \/ RequestFails(i) \/ Crash(i)

Spec == Init /\ [][Next]_vars

(***************************************************************************)
(* A process keeps running and is started again when it has exited;        *)
(* nothing obliges a fault, nor a shutdown.                                *)
(***************************************************************************)
FairSpec == Spec /\ \A i \in Instances : WF_vars(Bootstrap(i))

-----------------------------------------------------------------------------
(***************************************************************************)
(* Properties.                                                             *)
(***************************************************************************)

\* Every variable has its type.
TypeOK ==
    /\ index \in SUBSET Targets
    /\ alias \in SUBSET Targets
    /\ pc \in [Instances -> {"down", "check", "create", "link", "up"}]
    /\ at \in [Instances -> Targets]
    /\ spent \in 0 .. MaxFaults
    /\ disturbed \in SUBSET Targets

\* A process serves only when every alias exists and points at its index, so
\* that no write of its handlers makes Elasticsearch create an index under the
\* alias's name, whatever its own checks misread and whoever created them.
ServesLinked == \A i \in Instances : pc[i] = "up" => alias = Targets /\ index = Targets

\* The index of t exists, its alias does not, and nobody is about to add it.
Stranded(t) ==
    /\ t \in index \ alias
    /\ \A i \in Instances : pc[i] = "link" => at[i] # t

\* Concurrent starts alone never leave an index without its alias: that takes
\* a fault while that index was being set up.
OnlyFaultsStrand == \A t \in Targets : Stranded(t) => t \in disturbed

\* Every process serves in the end unless an index is stranded: a lost race
\* between starts, or a check that misread, costs a restart and no more.
ServesUnlessStranded == \A i \in Instances : <>(pc[i] = "up" \/ \E t \in Targets : Stranded(t))

\* "Safe to call on every app start": a process that is started again
\* whenever it exits gets to serve.
EveryInstanceServes == \A i \in Instances : <>(pc[i] = "up")
=============================================================================
