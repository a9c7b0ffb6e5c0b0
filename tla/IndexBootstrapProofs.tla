------------------------ MODULE IndexBootstrapProofs ------------------------
(***************************************************************************)
(* The safety properties of IndexBootstrap for any number of processes,    *)
(* indexes and faults.                                                     *)
(***************************************************************************)
EXTENDS IndexBootstrap, TLAPS

\* An alias is only added to an index that exists.
Linkable ==
    /\ alias \subseteq index
    /\ \A i \in Instances : pc[i] = "link" => at[i] \in index

\* A process that has got as far as at[i] has every earlier alias behind it,
\* and all of them once it serves: no alias is ever removed.
Progress ==
    \A i \in Instances :
        /\ pc[i] # "down" => \A t \in Targets : t < at[i] => t \in alias
        /\ pc[i] = "up" => Targets \subseteq alias

Inv == TypeOK /\ Linkable /\ Progress /\ OnlyFaultsStrand

(***************************************************************************)
(* Nothing exists at the start, so nothing is linked or stranded.          *)
(***************************************************************************)
LEMMA InitInv == Init => Inv
BY BootstrapAssumption
   DEF Init, Inv, TypeOK, Linkable, Progress, OnlyFaultsStrand, Stranded, Targets

(***************************************************************************)
(* Going on to the next target, or serving after the last one, is right    *)
(* once the current target has its alias.                                  *)
(***************************************************************************)
LEMMA AdvanceProgress ==
    ASSUME TypeOK, Progress, NEW i \in Instances, Advance(i), pc[i] # "down",
           alias \subseteq alias', at[i] \in alias'
    PROVE  /\ pc' \in [Instances -> {"down", "check", "create", "link", "up"}]
           /\ at' \in [Instances -> Targets]
           /\ pc'[i] # "link"
           /\ \A j \in Instances \ {i} : pc'[j] = pc[j] /\ at'[j] = at[j]
           /\ Progress'
<1>1. CASE at[i] = NumIndexes
  BY <1>1, BootstrapAssumption DEF TypeOK, Advance, Goto, Progress, Targets
<1>2. CASE at[i] # NumIndexes
  BY <1>2, BootstrapAssumption DEF TypeOK, Advance, Goto, Progress, Targets
<1> QED BY <1>1, <1>2

(***************************************************************************)
(* Every step keeps the invariant.                                         *)
(***************************************************************************)
LEMMA NextInv == Inv /\ [Next]_vars => Inv'
<1> SUFFICES ASSUME Inv, [Next]_vars PROVE Inv'
  OBVIOUS
<1> USE BootstrapAssumption DEF Inv, TypeOK, Linkable, Goto
<1>1. ASSUME NEW i \in Instances, Start(i) PROVE Inv'
  BY <1>1 DEF Start, Progress, OnlyFaultsStrand, Stranded, Targets
<1>2. ASSUME NEW i \in Instances, CheckAliasExists(i) PROVE Inv'
  <2>1. CASE at[i] \in alias /\ Advance(i)
    <3>1. /\ pc' \in [Instances -> {"down", "check", "create", "link", "up"}]
          /\ at' \in [Instances -> Targets]
          /\ pc'[i] # "link"
          /\ \A j \in Instances \ {i} : pc'[j] = pc[j] /\ at'[j] = at[j]
          /\ Progress'
      BY <1>2, <2>1, AdvanceProgress DEF CheckAliasExists
    <3> QED BY <1>2, <3>1 DEF CheckAliasExists, OnlyFaultsStrand, Stranded
  <2>2. CASE at[i] \notin alias /\ Goto(i, "create") /\ UNCHANGED at
    BY <1>2, <2>2 DEF CheckAliasExists, Progress, OnlyFaultsStrand, Stranded
  <2> QED BY <1>2, <2>1, <2>2 DEF CheckAliasExists
<1>3. ASSUME NEW i \in Instances, CreateIndex(i) PROVE Inv'
  <2>1. TypeOK' /\ Linkable' /\ Progress'
    BY <1>3 DEF CreateIndex, Exit, Progress
  <2>2. OnlyFaultsStrand'
    BY <1>3 DEF CreateIndex, Exit, OnlyFaultsStrand, Stranded
  <2> QED BY <2>1, <2>2
<1>4. ASSUME NEW i \in Instances, CreateAlias(i) PROVE Inv'
  <2>1. /\ pc' \in [Instances -> {"down", "check", "create", "link", "up"}]
        /\ at' \in [Instances -> Targets]
        /\ pc'[i] # "link"
        /\ \A j \in Instances \ {i} : pc'[j] = pc[j] /\ at'[j] = at[j]
        /\ Progress'
    BY <1>4, AdvanceProgress DEF CreateAlias
  <2> QED BY <1>4, <2>1 DEF CreateAlias, OnlyFaultsStrand, Stranded
<1>5. ASSUME NEW i \in Instances, Stop(i) PROVE Inv'
  BY <1>5 DEF Stop, Exit, Progress, OnlyFaultsStrand, Stranded
<1>6. ASSUME NEW i \in Instances, CheckMisread(i) PROVE Inv'
  BY <1>6 DEF CheckMisread, Disturb, Progress, OnlyFaultsStrand, Stranded
<1>7. ASSUME NEW i \in Instances, RequestFails(i) PROVE Inv'
  <2>1. TypeOK' /\ Linkable' /\ Progress'
    BY <1>7 DEF RequestFails, Disturb, Exit, Progress
  <2>2. OnlyFaultsStrand'
    BY <1>7 DEF RequestFails, Disturb, Exit, OnlyFaultsStrand, Stranded
  <2> QED BY <2>1, <2>2
<1>8. ASSUME NEW i \in Instances, Crash(i) PROVE Inv'
  BY <1>8 DEF Crash, Disturb, Exit, Progress, OnlyFaultsStrand, Stranded
<1>9. CASE UNCHANGED vars
  BY <1>9 DEF vars, Progress, OnlyFaultsStrand, Stranded
<1> QED BY <1>1, <1>2, <1>3, <1>4, <1>5, <1>6, <1>7, <1>8, <1>9 DEF Next, Bootstrap

(***************************************************************************)
(* The inductive invariant holds in every reachable state.                 *)
(***************************************************************************)
THEOREM Inductive == Spec => []Inv
BY InitInv, NextInv, PTL DEF Spec

(***************************************************************************)
(* Every variable keeps its type.                                          *)
(***************************************************************************)
THEOREM TypeCorrect == Spec => []TypeOK
BY Inductive, PTL DEF Inv

(***************************************************************************)
(* A process serves only over linked indexes.                              *)
(***************************************************************************)
THEOREM ServedAliasesExist == Spec => []ServesLinked
<1>1. Inv => ServesLinked
  BY DEF Inv, TypeOK, Linkable, Progress, ServesLinked
<1> QED BY <1>1, Inductive, PTL

(***************************************************************************)
(* Only a fault leaves an index without its alias.                         *)
(***************************************************************************)
THEOREM RacesDoNotStrand == Spec => []OnlyFaultsStrand
BY Inductive, PTL DEF Inv

-----------------------------------------------------------------------------
(***************************************************************************)
(* What finding 4 comes to: once an index is stranded every creation finds *)
(* it there and ends its process, so nobody gets to add the alias.         *)
(***************************************************************************)

\* Nobody heads for the alias of an index that is there already.
LEMMA StrandedStays ==
    ASSUME Inv, [Next]_vars, NEW t \in Targets, Stranded(t)
    PROVE  Stranded(t)'
<1> USE DEF Inv, TypeOK, Stranded, Goto
<1>1. ASSUME NEW i \in Instances, Start(i) PROVE Stranded(t)'
  BY <1>1 DEF Start
<1>2. ASSUME NEW i \in Instances, CheckAliasExists(i) PROVE Stranded(t)'
  BY <1>2 DEF CheckAliasExists, Advance
<1>3. ASSUME NEW i \in Instances, CreateIndex(i) PROVE Stranded(t)'
  BY <1>3 DEF CreateIndex, Exit
<1>4. ASSUME NEW i \in Instances, CreateAlias(i) PROVE Stranded(t)'
  BY <1>4 DEF CreateAlias, Advance
<1>5. ASSUME NEW i \in Instances, Stop(i) PROVE Stranded(t)'
  BY <1>5 DEF Stop, Exit
<1>6. ASSUME NEW i \in Instances, CheckMisread(i) PROVE Stranded(t)'
  BY <1>6 DEF CheckMisread
<1>7. ASSUME NEW i \in Instances, RequestFails(i) PROVE Stranded(t)'
  BY <1>7 DEF RequestFails, Exit
<1>8. ASSUME NEW i \in Instances, Crash(i) PROVE Stranded(t)'
  BY <1>8 DEF Crash, Exit
<1>9. CASE UNCHANGED vars
  BY <1>9 DEF vars
<1> QED BY <1>1, <1>2, <1>3, <1>4, <1>5, <1>6, <1>7, <1>8, <1>9 DEF Next, Bootstrap

(***************************************************************************)
(* No restart heals a stranded index: it stays stranded in every step      *)
(* (esindex/bootstrap.go:91), and while it is no process serves.           *)
(***************************************************************************)
THEOREM NoRestartHeals ==
    Spec => /\ [][\A t \in Targets : Stranded(t) => Stranded(t)']_vars
            /\ [](\A t \in Targets : Stranded(t) => \A i \in Instances : pc[i] # "up")
<1>1. Inv /\ [Next]_vars => [\A t \in Targets : Stranded(t) => Stranded(t)']_vars
  BY StrandedStays
<1>2. Inv => \A t \in Targets : Stranded(t) => \A i \in Instances : pc[i] # "up"
  BY DEF Inv, Progress, Stranded
<1> QED BY <1>1, <1>2, Inductive, PTL DEF Spec
=============================================================================
