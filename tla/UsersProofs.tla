----------------------------- MODULE UsersProofs -----------------------------
(***************************************************************************)
(* Proofs about Users for every set of requests, ids and column values,    *)
(* every pool size, every set of faults and both values of LockingRead.    *)
(*                                                                         *)
(* IInv strengthens the safety properties to an inductive invariant: who   *)
(* can be where (Places), who holds which row (OneLockPerRow), what a      *)
(* handler's private row version is made of (Provenance), and why two      *)
(* writers never carry the same email (EmailsApart).                       *)
(***************************************************************************)
EXTENDS Users, FiniteSetTheorems, TLAPS

\* Which handlers reach which points.
Places ==
    \A r \in Requests :
        /\ pc[r] = "checked" => Op(r) = "register"
        /\ pc[r] = "read" => Op(r) = "update"
        /\ pc[r] = "committed" => Op(r) \in {"update", "delete"}
        /\ pc[r] \in {"missed", "loaded"} => Op(r) = "get"
        /\ pc[r] \in {"begun", "written", "indexed"} => Op(r) # "get"
        /\ res[r] = "ok" => pc[r] = "done"
        /\ audit[r] # "none" => res[r] = "ok" /\ Op(r) # "get"

\* A handler past its read or write has a row in its hands.
HoldsRow ==
    \A r \in Requests :
        pc[r] \in {"read", "written", "indexed", "committed", "loaded"} => row[r] \in Row

\* The part of the invariant that no other request matters to.
Local == TypeOK /\ Places /\ HoldsRow

\* A registration's id is its own, and unused until its commit.
FreshIds ==
    \A r \in Requests : Op(r) = "register" =>
        /\ pc[r] \in {"received", "checked", "begun", "written", "indexed"} => db[Id(r)] = NoRow
        /\ \A q \in Requests \ {r} : Op(q) = "register" => Id(q) # Id(r)

\* The history holds the current version.
History == \A i \in Ids : db[i] # NoRow => db[i] \in versions[i]

\* At most one request holds a row.
OneLockPerRow ==
    \A q, r \in Requests : Locks(q) /\ Locks(r) /\ Id(q) = Id(r) => q = r

\* Where the row version in a handler's hands comes from.
Basis(r) == IF LockingRead THEN {db[Id(r)]} ELSE versions[Id(r)]

Provenance ==
    \A r \in Requests :
        /\ pc[r] = "read" =>
              row[r] \in Basis(r) /\ Active(row[r]) /\ db[Id(r)] # NoRow
        /\ Writing(r) /\ Op(r) = "register" => row[r] = NewRow(req[r])
        /\ Writing(r) /\ Op(r) = "update" =>
              /\ db[Id(r)] # NoRow
              /\ \E x \in Basis(r) : Active(x) /\ row[r] = Merge(x, req[r])
        /\ Writing(r) /\ Op(r) = "delete" =>
              Active(db[Id(r)]) /\ row[r] = Deleted(db[Id(r)])
        /\ pc[r] = "loaded" => Active(row[r]) /\ row[r] \in versions[Id(r)]
        /\ pc[r] = "committed" => row[r] \in versions[Id(r)]

\* A writer's email belongs to no other active user and to no other writer.
EmailsApart ==
    \A r \in Requests : Writing(r) /\ Active(row[r]) =>
        /\ \A j \in Ids \ {Id(r)} : Active(db[j]) => db[j].email # row[r].email
        /\ \A q \in Requests : Writing(q) /\ Id(q) # Id(r) /\ Active(row[q])
                                  => row[q].email # row[r].email

\* The document of a writer about to commit is the one its row calls for.
IndexAhead ==
    \A r \in Requests : pc[r] = "indexed" => es[Id(r)] = Mirror(row[r])

\* Only a user that was registered has a history.
Unborn == \A i \in Ids : db[i] = NoRow => versions[i] = {}

\* Neither the entry of a user nor what a reader is about to cache is old, but
\* for the reasons the history records and until the invalidation that is due.
EntryCurrent ==
    \A i \in Ids \ overtaken : Due(i) \/ (cache[i] \in {NoRow, db[i]} /\ ~ReaderBehind(i))

\* The part of the invariant that the row locks protect.
RowLocks == FreshIds /\ History /\ OneLockPerRow /\ Provenance

\* What the unique index, the row locks and the histories then give.
EmailRules == EmailsApart /\ UniqueActiveEmail
IndexRules == IndexAhead /\ IndexMirrorsStore
ReadRules == ReadsAreCommitted /\ AcknowledgedIsCommitted
CacheRules == Unborn /\ EntryCurrent

IInv ==
    /\ Local
    /\ RowLocks
    /\ EmailRules
    /\ IndexRules
    /\ ReadRules
    /\ CacheRules

-----------------------------------------------------------------------------
(***************************************************************************)
(* Facts about the operators.                                              *)
(***************************************************************************)

\* A row is never the absent row.
LEMMA ActiveFacts ==
    \A x \in Row \cup {NoRow} : Active(x) <=> x \in Row /\ x.deleted = FALSE
  BY UsersAssumption DEF Active

\* The document of a row, or of an absent row, is a row or absent.
LEMMA MirrorFacts == \A x \in Row \cup {NoRow} : Mirror(x) \in Row \cup {NoRow}
  BY DEF Mirror

\* Merging keeps a row a row, with its email and its deletion mark.
LEMMA MergeFacts ==
    ASSUME NEW x \in Row, NEW q \in Req, q.op = "update"
    PROVE  /\ Merge(x, q) \in Row
           /\ Merge(x, q).email = x.email
           /\ Merge(x, q).deleted = x.deleted
<1>1. q.name \in Names \cup {Nil} /\ q.role \in Roles \cup {Nil}
  BY DEF Req
<1>2. QED
  BY <1>1 DEF Merge, Row

\* Deleting keeps a row a row and marks it.
LEMMA DeletedFacts ==
    ASSUME NEW x \in Row
    PROVE  Deleted(x) \in Row /\ Deleted(x).deleted = TRUE
  BY DEF Row, Deleted

\* A registration makes an active row with the email it asked for.
LEMMA NewRowFacts ==
    ASSUME NEW q \in Req, q.op = "register"
    PROVE  /\ NewRow(q) \in Row
           /\ NewRow(q).email = q.email
           /\ NewRow(q).deleted = FALSE
<1>1. q.email \in Emails /\ q.name \in Names /\ q.role \in Roles
  BY DEF Req
<1>2. QED
  BY <1>1 DEF NewRow, Row

\* A handler works on an id of the table.
LEMMA IdFacts == TypeOK => \A r \in Requests : 
    Id(r) \in Ids /\ req[r] \in Req /\ Op(r) \in {"register", "update", "delete", "get"}
  BY DEF TypeOK, Id, Op, Req

\* The requests themselves never change.
LEMMA ReqUnchanged == [Next]_vars => UNCHANGED req
  BY DEF Next, vars, Write, Read, Fault, Terminated, Exists, Begin, Create, FindByID, Save,
     SoftDelete, SyncES, Commit, Invalidate, LogAsync, CacheGet, CacheLoad, CacheSet, Expire,
     StatementFails, CommitReplyLost, SyncFails, Crash

-----------------------------------------------------------------------------
(***************************************************************************)
(* Type correctness.                                                       *)
(***************************************************************************)

\* The start is well typed, with no handler under way.
LEMMA InitLocal == Init => Local
  <1> SUFFICES ASSUME Init PROVE Local
  OBVIOUS
<1>1. InitialRows \subseteq Row /\ Workload \subseteq Req
  BY UsersAssumption DEF Row
<1>2. TypeOK
  BY <1>1 DEF Init, TypeOK, Locations, Answers
<1>3. QED
  BY <1>2 DEF Init, Local, Places, HoldsRow

\* No handler leaves its own path or loses its row.
LEMMA NextLocal == Local /\ [Next]_vars => Local'
<1> SUFFICES ASSUME Local, [Next]_vars PROVE Local'
  OBVIOUS
<1> USE IdFacts DEF Local, TypeOK, Places, HoldsRow, Op, Id, Goto, Answer, Overtake, stores, Locations, Answers
<1>1. ASSUME NEW r \in Requests, Exists(r) PROVE Local'
  BY <1>1 DEF Exists
<1>2. ASSUME NEW r \in Requests, Begin(r) PROVE Local'
  BY <1>2 DEF Begin
<1>3. ASSUME NEW r \in Requests, Create(r) PROVE Local'
  <2>1. NewRow(req[r]) \in Row
    BY <1>3, NewRowFacts DEF Create
  <2>2. QED
    BY <1>3, <2>1 DEF Create
<1>4. ASSUME NEW r \in Requests, FindByID(r) PROVE Local'
  <2>1. Active(db[Id(r)]) => db[Id(r)] \in Row
    BY ActiveFacts
  <2>2. QED
    BY <1>4, <2>1 DEF FindByID
<1>5. ASSUME NEW r \in Requests, Save(r) PROVE Local'
  <2>1. Merge(row[r], req[r]) \in Row
    BY <1>5, MergeFacts DEF Save
  <2>2. QED
    BY <1>5, <2>1 DEF Save
<1>6. ASSUME NEW r \in Requests, SoftDelete(r) PROVE Local'
  <2>1. Active(db[Id(r)]) => Deleted(db[Id(r)]) \in Row
    BY ActiveFacts, DeletedFacts
  <2>2. QED
    BY <1>6, <2>1 DEF SoftDelete
<1>7. ASSUME NEW r \in Requests, SyncES(r) PROVE Local'
  BY <1>7, MirrorFacts DEF SyncES
<1>8. ASSUME NEW r \in Requests, Commit(r) PROVE Local'
  <2>1. TypeOK'
    BY <1>8, UsersAssumption DEF Commit, StoreRow
  <2>2. Places'
    BY <1>8, UsersAssumption DEF Commit, StoreRow
  <2>3. HoldsRow'
    BY <1>8, UsersAssumption DEF Commit, StoreRow
  <2>4. QED
    BY <2>1, <2>2, <2>3 DEF Local
<1>9. ASSUME NEW r \in Requests, Invalidate(r) PROVE Local'
  BY <1>9 DEF Invalidate
<1>10. ASSUME NEW r \in Requests, LogAsync(r) PROVE Local'
  BY <1>10 DEF LogAsync
<1>11. ASSUME NEW r \in Requests, CacheGet(r) PROVE Local'
  <2>1. TypeOK'
    BY <1>11 DEF CacheGet
  <2>2. Places'
    BY <1>11 DEF CacheGet
  <2>3. HoldsRow'
    BY <1>11 DEF CacheGet
  <2>4. QED
    BY <2>1, <2>2, <2>3 DEF Local
<1>12. ASSUME NEW r \in Requests, CacheLoad(r) PROVE Local'
  BY <1>12, ActiveFacts DEF CacheLoad
<1>13. ASSUME NEW r \in Requests, CacheSet(r) PROVE Local'
  BY <1>13 DEF CacheSet
<1>14. ASSUME NEW i \in Ids, Expire(i) PROVE Local'
  BY <1>14 DEF Expire
<1>15. ASSUME NEW r \in Requests, StatementFails(r) PROVE Local'
  BY <1>15 DEF StatementFails
<1>16. ASSUME NEW r \in Requests, CommitReplyLost(r) PROVE Local'
  BY <1>16 DEF CommitReplyLost, StoreRow
<1>17. ASSUME NEW r \in Requests, SyncFails(r) PROVE Local'
  BY <1>17, MirrorFacts DEF SyncFails
<1>18. ASSUME NEW r \in Requests, Crash(r) PROVE Local'
  BY <1>18 DEF Crash
<1>19. CASE UNCHANGED vars
  BY <1>19 DEF vars
<1>20. QED
  BY <1>1, <1>2, <1>3, <1>4, <1>5, <1>6, <1>7, <1>8, <1>9, <1>10, <1>11, <1>12, <1>13, <1>14,
     <1>15, <1>16, <1>17, <1>18, <1>19 DEF Next, Write, Read, Fault, Terminated

\* Every reachable state is well typed.
THEOREM TypeCorrect == Spec => []TypeOK
<1>1. Local => TypeOK
  BY DEF Local
<1>2. QED
  BY <1>1, InitLocal, NextLocal, PTL DEF Spec

-----------------------------------------------------------------------------
(***************************************************************************)
(* Row locks.                                                              *)
(***************************************************************************)

\* At the start nothing is locked.
LEMMA InitRowLocks == Init => RowLocks
  BY DEF Init, RowLocks, FreshIds, History, OneLockPerRow, Provenance, Locks, Writing

\* The row locks are exclusive, and what a handler holds stays derived
\* from a version its lock, or the history, still has.
LEMMA NextRowLocks == Local /\ RowLocks /\ [Next]_vars => RowLocks'
<1> SUFFICES ASSUME Local, RowLocks, [Next]_vars PROVE RowLocks'
  OBVIOUS
<1> USE IdFacts DEF Local, TypeOK, Places, HoldsRow, RowLocks, FreshIds, History, OneLockPerRow,
    Provenance, Basis, Locks, Writing, RowFree, Op, Id, Goto, Answer, stores
<1>1. ASSUME NEW r \in Requests, Exists(r) PROVE RowLocks'
  BY <1>1 DEF Exists
<1>2. ASSUME NEW r \in Requests, Begin(r) PROVE RowLocks'
  BY <1>2 DEF Begin
<1>3. ASSUME NEW r \in Requests, Create(r) PROVE RowLocks'
  <2>1. ~Active(NoRow)
    BY DEF Active
  <2>2. RowFree(r)
    BY <1>3, <2>1 DEF Create
  <2>3. QED
    BY <1>3, <2>1, <2>2 DEF Create
<1>4. ASSUME NEW r \in Requests, FindByID(r) PROVE RowLocks'
  <2>1. ~Active(NoRow)
    BY DEF Active
  <2>2. QED
    BY <1>4, <2>1 DEF FindByID
<1>5. ASSUME NEW r \in Requests, Save(r) PROVE RowLocks'
  BY <1>5 DEF Save
<1>6. ASSUME NEW r \in Requests, SoftDelete(r) PROVE RowLocks'
  <2>1. ~Active(NoRow)
    BY DEF Active
  <2>2. QED
    BY <1>6, <2>1 DEF SoftDelete
<1>7. ASSUME NEW r \in Requests, SyncES(r) PROVE RowLocks'
  BY <1>7 DEF SyncES
<1>8. ASSUME NEW r \in Requests, Commit(r) PROVE RowLocks'
  <2>1. ~Active(NoRow)
    BY DEF Active
  <2>2. row[r] \in Row /\ row[r] # NoRow
    BY <1>8, UsersAssumption DEF Commit
  <2>3. \A q \in Requests \ {r} : Id(q) = Id(r) => ~Locks(q)
    BY <1>8 DEF Commit
  <2>4. /\ db' = [db EXCEPT ![Id(r)] = row[r]]
        /\ versions' = [versions EXCEPT ![Id(r)] = @ \cup {row[r]}]
    BY <1>8 DEF Commit, StoreRow
  <2>5. FreshIds'
    BY <1>8, <2>1, <2>2, <2>3, <2>4 DEF Commit, StoreRow
  <2>6. History'
    BY <1>8, <2>1, <2>2, <2>3, <2>4 DEF Commit, StoreRow
  <2>7. OneLockPerRow'
    BY <1>8, <2>1, <2>2, <2>3, <2>4 DEF Commit, StoreRow
  <2>8. Provenance'
    BY <1>8, <2>1, <2>2, <2>3, <2>4 DEF Commit, StoreRow
  <2>9. QED
    BY <2>5, <2>6, <2>7, <2>8 DEF RowLocks
<1>9. ASSUME NEW r \in Requests, Invalidate(r) PROVE RowLocks'
  BY <1>9 DEF Invalidate
<1>10. ASSUME NEW r \in Requests, LogAsync(r) PROVE RowLocks'
  BY <1>10 DEF LogAsync
<1>11. ASSUME NEW r \in Requests, CacheGet(r) PROVE RowLocks'
  BY <1>11 DEF CacheGet
<1>12. ASSUME NEW r \in Requests, CacheLoad(r) PROVE RowLocks'
  <2>1. ~Active(NoRow)
    BY DEF Active
  <2>2. QED
    BY <1>12, <2>1 DEF CacheLoad
<1>13. ASSUME NEW r \in Requests, CacheSet(r) PROVE RowLocks'
  BY <1>13 DEF CacheSet
<1>14. ASSUME NEW i \in Ids, Expire(i) PROVE RowLocks'
  BY <1>14 DEF Expire
<1>15. ASSUME NEW r \in Requests, StatementFails(r) PROVE RowLocks'
  BY <1>15 DEF StatementFails
<1>16. ASSUME NEW r \in Requests, CommitReplyLost(r) PROVE RowLocks'
  <2>1. ~Active(NoRow)
    BY DEF Active
  <2>2. row[r] \in Row /\ row[r] # NoRow
    BY <1>16, UsersAssumption DEF CommitReplyLost
  <2>3. \A q \in Requests \ {r} : Id(q) = Id(r) => ~Locks(q)
    BY <1>16 DEF CommitReplyLost
  <2>4. /\ db' = [db EXCEPT ![Id(r)] = row[r]]
        /\ versions' = [versions EXCEPT ![Id(r)] = @ \cup {row[r]}]
    BY <1>16 DEF CommitReplyLost, StoreRow
  <2>5. FreshIds'
    BY <1>16, <2>1, <2>2, <2>3, <2>4 DEF CommitReplyLost, StoreRow
  <2>6. History'
    BY <1>16, <2>1, <2>2, <2>3, <2>4 DEF CommitReplyLost, StoreRow
  <2>7. OneLockPerRow'
    BY <1>16, <2>1, <2>2, <2>3, <2>4 DEF CommitReplyLost, StoreRow
  <2>8. Provenance'
    BY <1>16, <2>1, <2>2, <2>3, <2>4 DEF CommitReplyLost, StoreRow
  <2>9. QED
    BY <2>5, <2>6, <2>7, <2>8 DEF RowLocks
<1>17. ASSUME NEW r \in Requests, SyncFails(r) PROVE RowLocks'
  BY <1>17 DEF SyncFails
<1>18. ASSUME NEW r \in Requests, Crash(r) PROVE RowLocks'
  BY <1>18 DEF Crash
<1>19. CASE UNCHANGED vars
  BY <1>19 DEF vars
<1>20. QED
  BY <1>1, <1>2, <1>3, <1>4, <1>5, <1>6, <1>7, <1>8, <1>9, <1>10, <1>11, <1>12, <1>13,
     <1>14, <1>15, <1>16, <1>17, <1>18, <1>19 DEF Next, Write, Read, Fault, Terminated

-----------------------------------------------------------------------------
(***************************************************************************)
(* Emails.                                                                 *)
(***************************************************************************)

\* The table starts without two active users of one email.
LEMMA InitEmailRules == Init => EmailRules
  BY DEF Init, EmailRules, EmailsApart, UniqueActiveEmail, Writing

\* A writer enters only with an email nobody has or is writing, so its
\* commit cannot duplicate one.
LEMMA NextEmailRules == Local /\ RowLocks /\ EmailRules /\ [Next]_vars => EmailRules'
<1> SUFFICES ASSUME Local, RowLocks, EmailRules, [Next]_vars PROVE EmailRules'
  OBVIOUS
<1> USE IdFacts DEF Local, TypeOK, Places, HoldsRow, EmailRules, EmailsApart, UniqueActiveEmail,
    EmailTaken, EmailUndecided, Writing, Op, Id, Goto, Answer, stores
<1>1. ASSUME NEW r \in Requests, Exists(r) PROVE EmailRules'
  BY <1>1 DEF Exists
<1>2. ASSUME NEW r \in Requests, Begin(r) PROVE EmailRules'
  BY <1>2 DEF Begin
<1>3. ASSUME NEW r \in Requests, Create(r) PROVE EmailRules'
  <2>1. NewRow(req[r]).email = req[r].email
    BY <1>3, NewRowFacts DEF Create
  <2>2. EmailsApart'
    BY <1>3, <2>1 DEF Create
  <2>3. UniqueActiveEmail'
    BY <1>3, <2>1 DEF Create
  <2>4. QED
    BY <2>2, <2>3 DEF EmailRules
<1>4. ASSUME NEW r \in Requests, FindByID(r) PROVE EmailRules'
  BY <1>4 DEF FindByID
<1>5. ASSUME NEW r \in Requests, Save(r) PROVE EmailRules'
  <2>1. Merge(row[r], req[r]).email = row[r].email
    BY <1>5, MergeFacts DEF Save
  <2>2. EmailsApart'
    BY <1>5, <2>1 DEF Save
  <2>3. UniqueActiveEmail'
    BY <1>5, <2>1 DEF Save
  <2>4. QED
    BY <2>2, <2>3 DEF EmailRules
<1>6. ASSUME NEW r \in Requests, SoftDelete(r) PROVE EmailRules'
  <2>1. Active(db[Id(r)]) => ~Active(Deleted(db[Id(r)]))
    BY ActiveFacts, DeletedFacts
  <2>2. EmailsApart'
    BY <1>6, <2>1 DEF SoftDelete
  <2>3. UniqueActiveEmail'
    BY <1>6, <2>1 DEF SoftDelete
  <2>4. QED
    BY <2>2, <2>3 DEF EmailRules
<1>7. ASSUME NEW r \in Requests, SyncES(r) PROVE EmailRules'
  BY <1>7 DEF SyncES
<1>8. ASSUME NEW r \in Requests, Commit(r) PROVE EmailRules'
  <2>1. db' = [db EXCEPT ![Id(r)] = row[r]]
    BY <1>8 DEF Commit, StoreRow
  <2>2. /\ pc[r] = "indexed"
        /\ \A q \in Requests : Writing(q)' => q # r /\ Writing(q) /\ row'[q] = row[q]
    BY <1>8 DEF Commit
  <2>3. EmailsApart'
    BY <1>8, <2>1, <2>2 DEF Commit, StoreRow
  <2>4. UniqueActiveEmail'
    BY <1>8, <2>1, <2>2 DEF Commit, StoreRow
  <2>5. QED
    BY <2>3, <2>4 DEF EmailRules
<1>9. ASSUME NEW r \in Requests, Invalidate(r) PROVE EmailRules'
  BY <1>9 DEF Invalidate
<1>10. ASSUME NEW r \in Requests, LogAsync(r) PROVE EmailRules'
  BY <1>10 DEF LogAsync
<1>11. ASSUME NEW r \in Requests, CacheGet(r) PROVE EmailRules'
  BY <1>11 DEF CacheGet
<1>12. ASSUME NEW r \in Requests, CacheLoad(r) PROVE EmailRules'
  BY <1>12 DEF CacheLoad
<1>13. ASSUME NEW r \in Requests, CacheSet(r) PROVE EmailRules'
  BY <1>13 DEF CacheSet
<1>14. ASSUME NEW i \in Ids, Expire(i) PROVE EmailRules'
  BY <1>14 DEF Expire
<1>15. ASSUME NEW r \in Requests, StatementFails(r) PROVE EmailRules'
  BY <1>15 DEF StatementFails
<1>16. ASSUME NEW r \in Requests, CommitReplyLost(r) PROVE EmailRules'
  <2>1. db' = [db EXCEPT ![Id(r)] = row[r]]
    BY <1>16 DEF CommitReplyLost, StoreRow
  <2>2. /\ pc[r] = "indexed"
        /\ \A q \in Requests : Writing(q)' => q # r /\ Writing(q) /\ row'[q] = row[q]
    BY <1>16 DEF CommitReplyLost
  <2>3. EmailsApart'
    BY <1>16, <2>1, <2>2 DEF CommitReplyLost, StoreRow
  <2>4. UniqueActiveEmail'
    BY <1>16, <2>1, <2>2 DEF CommitReplyLost, StoreRow
  <2>5. QED
    BY <2>3, <2>4 DEF EmailRules
<1>17. ASSUME NEW r \in Requests, SyncFails(r) PROVE EmailRules'
  BY <1>17 DEF SyncFails
<1>18. ASSUME NEW r \in Requests, Crash(r) PROVE EmailRules'
  BY <1>18 DEF Crash
<1>19. CASE UNCHANGED vars
  BY <1>19 DEF vars
<1>20. QED
  BY <1>1, <1>2, <1>3, <1>4, <1>5, <1>6, <1>7, <1>8, <1>9, <1>10, <1>11, <1>12, <1>13,
     <1>14, <1>15, <1>16, <1>17, <1>18, <1>19 DEF Next, Write, Read, Fault, Terminated

-----------------------------------------------------------------------------
(***************************************************************************)
(* The search index.                                                       *)
(***************************************************************************)

\* At the start only seeded users lack their document.
LEMMA InitIndexRules == Init => IndexRules
<1> SUFFICES ASSUME Init PROVE IndexRules
  OBVIOUS
<1>1. \A i \in Ids : Mirror(db[i]) = db[i]
  BY UsersAssumption DEF Init, Mirror, Active
<1>2. QED
  BY <1>1 DEF Init, IndexRules, IndexAhead, IndexMirrorsStore, Mirror

\* A document write is followed by its commit, or its user is unsynced.
LEMMA NextIndexRules == Local /\ RowLocks /\ IndexRules /\ [Next]_vars => IndexRules'
<1> SUFFICES ASSUME Local, RowLocks, IndexRules, [Next]_vars PROVE IndexRules'
  OBVIOUS
<1> USE IdFacts DEF Local, TypeOK, RowLocks, OneLockPerRow, Locks, Writing, IndexRules, IndexAhead,
    IndexMirrorsStore, Id, Goto, Answer, stores
<1>1. ASSUME NEW r \in Requests, Exists(r) PROVE IndexRules'
  BY <1>1 DEF Exists
<1>2. ASSUME NEW r \in Requests, Begin(r) PROVE IndexRules'
  BY <1>2 DEF Begin
<1>3. ASSUME NEW r \in Requests, Create(r) PROVE IndexRules'
  BY <1>3 DEF Create
<1>4. ASSUME NEW r \in Requests, FindByID(r) PROVE IndexRules'
  BY <1>4 DEF FindByID
<1>5. ASSUME NEW r \in Requests, Save(r) PROVE IndexRules'
  BY <1>5 DEF Save
<1>6. ASSUME NEW r \in Requests, SoftDelete(r) PROVE IndexRules'
  BY <1>6 DEF SoftDelete
<1>7. ASSUME NEW r \in Requests, SyncES(r) PROVE IndexRules'
  <2>1. IndexAhead'
    BY <1>7 DEF SyncES
  <2>2. IndexMirrorsStore'
    BY <1>7 DEF SyncES
  <2>3. QED
    BY <2>1, <2>2 DEF IndexRules
<1>8. ASSUME NEW r \in Requests, Commit(r) PROVE IndexRules'
  <2>1. IndexAhead'
    BY <1>8 DEF Commit, StoreRow
  <2>2. IndexMirrorsStore'
    BY <1>8 DEF Commit, StoreRow
  <2>3. QED
    BY <2>1, <2>2 DEF IndexRules
<1>9. ASSUME NEW r \in Requests, Invalidate(r) PROVE IndexRules'
  BY <1>9 DEF Invalidate
<1>10. ASSUME NEW r \in Requests, LogAsync(r) PROVE IndexRules'
  BY <1>10 DEF LogAsync
<1>11. ASSUME NEW r \in Requests, CacheGet(r) PROVE IndexRules'
  BY <1>11 DEF CacheGet
<1>12. ASSUME NEW r \in Requests, CacheLoad(r) PROVE IndexRules'
  BY <1>12 DEF CacheLoad
<1>13. ASSUME NEW r \in Requests, CacheSet(r) PROVE IndexRules'
  BY <1>13 DEF CacheSet
<1>14. ASSUME NEW i \in Ids, Expire(i) PROVE IndexRules'
  BY <1>14 DEF Expire
<1>15. ASSUME NEW r \in Requests, StatementFails(r) PROVE IndexRules'
  <2>1. IndexAhead'
    BY <1>15 DEF StatementFails
  <2>2. IndexMirrorsStore'
    BY <1>15 DEF StatementFails
  <2>3. QED
    BY <2>1, <2>2 DEF IndexRules
<1>16. ASSUME NEW r \in Requests, CommitReplyLost(r) PROVE IndexRules'
  <2>1. IndexAhead'
    BY <1>16 DEF CommitReplyLost, StoreRow
  <2>2. IndexMirrorsStore'
    BY <1>16 DEF CommitReplyLost, StoreRow
  <2>3. QED
    BY <2>1, <2>2 DEF IndexRules
<1>17. ASSUME NEW r \in Requests, SyncFails(r) PROVE IndexRules'
  <2>1. IndexAhead'
    BY <1>17 DEF SyncFails
  <2>2. IndexMirrorsStore'
    BY <1>17 DEF SyncFails
  <2>3. QED
    BY <2>1, <2>2 DEF IndexRules
<1>18. ASSUME NEW r \in Requests, Crash(r) PROVE IndexRules'
  <2>1. IndexAhead'
    BY <1>18 DEF Crash
  <2>2. IndexMirrorsStore'
    BY <1>18 DEF Crash
  <2>3. QED
    BY <2>1, <2>2 DEF IndexRules
<1>19. CASE UNCHANGED vars
  BY <1>19 DEF vars
<1>20. QED
  BY <1>1, <1>2, <1>3, <1>4, <1>5, <1>6, <1>7, <1>8, <1>9, <1>10, <1>11, <1>12, <1>13,
     <1>14, <1>15, <1>16, <1>17, <1>18, <1>19 DEF Next, Write, Read, Fault, Terminated

-----------------------------------------------------------------------------
(***************************************************************************)
(* Reads and acknowledgements.                                             *)
(***************************************************************************)

\* At the start nothing was read or acknowledged.
LEMMA InitReadRules == Init => ReadRules
  BY DEF Init, ReadRules, ReadsAreCommitted, AcknowledgedIsCommitted

\* What is cached, answered or acknowledged was committed before.
LEMMA NextReadRules == Local /\ RowLocks /\ ReadRules /\ [Next]_vars => ReadRules'
<1> SUFFICES ASSUME Local, RowLocks, ReadRules, [Next]_vars PROVE ReadRules'
  OBVIOUS
<1> USE IdFacts DEF Local, TypeOK, Places, RowLocks, Provenance, ReadRules, ReadsAreCommitted,
    AcknowledgedIsCommitted, Op, Id, Goto, Answer, stores
<1>1. ASSUME NEW r \in Requests, Exists(r) PROVE ReadRules'
  BY <1>1 DEF Exists
<1>2. ASSUME NEW r \in Requests, Begin(r) PROVE ReadRules'
  BY <1>2 DEF Begin
<1>3. ASSUME NEW r \in Requests, Create(r) PROVE ReadRules'
  BY <1>3 DEF Create
<1>4. ASSUME NEW r \in Requests, FindByID(r) PROVE ReadRules'
  BY <1>4 DEF FindByID
<1>5. ASSUME NEW r \in Requests, Save(r) PROVE ReadRules'
  BY <1>5 DEF Save
<1>6. ASSUME NEW r \in Requests, SoftDelete(r) PROVE ReadRules'
  BY <1>6 DEF SoftDelete
<1>7. ASSUME NEW r \in Requests, SyncES(r) PROVE ReadRules'
  BY <1>7 DEF SyncES
<1>8. ASSUME NEW r \in Requests, Commit(r) PROVE ReadRules'
  <2>1. ReadsAreCommitted'
    BY <1>8 DEF Commit, StoreRow
  <2>2. AcknowledgedIsCommitted'
    BY <1>8 DEF Commit, StoreRow
  <2>3. QED
    BY <2>1, <2>2 DEF ReadRules
<1>9. ASSUME NEW r \in Requests, Invalidate(r) PROVE ReadRules'
  <2>1. ReadsAreCommitted'
    BY <1>9 DEF Invalidate
  <2>2. AcknowledgedIsCommitted'
    BY <1>9 DEF Invalidate
  <2>3. QED
    BY <2>1, <2>2 DEF ReadRules
<1>10. ASSUME NEW r \in Requests, LogAsync(r) PROVE ReadRules'
  BY <1>10 DEF LogAsync
<1>11. ASSUME NEW r \in Requests, CacheGet(r) PROVE ReadRules'
  <2>1. ReadsAreCommitted'
    BY <1>11 DEF CacheGet
  <2>2. AcknowledgedIsCommitted'
    BY <1>11 DEF CacheGet
  <2>3. QED
    BY <2>1, <2>2 DEF ReadRules
<1>12. ASSUME NEW r \in Requests, CacheLoad(r) PROVE ReadRules'
  BY <1>12 DEF CacheLoad
<1>13. ASSUME NEW r \in Requests, CacheSet(r) PROVE ReadRules'
  <2>1. ReadsAreCommitted'
    BY <1>13 DEF CacheSet
  <2>2. AcknowledgedIsCommitted'
    BY <1>13 DEF CacheSet
  <2>3. QED
    BY <2>1, <2>2 DEF ReadRules
<1>14. ASSUME NEW i \in Ids, Expire(i) PROVE ReadRules'
  BY <1>14 DEF Expire
<1>15. ASSUME NEW r \in Requests, StatementFails(r) PROVE ReadRules'
  BY <1>15 DEF StatementFails
<1>16. ASSUME NEW r \in Requests, CommitReplyLost(r) PROVE ReadRules'
  <2>1. ReadsAreCommitted'
    BY <1>16 DEF CommitReplyLost, StoreRow
  <2>2. AcknowledgedIsCommitted'
    BY <1>16 DEF CommitReplyLost, StoreRow
  <2>3. QED
    BY <2>1, <2>2 DEF ReadRules
<1>17. ASSUME NEW r \in Requests, SyncFails(r) PROVE ReadRules'
  BY <1>17 DEF SyncFails
<1>18. ASSUME NEW r \in Requests, Crash(r) PROVE ReadRules'
  BY <1>18 DEF Crash
<1>19. CASE UNCHANGED vars
  BY <1>19 DEF vars
<1>20. QED
  BY <1>1, <1>2, <1>3, <1>4, <1>5, <1>6, <1>7, <1>8, <1>9, <1>10, <1>11, <1>12, <1>13,
     <1>14, <1>15, <1>16, <1>17, <1>18, <1>19 DEF Next, Write, Read, Fault, Terminated

-----------------------------------------------------------------------------
(***************************************************************************)
(* The cache.                                                              *)
(***************************************************************************)

\* At the start nothing is cached or about to be.
LEMMA InitCacheRules == Init => CacheRules
  BY DEF Init, CacheRules, Unborn, EntryCurrent, ReaderBehind

\* A commit that is acknowledged announces the invalidation it owes; a
\* registration owes none, for nobody can have seen its user before.
LEMMA CommitCacheRules ==
    ASSUME Local, RowLocks, ReadRules, CacheRules, NEW r \in Requests, Commit(r)
    PROVE  CacheRules'
<1> USE DEF Local, TypeOK
<1>1. Id(r) \in Ids /\ row[r] \in Row /\ row[r] # NoRow /\ Op(r) \in {"register", "update", "delete"}
  BY IdFacts, UsersAssumption DEF Commit, HoldsRow, Places
<1>2. /\ db' = [db EXCEPT ![Id(r)] = row[r]]
      /\ versions' = [versions EXCEPT ![Id(r)] = @ \cup {row[r]}]
      /\ UNCHANGED <<cache, overtaken, req, row>>
      /\ pc' = [pc EXCEPT ![r] = IF Op(r) = "register" THEN "done" ELSE "committed"]
  BY DEF Commit, StoreRow, Goto, Answer
<1>3. Unborn'
  BY <1>1, <1>2 DEF CacheRules, Unborn
<1>4. ASSUME NEW i \in Ids \ overtaken, i # Id(r)
      PROVE  (Due(i) \/ (cache[i] \in {NoRow, db[i]} /\ ~ReaderBehind(i)))'
  BY <1>1, <1>2, <1>4 DEF CacheRules, EntryCurrent, Due, ReaderBehind, Commit, Op, Id
<1>5. CASE Op(r) = "register"
  <2>1. versions[Id(r)] = {}
    BY <1>1, <1>5 DEF RowLocks, FreshIds, CacheRules, Unborn, Commit
  <2>2. cache[Id(r)] = NoRow /\ \A q \in Requests : pc[q] = "loaded" => Id(q) # Id(r)
    BY <1>1, <2>1 DEF ReadRules, ReadsAreCommitted, RowLocks, Provenance
  <2>3. (cache[Id(r)] = NoRow /\ ~ReaderBehind(Id(r)))'
    BY <1>2, <2>2 DEF ReaderBehind, Id
  <2>4. QED
    BY <1>2, <1>3, <1>4, <2>3 DEF CacheRules, EntryCurrent, Id
<1>6. CASE Op(r) # "register"
  <2>1. Due(Id(r))'
    BY <1>1, <1>2, <1>6 DEF Due, Op, Id
  <2>2. QED
    BY <1>2, <1>3, <1>4, <2>1 DEF CacheRules, EntryCurrent, Id
<1>7. QED
  BY <1>5, <1>6

\* An entry stays current unless a commit, or a reader it has overtaken, makes
\* it old; and then an invalidation is due.
LEMMA NextCacheRules == Local /\ RowLocks /\ ReadRules /\ CacheRules /\ [Next]_vars => CacheRules'
<1> SUFFICES ASSUME Local, RowLocks, ReadRules, CacheRules, [Next]_vars PROVE CacheRules'
  OBVIOUS
<1> USE IdFacts DEF Local, TypeOK, CacheRules, Unborn, EntryCurrent, Due, ReaderBehind, Overtake,
    Op, Id, Goto, Answer, stores
<1>1. ASSUME NEW r \in Requests, Exists(r) PROVE CacheRules'
  BY <1>1 DEF Exists
<1>2. ASSUME NEW r \in Requests, Begin(r) PROVE CacheRules'
  BY <1>2 DEF Begin
<1>3. ASSUME NEW r \in Requests, Create(r) PROVE CacheRules'
  BY <1>3 DEF Create
<1>4. ASSUME NEW r \in Requests, FindByID(r) PROVE CacheRules'
  BY <1>4 DEF FindByID
<1>5. ASSUME NEW r \in Requests, Save(r) PROVE CacheRules'
  BY <1>5 DEF Save
<1>6. ASSUME NEW r \in Requests, SoftDelete(r) PROVE CacheRules'
  BY <1>6 DEF SoftDelete
<1>7. ASSUME NEW r \in Requests, SyncES(r) PROVE CacheRules'
  BY <1>7 DEF SyncES
<1>8. ASSUME NEW r \in Requests, Commit(r) PROVE CacheRules'
  BY <1>8, CommitCacheRules
<1>9. ASSUME NEW r \in Requests, Invalidate(r) PROVE CacheRules'
  <2>1. /\ UNCHANGED <<db, versions, req, row>>
        /\ pc' = [pc EXCEPT ![r] = "done"]
        /\ Id(r) \in Ids
    BY <1>9 DEF Invalidate
  <2>2. \A i \in Ids : ReaderBehind(i)' <=> ReaderBehind(i)
    BY <1>9, <2>1 DEF Invalidate
  <2>3. ASSUME NEW i \in Ids \ overtaken', i # Id(r)
        PROVE  (Due(i) \/ (cache[i] \in {NoRow, db[i]} /\ ~ReaderBehind(i)))'
    <3>1. cache'[i] = cache[i] /\ i \notin overtaken /\ (Due(i)' <=> Due(i))
      BY <1>9, <2>1, <2>3 DEF Invalidate
    <3>2. QED
      BY <2>1, <2>2, <3>1
  <2>4. Id(r) \in overtaken' \/ (cache'[Id(r)] = NoRow /\ ~ReaderBehind(Id(r)))
    BY <1>9, <2>1 DEF Invalidate
  <2>5. EntryCurrent'
    BY <2>1, <2>2, <2>3, <2>4
  <2>6. QED
    BY <2>1, <2>5
<1>10. ASSUME NEW r \in Requests, LogAsync(r) PROVE CacheRules'
  BY <1>10 DEF LogAsync
<1>11. ASSUME NEW r \in Requests, CacheGet(r) PROVE CacheRules'
  BY <1>11 DEF CacheGet
<1>12. ASSUME NEW r \in Requests, CacheLoad(r) PROVE CacheRules'
  BY <1>12 DEF CacheLoad
<1>13. ASSUME NEW r \in Requests, CacheSet(r) PROVE CacheRules'
  BY <1>13 DEF CacheSet
<1>14. ASSUME NEW i \in Ids, Expire(i) PROVE CacheRules'
  BY <1>14 DEF Expire
<1>15. ASSUME NEW r \in Requests, StatementFails(r) PROVE CacheRules'
  BY <1>15 DEF StatementFails
<1>16. ASSUME NEW r \in Requests, CommitReplyLost(r) PROVE CacheRules'
  BY <1>16, UsersAssumption DEF CommitReplyLost, StoreRow, HoldsRow
<1>17. ASSUME NEW r \in Requests, SyncFails(r) PROVE CacheRules'
  BY <1>17 DEF SyncFails
<1>18. ASSUME NEW r \in Requests, Crash(r) PROVE CacheRules'
  BY <1>18 DEF Crash
<1>19. CASE UNCHANGED vars
  BY <1>19 DEF vars
<1>20. QED
  BY <1>1, <1>2, <1>3, <1>4, <1>5, <1>6, <1>7, <1>8, <1>9, <1>10, <1>11, <1>12, <1>13,
     <1>14, <1>15, <1>16, <1>17, <1>18, <1>19 DEF Next, Write, Read, Fault, Terminated

-----------------------------------------------------------------------------
(***************************************************************************)
(* Theorems.                                                               *)
(***************************************************************************)

\* IInv holds in every reachable state.
THEOREM Inductive == Spec => []IInv
<1>1. Init => IInv
  BY InitLocal, InitRowLocks, InitEmailRules, InitIndexRules, InitReadRules, InitCacheRules DEF IInv
<1>2. IInv /\ [Next]_vars => IInv'
  BY NextLocal, NextRowLocks, NextEmailRules, NextIndexRules, NextReadRules, NextCacheRules DEF IInv
<1>3. QED
  BY <1>1, <1>2, PTL DEF Spec

\* No two active users ever share an email, whatever the interleaving and the faults.
THEOREM EmailsUnique == Spec => []UniqueActiveEmail
<1>1. IInv => UniqueActiveEmail
  BY DEF IInv, EmailRules
<1>2. QED
  BY <1>1, Inductive, PTL

\* The index never diverges from the table but by a seeded row or by a document
\* write whose commit did not follow.
THEOREM IndexConverges == Spec => []IndexMirrorsStore
<1>1. IInv => IndexMirrorsStore
  BY DEF IInv, IndexRules
<1>2. QED
  BY <1>1, Inductive, PTL

\* No answer and no cache entry shows uncommitted or deleted data.
THEOREM NoDirtyReads == Spec => []ReadsAreCommitted
<1>1. IInv => ReadsAreCommitted
  BY DEF IInv, ReadRules
<1>2. QED
  BY <1>1, Inductive, PTL

\* No acknowledgement or audit record precedes its commit.
THEOREM NoFalseAcknowledgement == Spec => []AcknowledgedIsCommitted
<1>1. IInv => AcknowledgedIsCommitted
  BY DEF IInv, ReadRules
<1>2. QED
  BY <1>1, Inductive, PTL

\* Unless a writer is about to invalidate it, a cache entry is absent or current,
\* but for an invalidation that failed, died with its process, was skipped for a
\* lost reply, or came while a reader held the version before: finding 2 has no
\* other cause.
THEOREM StaleForAReason == Spec => []StaleOnlyIfOvertaken
<1>1. IInv => StaleOnlyIfOvertaken
  BY DEF IInv, CacheRules, EntryCurrent, StaleOnlyIfOvertaken
<1>2. QED
  BY <1>1, Inductive, PTL

-----------------------------------------------------------------------------
(***************************************************************************)
(* Nobody waits for nobody.                                                *)
(***************************************************************************)

\* Writers never wait, lock holders only for writers, and whoever only has a
\* connection only for them; without any of these the pool is empty.
LEMMA NoCircle ==
    ASSUME TypeOK, OneLockPerRow
    PROVE  SomeoneProceeds
<1> SUFFICES ASSUME NEW p \in Requests, ~Answered(p)
             PROVE  \E r \in Requests : ~Answered(r) /\ ~Waits(r)
  BY DEF SomeoneProceeds
<1>1. CASE \E r \in Requests : Writing(r)
  <2>1. PICK r \in Requests : Writing(r)
    BY <1>1
  <2>2. ~Answered(r) /\ ~Waits(r)
    BY <2>1 DEF Writing, Answered, Waits
  <2>3. QED
    BY <2>2
<1>2. CASE ~\E r \in Requests : Writing(r)
  <2>1. \A r \in Requests : \A e : ~EmailUndecided(r, e)
    BY <1>2 DEF EmailUndecided
  <2>2. CASE \E r \in Requests : pc[r] = "read"
    <3>1. PICK r \in Requests : pc[r] = "read"
      BY <2>2
    <3>2. RowFree(r)
      BY <1>2, <3>1 DEF RowFree, Locks, OneLockPerRow
    <3>3. ~Answered(r) /\ ~Waits(r)
      BY <2>1, <3>1, <3>2 DEF Answered, Waits
    <3>4. QED
      BY <3>3
  <2>3. CASE ~\E r \in Requests : pc[r] = "read"
    <3>1. \A r \in Requests : RowFree(r)
      BY <1>2, <2>3 DEF RowFree, Locks
    <3>2. CASE \E r \in Requests : pc[r] = "begun"
      <4>1. PICK r \in Requests : pc[r] = "begun"
        BY <3>2
      <4>2. ~Answered(r) /\ ~Waits(r)
        BY <2>1, <3>1, <4>1 DEF Answered, Waits
      <4>3. QED
        BY <4>2
    <3>3. CASE ~\E r \in Requests : pc[r] = "begun"
      <4>1. {r \in Requests : InTx(r)} = {}
        BY <1>2, <2>3, <3>3 DEF InTx, Writing
      <4>2. ConnFree
        BY <4>1, FS_EmptySet, UsersAssumption DEF ConnFree
      <4>3. ~Waits(p)
        BY <2>3, <3>3, <4>2 DEF Waits
      <4>4. QED
        BY <4>3
    <3>4. QED
      BY <3>2, <3>3
  <2>4. QED
    BY <2>2, <2>3
<1>3. QED
  BY <1>1, <1>2

\* However many requests compete, and however small the pool, they never end up
\* all waiting for each other's connections, row locks and emails.
THEOREM NoDeadlock == Spec => []SomeoneProceeds
<1>1. IInv => SomeoneProceeds
  BY NoCircle DEF IInv, Local, RowLocks
<1>2. QED
  BY <1>1, Inductive, PTL

-----------------------------------------------------------------------------
(***************************************************************************)
(* Only commits change the table, and each is a step of the directory.     *)
(***************************************************************************)

\* A step that changes the table or its history is the commit of one request.
LEMMA TableSteps ==
    [Next]_vars =>
        \/ UNCHANGED <<db, versions>>
        \/ \E r \in Requests :
              /\ pc[r] = "indexed"
              /\ db' = [db EXCEPT ![Id(r)] = row[r]]
              /\ versions' = [versions EXCEPT ![Id(r)] = @ \cup {row[r]}]
  BY DEF Next, vars, stores, Write, Read, Fault, Terminated, Exists, Begin, Create, FindByID,
     Save, SoftDelete, SyncES, Commit, StoreRow, Invalidate, LogAsync, CacheGet, CacheLoad,
     CacheSet, Expire, StatementFails, CommitReplyLost, SyncFails, Crash

\* The initial tables are initial directories.
LEMMA InitDirectory == Init => Directory!Init
<1> SUFFICES ASSUME Init PROVE Directory!Init
  OBVIOUS
<1>1. \A i \in Ids : Directory!IsActive(db[i]) => Directory!EmailFree(i, db[i].email)
  BY DEF Init, Directory!IsActive, Directory!EmailFree, Active
<1>2. QED
  BY <1>1 DEF Init, Directory!Init

\* A commit is a registration, a change or a removal.
LEMMA CommitRefines ==
    ASSUME IInv, NEW r \in Requests, pc[r] = "indexed",
           db' = [db EXCEPT ![Id(r)] = row[r]],
           versions' = [versions EXCEPT ![Id(r)] = @ \cup {row[r]}]
    PROVE  Directory!Next
<1> DEFINE i == Id(r)
<1>1. i \in Ids /\ req[r] \in Req /\ Op(r) \in {"register", "update", "delete"}
  BY IdFacts DEF IInv, Local, Places
<1>2. Directory!Put(i, row[r])
  BY DEF Directory!Put
<1>3. Writing(r) /\ row[r] \in Row
  BY DEF Writing, IInv, Local, HoldsRow
<1>4. Active(row[r]) => Directory!EmailFree(i, row[r].email)
  BY <1>3 DEF IInv, EmailRules, EmailsApart, Directory!EmailFree, Directory!IsActive, Active
<1>5. CASE Op(r) = "register"
  <2>1. row[r] = NewRow(req[r]) /\ db[i] = NoRow
    BY <1>3, <1>5 DEF IInv, RowLocks, FreshIds, Provenance
  <2>2. row[r].deleted = FALSE
    BY <1>1, <1>5, <2>1, NewRowFacts DEF Op
  <2>3. Active(row[r])
    BY <1>3, <2>2, ActiveFacts
  <2>4. row[r] \in Directory!User
    BY <1>3 DEF Row, Directory!User
  <2>5. QED
    BY <1>1, <1>2, <1>4, <2>1, <2>2, <2>3, <2>4 DEF Directory!Next, Directory!Register
<1>6. CASE Op(r) = "update"
  <2>1. PICK x \in Basis(r) : Active(x) /\ row[r] = Merge(x, req[r])
    BY <1>3, <1>6 DEF IInv, RowLocks, Provenance
  <2>2. x \in Directory!Basis(i)
    BY <2>1 DEF Basis, Directory!Basis, Directory!IsActive, Active
  <2>3. x \in Row
    <3>1. x \in Row \cup {NoRow}
      BY <1>1, <2>1 DEF Basis, IInv, Local, TypeOK
    <3>2. QED
      BY <2>1, <3>1 DEF Active
  <2>4. row[r].email = x.email /\ Active(row[r])
    BY <1>1, <1>3, <1>6, <2>1, <2>3, MergeFacts, ActiveFacts DEF Op
  <2>5. row[r].name \in Names /\ row[r].role \in Roles
    BY <1>3 DEF Row
  <2>6. row[r] = [x EXCEPT !.name = row[r].name, !.role = row[r].role]
    BY <2>1, <2>3 DEF Merge, Row
  <2>7. Directory!EmailFree(i, x.email)
    BY <1>4, <2>4
  <2>8. Directory!Put(i, [x EXCEPT !.name = row[r].name, !.role = row[r].role])
    BY <1>2, <2>6
  <2>9. Directory!Change(i)
    BY <2>2, <2>5, <2>7, <2>8, Zenon DEF Directory!Change
  <2>10. QED
    BY <1>1, <2>9 DEF Directory!Next
<1>7. CASE Op(r) = "delete"
  <2>1. Active(db[i]) /\ row[r] = Deleted(db[i])
    BY <1>3, <1>7 DEF IInv, RowLocks, Provenance
  <2>2. Directory!Remove(i)
    BY <1>2, <2>1 DEF Directory!Remove, Directory!IsActive, Active, Deleted
  <2>3. QED
    BY <1>1, <2>2 DEF Directory!Next
<1>8. QED
  BY <1>1, <1>5, <1>6, <1>7

\* Seen through its table, the handlers' code does nothing the directory does
\* not allow.
THEOREM Refinement == Spec => ImplementsDirectory
<1>1. IInv /\ [Next]_vars => [Directory!Next]_<<db, versions>>
  BY TableSteps, CommitRefines
<1>2. QED
  BY <1>1, InitDirectory, Inductive, PTL DEF Spec, ImplementsDirectory, Directory!Spec

\* If ApplyLockForUpdate locked the row, every change would apply exactly its
\* request to the current row: no update lost, no deleted user brought back.
THEOREM LockSuffices ==
    ASSUME LockingRead
    PROVE  Spec => AppliesOnlyTheRequest
<1>1. ASSUME IInv, [Next]_vars, NEW i \in Ids, db'[i] # db[i]
      PROVE  \E r \in Requests : Id(r) = i /\ db'[i] = Outcome(req[r], db[i])
  <2>1. PICK r \in Requests : pc[r] = "indexed" /\ db' = [db EXCEPT ![Id(r)] = row[r]]
    BY <1>1, TableSteps
  <2>2. Id(r) = i /\ db'[i] = row[r] /\ Writing(r)
    BY <1>1, <2>1 DEF IInv, Local, TypeOK, Writing
  <2>3. Op(r) \in {"register", "update", "delete"}
    BY <1>1, <2>1, IdFacts DEF IInv, Local, Places
  <2>4. row[r] = Outcome(req[r], db[i])
    <3>1. CASE Op(r) = "register"
      BY <1>1, <2>1, <2>2, <3>1 DEF IInv, RowLocks, FreshIds, Provenance, Outcome, Op
    <3>2. CASE Op(r) = "update"
      BY <1>1, <2>2, <3>2 DEF IInv, RowLocks, Provenance, Basis, Outcome, Op
    <3>3. CASE Op(r) = "delete"
      BY <1>1, <2>2, <3>3 DEF IInv, RowLocks, Provenance, Outcome, Op, Deleted
    <3>4. QED
      BY <2>3, <3>1, <3>2, <3>3
  <2>5. QED
    BY <2>2, <2>4
<1>2. IInv /\ [Next]_vars =>
        [\A i \in Ids : db'[i] # db[i] =>
            \E r \in Requests : Id(r) = i /\ db'[i] = Outcome(req[r], db[i])]_vars
  BY <1>1
<1>3. QED
  BY <1>2, Inductive, PTL DEF Spec, AppliesOnlyTheRequest
=============================================================================
