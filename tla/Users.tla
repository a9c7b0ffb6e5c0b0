------------------------------- MODULE Users -------------------------------
(***************************************************************************)
(* The user directory: the five handlers of internal/usecase/              *)
(* user_usecase.go running concurrently over one PostgreSQL table, one     *)
(* Elasticsearch index and one Redis cache.                                *)
(*                                                                         *)
(* A request is a goroutine that runs one handler from top to bottom.      *)
(* Every round trip to PostgreSQL, Elasticsearch or Redis is one step, so  *)
(* the steps of several requests interleave between any two round trips,   *)
(* and each round trip can fail, succeed without its reply, or be the last *)
(* thing the process does.                                                 *)
(*                                                                         *)
(* The database runs at READ COMMITTED.  A transaction's row version stays *)
(* private in row[r] until Commit; meanwhile it holds the row lock, and    *)
(* the partial unique index on active emails makes conflicting writers     *)
(* wait for it.                                                            *)
(***************************************************************************)
EXTENDS Naturals, FiniteSets

CONSTANTS
    Requests,      \* requests in flight at the same time, one handler each
    Ids,           \* user identifiers (uuid)
    Emails, Names, Roles,  \* values of the columns the handlers tell apart
    NoRow,         \* no row, no document, no cache entry
    Nil,           \* a request field that is absent (a nil pointer)
    InitialRows,   \* rows an operator may have put there before the start
    Workload,      \* what the requests may ask for
    MaxOpenConns,  \* size of the connection pool
    Faults,        \* which faults happen: subset of FaultKinds
    LockingRead    \* does ApplyLockForUpdate lock the row it is read from?

FaultKinds == {"db", "es", "redis", "crash"}

Row == [email : Emails, name : Names, role : Roles, deleted : BOOLEAN]

(***************************************************************************)
(* A request as its handler sees it.  A registration's id is what uuid.New *)
(* will return; an update carries only the fields to change.  Phone is one *)
(* more field like name and role, and password is never changed once set.  *)
(***************************************************************************)
Req == [op : {"register"}, id : Ids, email : Emails, name : Names, role : Roles]
       \cup [op : {"update"}, id : Ids, email : {Nil},
             name : Names \cup {Nil}, role : Roles \cup {Nil}]
       \cup [op : {"delete", "get"}, id : Ids, email : {Nil}, name : {Nil}, role : {Nil}]

ASSUME UsersAssumption ==
    /\ NoRow \notin Row
    /\ Nil \notin Emails \cup Names \cup Roles
    /\ InitialRows \subseteq [email : Emails, name : Names, role : Roles, deleted : {FALSE}]
    /\ Workload \subseteq Req
    /\ MaxOpenConns \in Nat \ {0}
    /\ Faults \subseteq FaultKinds
    /\ LockingRead \in BOOLEAN

VARIABLES
    db,        \* the committed users table
    es,        \* the documents of the index "project_users"
    cache,     \* the Redis entries user:detail:<id>
    req,       \* what each request asks for
    pc,        \* how far each handler has got
    row,       \* the user struct each handler holds
    res,       \* what each handler answered
    audit,     \* the audit goroutine each handler started
    versions,  \* history: every version of a row that was ever committed
    unsynced,  \* history: ids whose last index write was not followed by its commit
    overtaken  \* history: ids that a commit may have left an old entry for

vars == <<db, es, cache, req, pc, row, res, audit, versions, unsynced, overtaken>>
stores == <<db, es, cache, versions, unsynced, overtaken>>

Locations == {"received", "checked", "begun", "read", "written", "indexed",
              "committed", "missed", "loaded", "done", "crashed"}
Answers == {"none", "ok", "conflict", "notfound", "error"}

Op(r) == req[r].op
Id(r) == req[r].id

Active(x) == x # NoRow /\ x.deleted = FALSE

(***************************************************************************)
(* The document and the cached view of a row: none once it is deleted.     *)
(***************************************************************************)
Mirror(x) == IF Active(x) THEN x ELSE NoRow

NewRow(q) == [email |-> q.email, name |-> q.name, role |-> q.role, deleted |-> FALSE]

\* Mutant: the nil checks are gone, and an absent field erases the column.
MergeNil(x, q) == [x EXCEPT !.name = q.name, !.role = q.role]

\* Non-nil fields replace, the others stay.
Merge(x, q) == [x EXCEPT !.name = IF q.name = Nil THEN x.name ELSE q.name,
                         !.role = IF q.role = Nil THEN x.role ELSE q.role]

Deleted(x) == [x EXCEPT !.deleted = TRUE]

(***************************************************************************)
(* Transactions, row locks, the connection pool and the unique index.      *)
(***************************************************************************)
\* Mutant: a handler that finds no row returns without its Rollback.
InTxLeaked(r) ==
    \/ pc[r] \in {"begun", "read", "written", "indexed"}
    \/ pc[r] = "done" /\ Op(r) # "get" /\ res[r] = "notfound"

InTx(r) == pc[r] \in {"begun", "read", "written", "indexed"}

Writing(r) == pc[r] \in {"written", "indexed"}

Locks(r) == Writing(r) \/ (LockingRead /\ pc[r] = "read")

RowFree(r) == \A q \in Requests \ {r} : Locks(q) => Id(q) # Id(r)

ConnFree == Cardinality({r \in Requests : InTx(r)}) < MaxOpenConns

\* Mutant: the partial unique index is missing, only its reading twin is left.
NoUniqueIndex(r, e) == FALSE

\* A writer of another row whose email is, or was until it commits, e.
EmailUndecided(r, e) ==
    \E q \in Requests \ {r} :
        /\ Writing(q)
        /\ Id(q) # Id(r)
        /\ \/ Active(db[Id(q)]) /\ db[Id(q)].email = e
           \/ Active(row[q]) /\ row[q].email = e

EmailTaken(i, e) == \E j \in Ids \ {i} : Active(db[j]) /\ db[j].email = e

-----------------------------------------------------------------------------
(***************************************************************************)
(* Requests can arrive at any moment, so all of them wait at "received"    *)
(* and start when they like.  Rows in the table at the start were seeded   *)
(* by SQL, which writes no document, or registered, which does.  uuid.New  *)
(* returns an id that is not in the table and that no other registration   *)
(* gets; a client may name any id.                                         *)
(***************************************************************************)
Init ==
    /\ db \in [Ids -> InitialRows \cup {NoRow}]
    /\ \A i, j \in Ids : i # j /\ Active(db[i]) /\ Active(db[j]) => db[i].email # db[j].email
    /\ \E seeded \in SUBSET {i \in Ids : db[i] # NoRow} :
          /\ es = [i \in Ids |-> IF i \in seeded THEN NoRow ELSE db[i]]
          /\ unsynced = seeded
    /\ cache = [i \in Ids |-> NoRow]
    /\ req \in [Requests -> Workload]
    /\ \A r \in Requests : Op(r) = "register" =>
          /\ db[Id(r)] = NoRow
          /\ \A q \in Requests \ {r} : Op(q) = "register" => Id(q) # Id(r)
    /\ pc = [r \in Requests |-> "received"]
    /\ row = [r \in Requests |-> NoRow]
    /\ res = [r \in Requests |-> "none"]
    /\ audit = [r \in Requests |-> "none"]
    /\ versions = [i \in Ids |-> {db[i]} \ {NoRow}]
    /\ overtaken = {}

Goto(r, l) == pc' = [pc EXCEPT ![r] = l]

Answer(r, a) == Goto(r, "done") /\ res' = [res EXCEPT ![r] = a]

-----------------------------------------------------------------------------
(***************************************************************************)
(* Register: check, open a transaction, insert.                            *)
(***************************************************************************)
Exists(r) ==
    /\ pc[r] = "received" /\ Op(r) = "register"
    /\ ConnFree
    /\ \/ EmailTaken(Id(r), req[r].email) /\ Answer(r, "conflict")
       \/ ~EmailTaken(Id(r), req[r].email) /\ Goto(r, "checked") /\ UNCHANGED res
    /\ UNCHANGED <<stores, req, row, audit>>

Begin(r) ==
    /\ \/ pc[r] = "checked"
       \/ pc[r] = "received" /\ Op(r) \in {"update", "delete"}
    /\ ConnFree
    /\ Goto(r, "begun")
    /\ UNCHANGED <<stores, req, row, res, audit>>

\* The unique index makes the insert wait for undecided writers of the same
\* email; a duplicate is reported as an internal error, not as a conflict.
Create(r) ==
    /\ pc[r] = "begun" /\ Op(r) = "register"
    /\ ~EmailUndecided(r, req[r].email)
    /\ \/ EmailTaken(Id(r), req[r].email) /\ Answer(r, "error") /\ UNCHANGED row
       \/ /\ ~EmailTaken(Id(r), req[r].email)
          /\ Goto(r, "written")
          /\ row' = [row EXCEPT ![r] = NewRow(req[r])]
          /\ UNCHANGED res
    /\ UNCHANGED <<stores, req, audit>>

(***************************************************************************)
(* Update: read the row into memory, merge, write the whole row back.      *)
(* With LockingRead the read waits for the row lock and then keeps it.     *)
(***************************************************************************)
\* Mutant: the lookup has lost its "deleted_at IS NULL".
FindAnyByID(r) ==
    /\ pc[r] = "begun" /\ Op(r) = "update"
    /\ LockingRead => RowFree(r)
    /\ \/ db[Id(r)] = NoRow /\ Answer(r, "notfound") /\ UNCHANGED row
       \/ /\ db[Id(r)] # NoRow
          /\ Goto(r, "read")
          /\ row' = [row EXCEPT ![r] = db[Id(r)]]
          /\ UNCHANGED res
    /\ UNCHANGED <<stores, req, audit>>

FindByID(r) ==
    /\ pc[r] = "begun" /\ Op(r) = "update"
    /\ LockingRead => RowFree(r)
    /\ \/ ~Active(db[Id(r)]) /\ Answer(r, "notfound") /\ UNCHANGED row
       \/ /\ Active(db[Id(r)])
          /\ Goto(r, "read")
          /\ row' = [row EXCEPT ![r] = db[Id(r)]]
          /\ UNCHANGED res
    /\ UNCHANGED <<stores, req, audit>>

\* Save writes every column, deleted_at = NULL included.
Save(r) ==
    /\ pc[r] = "read"
    /\ RowFree(r)
    /\ ~EmailUndecided(r, row[r].email)
    /\ \/ EmailTaken(Id(r), row[r].email) /\ Answer(r, "error") /\ UNCHANGED row
       \/ /\ ~EmailTaken(Id(r), row[r].email)
          /\ Goto(r, "written")
          /\ row' = [row EXCEPT ![r] = Merge(row[r], req[r])]
          /\ UNCHANGED res
    /\ UNCHANGED <<stores, req, audit>>

(***************************************************************************)
(* Delete: one conditional UPDATE, evaluated once the row lock is free.    *)
(***************************************************************************)
SoftDelete(r) ==
    /\ pc[r] = "begun" /\ Op(r) = "delete"
    /\ RowFree(r)
    /\ \/ ~Active(db[Id(r)]) /\ Answer(r, "notfound") /\ UNCHANGED row
       \/ /\ Active(db[Id(r)])
          /\ Goto(r, "written")
          /\ row' = [row EXCEPT ![r] = Deleted(db[Id(r)])]
          /\ UNCHANGED res
    /\ UNCHANGED <<stores, req, audit>>

(***************************************************************************)
(* The tail the three writers share: indexToES or deleteFromES, commit,    *)
(* then (not for a registration, which has no entry yet) drop the cache    *)
(* entry, and start the audit goroutine.                                   *)
(***************************************************************************)
\* Mutant: a deletion indexes the row instead of removing its document.
SyncESAlways(r) ==
    /\ pc[r] = "written"
    /\ es' = [es EXCEPT ![Id(r)] = row[r]]
    /\ Goto(r, "indexed")
    /\ UNCHANGED <<db, cache, versions, unsynced, overtaken, req, row, res, audit>>

SyncES(r) ==
    /\ pc[r] = "written"
    /\ es' = [es EXCEPT ![Id(r)] = Mirror(row[r])]
    /\ Goto(r, "indexed")
    /\ UNCHANGED <<db, cache, versions, unsynced, overtaken, req, row, res, audit>>

StoreRow(r) ==
    /\ db' = [db EXCEPT ![Id(r)] = row[r]]
    /\ versions' = [versions EXCEPT ![Id(r)] = @ \cup {row[r]}]
    /\ unsynced' = unsynced \ {Id(r)}

Commit(r) ==
    /\ pc[r] = "indexed"
    /\ StoreRow(r)
    /\ IF Op(r) = "register"
       THEN Answer(r, "ok") /\ audit' = [audit EXCEPT ![r] = "started"]
       ELSE Goto(r, "committed") /\ UNCHANGED <<res, audit>>
    /\ UNCHANGED <<es, cache, overtaken, req, row>>

\* A reader that loaded the row before it changed has yet to cache it.
ReaderBehind(i) == \E q \in Requests : pc[q] = "loaded" /\ Id(q) = i /\ row[q] # db[i]

Overtake(i) == overtaken' = overtaken \cup {i}

\* Mutant: a failed Del returns before the audit goroutine is started.
InvalidateOrReturn(r) ==
    /\ pc[r] = "committed"
    /\ \/ /\ cache' = [cache EXCEPT ![Id(r)] = NoRow]
          /\ audit' = [audit EXCEPT ![r] = "started"]
          /\ IF ReaderBehind(Id(r)) THEN Overtake(Id(r)) ELSE UNCHANGED overtaken
       \/ "redis" \in Faults /\ Overtake(Id(r)) /\ UNCHANGED <<cache, audit>>
    /\ Answer(r, "ok")
    /\ UNCHANGED <<db, es, versions, unsynced, req, row>>

\* Mutant: only a deletion drops the cache entry.
InvalidateDeleted(r) ==
    /\ pc[r] = "committed"
    /\ \/ /\ cache' = IF Op(r) = "delete" THEN [cache EXCEPT ![Id(r)] = NoRow] ELSE cache
          /\ IF ReaderBehind(Id(r)) THEN Overtake(Id(r)) ELSE UNCHANGED overtaken
       \/ "redis" \in Faults /\ Overtake(Id(r)) /\ UNCHANGED cache
    /\ Answer(r, "ok")
    /\ audit' = [audit EXCEPT ![r] = "started"]
    /\ UNCHANGED <<db, es, versions, unsynced, req, row>>

\* rdb.Del, its error ignored.
Invalidate(r) ==
    /\ pc[r] = "committed"
    /\ \/ /\ cache' = [cache EXCEPT ![Id(r)] = NoRow]
          /\ IF ReaderBehind(Id(r)) THEN Overtake(Id(r)) ELSE UNCHANGED overtaken
       \/ "redis" \in Faults /\ Overtake(Id(r)) /\ UNCHANGED cache
    /\ Answer(r, "ok")
    /\ audit' = [audit EXCEPT ![r] = "started"]
    /\ UNCHANGED <<db, es, versions, unsynced, req, row>>

LogAsync(r) ==
    /\ audit[r] = "started"
    /\ audit' = [audit EXCEPT ![r] = "logged"]
    /\ UNCHANGED <<stores, req, pc, row, res>>

(***************************************************************************)
(* GetByID through cache.GetOrLoad: Get, on a miss load and Set.           *)
(***************************************************************************)
CacheGet(r) ==
    /\ pc[r] = "received" /\ Op(r) = "get"
    /\ \/ cache[Id(r)] = NoRow /\ Goto(r, "missed") /\ UNCHANGED <<row, res>>
       \/ /\ cache[Id(r)] # NoRow
          /\ row' = [row EXCEPT ![r] = cache[Id(r)]]
          /\ Answer(r, "ok")
       \/ "redis" \in Faults /\ Answer(r, "error") /\ UNCHANGED row
    /\ UNCHANGED <<stores, req, audit>>

\* Mutant: the loader has lost its "deleted_at IS NULL".
CacheLoadAny(r) ==
    /\ pc[r] = "missed"
    /\ ConnFree
    /\ \/ db[Id(r)] = NoRow /\ Answer(r, "notfound") /\ UNCHANGED row
       \/ /\ db[Id(r)] # NoRow
          /\ Goto(r, "loaded")
          /\ row' = [row EXCEPT ![r] = db[Id(r)]]
          /\ UNCHANGED res
    /\ UNCHANGED <<stores, req, audit>>

CacheLoad(r) ==
    /\ pc[r] = "missed"
    /\ ConnFree
    /\ \/ ~Active(db[Id(r)]) /\ Answer(r, "notfound") /\ UNCHANGED row
       \/ /\ Active(db[Id(r)])
          /\ Goto(r, "loaded")
          /\ row' = [row EXCEPT ![r] = db[Id(r)]]
          /\ UNCHANGED res
    /\ UNCHANGED <<stores, req, audit>>

CacheSet(r) ==
    /\ pc[r] = "loaded"
    /\ \/ cache' = [cache EXCEPT ![Id(r)] = row[r]]
       \/ "redis" \in Faults /\ UNCHANGED cache
    /\ Answer(r, "ok")
    /\ UNCHANGED <<db, es, versions, unsynced, overtaken, req, row, audit>>

\* The six hour TTL, or eviction, in Redis.
Expire(i) ==
    /\ cache[i] # NoRow
    /\ cache' = [cache EXCEPT ![i] = NoRow]
    /\ UNCHANGED <<db, es, versions, unsynced, overtaken, req, pc, row, res, audit>>

-----------------------------------------------------------------------------
(***************************************************************************)
(* Faults.  Leaving a handler runs the deferred Rollback, which releases   *)
(* the row lock and undoes nothing outside PostgreSQL.                     *)
(***************************************************************************)

\* Mutant: the error of Commit is dropped and the handler answers as usual.
StatementFailsSilently(r) ==
    /\ "db" \in Faults
    /\ \/ pc[r] = "received" /\ Op(r) = "register"
       \/ pc[r] \in {"begun", "read", "missed", "indexed"}
    /\ Answer(r, IF pc[r] = "indexed" THEN "ok" ELSE "error")
    /\ unsynced' = IF pc[r] = "indexed" THEN unsynced \cup {Id(r)} ELSE unsynced
    /\ UNCHANGED <<db, es, cache, versions, overtaken, req, row, audit>>

\* A statement fails; a failed commit leaves its document behind.
StatementFails(r) ==
    /\ "db" \in Faults
    /\ \/ pc[r] = "received" /\ Op(r) = "register"
       \/ pc[r] \in {"begun", "read", "missed", "indexed"}
    /\ Answer(r, "error")
    /\ unsynced' = IF pc[r] = "indexed" THEN unsynced \cup {Id(r)} ELSE unsynced
    /\ UNCHANGED <<db, es, cache, versions, overtaken, req, row, audit>>

\* The commit takes effect and its reply is lost: the handler reports an
\* error, keeps the cache entry and writes no audit record.
CommitReplyLost(r) ==
    /\ "db" \in Faults
    /\ pc[r] = "indexed"
    /\ StoreRow(r)
    /\ Overtake(Id(r))
    /\ Answer(r, "error")
    /\ UNCHANGED <<es, cache, req, row, audit>>

\* The index request fails, with or without having been applied.
SyncFails(r) ==
    /\ "es" \in Faults
    /\ pc[r] = "written"
    /\ \/ UNCHANGED <<es, unsynced>>
       \/ /\ es' = [es EXCEPT ![Id(r)] = Mirror(row[r])]
          /\ unsynced' = unsynced \cup {Id(r)}
    /\ Answer(r, "error")
    /\ UNCHANGED <<db, cache, versions, overtaken, req, row, audit>>

\* The process that serves r, or holds its audit goroutine, dies; the server
\* rolls its transaction back.
Crash(r) ==
    /\ "crash" \in Faults
    /\ \/ pc[r] \notin {"received", "done", "crashed"}
       \/ audit[r] = "started"
    /\ pc' = [pc EXCEPT ![r] = IF @ = "done" THEN @ ELSE "crashed"]
    /\ audit' = [audit EXCEPT ![r] = IF @ = "started" THEN "lost" ELSE @]
    /\ unsynced' = IF pc[r] = "indexed" THEN unsynced \cup {Id(r)} ELSE unsynced
    /\ IF pc[r] = "committed" THEN Overtake(Id(r)) ELSE UNCHANGED overtaken
    /\ UNCHANGED <<db, es, cache, versions, req, row, res>>

-----------------------------------------------------------------------------
Write(r) == Exists(r) \/ Begin(r) \/ Create(r) \/ FindByID(r) \/ Save(r) \/ SoftDelete(r)
            \/ SyncES(r) \/ Commit(r) \/ Invalidate(r)

Read(r) == CacheGet(r) \/ CacheLoad(r) \/ CacheSet(r)

Fault(r) == StatementFails(r) \/ CommitReplyLost(r) \/ SyncFails(r) \/ Crash(r)

Answered(r) == pc[r] \in {"done", "crashed"}

Terminated ==
    /\ \A r \in Requests : Answered(r) /\ audit[r] # "started"
    /\ UNCHANGED vars

Next ==
    \/ \E r \in Requests : Write(r) \/ Read(r) \/ LogAsync(r) \/ Fault(r)
    \/ \E i \in Ids : Expire(i)
    \/ Terminated

Spec == Init /\ [][Next]_vars

(***************************************************************************)
(* The Go scheduler runs every goroutine and every client library returns  *)
(* a reply or an error; nothing obliges a fault or the end of a TTL.       *)
(***************************************************************************)
Fairness ==
    \A r \in Requests : WF_vars(Write(r)) /\ WF_vars(Read(r)) /\ WF_vars(LogAsync(r))

FairSpec == Spec /\ Fairness

-----------------------------------------------------------------------------
(***************************************************************************)
(* Properties.                                                             *)
(***************************************************************************)

\* Every variable has its type.
TypeOK ==
    /\ db \in [Ids -> Row \cup {NoRow}]
    /\ es \in [Ids -> Row \cup {NoRow}]
    /\ cache \in [Ids -> Row \cup {NoRow}]
    /\ req \in [Requests -> Req]
    /\ pc \in [Requests -> Locations]
    /\ row \in [Requests -> Row \cup {NoRow}]
    /\ res \in [Requests -> Answers]
    /\ audit \in [Requests -> {"none", "started", "logged", "lost"}]
    /\ versions \in [Ids -> SUBSET Row]
    /\ unsynced \in SUBSET Ids
    /\ overtaken \in SUBSET Ids

\* No two active users share an email, although the check before a
\* registration reads outside its transaction and a stale Save can bring a
\* deleted user back.
UniqueActiveEmail ==
    \A i, j \in Ids :
        Active(db[i]) /\ Active(db[j]) /\ db[i].email = db[j].email => i = j

\* Outside the window between a document write and its commit, the index
\* holds exactly the active users, except for users seeded by SQL and users
\* whose last document write was not followed by its commit.
IndexMirrorsStore ==
    \A i \in Ids :
        \/ i \in unsynced
        \/ \E r \in Requests : pc[r] = "indexed" /\ Id(r) = i
        \/ es[i] = Mirror(db[i])

\* Neither the cache nor an answer of GetByID shows a version that was never
\* committed, or a deleted one.
ReadsAreCommitted ==
    /\ \A i \in Ids : cache[i] # NoRow => Active(cache[i]) /\ cache[i] \in versions[i]
    /\ \A r \in Requests :
          Op(r) = "get" /\ res[r] = "ok" => Active(row[r]) /\ row[r] \in versions[Id(r)]

\* A change that was acknowledged or entered in the audit log was committed.
AcknowledgedIsCommitted ==
    \A r \in Requests :
        Op(r) # "get" /\ (res[r] = "ok" \/ audit[r] # "none") => row[r] \in versions[Id(r)]

Outcome(q, x) ==
    CASE q.op = "register" -> IF x = NoRow THEN NewRow(q) ELSE x
      [] q.op = "update" -> IF Active(x) THEN Merge(x, q) ELSE x
      [] q.op = "delete" -> IF Active(x) THEN Deleted(x) ELSE x
      [] OTHER -> x

\* Whenever the table changes, it changes by what one request asks for applied
\* to the row as it is then: only the non-nil fields of an update, and
\* nothing to a deleted user.
AppliesOnlyTheRequest ==
    [][\A i \in Ids : db'[i] # db[i] =>
          \E r \in Requests : Id(r) = i /\ db'[i] = Outcome(req[r], db[i])]_vars

\* No request on this user is under way.
Quiet(i) == \A r \in Requests : Id(r) = i => pc[r] \in {"received", "done"}

\* With every writer and reader of a user finished, its cache entry is
\* absent or current: Update and Delete have invalidated it.
QuietCacheIsFresh == \A i \in Ids : Quiet(i) => cache[i] \in {NoRow, db[i]}

\* Between its commit and its invalidation a writer leaves an old entry behind.
Due(i) == \E r \in Requests : pc[r] = "committed" /\ Id(r) = i

\* Otherwise an old entry, or one of a deleted user, has one of four reasons: an
\* invalidation that failed, died with its process, was left out because the
\* reply of the commit was lost, or came while a reader held the version before
\* (finding 2).
StaleOnlyIfOvertaken == \A i \in Ids \ overtaken : cache[i] \in {NoRow, db[i]} \/ Due(i)

\* What a handler has to wait for: a connection, a row lock or the fate of an
\* email.
Waits(r) ==
    \/ (pc[r] \in {"checked", "missed"} \/ (pc[r] = "received" /\ Op(r) # "get")) /\ ~ConnFree
    \/ pc[r] = "begun" /\ Op(r) = "register" /\ EmailUndecided(r, req[r].email)
    \/ pc[r] = "begun" /\ (Op(r) = "delete" \/ LockingRead) /\ Op(r) # "register" /\ ~RowFree(r)
    \/ pc[r] = "read" /\ (~RowFree(r) \/ EmailUndecided(r, row[r].email))

\* Connections, row locks and undecided emails never close a circle: as long as
\* a request is unanswered one of them can go on, without a fault to free it.
SomeoneProceeds ==
    (\E r \in Requests : ~Answered(r)) => \E r \in Requests : ~Answered(r) /\ ~Waits(r)

Directory == INSTANCE UserDirectory WITH users <- db, history <- versions, Exact <- LockingRead

\* The handlers implement the directory.
ImplementsDirectory == Directory!Spec

\* Every request ends: nothing waits for ever on a row lock, on an undecided
\* email or on a connection, however small the pool.
EveryRequestEnds == \A r \in Requests : <>Answered(r)

\* An acknowledged write reaches the audit log unless its process dies first.
AcknowledgedIsAudited ==
    \A r \in Requests :
        Op(r) # "get" /\ res[r] = "ok" ~> audit[r] \in {"logged", "lost"}
=============================================================================
