# A TLA+ verification of go-standard

go-standard is an HTTP service in Go: a user directory and sign-in over
PostgreSQL, Elasticsearch and Redis, a background worker over Redis, and client
libraries for object storage and for a bank's payment interface (SNAP BI).
This directory models the parts of it in which concurrency and failure decide
whether it is correct, checks them with TLC on small instances, and proves
their safety properties with TLAPS for every value of the constants.

`PROJECT.json` ties the definitions to source lines, lists the runs, the
hazards and the theorems, and gives for every property a plausible bug
(a *mutant* of a mapped definition) that breaks it.

## 1. Inventory of the system

| Component | Source (under `src/`) | State | Operations |
|---|---|---|---|
| User directory | `internal/usecase/user_usecase.go`, `internal/repository/user_repository_impl.go`, `migrations/` | table `users`, index `project_users`, Redis keys `user:detail:<id>` | Register, GetByID, Update, Delete, GetAll, search |
| Cache-aside helper | `internal/pkg/cache/aside.go` | Redis entries with a TTL | GetOrLoad |
| Row locking helper | `internal/pkg/dbutil/lock.go` | none | ApplyLockForUpdate |
| Audit log | `internal/audit/audit.go` | a goroutine per acknowledged write | LogAsync |
| PostgreSQL pool | `internal/infrastructure/postgres.go` | open connections | acquire, release |
| Sessions | `internal/usecase/auth_usecase.go`, `internal/pkg/jwt/jwt.go` | Redis keys `auth:refresh:<id>` | Register, Login, Refresh |
| Index bootstrap | `internal/esindex/bootstrap.go`, `cmd/api/main.go` | indexes and aliases in Elasticsearch | Bootstrap |
| Outbound HTTP client | `internal/pkg/httpclient/` | one circuit breaker for all calls | Do with retries, breaker |
| SNAP BI payments | `internal/integration/snapbi/`, `internal/usecase/payment_usecase.go` | the cached access token | TransferVA, InquiryVA, token fetch |
| Object storage, media | `internal/pkg/storage/`, `internal/usecase/media_usecase.go` | active provider, objects, multipart uploads | Upload, Download, Delete, Switch |
| Worker and task queue | `internal/worker/`, `internal/task/`, `internal/pkg/taskqueue/` | asynq queues | Enqueue, handle, retry, archive |
| Listing | `internal/pkg/pagination/`, `internal/pkg/filter/`, `internal/pkg/esutil/` | none | page, filter, search |
| HTTP pipeline | `internal/handler/`, `internal/middleware/`, `internal/pkg/validator/` | rate limiter counters in Redis | routing, authentication, limiting, recovery |
| Wiring and lifecycle | `internal/di/`, `internal/config/`, `internal/infrastructure/` | none | construct, clean up |
| DTOs, errors, pure helpers | `internal/dto/`, `internal/apperror/`, `internal/pkg/hash/`, `internal/pkg/httputil/` | none | conversions |

How they interact. Every request is a goroutine. The API is meant to be run as
several processes that share PostgreSQL, Elasticsearch and Redis, so nothing in
memory orders two requests; only PostgreSQL's row locks and its unique index
do. A write opens a transaction, writes its row, writes the document *inside*
the transaction, commits, deletes the cache entry and starts the audit
goroutine. Sign-up calls the user directory and then the token store. The
sessions look users up and so depend on its deletions, and on the rows a stale
update brings back, of which they are not told. Every request first passes the pipeline, whose limiters keep one entry
per client address in Redis. At start every API process runs the bootstrap
before it serves. The payment use case caches the bank's token in Redis and
sends through the outbound client; no route of the API reaches it yet. Worker
processes share nothing with the API but Redis; asynq runs their queues.

What is hard, and what makes each part correct:

* **User directory.** Three stores and no transaction across them; a read
  that takes no lock; check and insert in separate statements; a commit whose
  reply is lost; a cache filled by a reader who is overtaken. Correct: an
  email belongs to one active user, the index shows what is in the table,
  readers see committed users only, acknowledgements are true, and everyone
  ends, even on a pool of one connection.
* **Sessions.** Read, compare, delete, look up, issue and store are separate
  round trips, and a token is determined by the second it is issued in.
  Correct: an exchanged token is dead, only faults sign a user out, and a user
  who is gone gets no token.
* **Bootstrap.** Processes start together, a request may fail after it was
  applied, a process may die half way. Correct: nobody serves without its
  aliases, races harm nobody.
* **Outbound client.** Attempts report back to a breaker that has changed its
  state meanwhile; attempts that were given up are still carried out. Correct:
  probes are limited, effects are bounded by tries, an answer of success is
  true, every call ends and the breaker recovers.
* **Payments.** A token that expires between Redis and the bank, copies of a
  request that overtake each other or arrive after the answer, errors that hide
  what was booked. Correct: a call is carried out once at most, success is true,
  a refusal of what was sent once denies nothing that happened, a token lasts as long as the request
  that carries it.
* **Worker.** At-least-once delivery: leases end under handlers that still run,
  a shutdown puts back tasks whose handlers it cannot stop, main may exit before
  asynq has finished. Correct: effects are bounded by retries and requeues,
  nothing is repeated without a reason, and every queued task is settled.
* **Listing.** Two statements without a transaction, an index that lags behind
  the table, page arithmetic in machine integers. Correct: what is shown was
  committed and asked for, and totals agree with pages while nothing changes.
* **Pipeline.** Counters read and written back by concurrent processes and by
  two limiters with one key; mutexes, refusals and panics on the way out.
  Correct: only overlaps and failures of Redis let more through, nobody is
  refused early, every status is true, everyone is answered.

`PROJECT.json` lists 39 hazards, each at its line, with the properties that
catch it going wrong, or why none does.

## 2. The modules and the code

| Module | What it is |
|---|---|
| `Users` | the handlers of the user directory with cache, index, audit goroutine, connection pool, locks and faults |
| `UserDirectory` | the abstract specification: what the user table promises |
| `MCUsers` | instances of `Users` for TLC: seeded rows, workloads, symmetry |
| `UsersProofs` | proofs about `Users`, the refinement included |
| `AuthSessions`, `MCAuthSessions`, `AuthSessionsProofs` | sign-up, sign-in, refresh; TLC's symmetry; proofs |
| `IndexBootstrap`, `IndexBootstrapProofs` | the bootstrap; proofs |
| `ResilientClient`, `ResilientClientProofs` | the retry loop and the breaker; proofs |
| `RemoteCall` | the abstract specification: what the client promises of a call |
| `Payments`, `MCPayments`, `PaymentsProofs` | the bank's token and the requests that carry it; an instance; proofs |
| `TaskWorker`, `MCTaskWorker`, `TaskWorkerProofs` | the task queue and its worker processes; an instance; proofs |
| `TaskLedger` | the abstract specification: what the queue promises of a task |
| `RequestPipeline`, `MCRequestPipeline`, `RequestPipelineProofs` | limiters, authentication, handlers and the answer's status; an instance; proofs |
| `UserListing`, `MCUserListing`, `UserListingProofs` | `GET /users` composed with `Users`; an instance; proofs on top of those of `Users` |

**Users.** A request `r` is a goroutine; `pc[r]` is the round trip it has
reached and `row[r]` its `*model.User`. `db`, `es` and `cache` are the three
stores, `audit[r]` the goroutine LogAsync starts. Every round trip is one
action, named after the Go function that makes it: `Exists`, `Create`,
`FindByID`, `Save`, `SoftDelete` are the repository's methods, `SyncES` is
`indexToES` or `deleteFromES`, `Invalidate` the `Del`, and `CacheGet`,
`CacheLoad`, `CacheSet` the parts of `GetOrLoad`. Leaving a handler runs its
deferred rollback: row locks and the connection depend on `pc` alone (`InTx`,
`Locks`), so the release needs no variable. PostgreSQL is modelled at READ
COMMITTED: row versions stay private until `Commit`, a writer waits for the
row lock (`RowFree`) and for another writer's undecided email
(`EmailUndecided`: the partial unique index waits for the other transaction).
`LockingRead` says whether `ApplyLockForUpdate` locks. As built it is FALSE:
the helper sets an option the GORM version of `go.mod` ignores. The proofs
cover both values. Registration ids are fresh, as `uuid.New` promises. Phone and
password are columns like the ones modelled. Faults: a statement or commit
fails, a commit takes effect and its reply is lost, an index write fails before
or after it was applied, Redis fails, a process dies. Three history variables
record what properties speak of: `versions`, every committed version of a row;
`unsynced`, the ids whose index write lost its commit; and `overtaken`, the ids
for which a commit may have left an old cache entry behind.

**UserDirectory** knows only the table (`users`) and what it has held
(`history`): register, change a whole version at a time, remove, under unique
active emails. `Exact` says whether a change starts from the current version
or from any earlier one. `Users` implements it with `users <- db`, `history <-
versions`, `Exact <- LockingRead`: without the lock the code promises only the
weaker directory.

**AuthSessions.** `stored[a]` is the Redis key of account `a`, `handed[a]`
the tokens its clients got. `GenerateRefreshToken` has no random part and its
times are seconds, so a token of an account *is* the second of its issue.
`Match`, `DropOld`, `Recheck`, `Issue`, `Store` are the round trips of Refresh;
Login and Register join at `Issue`. Registration up to its commit is one step
here, because `Users` has its steps. `Remove` is a deletion by the user
directory and `Revive` what finding 1 makes of it: an `Update` that read the row
before saves it with an empty `deleted_at`. Both may happen at any time and any
number of times, under the kind `"removal"`; neither touches the Redis key.

**IndexBootstrap.** Each process works through the configured indexes: look
for the alias, create the index, create the alias, go on; a failure exits
(`log.Fatal` in main) and the process may be started again.

**ResilientClient.** `pc` and `attempt` are the loop of
`executeWithResilience`, `expired` is the context `Do` creates, `breaker` and
`counted` are gobreaker v1.0.0 as configured (its generation number is
represented by the set of attempts that belong to the current one), `wire` is
the current attempt and `late` counts attempts given up that may still be
carried out. A refused attempt is retried like any error; every status is a
success to the breaker; the wait ignores the context; a retry after the body
was read may not go out; the body is read after `Do` cancelled its context.
Finished calls are replaced by new ones for ever.

**RemoteCall** is what a caller may rely on, without breaker, waits and
deadlines: at most `MaxAttempts` sends and none after the answer, each carried
out at most once but possibly after the answer, success and an unreadable reply
only for a request that was carried out, a rejection only for one that was sent.
An error says nothing. `ResilientClient` implements it with `sent <- tries`,
`carried <- applied`, `answer <- res`.

**Payments.** A call is one use of `ProcessVAPayment` or `GetVAInquiry`. `cache`
is the Redis key of the token with the end of its lifetime, `born` when the
bank issued each token, `since[c]` when the HTTP client took the call's present
request. `TakeToken`, `Issue`, `StoreToken` and `FetchFails` are `GetOrLoad`
around `fetchAccessToken`; `Post` hands over the signed request. The client's
inside is `ResilientClient`; what it means for a call is that up to
`MaxAttempts` copies are sent (`copies`), that only replies within `Timeout`
are heard (`InTime`), and that it returns the last reply or an error. The waits
between attempts ignore the timeout, so an error may come later than it. A copy
may arrive when nobody waits any more. The signature is valid exactly when the token is, so
only token and external id are kept. Errors follow the body's code (`Mapped`),
not the status.

**TaskWorker.** `task[t]` is the task's place in Redis, `holder[t]` the server
whose lease is valid, `work[s][t]` the goroutine of asynq's processor that waits
for the handler, `stray[s][t]` handlers it no longer waits for. The source sets
the parts up (`NewServer`, the routes, `MaxRetry`, the handlers, main) and asynq
v0.26 runs them, so more than half of this module's actions are marked external. The handlers of
the six task types have one shape (decode, work, return) and are one action. A handler
that decodes its payload returns nil, one that cannot returns `SkipRetry`:
retries come from ended leases alone. `Signal` draws whether main's deferred
cleanup or asynq's own handler is first to shut down, and `Exit` waits in the
first case only.

**TaskLedger** is the queue as whoever enqueues sees it: a task is open from its
acceptance until it is completed, never without having run, or archived, never
without a reason, and then stays so; it has one turn, and one more for each
retry and each time it is put back; a turn is run at most once, but possibly
late. `TaskWorker` implements it with `runs <- effects`, `retries <- retried`,
`returns <- requeued`; the places a task has in Redis before it is settled are
all `"open"` (`Stage`).

**RequestPipeline.** `passed[r]` counts the limiters a request has behind it,
`seen[r]` is the entry it read and increased, `entry` the one in Redis.
`ReadHits` and `WriteHits` are the two round trips of gofiber's fixed-window
limiter under its mutex (`Holds`, a function of `pc`). `Handle` is what the
routes and handlers do before the use case (authentication, path parameter,
body, rules), `Respond` the use case's result and the error handler's status.
`RuleRegistered` says whether the validator knows `indonesian_phone`; as wired
it is FALSE. The use cases are the modules above, here by the codes they return.

**UserListing** extends `Users` with requests of `GET /users` (`lpc`, `total`,
`hits`, `shown`) and with what a search can see of the index (`searchable`,
brought up to date by `Refresh`). `Count` and `FindPage` are the two statements
of `FindAll`, whose conditions the code writes out twice (`EntityConditions`,
`BaseFilter`); `Search` and `FindByIDs` are `searchViaES`. `Page`, `Size`,
`Offset` and `TotalPages` are `pagination.go`, the product in Go's wrapping
integers (`Wrap`). GORM leaves out an offset below one. Every step of `Users` is a
step here, and the listers take connections from the same pool (`ConnFree`).

## 3. The runs

| Run | Distinct states | What it shows |
|---|---|---|
| `users_faults` | 225 thousand | three requests of any kind, every fault: emails unique, index and reads show what was committed, acknowledgements true, each stale entry has a reason, nobody waits in a circle, and the directory is implemented |
| `users_live` | 249 thousand | two requests and a list or search on one connection, every fault: lists show committed rows that were asked for, totals agree with pages, each request ends, acknowledged writes are audited unless their process dies |
| `users_lost_update` | violation | finding 1 |
| `users_stale_cache` | violation | finding 2 |
| `auth_faults` | 468 thousand | an exchanged token stays dead; without faults nobody is signed out; while an account is removed it gets no token once the requests under way are through, although stale saves may bring it back |
| `auth_replay` | violation | finding 3 |
| `bootstrap_faults` | 4 thousand | nobody serves before every alias exists; races strand nothing; only a stranded index keeps a process from serving |
| `bootstrap_crash` | violation | finding 4 |
| `client_calls` | 130 thousand | the abstract call is implemented, probes are limited and only they close the breaker, each call ends, the breaker closes for good once the upstream stays healthy |
| `payment_tokens` | 6.4 million | what is told of a request that was sent is true: success, conflict, and refusal unless it was repeated; a token from Redis lasts until its request arrives |
| `worker_tasks` | 163 thousand | the ledger is implemented, tasks are repeated or left to a lease only after a disturbance, and settled in the end |
| `pipeline_limits` | 587 thousand | limits hold unless hits overlap or Redis fails, no early refusal, true statuses, an answer for everyone |

Each passing property has a mutant of the code that violates it under the
same configuration: for example a soft delete that indexes the row, a
`FindByID` without `deleted_at IS NULL`, SETNX for SET, a breaker that counts
4xx, an attempt sent behind an answer, a token kept for the whole of its
lifetime, a shutdown that drops the task it interrupts, a worker that settles a
task without its lease, a limiter that keeps its mutex when it refuses, a count
that forgets about deleted rows.

## 4. Bounds

* `users_*`: three requests are the fewest that show two writers and a
  reader, or a deletion and a registration between the two halves of a stale
  update. Two emails are needed for one conflict and one free choice; a column
  of each of two kinds shows a lost change. Seeded rows and workloads are in
  `MCUsers`. The live run uses one email and one connection so that its two
  requests contend with each other and with the list; that three requests cannot
  block each other is checked by `users_faults` (`SomeoneProceeds`, and no deadlock).
  Requests are symmetric in the safety runs, never in the live one. Its five
  queries (`MCQueries`) ask for the first page, a later one, one beyond the end
  and one whose offset wraps at `IntLimit = 4`, with and without deleted rows,
  and search within and beyond Elasticsearch's window; two rows are enough for
  two pages of one.
* `auth_*`: four requests (a sign-in, two refreshes that overlap, and one
  that is late), one account, since accounts share nothing, and three
  seconds (`MaxClock = 2`): the second of issue, the same and a later one.
  Each request runs once, so the system really stops: these runs set
  `CHECK_DEADLOCK FALSE`.
* `bootstrap_*`: two indexes show the passage from one to the next although
  the code configures one; `MaxFaults` bounds faults because unlimited
  failures would keep anyone from starting.
* `client_calls`: two places for calls, of two attempts, two failures to open
  and one probe. A call in one place straggles through generations while any
  number of calls passes through the other.
* `payment_tokens`: two calls share a token, one of them late; two copies of a
  request, one of which may be lost, refused or late. A tick is half a minute,
  so the margin of a minute is two ticks and the client's timeout of thirty
  seconds is one; lifetimes of two and three ticks take both branches of
  `CacheTTL`. The clock runs to the end of a token's life.
* `worker_tasks`: two processes, so that one recovers what the other has lost;
  a task that may be retried once and one that cannot be decoded and may not;
  one signal and two faults, enough for a shutdown after a lost lease.
* `pipeline_limits`: three requests, one of any kind and two that count, two
  processes, allowances of three and one, and a second window; with these each
  limiter is reached, passed and overrun. The kinds are given in order, since
  requests differ in nothing else.

The theorems show that the safety properties do not depend on these bounds.

## 5. Fairness

All of it is weak. No fault, new request, tick of the clock, signal or change of
health is ever obliged.

* **Users**: the steps of each handler and of `LogAsync`, because the Go
  scheduler runs every runnable goroutine and every client library returns a
  reply or an error. Nothing depends on the end of a TTL. `UserListing` adds
  none: no property needs a list to be answered.
* **IndexBootstrap**: each process, its restart included, as any supervisor
  provides for a server that must not stay down.
* **ResilientClient**: `Attempt` and `Serve`, because an attempt's context bounds
  it; `ResetElapses`, because time passes. `RecoversWithUpstream` states its
  premises itself: an upstream that stays healthy and calls that keep coming.
* **TaskWorker**: the goroutines of asynq's processor and its recovery loop, the
  end of a lease nobody extends, an exit that was begun and the start of a process
  that exited. The shutdown timeout is not obliged to strike.
* **RequestPipeline**: `Serve`. Its mutexes are Go's, which do not starve a
  waiter; Redis answers or fails.

`AuthSessions` and `Payments` check safety only.

## 6. What is proved

TLAPS proves the following for any constants that satisfy the modules' named
assumptions. `UsersAssumption`, `AuthAssumption`, `BootstrapAssumption`,
`ClientAssumption`, `WorkerAssumption`, `PipelineAssumption` and
`ListingAssumption` only type the constants and keep `Nil`, `NoRow`, `NoToken`,
`NoEntry` and `Nobody` apart from real values. `PaymentAssumption` says more, and
`TokenLasts` rests on it: two timeouts fit into the margin, the fallback and the
margin into the bank's token, and no setting exceeds the token's life. Each
proof has an inductive invariant that is stronger than the property, an
initial-state lemma, one step per action, and a temporal step at the end.

* **Users** (`TypeCorrect`, `EmailsUnique`, `IndexConverges`, `NoDirtyReads`,
  `NoFalseAcknowledgement`, `StaleForAReason`, `NoDeadlock`, `Refinement`,
  `LockSuffices`). That two active users never share an email is not inductive:
  two transactions may already hold rows that would clash. The invariant
  therefore also says that each private row version is in order for its program
  point, that at most one transaction writes a row, and that the emails of
  undecided rows differ from each other and from the committed ones.
  `IndexConverges` needs that the document and the private row agree between the
  index write and the commit; `NoDirtyReads` and `Refinement` that whatever a
  handler holds was committed once. `LockSuffices` shows the repair of finding 1:
  with a locking read no update is lost and no deleted user comes back.
  `StaleForAReason` is finding 2 turned round: unless a writer is between its
  commit and its `Del`, an entry is absent or equal to the row, but for the ids
  in `overtaken`. The entry alone is not inductive, for a reader may be about to
  store; `EntryCurrent` says of the reader (`ReaderBehind`) what it says of the
  entry, and `Unborn` that an id nobody has committed has no versions, so that a
  registration, which invalidates nothing, overtakes nobody. `NoDeadlock` goes
  through what can be waited for in order (`NoCircle`): a transaction that has
  written waits for nothing; without one no email is undecided and each holder of
  a row lock can go on; without either everyone inside a transaction can; and
  with nobody inside one the pool is free.
* **UserListing** (`ListingTypeCorrect`, `ListsAreWanted`, `PagesAgree`,
  `PagesPartition`, `ListersAreHarmless`). The composition implements `Users`
  (every step is one of its steps or leaves its variables alone), so the
  invariant above holds in it, and `ListersAreHarmless` carries the refinement,
  the absence of deadlock and the reasons of stale entries over. The listers' own
  adds that what is shown was committed and passed the filter, and that a page
  read from an unchanged table has the rows its total promises. The latter rests
  on lemmas about `pagination.go`: the number of pages (`Ceiling`), where page
  `n` begins and how many rows it has (`PageBounds`). From these
  `PagesPartition`: as long as the offsets fit into an `int`, pages one to
  `total_pages` show every position of the list exactly once. It is about
  positions: the code orders by one column (`filter/applier.go:35`), so
  PostgreSQL may order rows of equal keys differently from page to page, which
  the theorem does not exclude.
* **AuthSessions** (`TypeCorrect`, `NoReturn`, `NoSignOut`,
  `NoTokenWhileRemoved`, `NoLateReplay`). An exchanged token stays dead because, once only one request
  issued it, no request that is about to store holds it; sessions live because,
  while nothing has failed, an empty key means that a request is on its way to
  fill it. `NoTokenWhileRemoved`: removing a user leaves its token in Redis, and
  yet nothing is handed out or stored for it from the moment the requests that
  had looked at the row are through (`Locked`), for every way to a new token
  looks at the row first. It says no more than that: a stale save may bring the
  row back, and then a token that nobody has tried meanwhile works again.
  `NoLateReplay` delimits finding 3: a token can be exchanged twice only by
  refreshes that overlap or if two requests got it in the same second.
* **IndexBootstrap** (`TypeCorrect`, `ServedAliasesExist`,
  `RacesDoNotStrand`, `NoRestartHeals`). The position of a process says which
  aliases are behind it, and no alias is ever removed; an index without alias has
  someone linking it, or a fault to blame. `NoRestartHeals` is the general form
  of finding 4: an index stranded once is stranded for ever, however often and by
  however many processes the bootstrap is run again, and nobody serves meanwhile.
* **ResilientClient** (`TypeCorrect`, `ProbesAreLimited`, `NoExtraEffects`,
  `NoFalseSuccess`, `CallKept`, `ProbesClose`). The half-open breaker's request
  count equals the probes out plus those returned, so the limit on the former
  limits the latter; an open breaker counts nobody. For the calls: what was
  carried out, is on the wire or was given up there adds up to at most the
  attempts let through, and those to at most the attempts made. `CallKept` is the
  refinement of `RemoteCall`, step by step: every admission is a send, every
  service, late ones included, a carrying out, and every return an answer, all
  because a call that goes on has not answered (`Unanswered`). `ProbesClose`: the
  breaker closes only in the step in which the last of exactly
  `HalfOpenMaxReqs` admitted probes returns with success, because no attempt of
  an older generation is in `counted` (`LastProbeCloses`) and the passing of time
  only opens the way to a test (`RefreshNeverCloses`).
* **Payments** (`TypeCorrect`, `TrueSuccess`, `TrueRefusal`, `TokenLasts`). For
  the first two, the copies of a request account for each effect at the bank and
  for each reply. A conflict is true when the request was sent (`tries`); one
  over the token says nothing, as nothing was sent. For the last, ages: a token reaches Redis within a timeout of
  its issue, is handed out before the end of its lifetime there, and its request
  arrives within a second timeout; the margin of `CacheTTL` pays for both, and with
  sixty seconds and a timeout of thirty it does so exactly. A caller that
  pauses between taking the token and sending is not counted.
* **TaskWorker** (`TypeCorrect`, `BoundedEffects`, `SettledRightly`, `RunsOnce`,
  `NoOrphans`, `LedgerKept`). Attempts are numbered, and each handler at work or
  given up carries the number of its own; there are no more attempts than one, the
  retries and the requeues together (`Counted`), and retries have a disturbance
  to explain them (`Explained`). `LedgerKept` is the refinement of `TaskLedger`:
  a handler's number is one of the task's turns (`RunStep`), and whoever settles,
  retries or puts back holds the lease, so the task is still open (`SettleStep`,
  `RecoverStep`, `AbortStep`). The move of a task within Redis is a stutter.
* **RequestPipeline** (`TypeCorrect`, `LimitsHold`, `NoEarlyRefusal`,
  `HonestAnswers`). An entry never holds more hits than were made in its window,
  whatever overlaps, so a refusal is always earned; while nothing overlaps and
  Redis answers it also covers every request let through, so the limits hold.
  The second half is lost for good at the first overlap, which is why
  `OnlyRacesOvershoot` is conditional.

## 7. What is only model-checked, and the findings

Liveness (`EveryRequestEnds`, `AcknowledgedIsAudited`, `ServesUnlessStranded`,
`EveryCallEnds`, `RecoversWithUpstream`, `EveryTaskSettles`,
`EveryRequestAnswered`) is checked by TLC alone: the prover has no rules for
fairness and ENABLED that would carry these arguments. `NoDeadlock` is the part
of `EveryRequestEnds` that is a safety property, and is proved. Every invariant
and action property and all three refinements that a passing run checks are
theorems as well.

Conversely four properties are theorems only, since the runs check the
refinement they follow from: `EffectsBounded` and `SettledForReason`
(`TaskLedger`), `AppliedWithinTries` and `OkIsApplied` (`RemoteCall`). The types of
the listers (`ListingTypeOK`) are proved, too, and no run repeats them.

The four violations are TLC counterexamples:

1. `dbutil/lock.go:8`: ApplyLockForUpdate does not lock. Two updates, or an
   update and a deletion, overlap: a change is lost or a deleted user revived,
   and with the user the session whose token is still in Redis.
2. `cache/aside.go:49`: a reader that loaded before a write stores after its
   invalidation; the old version, or a deleted user, stays for up to six hours.
3. `auth_usecase.go:139`: two refreshes with one token both succeed, and a
   rotation within the second of issue replaces a token by itself.
4. `esindex/bootstrap.go:91`: after a crash between index and alias every
   later start fails; the documentation calls the bootstrap idempotent.

Met while modelling and built into the modules where they change behaviour, or
listed as hazards, but without a run of their own:

* `di/providers.go:136` builds a validator that does not know `indonesian_phone`:
  requests that use the rule are answered 500 (`RuleRegistered`).
* `handler/user_handler.go:177` reads the actor under another key than
  authentication stores it: audit entries name nobody.
* Both limiters keep one entry per client, so the stricter one refuses because
  of requests elsewhere, and each request to `/auth` is counted twice.
* A very large page wraps the offset: GORM drops it and page one is shown, and
  Elasticsearch refuses it. A search ignores the other filters, and its total
  counts documents whose rows are already deleted.
* `worker/server.go:56` installs the handler meant for exhausted tasks, and
  asynq calls it after every failed attempt.
* The limiter's `Retry-After` header prints nanoseconds (`60ns`) instead of seconds.
* The bank's own `expiresIn` is ignored, and a token it refuses stays cached.
* An error of the token endpoint is mapped like one of the transfer
  (`snapbi/client.go:94`): a 409 there is told as a conflict although nothing was
  sent. `FetchFails` has it, and `SuccessIsTrue` speaks of sent requests only.

## 8. Not modelled

* **Object storage and media.** No use case of the API receives the storage
  manager and no route reaches the media use case; uploads go from the client to
  the provider by presigned URL and leave no state in this program. A model would
  be of a provider that nothing calls.
* **Wiring, configuration and lifecycle** run once, in a fixed order, before
  anything is concurrent. What they decide is in the modules, as constants or as
  guards: the validator and the limiters the handlers get, timeouts and attempts,
  the worker's cleanup, the bootstrap before the first request.
* **Data transfer objects and pure helpers** compute one value from another.
  Those whose result a property can tell apart (statuses, path parameters,
  filters, the page arithmetic, `CacheTTL`) are operators of the modules above.
* **Within modelled components**: `HardDelete` and `Count`, which nothing calls;
  signatures and expiry of JWTs, hence the rounding of the refresh token's TTL
  and the access tokens that stay valid until they expire after their account is
  deleted (of refresh tokens `NoTokenWhileRemoved` says more); requests the
  pipeline answers without a handler, be it 405 for another method, an unknown
  path below `/api/v1/auth` (which both limiters count), or OPTIONS; idle connections; whom
  an audit entry names; redirects, retry waits as numbers, and the connection a
  retried response keeps until its call ends; names of queues and the wording of
  errors and logs.

Were the payment or media use cases given routes, the next module would be one of
the stored keys and the provider they were stored with (`storage/manager.go:71`),
and `Payments` would gain the client's pauses from `ResilientClient`.
