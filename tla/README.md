# TLA+ models of template-python-fastapi

This directory specifies and verifies the concurrent core of the repository: the
rotating refresh sessions of the JSON:API service, the Dramatiq actor that purges
them, how the two meet in PostgreSQL, and the transactions of the resource write
actions. Around it stand smaller models of what the rest of the service does that
is hard to test: authentication on a bounded connection pool, the lazily built
session factory, job retries, walks through a collection by cursor, compound
documents, the way of a request through a route, header negotiation, and the
migration of e-mail addresses. It contains TLA+ modules translated from the
Python source, TLC configurations that check them on small instances, and
theorems that TLAPS proves for every instance.

    tlc -workers 2 -config purge_races.cfg MCAuth.tla      # model-check a run
    tlapm AuthProofs.tla                                   # check the proofs

## The system

A FastAPI application (synchronous handlers in a thread pool, SQLAlchemy 2,
PostgreSQL at READ COMMITTED) and a Dramatiq worker (Redis broker) share one
database. The parts, the state each keeps, and what makes it hard:

| Part | State | Operations | Hard behaviour | Correct when |
|---|---|---|---|---|
| Refresh sessions and auth endpoints (`app/auth/refresh_sessions.py`, `auth_controller.py`) | `users`, `refresh_sessions` (owner, expiry, `revoked_at`, `replaced_by_id`) | register, login, refresh (rotate), logout | transactions of one user interleave; reuse detection against sessions about to be published; checks made before a lock wait; errors that must commit | a token has one successor, reuse leaves no usable session, sessions go to active accounts only, every answer spends the token |
| Purge (`app/jobs/refresh_sessions.py`) | none of its own; deletes rows | one actor: select and delete in committed batches | `SKIP LOCKED` does not cover the `ON DELETE SET NULL` cascade; deadlock with handlers; crash and redelivery; retention boundary | only rows out of the window go, chains that remain stay linked, it ends |
| Retries and broker (`config/retries.py`, `config/broker.py`) | counters in the message | decide retry or failure, compute the delay | counts shared with `max_retries` and `retry_when`; capped exponential back-off | a message is retried at most as often as declared, within the cap |
| JWT codec (`app/auth/tokens.py`) | none | create, decode, decode expired | expiry with leeway against expiry of the row | a token past its leeway is never accepted |
| Bearer authentication (`app/auth/dependencies.py`) | a session of its own, closed before the handler | resolve the current active user | check then act; two connections from one pool | one connection at a time |
| Sessions and engine (`config/database.py`) | the process-wide factory, the pool | build lazily, check out, give back | double-checked locking; pool limit | one engine per process, no request blocks for ever |
| Resource writes (`app/controllers/concerns/`) | `examples`, `categories`, `tags`, `example_tags` | POST, PATCH, PUT (upsert), DELETE, relationship add, replace, remove | advisory lock, row lock or none, depending on the operation; a target deleted meanwhile; the conflict branch of the upsert | no lost member, PUT leaves exactly what it was given, a status that tells what happened |
| Listing (`app/jsonapi/query.py`, `crud_actions.py`) | a cursor held by the client | parse, filter, sort, keyset page, links | pages walked while rows come and go, in both directions | no row that stays is skipped or repeated |
| Serializers (`app/serializers/base.py`) | none | include tree, loader options, compound document | what is read must have been loaded | no unloaded attribute is read, each resource included once |
| Negotiation and localization (`app/jsonapi/`) | none | accept or refuse a media type, choose a language | quoting, parameters, q-values | per JSON:API 1.1 |
| Errors and handlers, routing, document parsing, schemas | none | map failures, register routes, check shapes | rollback of the failed request's session | nothing of a failed request is committed |
| Migration 0005 (e-mail identities), seeds | `users.email`, a backup table | upgrade, downgrade, seed | collisions; rows written in between | downgrade restores what was not edited since |
| Application factory, settings, OpenAPI contract, health, example job | wiring | start, stop, generate documentation | - | - |

Interactions: handlers and purge workers share rows and locks and nothing else.
A handler holds a user's row lock from its first statement on; the purge locks
session rows only. The broker redelivers a message whose worker died and
`SharedRetries` re-enqueues one that raised.

`PROJECT.json` lists every hazard of this code at its line, with the properties
that would catch it.

## Modules

    SessionTables          tables, locks, clock, operator
      |          \
    RefreshSessions  PurgeSessions
             \        /
             AuthSystem ---- INSTANCE ----> SessionLifecycle (abstract)
                 |
           AuthInvariant -- MCAuth (TLC)
                 |
            AuthProofs -- ChainProofs (TLAPS)

    ResourceWrites -- ResourceInvariant -- MCResource (TLC)
                              |
                        ResourceProofs (TLAPS)

    SessionFactory   ConnectionPool   Retries   EmailIdentities
              \            \            /           /
               MCParts (TLC), PartsProofs (TLAPS)

    Orders -- QueryParameters -- Listing -- ListingInvariant
                    |               |              |
                    |           MCListing    ListingProofs (TLAPS)
                    |             (TLC)            |
              QueryRequests ----------------- QueryProofs (TLAPS)

    QueryRequests, Headers (over Negotiation), Routes, Serialization: MCRequests (TLC)
    Headers: PartsProofs (TLAPS)
    Serialization -- DocumentInvariant, Routes -- DocumentProofs (TLAPS)
    OrderProofs (TLAPS): facts about numbers and finite sets in order, for the last three

**SessionTables.** The committed rows (`session[i]` is a `Row` or `None`), the
accounts, the tokens that commits have published (`token[i]`, the claims with the
parent as history), the row locks PostgreSQL holds for open transactions, and the
clock. A transaction publishes all its writes in the step that commits it. That
is READ COMMITTED for this code, since every row written is locked from the
decision to write it until the commit. `Tick`, `SetActive` and `RemoveUser` are
the environment: time, and an operator with SQL (the code under `src/` only reads
`is_active` and relies on the cascade from `users`). `revoked_at` is reduced to a
Boolean, seconds are the unit of time, and a removed account does not come back
(a new registration of the address would be another element of `Users`).

**RefreshSessions.** `register`, `login`, `refresh`, `logout`. A handler is cut
at every point where another transaction can overtake it or make it wait:

| Step | Code |
|---|---|
| `BeginLogin`, `BeginRefresh`, `BeginLogout` | the unlocked read of the account, or the decoding of the token (`job.late`: it was expired then) |
| `LockUserForLogin`, `LockUserForToken`, `UserGone` | `lock_user_for_refresh` (FOR UPDATE with `populate_existing`), or no row |
| `LockSession`, `SessionGone` | `SELECT refresh_sessions ... FOR UPDATE`, then the clock, then the verdict: expired, logged out, reuse, inactive, or rotate |
| `RevokeRow`, `RevokeDone` | the reuse UPDATE, row by row of its snapshot, waiting for each lock, skipping rows deleted meanwhile |
| `CommitRegister`, `CommitIssue`, `CommitVerdict` | COMMIT, and the answer |
| `Rollback`, `Failed` | connection lost, statement failed, deadlock victim: rolled back, answered 500 |

Calls that change no state (a login for an unknown address or with a wrong
password, a registration of a taken address, a token that does not decode) are
not actions.

**PurgeSessions.** One actor per worker: `Deliver` and `Redeliver` start a run
with its cutoff; `TryRow` locks or skips one candidate, oldest first, until the
batch is full; `DeleteRows` fixes the rows the cascade must touch; `CascadeRow`
waits for each; `CommitBatch` deletes, relinks, and goes on or ends;
`LockTimeout` aborts a blocked batch, which is retried up to `MaxRetries` times;
`Crash` loses the worker and redelivers the message.

**SessionLifecycle.** What refresh sessions promise, without tables, locks or
requests: a token is issued to an active account, is exchanged for at most one
successor, and once spent is spent for good; spending concerns one account, or
tokens the purge may forget. `AuthSystem!Lifecycle` maps `status` to "live" when
the row is there and not revoked.

**AuthSystem** composes the two, states fairness and the properties of the whole.
**AuthInvariant** holds the inductive invariants. **MCAuth** is the
TLC module.

**ResourceWrites.** POST, PUT, PATCH, DELETE and the relationship routes on one
example; writes of other examples share no lock with them. The tables are `row`
(columns and `category_id`, or `None`), `links` (its rows of `example_tags`), and
the `tags` and `categories` that exist; the locks are the advisory lock of PUT,
the row lock, and the locks of association rows. As above, a transaction
publishes its writes in the step that commits it.

| Step | Code |
|---|---|
| `Receive` | the document is parsed; POST draws an id nobody knows |
| `LockAdvisory` | `pg_advisory_xact_lock` of PUT |
| `FindLocked`, `FindUnlocked`, `FindNothing` | the SELECT of the row, FOR UPDATE for PUT, the relationship routes and a PATCH with relationships, without a lock for DELETE and other PATCHes; the loading of its tags, and the resolution of targets (404) |
| `LoadLinks` | the tags a DELETE loads, in a statement of their own |
| `Insert` | `INSERT ... ON CONFLICT DO UPDATE`; when it meets a row, the resource is read back |
| `Write`, `WriteNothing`, `WriteGone` | the UPDATE of a PATCH of attributes: of the columns that differ from what it read, none, or one that finds no row (`StaleDataError`, 500) |
| `Unlink` | a flush deletes one association row, and fails when it is gone |
| `Erase`, `EraseNothing`, `Cascade` | `DELETE FROM examples` and its cascade |
| `CommitWrite`, `CommitDelete` | the inserts of association rows with their keys checked (409), and COMMIT |
| `RemoveTag`, `RemoveCategory` | SQL by other programs, with the cascades |
| `Seed` | `db/seeds.py`: its category, its tag, its example, overwritten if it exists, and their link; `Seeds` is what it writes, or empty where it is not run |

A relationship PATCH is the PATCH of that member alone. The INSERTs of
association rows are part of the commit step: they wait for nobody, and what
they lock is held until the commit. The assumptions about SQLAlchemy (a flush
writes differences only, and raises when an UPDATE or a deletion of association
rows misses) are external and named in `PROJECT.json`. The four statements of `seeds.py`
are one step: it waits until it can take all its locks. A cycle of waits between it and a
DELETE is therefore left out, as is a tag that is deleted and seeded again for another
row within one request.

**SessionFactory.** `get_session_factory` cut at each of its steps: the check
without the lock, the lock, the second check under it, the construction, which may
raise (the settings are read there, and nothing is built), the return.

**ConnectionPool.** A request of any kind of route: guarded or not, reading,
committing or touching no table. `get_current_user` asks a session of its own
(`CheckOut`, `Load`), gives the connection back, and only then does `Enter` give
the endpoint its thread and its session. `Timeout` is the checkout that fails
after `pool_timeout`; `ChangeAccount` an operator. A thread blocked in the pool is
busy. Rows and their locks are not in this module, they are in the two systems
above.

**Retries.** All branches of `SharedRetries.after_process_message` on a message
and the copies it is re-enqueued as; `Send` enqueues the first. The options of the actor and those sent with
the message are records, `delays` the set of delays a copy may have drawn. The
worker settles a message after the middleware (`Settle`) and may die before
(`WorkerDies`), also between the two: then the job runs twice. An attempt limit of
`None` is no limit. `MaxExponent` keeps products within TLC's integers; the counts
it would cut are not reached within `MaxCopies`.

**QueryParameters** holds the pure part of `query.py`: parsing, the effective sort,
cursors, links. The loop of `parse_query` over the parameters is written as what it
leaves behind: `Faulty` are the positions it would refuse (an unknown name, a value
that is not accepted, a second one of a family), the error is that of the first of
them, and without one each field of `PageSpec` is the value of the one parameter of
its name or its default. The checks that come after the loop keep their order. What a
string turns into is abstracted: a filter value that does not parse is an empty set of
values, a cursor is the terms and values it was minted from, and one that was tampered
with is one of another sort. **QueryRequests** is a client that puts parameters
together in any number and order, with the properties of what is accepted.
**Listing** adds the table, the statements (WHERE, ORDER BY, LIMIT, COUNT), and a
client who follows the links while others write. `copies` says how often a join of
`index_scope` repeats a row (`Joins`), which is what the probe row must survive. The
`contains` filter is left out: it selects by text, and a walk sees it as any other
filter. `Null` stands above all values, as PostgreSQL sorts it. `MaxOffset` is the largest
offset, 2^53 - 1 in the code: statements are taken to have no more rows than that
(`JoinsAssumption`), so no page a link leads to is beyond it; the parser's use of it
is checked in `requests`. ORDER BY is `InOrder` of **Orders**: a finite set of rows put in
an order by counting what comes before each. **ListingInvariant** holds the inductive
invariant of a walk.

**Serialization.** The include list becomes the tree, the tree the loader paths,
the paths the options: skipped where a foreign key will do, narrowed to keys where
only linkage is needed. `ReadPrimaries` and `ReadPath` are the statements, between
which others write; `Create` is the object POST serializes from memory;
`Serialize` visits one object on one branch. What SQLAlchemy loads for an option is
external (`Fetch`). **DocumentInvariant** holds the inductive invariant. Writes run next to the serializers of the repository
(`Relinked`); the serializers that refer to themselves are checked without them
(`RelinkedAssumption`), since what an object reached by two options holds would then
rest on SQLAlchemy's internals.

**Routes.** Which routes a controller registers (`Registered`), the checks each
makes in order (`Admission`, `Handler`), with where its transaction begins and
commits (both make the `Plan` of the request), and the status each check fails with. A check is a choice; the modules
above say what the handlers do. A controller is a record of what it declares and of what
may happen below it: guards in front of reads and of writes (`readGuard`, `writeGuard`, each
the dependency on an active user), rows without a cascade that refer to its resources
(`referred`), and the errors its `before_*` and `after_*` hooks may bring about (`hooks`).
Any of the 192 kinds of these is checked; the application has two kinds, neither with a
guarded read, with such rows or with hooks (`Applications`). Other overrides
(`index_scope`, `model_params`) and other dependencies raise nothing in the model.
`Declared` is what a route declares, `Undeclared` what else its handlers can answer.

**Negotiation.** `Accept`, `Content-Type` and `Accept-Language`, from what each
entry of the header turns out to be. **Headers** is a client that puts a header
together entry by entry, with the properties of what it is answered.

**EmailIdentities.** Migration 0005: `Upgrade` and `Downgrade` take the lock and
make their checks, `NormalizeRow` and `RestoreRow` are the UPDATE of one row (each
must satisfy the unique constraint by itself), `Finish` commits, `Crash` rolls back,
DDL included. Before and after, accounts are registered (in canonical form),
corrected by hand, or deleted.

**MCRequests** and **MCParts** are TLC modules for parts that share no state. The
first goes through the stages of a request (`headers`, `query`, `route`,
`document`), the second through the session factory, the pool, a job and the
migration. A behaviour explores one of them: which one is chosen in `Init`, the
others rest in a state of their own, so nothing is lost by leaving out their
product. The properties are those of the modules, which hold at rest as well.

Operators marked `\* mutant` are altered versions of the
definition below them, used to confirm that a property can fail.

## What is checked

| Run | Instance | Question | Properties |
|---|---|---|---|
| `refresh_races` | 1 account, 3 concurrent requests, 3 ids, no purge | can any interleaving of logins, rotations, replays, logouts and deactivation break the rules of rotation? | `Inv OneSuccessor ChainShape ReuseContained IssuedToActive AnsweredIsSpent` |
| `lifecycle` | 2 accounts, handler, purge and operator | does the system implement the abstract lifecycle, without one user's steps touching another's tokens? | `ImplementsLifecycle` |
| `purge_races` | 1 account, 3 ids, a request and a worker, window 1, batches of 1 or 2, a crash | does the purge take only stale rows and leave chains intact? are all layers of the invariant of the proofs true? | `AuthInv PurgeOnlyStale ChainsLeftIntact` |
| `purge_ends` | a request and a worker, 3 ids, window 0, fair | who can be in a cycle of lock waits, and when? do both end even then? | `RequestsDeadlockOnlyWhenStale EveryRequestAnswered EveryPurgeEnds` |
| `answered` | 2 requests, 1 account, fair | is every request answered? | `EveryRequestAnswered` |
| `writes` | 2 write handlers, documents of every kind, 2 tags, a category, 2 columns | does every committed request leave exactly what it asked for, on the newest committed state? | `ResourceInv MembersExact PatchMerges PutReplaces CreatedMeansInserted` |
| `put_replaces` | the same next to `seeds.py` (expected to fail) | is PUT a full replacement also when its INSERT meets a row its pre-check did not see? | `PutReplaces` |
| `writes_answered` | 2 write handlers that insert and delete several links, next to `seeds.py`, fair | what does PUT guarantee then? who can be in a cycle of lock waits? is every request answered, also out of a deadlock? | `OnlyDeleteDeadlocks PutApplies EveryWriteAnswered` |
| `walks` | 4 rows, 2 sort columns with repeated values, a column with NULL that is filtered and sorted by, 10 requests, 2 writes; by cursor, by page number, through a related collection, a row repeated by a join | is a row that stays seen exactly once by cursor, whatever is written around it, and lost by no page number while nothing is? do links agree, does back lead back, does a walk advance? | `CursorWalkExact QuietWalkComplete LinksConsistent ThereAndBack CursorAdvances` |
| `requests` | every header of up to 3 entries; up to 4 of 23 parameters in every order; 192 kinds of controller, every route, every check failing; documents over 9 rows, flat serializers with a write and recursive ones with paths of up to three segments | which headers are refused, and which language is chosen? does a request that is accepted ever fail later, and does the order of its parameters matter? what is checked before what, and what becomes of the transaction? is all that is rendered loaded, true and complete? | `HeadersHonoured AcceptedIsSound OrderIrrelevant NothingUnloadedRead FullLinkage AnswersTruthful GuardedFirst` |
| `undeclared` | the routes of the application's controllers (expected to fail) | does every route declare what it answers? | `EveryAnswerDeclared` |
| `parts` | 3 cold threads, 2 calls each, constructions that raise; 2 requests on 1 connection, an operator; 5 kinds of actor, 3 of sender, up to 5 copies, a crash; 3 accounts, 5 addresses in 2 pairs and one that is none, 3 writes, crashes; all fair but the migration | is one engine left? does a request ever wait for a connection with one in hand, and was its verdict true? is a job lost, retried too often or too early, or its failure not reported? do the migrations meet a conflict, and does a downgrade restore every address? does what was begun end? | `OneEngine PoolInv RetriesAsDeclared NoStatementRefused RollbackExact EverythingEnds` |

`FullLinkage`, `HeadersHonoured`, `AcceptedIsSound`, `AnswersTruthful`,
`CursorWalkExact`, `LinksConsistent`, `RetriesAsDeclared`, `PoolInv` and
`EverythingEnds` are conjunctions, each of whose parts is stated and commented
where it is defined; most have a mutant for each part.

`put_replaces` is a finding: the docstring of `upsert` promises to "atomically
create or fully replace", but a PUT whose pre-check found no row, and whose
INSERT then met one, keeps the category and the tags its document leaves out
(a test pins this for tags). Only a program that does not take the advisory lock
can bring this about, and `db/seeds.py` is one: run between the two statements of such a
PUT, it leaves its category and its tag on the replaced example.

`undeclared` is the other finding: POST of a collection answers 404 when a linkage
target does not exist (`relationship_resolver.py:304`, pinned by a test), which it
does not declare (`route_registrar.py:105`), while the design asks that the OpenAPI
document match the errors. `GapsKnown`, a part of `AnswersTruthful`, shows that it is the
only such answer of the application's controllers. The framework has three more gaps that
none of them reaches, and `Undeclared` names them: a DELETE that the database refuses because
other rows refer to the resource answers 409, a read behind a guard answers 401 and
403, and hooks may raise what no route declares.

`FailureReported` counts the retries that ran, not the messages: a worker that dies
after it has reported a failure reports it again on redelivery. `VerdictWasTrue` is
all that can be promised of an account that is read once and without a lock.

The lone asymmetry of `walks` is on purpose: a row that is *changed* during a walk
may be seen twice or not at all, since its position moves; only rows that stay are
promised.

`writes_answered` finds real cycles: DELETE removes links it loaded without a
lock, then the row, while the others hold the row first. PostgreSQL rolls one of
them back and it is answered 500.

PATCH without relationships is not serializable: a column it names with the value
it read is not written, so after an overtaking write the row can be a mixture that
no order of the two requests gives. `PatchMerges` states what holds.

`purge_ends` shows how handlers and purge meet: with a retention window of
zero, a handler in the reuse UPDATE may hold a row the cascade of a purge waits
for, while it waits for a row that purge has deleted. This needs a transaction
that has been open for longer than the window (the rows of the chain behind the
deleted one must be out of it too), so with the default window of days it
does not occur; the property states the condition. `lock_timeout` or the
deadlock detector then ends it.

**Bounds.** `Ids` bounds the tokens issued in a behaviour (a request that would
publish one starts only while an id is left: `IdLeft`), `MaxTime` the clock,
`MaxCrashes` the crashes. Three ids are a chain with a middle, which is what the
cascade and the reuse UPDATE need; three requests are two racing rotations and a
login, or a replay against two of them; lifetimes of one or two ticks let a token
expire, and leave the window, within the clock's bound. Requests, ids, accounts
and workers are symmetric; the runs of liveness properties do not use symmetry.
Deadlock checking is off because the system may be idle with the clock at its
bound.

In the write runs `Documents` is the bound: a few documents per kind, chosen so
that columns, tags and the category are each given, left out and contested. Two
handlers are every pair of races and the shortest cycle of lock waits. What holds for
every document and any number of handlers is proved, `OnlyDeleteDeadlocks` for
cycles of any length.

The pool has fewer connections than there are requests. Four rows and
pages of one or two are a first, a middle and a last page with ties on both sides
of a boundary; two writes move the rows on either side of the cursor. Copies of a
message are bounded by `MaxCopies`, five: the message, the three retries of the
actors of this repository, and one that a crash duplicates. Where a history would
need more (an actor without a limit, a crash at the first attempt whose retries all
fail again), the last copies are only followed where they succeed.
Three entries of a header are two that compete and
one beside them; four parameters are a cursor, a sort, and two of the page. Three
accounts are a pair that collides and one in its way.

**Fairness.** Handlers and workers run on threads that keep running: weak
fairness of `Proceed` and of a worker's own steps. A lock wait is granted by
strong fairness of `Acquire`: PostgreSQL queues the waiters of a row, so a
transaction cannot be overtaken for ever. A blocked worker is released or times
out, because every batch runs under `lock_timeout`. In `ResourceWrites` the
deadlock detector rolls back a member of a cycle (`BreakDeadlock`). Nothing forces a request to
arrive, a failure, a crash, an operator or the clock.

The threads of `SessionFactory` take their steps (weak fairness of each thread is
enough: the lock changes hands a bounded number of times, since calls are bounded).
In `ConnectionPool` a waiting request gets its turn for a thread and for a
connection (strong fairness: the pool's queue is first come, first served), and
`Timeout` is not needed for progress. A Dramatiq worker keeps taking and settling
messages (weak fairness of the steps of each copy). Nothing is assumed of migrations.
The end of a walk is not stated as a liveness property, a client may stop: that it
cannot be led in circles is `CursorAdvances`.

## What is proved

For all values of the constants that satisfy the assumptions named in the modules: any
number of users, requests, workers, rows, tags, copies, headers, parameters, any
serializers, any controllers and any settings.

| Theorem | States |
|---|---|
| `AuthProofs!Invariance` | `Spec => []Inv` |
| `AuthProofs!TypeCorrect` | `Spec => []TypeOK` |
| `AuthProofs!AtMostOneSuccessor` | `Spec => []OneSuccessor` |
| `AuthProofs!ReuseIsContained` | `Spec => ReuseContained` |
| `AuthProofs!OnlyActiveIssue` | `Spec => IssuedToActive` |
| `AuthProofs!AnswerInvariance`, `AnswerSpends` | `Spec => []AnswerInv`, `AnsweredIsSpent` |
| `ChainProofs!ChainInvariance`, `AuthInvariance` | `Spec => []ChainInv`, `[]AuthInv` |
| `ChainProofs!ChainsShaped` | `Spec => []ChainShape` |
| `ChainProofs!OnlyStalePurged` | `Spec => PurgeOnlyStale` |
| `ChainProofs!ChainsIntact` | `Spec => ChainsLeftIntact` |
| `ChainProofs!DeadlocksOnlyStale` | `Spec => []RequestsDeadlockOnlyWhenStale` |
| `ChainProofs!LifecycleImplemented` | `Spec => ImplementsLifecycle` |
| `ResourceProofs!WritesInvariance` | `Spec => []ResourceInv` |
| `ResourceProofs!MembersAreExact` | `Spec => MembersExact` |
| `ResourceProofs!PatchIsMerged` | `Spec => PatchMerges` |
| `ResourceProofs!PutAppliesMembers` | `Spec => PutApplies` |
| `ResourceProofs!CreatedIsInserted` | `Seeds = {} => (Spec => CreatedMeansInserted)` |
| `ResourceProofs!PutIsReplacement` | `Seeds = {} => (Spec => PutReplaces)` |
| `ResourceProofs!DeadlocksHaveADelete` | `Spec => []OnlyDeleteDeadlocks` |
| `PartsProofs!FactoryInvariance`, `OneEnginePerProcess`, `FactoryIsShared` | `FactorySpec => []FactoryInv`, `[]OneEngine`, `[]SameForAll` |
| `PartsProofs!PoolInvariance`, `ConnectionsInUse`, `VerdictsWereTrue` | `PoolSpec => []PoolInv`, `[](HeldInUse /\ PoolBounded)`, `[]VerdictWasTrue` |
| `PartsProofs!RetriesInvariance`, `RetriesAreBounded`, `JobsAreNotLost`, `JobsRetriedAsDeclared` | `JobSpec => []JobInv`, `[]RetriesBounded`, `[]NotLost`, `[]RetriesAsDeclared` |
| `PartsProofs!EmailInvariance`, `EveryAccountFound`, `MigrationsMeetNoConflict`, `DowngradeIsExact` | `EmailSpec => []EmailInv`, `[]LoginsFindAccounts`, `[]NoStatementRefused`, `[]RollbackExact` |
| `DocumentProofs!DocumentInvariance`, `AllReadIsLoaded`, `DocumentsFullyLinked` | `DocumentSpec => []DocumentInv`, `[]NothingUnloadedRead`, `[]FullLinkage` |
| `DocumentProofs!RouteInvariance`, `RoutesAnswerTruthfully`, `GuardsComeFirst` | `RouteSpec => []RouteInv`, `[]AnswersTruthful`, `[]GuardedFirst` |
| `QueryProofs!OrderDoesNotMatter`, `AcceptedRequestsAreSound` | `QuerySpec => []OrderIrrelevant`, `[]AcceptedIsSound` |
| `PartsProofs!EveryHeaderHonoured` | `HeaderSpec => []HeadersHonoured` |
| `ListingProofs!WalksAreTyped`, `LinksLeadOn`, `NoCircles` | `Walk => []WalkTyped`, `[]LinksConsistent`, `CursorAdvances` |
| `ListingProofs!CursorWalksAreExact`, `QuietWalksAreComplete` | `Walk => []CursorWalkExact`, `[]QuietWalkComplete` |
| `ListingProofs!ThereAndBackAgain` | `Walk => []ThereAndBack` |
| `ChainProofs!HandlersWaitBriefly`, `HandlersComeToAnEnd`, `PurgesComeToAnEnd` | `Spec => []WaitsAreShort`, `HandlersAdvance`, `PurgesAdvance` |
| `ResourceProofs!WritersWaitBriefly`, `WritersComeToAnEnd` | `Spec => []WaitsAreShort`, `HandlersAdvance` |
| `PartsProofs!PoolKeepsMoving`, `RequestsComeToAnEnd` | `PoolSpec => []SomebodyMoves`, `RequestsAdvance` |
| `PartsProofs!FactoryKeepsMoving` | `FactorySpec => []SomeThreadMoves` |

**Refresh sessions** (`AuthSystem!Spec`: handlers, purge workers, operators, crashes and
rollbacks; `NoneAssumption`, `ProcsAssumption`, `TimeAssumption`, `NoneIsNoRecord`,
`PurgeAssumption`). The invariant has three layers.

*`Inv`.* `OneSuccessor` is not inductive: a handler between its check and
its commit could rotate a token somebody else has rotated. `RotatingUnspent`
says it still holds the row and the row is still not revoked; `ParentSpent` says
that a token with a successor is spent; the two exclude a second successor when
`CommitIssue` publishes one. `ReuseContained` rests on `ReuseFrontier` (every
usable row of the user is locked by the reuse UPDATE or still ahead of it), which
survives the steps of others because `UserLocked` gives each user lock to one
handler: nobody else can publish a row for that user. `IssuingToActive` says that
the account seen active under the lock still is. `JobOK`, `RowOfToken`,
`LockedStored` and `PickedLocked` tie tokens, rows and locks together, so that
every EXCEPT acts on a row that is there. Each action has its proof that it
preserves `Inv`; the purge is summarised by `WorkerEffect` (it takes free rows,
gives back its own, deletes or relinks rows it holds, never revokes or reopens
one) and the end of a transaction by `FinishFacts` and `OthersKept`.

*`AnswerInv`.* A handler about to answer holds the row it answers about, or the row is
gone, since no row outlives its account.

*`ChainInv`.* `DatesInv`: a row expires with its token and never after `clock + Lifetime`,
and a rotation does not issue a token that expires before the one it replaces.
`LocksInv`: the user lock comes first, so all rows a handler holds or waits for belong
to the user it holds, and while its reuse UPDATE runs they are as the statement found
them. `PurgeInv`: what a worker has picked is older than its cutoff, the cutoff is out of
the window, and the rows its cascade has yet to touch are exactly those that point at
what it picked. With `ChainShape` these are preserved by every step; each action is first
reduced to its effect on rows and locks (what one process guarantees and the others rely
on), and the layers are proved from the effects.
`RequestsDeadlockOnlyWhenStale` follows: in a cycle of lock waits that a handler is in,
handlers cannot wait for each other alone (their users differ, or one waits for its user
and holds nothing), so one of them waits for a row a purge has locked, which is out of
the window or points at one that is, while the handler found its token unexpired when
its transaction had begun to read.
The refinement maps each step of `Next` to a step of `SessionLifecycle` or to a stutter,
with `Lifecycle!Init` from `Init`.

**Resource writes** (`SentinelAssumption`, `DocumentAssumption`, `NoneIsNoRow`).
`ResourceInv` says that a handler about to write holds the row
(`RowHeld`), that the row a locking SELECT returned is still the row (`RowKnown`),
and that the collection it loaded is still there but for tags that are gone, with
the links it has deleted and has yet to delete making up the difference
(`LinksKnown`): so the difference computed in memory has its exact effect on the
committed collection. `PutAlone`, `PostAlone` and `Unnamed` give `StillNone`: what
found no row still finds none at its INSERT. Without a DELETE no cycle closes,
because the holder of the row waits for links only and nobody else holds any.

**Documents** (`DeclarationAssumption`, `GraphAssumption`, `IncludesAssumption`,
`RelinkedAssumption`). `DocumentInv` has seven parts: `TreeInv` (the include tree is closed
under prefixes and each edge is a declared relationship), `RowsInv` and `CacheInv` (rows and
objects refer to rows of the declared types), `OrderInv` (primary data first, the
serializer last), `PathsInv` (a path that has been read has filled its relationship for
every object its parent led to), `AgreeInv` (two statements that read one object agree on
it) and `WalkInv` (the serializer goes where the loader has been, and leaves nothing out).
That the types along a path are those of the tree is an induction on its length. Without
`RelinkedAssumption` the invariant is false for a serializer that refers to itself: an
object that is loaded by two options between which it is relinked would be followed to
one that was not loaded.

**Routes** (any set of controllers; of `ControllersAssumption` it needs that what a hook
raises is answered with an error status, as `errors.py:316` and `exception_handlers.py:93`
have it). A plan is a sequence that is cut at its head, so "the token is checked before the
row is looked up" is `Ahead`, which stays true of what is left when the first step is
passed. That `Telling` steps have the guards ahead of them, that the commit is last and has
the begin ahead of it, and that each check fails with a status the route declares or
`Undeclared` names, is proved of the plan of each route. `RouteInv` carries it along:
`OnPlan` says how far the request has come (with `Reached`, the place of the transaction),
`GuardsAhead` what is still ahead of it, `Outcome` what became of it.

**Requests.** For the query (`PolicyAssumption`, `NoneIsNoCode`, `ParametersAssumption`): a
request without a fault has at most one parameter of a family, so the value of a name does not
depend on positions, and changing two parameters is a bijection of positions under which
every set and value that `Read` computes is the same; a request at fault stays at fault.
For the headers (`QualityAssumption`, `EntriesAssumption`): among finitely many entries the
best exist and have a first one, exchanging two entries exchanges their positions,
and removing one shifts those after it, which keeps the order of what is left.

**Walks** (`Listing!Walk`, for any policy, table, join, size of page, request and number of
writes; `PolicyAssumption`, `NoneIsNoCode`, `RowsAssumption`, `RequestsAssumption`,
`JoinsAssumption`, `NoneAssumption`). None of the properties is inductive: they look at a
page or at the whole walk and say nothing of the request that comes next. The invariant has
four parts.

*`WalkTyped`.* Every request of the walk is `Sent`: made of what the first request held and
of what links add, and accepted. `PageLeads` says what a page leads to: each link asks for
the same (`SameAsk`), and the onward one has the next number or the cursor of a row that
comes later (`Minted`). A link is a request whose page parameters are replaced, so a request
without a fault stays without one (`Followed`). `LinksConsistent` and
`CursorAdvances` follow.

*`StableWalked`.* A row that stays as it is has been shown once, or is `Ahead`, in the key
set of the request that comes next, and then not at all. The step that reads a page splits
the key set of its request in the rows of the page and the key set of the cursor of its
last row (`Remaining`). This needs that the OR of AND prefixes is the order of keys
(`BeyondLex`), that this order is total on rows, because the terms have the tie breaker's
column among them and none of them can be NULL (`RowOrder`), and that a page is what comes first
in its key set without repetition, also when the join repeats rows (`ModelsAre`).

*`StableOrdered`.* What a page shows of the rows that stay is in the order asked for. A page
read backwards comes in the inverted order and is reversed.

*`QuietlyWalked`.* As long as nothing is written, the places of the statement's rows up to
the page that is to come have been shown, and a page that leads nowhere reaches the last
of them: the probe row, or the count, would have led on.

`ThereAndBack` follows from `WalkTyped` alone: by number both requests read the same rows; by
cursor the page is full, since a row came after it, the page read backwards is as full, its
rows are those just before the first row of the next page, and rows are in order in one way
only.

**The smaller systems.**

- `SessionFactory` (`FreeAssumption`, `CallsAssumption`): the lock names the one thread
  between `Acquire` and the release, and while a thread is about to build, no engine exists.
- `ConnectionPool` (`SubjectsAssumption`, `PoolAssumption`, `ThreadAssumption`): `HeldInUse`
  ties each connection to the program point that uses it, `Knowledge` says what a request
  has learnt of its account and that this was true during the request. The cardinality
  bound uses the library's facts on finite sets.
- `Retries` (`CopiesAssumption`, `NoneAssumption`): `Succession` numbers the copies without
  gaps, so the last one enqueued always leads on; a run that was neither done nor failed
  has the next copy. The invariant keeps for each copy the delays it was drawn from and
  for each job what was reported of it, from which `FailureReported` and
  `DocumentedSchedule` follow.
- `EmailIdentities` (`AddressAssumption`): while a migration runs, `before` is what a crash
  restores and must be in order (`Idle`); `Upgrading` and `Downgrading` say which rows have been
  rewritten, and that the targets of all rows differ, from which no single UPDATE
  can meet the unique constraint. This needs that normalizing is idempotent and that
  every canonical address is valid.

**What keeps things going.** Liveness stays with TLC, but the safety it rests on is proved
for all values of the constants. It has two halves.

*Somebody can always move.* An auth handler waits for at most one other, the holder of the
lock of its user, which only a purge can keep waiting (`WaitsAreShort`, from `LocksInv`; a
purge is bounded by its `lock_timeout`). Of writes the holder of the row waits for
nobody, unless a DELETE is under way, so only a PUT that waits for another PUT has two ahead of
it. In the pool some request waits neither for a thread nor for a connection
(`SomebodyMoves`, from `HeldInUse` and `PoolBounded`: whoever holds a connection is at a
point where it needs no other). Threads that wait to build the session factory find the
lock free or its holder on its way out (`SomeThreadMoves`).

*Nobody goes round in circles.* Each step an actor takes of its own, failures and lock
timeouts included, takes it to a later point or leaves a finite set smaller
(`HandlersAdvance`, `PurgesAdvance`, `RequestsAdvance`): a purge has as many attempts and
batches as its options allow, an UPDATE as many rows as it found.

What remains for TLC is that fairness turns these into an end, and that steps of others do
not undo them. No run checks these formulas: the runs check the liveness
that would fail without them.

Induction over numbers is done on sets of numbers (`OrderProofs!LeastNumber`, `AllNumbers`),
since a theorem with an operator as its parameter cannot be used by the installed provers.

*Only model-checked:* the liveness properties (`EveryRequestAnswered`, `EveryPurgeEnds`,
`EveryWriteAnswered`, `EverythingEnds`), as liveness under fairness and ENABLED are out of
the prover's reach; what is proved of them is under "What keeps things going". Every
invariant and every action property of a passing run is stated by a theorem.

## Not modelled, and the plan

Cryptography, password hashing, formatting of documents, errors and logs, DDL and
wiring are left out; the JSON of requests is represented by its decoded meaning,
headers and query strings by what their parts turn out to be. Time has a
resolution of a second, is the same for all processes and never goes back; the
token lifetime does not change while tokens are out. In particular:

- `openapi_contract.py` generates documentation and `documents.py` and
  `schemas/example.py` declare shapes that Pydantic checks: no state, no order.
- `passwords.py` is a call to argon2; `jobs/example.py` reads and logs.
- The other migrations are DDL.
- Of `tokens.py`, signatures and the claims other than subject, identity and expiry.
- Of `query.py`, the `contains` filter and the text form of values and cursors.

No property of a passing run is left without a proof but the liveness properties. What
could be added is breadth: the parts that `PROJECT.json` lists as partly modelled.
