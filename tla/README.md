# Formal models of the enterprise assistant backend

The repository is a FastAPI service (`src/app/main.py`) with PostgreSQL, Redis
and a Celery worker (`src/app/workers/`). This directory holds TLA+ models of
its stateful parts, TLC configurations that check them, and TLAPS proofs.

The repository has no tests and no documents beyond code comments, so the
comments are the only statement of intent. Its package `src/app/__init__.py` is
empty while most modules import names from `app`; every such name is read as
the one module that defines it.

To check everything by hand:

    tlc -config AuthSessions.cfg MCAuthSessions
    tlc -config AuthRetries.cfg MCAuthSessions
    tlc -config AuthLive.cfg MCAuthSessions
    tlc -config RateLimit.cfg RateLimit
    tlc -config Registration.cfg Registration
    tlc -config RegistrationConflict.cfg Registration    # ends with a counterexample
    tlc -config RegistrationAudit.cfg Registration       # ends with a counterexample
    tlc -config KbAssets.cfg MCKbAssets
    tlc -config KbLive.cfg KbAssets
    tlc -config KbUpload.cfg KbAssets                    # ends with a counterexample
    tlc -config Grants.cfg MCGrants
    tlc -config TenantPool.cfg TenantPool
    tlapm AuthSessionsProofs.tla
    tlapm AuthRefinementProofs.tla
    tlapm RateLimitProofs.tla
    tlapm RegistrationProofs.tla
    tlapm KbAssetsProofs.tla
    tlapm GrantsProofs.tla
    tlapm GrantsRefinementProofs.tla
    tlapm TenantPoolProofs.tla

## Inventory

| Component | State | Operations | What is hard | What makes it correct |
|---|---|---|---|---|
| Authentication sessions (`modules/authn`, `modules/security/jwt.py`) | Redis `tokenver:<user>` counter, Redis `refresh:<rid>` entries with TTL, tokens held by clients, `users.is_active` | register, login, refresh, logout, me, `get_current_user` | four awaits per handler with other requests in between; Redis commands retried after a timeout; failures between two commands | a refresh token is spent once; a session never forks; a token put out of force stays so; logout is final |
| Rate limiting (`api/middleware/rate_limit.py`) | one Redis counter per endpoint, address and window | count, expire, refuse | INCR and EXPIRE are separate; the fallback deletes the counter | at most `limit` requests per window; no counter outlives its window |
| Authorization (`modules/authz`) | roles, permissions, grants per scope | `require_perms`, start-up synchronisation | decision before use; two queries; concurrent instances that lock each other's rows | nobody enters but by a grant of somebody inside; synchronising instances neither collide nor wait in a circle |
| Grant administration (`modules/admin`) | `user_role_grants` | grant, revoke, list | check then insert; transaction begun twice on one session | the answers account for the table |
| Knowledge base (`modules/kb`, `workers`) | `kb_assets`, `kb_index_jobs` | create, mark uploaded, delete, ingest | status read before and used after a transaction; duplicate tasks; worker crashes | deleted assets stay deleted; every job ends |
| Audit trail (`modules/audit`) | per-request buffer in a context variable, `audit_events` | record, flush | the flush runs after the response; errors bypass it | every refused or failed request leaves a row with its status and user |
| Request context and tenant (`api/middleware`) | context variables, `request.state` | set, reset | two middlewares, tasks with copied contexts | a request sees its own identity only |
| Database sessions (`infra/db`) | connection pool, session-level `app.tenant_id` | acquire, set tenant, commit, release | the setting stays on the connection, the request does not | a failed set-up leaves no tenant behind; nobody waits for a connection for ever |
| Error handling (`api/exception_handlers.py`) | none | map exceptions to answers | which handler runs inside of the middlewares, and what it leaves to flush | the trail tells what was answered |
| Start-up and health (`main.py`, `startup_checks.py`, `health.py`) | application state | lifespan, ready, live | order and partial failure of several instances | who serves after a synchronisation serves on complete tables |
| Configuration, logging, redaction, HTTP headers, OpenAPI, clients, blob storage, table definitions, migrations | none that interacts | pure functions or pure input and output | | |

How they interact: a request passes the tenant and context middlewares, then its
dependencies in order (rate limit in Redis, a database session, the bearer
check in Redis and PostgreSQL, permissions in PostgreSQL), then its handler.
Events recorded on the way are buffered and written after the response. The
worker shares the database and Redis with the API and nothing else. Shared
state is therefore exactly Redis and PostgreSQL, and the unit of interleaving
is one remote call.

## Modules

| Module | Role |
|---|---|
| `SingleSession` | abstract: what token versions and one-time refresh tokens promise together |
| `AuthSessions` | the handlers of `modules/authn`, one action per remote call |
| `MCAuthSessions` | instances for TLC: symmetry, a bound on failures, and requests that arrive in order for the liveness run |
| `AuthSessionsProofs` | the inductive invariant and the safety theorems |
| `AuthRefinementProofs` | `AuthSessions` implements `SingleSession` |
| `RateLimit` | `rate_limit_ip`: one endpoint, one address, many windows |
| `RateLimitProofs` | its inductive invariant and safety theorems |
| `Registration` | `register` as a transaction on a unique address, with its audit events up to the flush |
| `RegistrationProofs` | its inductive invariant and safety theorems |
| `KbAssets` | assets, uploads, deletions and ingestion tasks on one database |
| `MCKbAssets` | its instance for TLC: symmetry |
| `KbAssetsProofs` | its inductive invariant and safety theorems |
| `Startup` | the start of several instances: checks and `sync_authz` |
| `GrantTable` | abstract: what granting and revoking promise, one step per request |
| `Grants` | extends `Startup`: `require_perms` and the handlers of `modules/admin` on the same tables |
| `MCGrants` | its instance for TLC: roles, links, requested rows, symmetry |
| `GrantsProofs` | the inductive invariant and the safety theorems of both |
| `GrantsRefinementProofs` | `Grants` implements `GrantTable` |
| `TenantPool` | requests, exception handlers and audit flushes on one pool of connections |
| `TenantPoolProofs` | its inductive invariant and safety theorems |

`Grants` composes the two components that write the authorization tables. The
other models share no state that a property depends on: rate limits use Redis
keys of their own, sessions refer to accounts only by `users.is_active`, which
starts true when `register` creates the row, and `TenantPool` looks at
connections where the others look at what is in the tables. `Registration`
follows the content of the audit trail through crashes, for one handler;
`TenantPool` follows which answers leave rows, for every handler.

### AuthSessions

| Variable | Code |
|---|---|
| `tokenver[u]` | the Redis counter of `service.py:84-96`; a missing key is 0 |
| `refresh[x]` | the Redis value `user|version|hash` under the rid that request `x` minted, or `NoEntry` |
| `active[u]` | `users.is_active` |
| `req[r]` | the local variables of one handler invocation, with its program counter `pc` |

A handler invocation is used once, and it mints at most one refresh pair, so the
rid and the access token it hands out are named after it. `Delivered` is the set
of invocations that answered with tokens: what clients can present.

| Action | Code | Next `pc` |
|---|---|---|
| `LoginStart` | address and password checked, `routes.py:106-112` | `bump` |
| `LoginBump` | INCR, access token, new pair, `routes.py:114-126` | `store` |
| `Store` | SET with TTL, answer, `routes.py:127-142` and `201-216` | `ok` |
| `RefreshStart` | body parsed, `routes.py:156-160` | `consume` |
| `RefreshConsume` | the Lua script, `service.py:119-156` | `check_ver` or `denied` |
| `RefreshCheckVer` | `routes.py:170-178` | `check_user` or `denied` |
| `RefreshCheckUser` | user row read, new pair, `routes.py:180-200` | `store` or `denied` |
| `LogoutStart`, `MeStart` | access token decoded, `deps.py:26-41` | `auth_ver` |
| `AuthVer`, `AuthUser` | `deps.py:43-64` | `auth_user`; `revoke` or `ok` |
| `Revoke` | DEL, all errors swallowed, `routes.py:227-231` | `close` |
| `LogoutBump` | INCR, answer, `routes.py:233-235` | `ok` |
| `Reject` | every refusal before the first remote call that matters | `denied` |
| `Fail` | Redis or database error, crash, client gone | `failed` |
| `Expire` | the TTL of a refresh key | |
| `SetActive` | an operator; no code writes the column | |

The Redis client is built with `retry_on_timeout=True` (`main.py:39-47`). Each of
INCR, SET and the script therefore has a second outcome, `TimedOut`: the command
took effect, its answer was lost, and it is sent again at most `MaxRetries`
times. A timed-out command that did not take effect is the same as one not sent.
GET and DEL are idempotent and need no such branch. `since` (the version in force
when a request arrived) and `closed` (the version a logout wrote) are history:
no action reads them.

Definitions named `..._Keep`,
`..._NoNil`, `..._ReadOnly` and the like, each under a comment that starts with
"Mutant", are plausible mistakes kept beside the definition they alter. No
specification uses them; replacing a definition by its mutant must break the
property `PROJECT.json` pairs it with.

### RateLimit

| Variable | Code |
|---|---|
| `window` | `now // window_seconds`, the clock as the key uses it |
| `count[b]`, `ttl[b]` | the Redis counter of window `b` (0: no key) and whether it has a TTL |
| `life[b]` | history: how often that key disappeared |
| `req[r]` | the local variables of one call of `rate_limit_ip` |

| Action | Code |
|---|---|
| `Arrive` | the key is computed, `rate_limit.py:46-48` |
| `Incr` | INCR, its answer or the loss of it, lines 50-57 |
| `Expire` | EXPIRE by the call that read 1; an error leads to the DEL, lines 55-61 |
| `Delete` | the fallback DEL, lines 61-65; its own error ends the call |
| `Fail` | a command fails without effect, a crash, a client gone |
| `Tick`, `ExpireKey` | the next window begins; Redis removes a key whose TTL ran out |

Every command may time out after it took effect and be sent again, as above. The
verdict (lines 67-78) belongs to the step that ends the call.

### Registration

| Variable | Code |
|---|---|
| `users[e]` | the committed row of an address, named after the request that made it |
| `claim[e]` | the open transaction that has inserted the address |
| `req[r]` | one register call: step, address, buffered audit events, answer |
| `audit` | rows of `audit_events` |

| Action | Code |
|---|---|
| `Start`, `Select` | transaction, existence check, `email_taken`, `routes.py:62-72` |
| `Insert` | `db.flush`: waits for an open INSERT of the address, then inserts or raises, line 76 |
| `Refresh`, `Commit` | lines 77-84; COMMIT may take effect and its answer be lost |
| `Rollback` | leaving the `with` block by an exception: `AppError` is answered inside the middlewares, everything else outside of them and without an audit flush |
| `Answer`, `Flush` | the answer, then `flush_audit` in a transaction of its own |
| `Fail`, `Die`, `Reap` | a statement fails; the process dies; PostgreSQL aborts what it left open |

PostgreSQL is modelled at READ COMMITTED, the default that nothing in
`infra/db` changes: the SELECT sees committed rows only.

### KbAssets

| Variable | Code |
|---|---|
| `status[a]`, `stored[a]` | `kb_assets.status`; whether `storage_key` and `sha256` are set |
| `job[c]` | `kb_index_jobs.status` of the job that task `c` inserted |
| `call[c]` | one `mark_uploaded`, `soft_delete_asset` or Celery task, with the status its last select read |

| Action | Code |
|---|---|
| `Create` | `create_asset`, `service.py:43-46` |
| `UploadSelect`, `Upload` | `service.py:58-60` and `61-67` |
| `DeleteSelect`, `Delete` | `service.py:72-74` and `75-77` |
| `IngestSelect`, `IngestBegin` | `pipeline.py:44-48` and `51-54` |
| `IngestReload`, `IngestFinish` | `pipeline.py:57-61` and `62-70` |
| `IngestRecover`, `IngestRecord` | the `except` clause, `pipeline.py:72-73` and `74-83` |
| `Refuse` | `db.begin()` raises |
| `Fail`, `Die` | a statement fails; a process dies |

An update and its COMMIT are one step: until the COMMIT the row is locked and its
old value is what others read. SQLAlchemy updates only columns whose new value
differs from the one it loaded, so a task that loaded `ready` and sets `ready`
does not overwrite what was written in between (`SetStatus`).

Each of these operations selects first and enters `async with db.begin()` after
that. The select has begun the session's transaction, and the pinned SQLAlchemy
2.0.45 then refuses `begin()` with `InvalidRequestError`: as the repository
stands, no operation but `create_asset` ever writes. `strictBegin = TRUE` models
this. `strictBegin = FALSE` models the same code with a `begin()` that joins the
open transaction, which is what it is written for and what it will do as soon as
the select moves into the block. `Init` chooses, and no step changes it, so that
every run and every theorem covers both. `Grants` follows the same rule:
`grant_role` and `revoke_role` select before `begin()` (`admin/routes.py:123`, `188`).

### Startup

| Variable | Code |
|---|---|
| `seeded` | whether `roles` and `permissions` hold the rows of `seed.py` |
| `links` | `role_permissions` |
| `inst[i]` | one process: step, rows its transaction has locked, rows it found missing |

| Action | Code |
|---|---|
| `Checked` | `run_startup_checks` passed; `auto_sync_authz` is on or off, `main.py:52-54` |
| `Upsert` | the next INSERT ... ON CONFLICT DO UPDATE, `seed_sync.py:14-34`: waits while another transaction has the row |
| `Compare` | the selects and the rows to add, lines 36-54; one step at the last select, because the rows of the first two are locked |
| `CommitSync` | flush and COMMIT at the end of `db.begin()`; its answer may be lost |
| `FailStart`, `Stop` | a check, a statement or the process fails; the end of a process |

A process that is started again is another instance, so an instance goes through
its life once. Roles and permissions are one sequence of `NumRows` rows in the
order of `seed.py`. They are only ever added, and their ids do not change.

### Grants

| Variable | Code |
|---|---|
| `grants` | `user_role_grants`: the unique key makes a row a triple of user, role, scope |
| `req[r]` | one call of an endpoint: step, actor, the row it names, `role_ids`, the answer |
| `strictBegin` | see above |
| `initial` | history: the table at the beginning |

| Action | Code |
|---|---|
| `Start` | `get_current_user` passed; a superadmin skips the queries, `authz/service.py:19-23` |
| `QueryRoles`, `QueryPerms` | the two selects of `require_perms`, lines 27-44 and 46-67 |
| `GrantLookup`, `GrantExists` | `admin/routes.py:45-79` and `81-103` |
| `Insert` | lines 105-141: ON CONFLICT DO NOTHING, COMMIT, `rowcount` |
| `RevokeLookup`, `Delete` | lines 167-180 and 182-206 |
| `List` | lines 209-257 |
| `Refuse`, `Fail` | `begin()` raises; a statement or the process fails |

A write and its COMMIT are one step: ON CONFLICT DO NOTHING and DELETE wait for
the transaction that has the row, and other selects do not see it. The selects
of the role and of the user are one step because neither is ever removed: what
the first finds is still there at the second. The actor of a request is
`get_current_user`'s, which `AuthSessions` models.

### TenantPool

| Variable | Code |
|---|---|
| `limit`, `size` | `db_pool_size + db_max_overflow` and `db_pool_size`, chosen by `Init` |
| `idle` | the queue of the pool, first in first out |
| `tenant[c]` | `app.tenant_id` of a connection; `Fresh` on a new one, `Closed` when there is none |
| `latest` | history: the tenant that `get_db` committed last |
| `req[r]` | tenant, `user_id`, connections held by the request and by its flush, buffered events, answer |
| `audit[r]` | rows of `audit_events` that the request left |

| Action | Code |
|---|---|
| `Arrive` | the two middlewares up to `call_next`, `tenant.py:64-69`, `request_context.py:44-57` |
| `Open`, `SetTenant` | `get_db` up to its `yield`, `deps.py:12-29`; `Open` is also the statement of `readyz` |
| `Statement`, `Authenticate`, `EndTransaction` | the handler's transactions, each on a connection of the pool |
| `Succeed`, `Exit` | the answer with its flush, `request_context.py:60-77`; the `finally` of `get_db` |
| `Probed`, `Unprobed` | `readyz`, `health.py:20-48`, whose statement got a connection or none |
| `AppErrorHandler`, `ValidationErrorHandler`, `HttpExceptionHandler`, `UnhandledErrorHandler` | `exception_handlers.py` |
| `FlushOpen`, `FlushWrite`, `FlushNothing`, `FlushFail` | `audit/middleware.py:27-66` |

`Arrive` decides whether the route uses `get_db` (`open`), is `readyz`, or needs no
connection (`route`), and `SetTenant` how many transactions the handler will begin
(`left`). A request that needs a connection can only wait for it, or fail.

`Take`, `Return` and `Discard` are SQLAlchemy's pool: pre-ping and recycling may
replace a connection as it is taken, a connection beyond `size` is closed when it
comes back, and a lost one is discarded. The pinned FastAPI 0.128 leaves `get_db`
after the answer when the handler returns, so that the flush and the `finally` run
side by side, and before the exception handler when it raises. Unhandled errors
are answered outside of the middlewares; they leave no flush, which is the
finding of `registration_audit`.

Nothing in the repository reads `app.tenant_id`, and no migration defines a
row-level policy, so no comment says under which tenant a statement should run.
What can be said is in the two invariants on tenants. With more than one idle
connection even a request that is alone runs its statements under the tenant of
an older request: the queue hands out the connection that has been idle longest,
not the one `get_db` has just set. `audit_events.workspace_id` (`audit/models.py:28`)
is never written.

### Properties

* `SingleChain`: of everything stored in Redis and everything a handler carries
  between spending a pair and storing its successor, one item belongs to a given
  login (a handler that is still storing its own pair counts once with it).
* `NoReplay`: no two refresh requests spend the same rid.
* `StaleNeverAccepted`: a request past its version check bears a version at least
  as new as the one in force on its arrival. It may be older than the one in
  force now: the check is not repeated, and the model lets a login or logout
  overtake a request at any later step.
* `LogoutEndsSession`: nothing carries the version a logout wrote, so nothing of
  the user is in force until the next login.
* `ImplementsSingleSession`: under the mapping `Credential`, every step is a step
  of `SingleSession` or leaves it unchanged: a credential that is gone returns
  only with a new epoch.
* `EveryRequestAnswered`, `ClosedSessionsVanish`: see "Runs and bounds".
* `LimitPerLife`, `LimitPerWindow` (`RateLimit`): no life of a counter admits more
  than the limit; and a window admits no more unless one of its EXPIREs failed,
  which is the only way to a second life inside the window.
* `NoEarlyRefusal`: who is refused follows more than `Limit` INCRs of its own window,
  those of other calls and those sent again; an older window leaves nothing behind.
* `CounterHasTTL`, `CountersVanish`: a counter without TTL has a call on its way
  to repair it, unless a call was lost between INCR and EXPIRE or had its INCR
  resent. In those two cases the counter stays in Redis for ever; no later
  window reads it.
* `AnswersAreTrue` (`Registration`): 201 and 409 remain true whatever else runs,
  fails or dies. `AuditIsTrue` says the same of the rows of the audit trail.
* `OutcomeIsAudited`: an undisturbed answer leaves exactly its events.
* `StatusIsBacked` (`KbAssets`): a processing asset has a running job, a ready one a
  job that is done, a failed one a failed job, although tasks, uploads and
  deletions overwrite each other's statuses.
* `DeletionIsFinal`: a deletion that no other call on the asset overlapped is never
  undone. An overlapping upload or task does bring the asset back: it writes what
  it decided on an earlier select.
* `JobsEnd`, `ProcessingEnds`: without failures jobs end, except the job of a task
  that found its asset deleted (`pipeline.py:60-61`), which stays running; and no
  asset stays processing. A worker that dies leaves both as they are: nothing in
  the repository looks for them.
* `EveryRegistrationEnds`: no registration waits for ever on another's INSERT.
* `SyncNeverCollides` (`Startup`): the plain INSERT into `role_permissions` never meets
  a row that another instance inserted since the comparison. It is not protected
  by ON CONFLICT; what protects it are the upserts, whose row locks make the rest of
  the transaction exclusive.
* `ServesSeeded`: who serves after a synchronisation serves on complete tables.
* `StartsEnd`: instances that wait for each other's rows come to an end, because all
  of them lock in the order of `seed.py`.
* `EffectsAddUp` (`Grants`): for each row, the grants and revocations that were not
  answered as idempotent, and those whose answer was lost, add up to the table,
  however requests overlap and whatever their selects had found.
* `ImplementsGrantTable`: every grant and revocation takes effect in one step, at most
  once, and `idempotent` is true of that very step. `EffectsAddUp` counts only the
  effective ones; this says in addition that a call answered as idempotent met its
  row as it wished it, that a refused one left the table alone, and that after an
  error the wish came true at that step or never does.
* `NobodyLetsThemselvesIn`: a user without a global role gets in only by the grant of
  another user who is inside. A request that passed its check goes on after a
  revocation, and a role may be revoked between the two queries, so `Inside`
  counts those requests; once they are gone, a revocation is final.
* `TenantsAreServed` (`TenantPool`): a connection carries only tenants of requests that
  `get_db` let through; a `set_config` that failed leaves nothing.
* `OneConnectionCarriesLatest`: with one connection a statement runs under the tenant
  of whoever came through `get_db` last, or under none.
* `ConnectionsAreKept`: every open connection is counted once, in the queue of the
  pool, with a request or with a flush, and a closed one nowhere: no way out of a
  request keeps its connection or gives it back twice.
* `ErrorsLeaveRows`: an error that was answered leaves a row with its status and the
  user, unless the flush failed or the error was unhandled. The flush itself does
  not know the user (its context is not the handler's), so that this rests on the
  exception handlers recording an event of their own. `ClassifiersAgree` (proved)
  says that the handlers of AppErrors and HTTP exceptions class a status as
  `_classify` does; the handler of validation errors does not: it records 422 as
  `deny`, which `_classify` calls `error`.
* `RequestsEnd`: requests and their flushes never wait for each other's connections
  for ever, even on a pool of one and without its timeout. It rests on `get_db`'s COMMIT,
  which returns its connection before the handler asks for one (`SetTenant_Hold` keeps
  it), and on the flush not delaying `get_db`'s `finally`.

Things the model shows that a reader may not expect, and that no comment of the
code contradicts: two logins at once both answer 200, but the one whose INCR came
first gets tokens that are already void; a refresh whose script's answer is lost
tells the client that its token is invalid and leaves it without one; a refresh
that a logout overtakes still stores a pair, which is never accepted.

## Runs and bounds

| Run | Instance | Shows |
|---|---|---|
| `auth_sessions` | 2 users, 4 requests, no resend, at most one failed request, accounts enabled | the safety properties and the refinement |
| `auth_retries` | 1 user, 3 requests, one resend per command, any failures, accounts switched at any time | the refinement, that is, repeated commands break nothing |
| `auth_live` | 1 user, 3 requests, one resend per command, any failures, accounts switched at any time | the liveness properties |
| `rate_limit` | 3 requests, limit 1, one resend per command, 2 windows | safety and the removal of counters |
| `registration` | 3 requests, 2 addresses, any failures and deaths | safety and termination |
| `registration_conflict` | 2 requests, 1 address | two at once: the loser is told 500, not the 409 of `error_codes.py:86-87` |
| `registration_audit` | 2 requests, 1 address | that 500 leaves no audit row, against `audit/middleware.py:34` |
| `kb_assets` | 4 calls on 1 asset, `begin()` joins or is refused | safety |
| `kb_live` | 3 calls on 1 asset, `begin()` joins or is refused | liveness |
| `kb_upload` | 1 call on 1 asset, `begin()` joins or is refused | refused, an upload is not recorded, against `kb/models.py:36` |
| `access` | 2 instances with 2 rows to upsert; 2 requests of a superadmin and a user on 1 role in 2 scopes | safety, the refinement and termination of starts |
| `tenant_pool` | 2 requests with 2 transactions each, 1 workspace or none, pools of up to 2 connections, status 401 | safety and termination |

Four requests are a login, two refreshes racing for its pair, and a login or
logout overtaking them, or two logins with a refresh each; three are enough for
a login and a pair of racing or repeating requests. With `MaxRetries` 0 a lost
answer ends the request after its command took effect; 1 adds the second
execution, and a third is like the second. `FewFailures` and `CalmAccounts`
(`MCAuthSessions`) bound the first run; the other two do without them. Requests
and users are interchangeable, so the safety runs use symmetry, which liveness must
not; in `auth_live` the requests are numbered instead and arrive in that order
(`InOrder`), because whoever arrives first may as well be called 1. With limit 1 three calls fill a window, exceed it and restart it after
a DEL; two windows let a delayed call count on the key of a window that is over.
Three registrations of one address are a winner, a loser that already passed the
existence check, and one that arrives later or takes over after a crash; the
second address shows that they do not wait for each other. Calls on different assets do not meet, so one asset is enough; four calls are an
upload, two tasks and a deletion or a third task. The instance with five calls
(5.8 million states) passes too. Two instances and two rows are the smallest that could
wait in a circle. Two requests on a row are a check that a revocation overtakes, two
grants at once, or a grant against a revocation; the second scope shows that a role
held elsewhere opens nothing. In `tenant_pool` one request sets a tenant that the
other one meets, on a pool where they wait for each other and on one where they
need not; a handler with two transactions may change its connection in between.
The status of an AppError is a parameter of the proofs, one value is enough for
the run. The runs that end
with a counterexample state what a comment of the code says; none of the
counterexamples needs a failure.

Deadlock is not checked: when every request is answered nothing is
left to do.

Fairness (`Fairness`): weak fairness of each handler, because the event loop
resumes a task whose await is done and every remote call either answers or times
out, and weak fairness of `Expire`, because every refresh key is set with a TTL.
`RateLimit` assumes the same of handlers and of keys that have a TTL, and that time
goes on (`Tick`). `Registration` assumes it of handlers and of `Reap`: PostgreSQL
notices a lost connection and aborts its transaction. `KbAssets` assumes it of
handlers only: every statement is answered. `Grants` assumes it of instances that
are starting: a row that stays free is locked. `TenantPool` assumes it of handlers and
flushes: a task that waits for a connection gets one when one stays free. What a
request needs is settled before it waits (`Arrive`, `SetTenant`), so that a waiting one
has no other step that fairness could ask for; that its wait times out is not assumed.
Nothing is assumed of clients, operators or failures. `EveryRequestAnswered` then
says that resending is bounded and that no handler waits for another.
`ClosedSessionsVanish` says that pairs of a closed session disappear for good
although a refresh in flight may store one after the logout.

## Proofs

`AuthSessionsProofs` proves, for any sets of users and requests and any
`MaxRetries`, that `TypeOK`, `SingleChain`, `NoReplay`, `StaleNeverAccepted` and
`LogoutEndsSession` are invariants of `Spec`. The only assumption is
`AuthAssumption`: `NoUser` and `NoRid` are not values of the sets they extend,
and `MaxRetries` is a natural number.

None of the four is inductive. `IInv` strengthens them in three layers, each
preserved given the ones before:

1. `Inv1`: `TypeOK` and `Shape`, which program counter belongs to which kind of
   request, and that an idle request is blank.
2. `Inv2`: `Versions` (no version exceeds its counter), `EntriesOfMinter` (a
   stored pair has the user and version of the request that minted it, which has
   reached its SET) and `Presented` (a refresh works on a delivered pair of its
   own user, which is gone once it was spent).
3. `Inv3`: the four properties. A bump produces a version that by `Versions`
   nothing carries. Spending a pair cannot meet a second carrier: by `SingleChain`
   that carrier would be the pair's minter, still storing, but a presented pair
   was delivered. `Presented` gives `NoReplay`, and `Versions` with `since` gives
   `StaleNeverAccepted`.

`GotoMoves` to `MovingSteps` say once, field by field, what each action does to
the requests; the step lemmas of layers 2 and 3 use these and look into no record.

`AuthRefinementProofs` proves `Spec => ImplementsSingleSession` from `IInv`. Within
an epoch `SingleSession` allows every change of a credential but one, the return
of what is gone; so a step that keeps the versions must create no carrier of a
session that has none (`SameEpoch`), and a bump must find nothing stored under the
version it writes (`NextEpoch`), which is `Versions` with `EntriesOfMinter`.

`RateLimitProofs` proves, for any set of requests, limit, retry bound and number of
windows, `TypeOK`, `LimitPerLife`, `LimitPerWindow`, `NoEarlyRefusal` and
`CounterHasTTL`. The first two limits count, and counting is done by the answers of INCR: within a life of a key no two
calls read the same number (`Numbers`), an admitted call read one of `1..Limit`
(`Shape`), so the admitted calls inject into `1..Limit`. A call that reads nothing
and counts again only leaves gaps. `Restarts` adds that a key restarted in its own
window implies a failed EXPIRE, hence `LimitPerWindow`. `CounterHasTTL` is inductive
with the other parts. `NoEarlyRefusal` counts in the other direction: `Executed` says
that a counter, and what a call has read of it, is at most the number of INCRs
executed for its window, each of them named by its call and its turn (`Hits`), so
that an INCR adds one element and a DEL or an expiry only widens the gap. The only
assumption is `RateAssumption` (all parameters are natural numbers). There is none on
the set of requests: the injection bounds the admitted calls, and `Executed` carries
that the INCRs are finitely many.

`RegistrationProofs` proves `TypeOK`, `AnswersAreTrue`, `AuditIsTrue` and
`OutcomeIsAudited` for any sets
of requests and addresses, assuming only that `NoOne` is in neither
(`RegistrationAssumption`). `TypeOK` carries that an open INSERT
excludes an account, so that COMMIT never replaces one (`AccountsStay`). `Claim(r)`
collects what one request may say: an account found belongs to somebody who
committed (`Owner`), a conflict met somebody else's account (`Conflict`), success
means the account is its own (`Success`), and rows and answers repeat only that
(`Report`). A step of one request cannot disturb the claims of another. `Trail(r)` strengthens
`OutcomeIsAudited`: as long as its calls succeed, what the buffer holds follows from the
step and from whether the address was found taken, no row is written before the last
step, and then exactly the buffer is. `Holders` adds that whoever has inserted an address
is past its INSERT: `InsertsWaitForRunners` follows, the safety part of
`EveryRegistrationEnds`. An INSERT waits only for a request that waits for nobody, or
whose transaction the server aborts.

`KbAssetsProofs` proves `TypeOK`, `StatusIsBacked` and `DeletionIsFinal`
for any sets of assets and calls and both values of
`strictBegin`, assuming only that `NoAsset` is no asset (`KbAssumption`). `StatusIsBacked` is not inductive: the job that backs
a status may end without a change of the status when its task loaded the value it
writes. `Backed` asks for a better witness, one whose next write changes the
status: a running task about to write has loaded `processing`, and one that is
done and about to record a failure has loaded `ready`. Whoever writes a status is
such a witness, and whoever leaves it alone is not the only one.
`Tended` says of jobs what `Backed` says of statuses: the task of a running job is at a
step that goes on by itself, or was hurt, or found its asset deleted after its first
COMMIT and left the job running (`pipeline.py:61`). It rests on `Exist`, that no call
works on an absent asset. With a witness in `Backed` that did not leave its job that
way, `JobsHaveTasks` and `ProcessingHasTasks` follow, the safety parts of `JobsEnd` and
`ProcessingEnds`: what these leave to fairness is that a step which can be taken is.

`GrantsProofs` proves, for any sets of instances, requests, users, roles and scopes and
any content of the seed, `TypeOK`, `SyncNeverCollides`, `ServesSeeded`, `EffectsAddUp`
and the action property `NobodyLetsThemselvesIn`. It assumes
`StartupAssumption` (at least one row is upserted, and the defaults are links) and
`GrantsAssumption` (what is a user, a role, a scope; finitely many requests, because
`EffectsAddUp` counts them). `Locks` carries the first two: the rows locked by two
transactions are disjoint, and who compares has locked all of them, so nobody else is
between comparison and COMMIT, and what was missing still is. `Intents` says that a
request about to write names what exists. `EffectsAddUp` is then preserved because a
step that changes the table adds its own request to one of the two counts, and any
other step adds to neither. `StartsNeverBlock` is the part of `StartsEnd` within the
prover's reach: while instances start, the guard of a step of one of them holds. Every
instance locks a prefix of the rows (`InOrder`), so that by `Locks` at most one has
locked any; that one can go on, and if there is none everybody can (`FirstGoesOn`). For `NobodyLetsThemselvesIn` only `Insert` can make a user
an insider, and a user who inserts is one already.

`GrantsRefinementProofs` proves `Spec => ImplementsGrantTable` from that invariant. A
request acts on the table with its COMMIT, or with the select that made a COMMIT
needless: `Moves` requires that a call which ends well without writing meets what it
wishes at that step (`Met`), `Writes` that the answer tells whether the table
changed. All other steps leave table, wishes and answers alone (`MapAlone`), or open
or refuse a request. `list_grants` is no client of the table, so its steps stutter.

`TenantPoolProofs` proves `TypeOK`, `TenantsAreServed`, `OneConnectionCarriesLatest`,
`ConnectionsAreKept` and `ErrorsLeaveRows` for any pool, any requests and any statuses of AppErrors in
400..599 (`PoolAssumption`: a pool has a connection, and `Fresh` and `Closed` are no
tenants). `Told` strengthens the last one: between answer and flush the buffer holds one event
that has the status and the user of the request. `Pools` says what a step may put on
connections, once for all actions. `Kept` says where the connections are without
counting: the queue repeats none, an open connection is queued or held, a held one is
open, not queued, and held in one place. Every action does one of five things
to them (`Swaps`): nothing, a request or its flush takes one, or gives one back;
`SwapKeeps` shows once that `Kept` survives, and `KeptCounts` that it implies
`ConnectionsAreKept`. The same invariant gives `PoolGoesOn`, the part of `RequestsEnd` within
the prover's reach: when the pool is exhausted, whoever holds a connection is at a
step that needs no other, so requests never all wait for each other.

Only model-checked: the liveness properties (liveness under fairness is beyond the
prover; `StartsNeverBlock`, `PoolGoesOn`, `InsertsWaitForRunners`, `JobsHaveTasks` and
`ProcessingHasTasks` are the safety parts of `StartsEnd`, `RequestsEnd`,
`EveryRegistrationEnds`, `JobsEnd` and `ProcessingEnds`) and the three refuted statements.

## Assumptions and what is left out

* Redis keeps its data. If `tokenver:<user>` is lost, versions start again at 1
  and old access tokens may match: every property of sessions presupposes the
  counter, so nothing could be said of them without it.
* A timed-out command takes effect before it is sent again or never.
* uuid4 does not collide, signatures and hashes cannot be forged. A client may
  present any delivered token with a right or a wrong secret.
* The lifetime of access tokens only removes behaviour (`Reject`).
* All API processes share one clock, and a key expires no earlier than the window
  it counts for ends: its TTL is the length of the window and is set after the
  window began.
* `window_seconds` is positive. The setting is not validated: 0 fails when the key
  is computed (`rate_limit.py:26`), a negative value at line 57.
* A process that dies may leave its transaction open for any finite time.

## Not modelled

* The metadata document of assets (`pipeline.py:28`, `74-83`): tasks overwrite it whole, so
  one error hides another. No comment says what it must keep. `sniff` (`steps/sniff.py`)
  computes part of it from a file name.
* The event loop per task (`workers/utils.py:5-12`): pooled connections belong to the
  loop of an earlier task. What SQLAlchemy and asyncpg do then is theirs; the
  effect, a statement that fails, is `Fail` in `KbAssets`.
* A Redis that loses keys, see above.
* The content of audit events: `_std_meta`, `redact_obj` and `_to_obj` are pure functions on
  text and nested objects, and no state depends on them. `hook.py`'s fallback to doing
  nothing when the import of the audit modules fails is a matter of packaging.
* The text side of requests: parsing of tokens, scope keys, workspace ids and request
  ids. The models choose among the outcomes of parsing. `parse_scope_key` has no caller.
* Argon2 (`security/password.py`), blob storage, Elasticsearch and Qdrant clients: input and
  output, or constructors, without state of their own.
* Settings, logging, OpenAPI, CORS, security headers and response envelopes: no state that a
  request changes. Settings that matter are constants or initial choices: the
  limit of requests, the size of the pool, `auto_sync_authz`.
* `identities`, workspaces and resources: tables without code that uses them. Migrations:
  generated.
