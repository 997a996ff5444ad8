# A verification of the FastAPI task-management backend

The repository is a multi-user backend (FastAPI, SQLAlchemy on PostgreSQL, Redis, Celery,
websockets). This directory holds TLA+ modules translated from its source, TLC
configurations that check them on small instances, and theorems about them that TLAPS checks
for every value of the constants. `PROJECT.json` maps each definition to the lines it models
and lists the runs, the mutated definitions each property was seen to refute, the
disagreement between the code and its documentation that a run exhibits, the hazards and the
theorems.

    tlc -workers 2 -config MCRefreshTokens.cfg MCRefreshTokens     # one run
    tlapm RefreshTokensProofs.tla                                  # one proof module

## 1. The system

### 1.1 Parts, their state, their operations

| Part | State it keeps | Operations | Where |
|---|---|---|---|
| Sessions | table `refresh_tokens`: hash, owner, `is_revoked`, `used_at`, `expires_at` | login, refresh (rotation, reuse detection), the database half of logout | `services/user_service.py`, `repositories/refresh_token_repository.py` |
| Access tokens | none for the JWT (claims `sub`, `exp`, `typ`); Redis keys `token_blacklist:*` with a TTL | create, decode, blacklist, check (`get_current_user`) | `core/security.py`, `core/cache.py`, `core/dependencies.py` |
| List caches | Redis keys `projects:user:*` (pages) and `tags:all` | cache-aside read, invalidate by pattern (SCAN + DEL) or by key | `core/cache.py`, `services/project_service.py`, `services/tag_service.py` |
| Request transactions | one session per request or per websocket, from a pool | commit after the endpoint, rollback on an exception | `core/dependencies.py`, `db/session.py` |
| Realtime chat | `active_connections` (one registry per process), table `chat_messages` | connect, receive, insert, push to both parties, disconnect; list a thread | `core/websocket.py`, `api/v1/endpoints/chat.py`, `services/chat_service.py` |
| Projects and tasks | tables `projects`, `tasks`, `task_tags` | create, read, list, edit, change status, assign, attach and detach tags, delete with cascades | `services/project_service.py`, `services/task_service.py`, their repositories |
| Tags | table `tags` (unique name) | create, get, list, delete | `services/tag_service.py` |
| Accounts | table `users` (unique email, unique username, `is_active`) | register, update profile | `services/user_service.py` |
| Background mail | the broker's queue, what the children of the worker hold | welcome and assignment mails | `worker/` |
| Schema migrations | `alembic_version`, the schema | three linear revisions up and down, `start.sh` | `alembic/`, `start.sh` |
| Rate limiting | windows in the memory of each process | count, refuse | `core/rate_limit.py` |
| Wiring, deployment | none | middleware, logging, exception handlers, settings; compose file, gunicorn | `main.py`, `middleware/`, `core/`, `docker-compose.yml`, `gunicorn_conf.py` |

### 1.2 How the parts interact

- Every request takes a session from `get_db`, which commits after the endpoint has returned
  and rolls back on any exception, also on one that only means "403". Whether the response
  leaves before or after that commit depends on the FastAPI release (`requirements.txt` pins
  only a lower bound), so it is a constant, `ResponseFirst`, of the models it matters to.
- The database runs at READ COMMITTED and no query locks (`SELECT ... FOR UPDATE` is never
  used): whatever a request has read may be stale when it writes. A flushed UPDATE or DELETE
  holds its row's lock until the transaction ends, a flushed INSERT its unique keys and, for
  its foreign keys, a share of its parents.
- Redis is outside that transaction. Logout blacklists the access token *before* it revokes
  the refresh token; a write to projects or tags invalidates the cache *before* it commits.
  So is the broker: a mail is queued in the middle of the request that it tells of.
- A websocket is one request to `get_db`: its session, and so its transaction, lasts as long
  as the socket.
- Handlers of one process interleave at every `await` and nowhere else. gunicorn starts two
  processes by default; they share PostgreSQL and Redis but not the chat registry and not the
  rate limiter.

### 1.3 What is hard, and what makes each part correct

- *Sessions.* Two refreshes of one token, a refresh against a logout, a crash between
  `mark_used` and the INSERT, revocations that wait for each other's rows. Correct means: a
  rotation is atomic, a dead token yields nothing new, no client holds a token that has no
  row, every request ends.
- *Access tokens.* Two clocks of different resolution (whole seconds for the JWT,
  milliseconds for the Redis key), a wait between computing a TTL and setting it. Correct
  means: a logged-out token stays refused until it expires by itself.
- *List caches.* Invalidation before the commit, readers that fill from an old SELECT, SCAN
  under concurrent changes. Correct means: no entry from before a write outlives it, and
  stale lists go away.
- *Chat.* Every push works on a copied list of sockets while sockets come and go and other
  pushes clean up. Correct means: the registry follows the handlers, a push reaches every open
  socket that its user has in the process once and nobody else's, and messages are lost only
  for a reason.
- *Projects, tasks, tags.* What the ORM deletes is what it has loaded, what it updates is what
  differs from the load, and both are decided several awaits before the commit. Correct
  means: no task without its project and no link without its ends, only the owner changes a
  project, no update is lost, a success has had its effect.
- *Accounts.* The check for a free email and the INSERT are two awaits. Correct means: no two
  accounts ever share a value, and requests that do not overlap are never refused by an index
  nor aborted for a deadlock.
- *Mail.* Processes die while they hold messages, the broker gives one out again while a child
  is still at it, and accounts fail after their mail was queued.
  Correct means: no account is without its mail or a reason, nobody becomes an assignee
  unannounced, a second copy has a cause.
- *Migrations.* Instances start together, are killed between two statements, and meet
  operators who roll back. Correct means: the schema is always that of the stored version,
  and instances come up in the end.

`PROJECT.json`, "hazards", lists all of these at their lines.

## 2. The modules

| Module | What it is |
|---|---|
| `SessionLedger` | abstract: the token table as a ledger extended by three whole entries, Open, Rotate, Revoke |
| `RefreshTokens` | login, refresh and the database half of logout as concurrent transactions; implements `SessionLedger` |
| `AccessTokens` | creation of JWTs, `get_current_user`, the Redis half of logout, the chat handshake, the clock |
| `ListCache` | one cached namespace: readers, writers, SCAN/DEL, TTL |
| `Chat` | registry, socket handlers, pushes, the session of each socket, departing clients, dying workers |
| `Board` | projects, tasks, tags and links: every request that reads, creates or deletes one |
| `Edits` | concurrent edits, assignments and deletions of one project and one of its tasks |
| `Directory` | abstract: accounts as a partial map, injective in each column, changed one at a time |
| `Accounts` | registration and profile updates against the unique indexes; implements `Directory` |
| `Mailer` | the Celery worker between the broker and an SMTP server |
| `AccountMail` | `Accounts` and `Mailer` composed: the welcome mail |
| `Migrations` | the three revisions statement by statement, and the processes that run them |
| `MC...` | the symmetry sets and constants of the instances TLC checks |
| `...Proofs` | inductive invariants and theorems |

### 2.1 RefreshTokens

A request is a coroutine; `pc[r]` says at which await it is, and an action is what runs
between two awaits. `stored, used, revoked, owner` are the committed table; `ins, marks,
revs` are the flushed and uncommitted INSERT, `used_at` stamp and `is_revoked` stamps of each
request. `Locked` is PostgreSQL's row lock: a row with an uncommitted UPDATE makes other
UPDATEs wait, and they then apply to the new version, as at READ COMMITTED. `revoke_all_for_user`
takes its snapshot in `RevokeAll` and visits the rows one at a time, in any order, in
`RevokeRow`; `DeadlockVictim` is the database's deadlock detection. `Raise` is the whole path
of an exception: rollback, then the answer. `Fail` is a lost worker or connection at any step.
`rotations` is a history variable: which new row was committed in exchange for which old one.
Clients present tokens they were given (`delivered`) or a string that was never issued.
Tokens stand for their hashes (`hash_token` is injective on them); `device_info` and
`ip_address` are left out.

### 2.2 AccessTokens

A token is the pair of its user and its `exp`: nothing else in the payload tells two tokens
apart, so two that are issued to one user in one second are *equal*. The clock is a second
and a tick within it; `Decodes` compares whole seconds, `Alive` compares both. A request waits
for the blacklist, then for the user row; logout goes on to compute the remaining seconds, to
wait for SETEX and to revoke its row (that half is `RefreshTokens`). `RedisRestart` loses any
of the keys: the compose file gives Redis no volume, and a snapshot may be older than a key.
`late` marks requests that arrived after a logout of their token had been answered.

### 2.3 ListCache

What a list shows is abstracted to the set of writes it reflects. A writer flushes,
invalidates, and only then commits. SCAN promises what Redis documents: every key that is
there from its beginning to its end is returned at least once (`pending` is what it still
owes), other keys may be. One instance is one namespace, with `ByPattern` choosing between
the pages of a project list and the single key of the tag list. `survivors` is a history
variable: the entries that were cached when a write was made and have not gone since. A SELECT
sees what is committed (`Visible`): that is PostgreSQL's READ COMMITTED, taken as given, and
no property is about it.

### 2.4 Chat

`registered` is `active_connections` of all users and processes together, `at` the process a
socket is open in. `Insert` runs from the INSERT to the first push, `Send`/`SendFails` are one
turn each of the push loop, and `RecipientDone`/`SenderDone` remove the connections that
failed and go on. `gone` is a client that left, which a send or a receive may or may not have
noticed yet; `closed` is what Starlette knows. The two paths out of the loop differ:
`ReceiveDisconnect` goes straight to the commit, every other exception leads to `Close`, and
that raises in turn (`CloseRaises`) when the socket is already known to be closed, whereupon
the whole session is rolled back. `flushed` is the session of a socket, committed once, at its
end. Each socket identity is used once; `NoUser` among the recipients is an id that no user
has. The pushes that task assignment makes through the same registry are one step of `Edits`
and not in this model.

### 2.5 Board

A row is an id: `project_id`, `owner_id` and the name of a tag are never updated, so that they
are functions of the id (`ProjectOf`, `OwnerOf`, `NameOf`), and ids are never handed out twice
(`Fresh`, `issued`). `rows` is what is committed of the four tables. Each endpoint is an
action (`CreateProject` ... `DetachTag`) that starts a request; the requests then go through
the SELECTs they share, one action and its refusal each: `LoadTask`, `LoadProject`, `LoadTag`,
`ReloadTask` (the second SELECT of `add_tag` and `remove_tag`, which does not refresh the tags
the session loaded first: `seen`), `NameFree`. An INSERT enters its unique keys (`Insert`,
`DuplicateKey`, `KeyHolders`) and then locks its parents one by one (`ShareKey`, `NoParent`).
A deletion starts from what the ORM has loaded (`Loaded`, `LoadLinks`) and issues one DELETE
at a time, children first; each waits for the holders of the row and cascades to the children
committed by then (`DeleteRow`, `Cascade`). `Commit` applies `ins` and `del`. Every
write-write wait can end in a cycle, which `DeadlockVictim` breaks. `overtaken` is history:
another request has committed a change of the same row meanwhile.

### 2.6 Edits

One project, one task, and the requests that write their fields. `loaded` is the row as the
session loaded it, `ask` the body (`exclude_unset`: a field is `Unset`, `Null` or a value).
`Changes` is what SQLAlchemy will write: the asked fields whose value differs from the loaded
one. `Update` waits for the row lock and finds the newest version; `UpdateFails` is the
`StaleDataError` on a row that is gone and the refused `NULL`. `assign` goes through
`LookUpUser`, which queues the mail, and `Push`, which awaits the sockets, before it writes.
`Commit` overlays the changed fields on the row.

### 2.7 Directory and Accounts

A request asks, one SELECT per value, whether the value is taken (`CheckPasses`,
`AlreadyExists`), then writes. The row enters the two indexes in the order they were created
(`EnterIndex`), waits for an uncommitted row with its value and for an uncommitted UPDATE of
a committed one (`IndexHolders`), and fails on a committed duplicate (`UniqueViolated`). An
update to `null` passes the checks and meets the NOT NULL column (`NotNullViolated`).
`Welcome` queues the mail between the INSERT and the commit. `Cycle` is a set of requests that
wait for each other; PostgreSQL aborts a member (`DeadlockVictim`).

### 2.8 Mailer and AccountMail

A message is the broker's until the task has returned (`task_acks_late`), so a child that dies
gives it back (`ChildLost`, `task_reject_on_worker_lost`). When the whole worker is killed the
broker hands the messages out again if it restores what was not acknowledged; that is the
constant `Restores`, as the broker differs between the settings (Redis) and the compose file
(a SQL database). Such a broker also gives a message out again while its child is still at
work (`Lapse`: a lost connection, the visibility timeout of Redis); then two children may hold
one mail, the first one's acknowledgement counts for nothing, and only the second holds what
the broker still has (`Held`). `_smtp_send` swallows every exception (`SmtpError`), so that
the `self.retry` of the task is unreachable and not in the model. `AccountMail` extends
`Accounts` with an instance of `Mailer`: in its `SystemSpec`, `Delay` is a step of both parts,
every other step is a step of one. The assignment mail takes the same way; its queueing is in
`Edits`.

### 2.9 Migrations

`Up` and `Down` are the statements of the revisions in their order, by the object each creates
or drops. `Read` is the SELECT of the version, `VersionsExist` and `CreateVersions` look for and
create `alembic_version`, `Execute` runs one statement if its object may be created or dropped
in the transaction's view (`Needs`: the table of an index, the tables a foreign key refers to,
the enum types of a column) and no other process holds a lock on it, `Stamp` moves the row of
the version and refuses to match no row, `Refuse` is the statement that fails, and `Commit`
ends the one transaction around the whole run. An instance of the application (`start.sh`,
`set -e`) serves only after its upgrade has succeeded; an operator downgrades to the base or
by one.

## 3. What the runs check

| Run | Instance | Shows |
|---|---|---|
| `refresh_tokens` | 2 users, 3 tokens, 2 requests, commit first; 467k states | `TypeOK`, `RotationAtomic`, `DeliveredDurable`, `DeadTokensWindDown`, `LedgerSpec` (refinement) |
| `refresh_tokens_live` | 1 user, 2 tokens, 2 requests, response first, fair; 22k states | `Answered`: requests end despite lock waits |
| `refresh_reuse` | 1 user, 2 tokens, 1 request; violated: `ReuseRevokesAll` | reuse is detected, but the exception that reports it rolls the revocation back |
| `access_tokens` | 1 user, 2 requests, tokens of 2 s, 2 ticks a second, clock to 3 s; 635k states | `TypeOK`, `BlacklistHoldsToExp`, `LateAcceptOnlyInLastSecond` |
| `list_cache` | 3 pages, batches of 2, 2 writers, 2 readers, commit first; 171k states | `TypeOK`, `NoSurvivors` |
| `list_cache_live` | the single key, 2 writers, 2 readers, response first, fair; 1.6k states | `EventuallyFresh` |
| `chat` | 3 users, 2 sockets, 2 processes, 3 messages; 471k states | `TypeOK`, `RegistryExact`, `OnlyParties`, `NeverTwice`, `ReachesProcess`, `AllOrNothing`, `LossHasCause` |
| `board` | 2 users, 1 project, 2 tasks, 2 tags of one name, 2 requests; 660k states | `TypeOK`, `NoOrphans`, `TagNamesUnique`, `OwnersOnly`, `TookEffect` |
| `edits` | a required title, a nullable assignee, 2 values of which one is a user, 2 requests, fair; 137k states | `TypeOK`, `AssigneeTold`, `OnlyAskedFields`, `SuccessIsStored`, `Answered` |
| `accounts` | 2 ids, 2 values, 2 requests; 147k states | `TypeOK`, `DirectorySpec` (refinement), `RefusedOnlyByRace` |
| `account_mail` | 2 ids, 1 value, 1 request, 2 children, 2 losses or redeliveries, a broker that restores, fair; 617k states | `WelcomeTracked`, `DuplicateHasCause`, `WelcomeHandled` |
| `migrations` | 2 instances, 2 operators, 2 rollbacks or crashes, fair; 157k states | `TypeOK`, `SchemaMatchesVersion`, `ServesAtHead`, `RefusedOnlyByRace`, `AllServe` |

Each property is stated, with the behaviour it is about, in the comment above it. For every
property of a passing run there is a `Bug...` operator, a plausible slip in the code, that
makes that very run fail; the table `mutants` of `PROJECT.json` pairs them.

### 3.1 Bounds

- *Tokens and requests* (`RefreshTokens`). Every property relates at most one token, its
  successor and two requests that handle it; three tokens allow a rotation chain of two, two
  successors of one token, and a session of each of two users at once. Tokens are never
  reused, so `Room` starts a request that will issue one only while one is left: without it a
  request would be stuck for lack of a model value, which the code cannot be.
- *Clock* (`AccessTokens`). A lifetime of two seconds separates "before the last second" from
  it; two ticks separate a key that expires within a second from a JWT that does not. The
  clock runs past the expiry of the tokens (`MaxSec`), and only tokens whose end it reaches
  are issued.
- *Keys and batch* (`ListCache`). Three keys and batches of two give a full batch and an
  incomplete last one. Each writer runs once.
- *Sockets and messages* (`Chat`). Two sockets, of one user or of two, with a third user who
  must get nothing, open in one process or in two; three messages give concurrent pushes in
  both directions and several messages in one session. Three sockets with one message, and
  three with two (2.1 million states), were explored once with the same result.
- *Rows* (`Board`). Two tasks of one project let a deletion load one task and miss the other;
  two tags of one name race for it; two users are an owner and a stranger; two requests are
  what every race here takes. A lock cycle needs two.
- *Fields* (`Edits`). A task has two fields, one required and one nullable, so that two
  requests change one each or both the same; one value is a user's id and one is not.
- *Values* (`Accounts`). Two values per column allow the swap of two accounts that makes
  updates wait for each other, two ids a registration against an update. Ids are used once.
- *Losses* (`AccountMail`). Losses and redeliveries draw on one budget of two, which lets one
  mail be redelivered twice, a child and the worker die, or the second holder of a redelivered
  mail die while the first still sends; with one value the second account can only be
  committed when the registration of the first has failed, which is where a mail was sent for
  no account.
- *Events* (`Migrations`). Rollbacks and crashes draw on one budget of two: two rollbacks at
  different goals, two crashes, or one of each against two instances that start together. The
  database starts empty or at any revision.
- Deadlock is checked except in `chat`, `accounts` and `account_mail`, whose finite sets of
  one-use sockets and ids do run out. Symmetry is used in runs with no liveness property only.

### 3.2 Fairness

- `RefreshTokens`: `WF` on what a request does by itself, because the event loop runs every
  ready coroutine, and `SF` on what may wait for a row lock, because PostgreSQL grants locks
  in the order they were asked for, so that a request cannot be overtaken for ever. Nothing is
  assumed of clients or failures.
- `ListCache`: `WF` on a reader that has missed and on the expiry of each entry, which
  `setex` always sets. Nothing is assumed of writers: one may hang between its invalidation
  and its commit.
- `Edits`: `SF` on the steps of each request, for the same two reasons. `NotOwner`, `Fail`
  and new requests are not among them.
- `AccountMail`: `WF` on the work of each child, as a supervisor replaces a dead child or
  worker; nothing of the requests, nor that a mail is ever accepted.
- `Migrations`: `WF` on each process that can go on, and on the boot of each instance, since
  a platform starts a container again that has ended. Operators need not come.

### 3.3 Where the code and its documentation differ

`refresh_reuse` is the disagreement with a run: the reuse of a refresh token is promised to
revoke all sessions (`auth.py:78-80`), and the revocation is rolled back by the very exception
that reports it. The models show more, each in one or a few steps, that have no run:

- *Rotation is not one-time under concurrency.* Two refreshes of one token that both read
  `used_at` as null both get a successor (`user_service.py:148`, "one-time-use").
- *A refresh overtakes a logout.* One that has passed its checks while the token is revoked
  still commits a live successor (`schemas/auth.py:35-36`). `DeadTokensWindDown` is what does
  hold: only requests that were in flight can do so.
- *The last second.* The remaining lifetime is rounded down, so a logged-out token may be
  accepted again in its last second (`cache.py:114`); `LateAcceptOnlyInLastSecond` bounds it.
- *The chat handshake* decodes the token and looks at no blacklist (`WsConnect`).
- *Equal tokens.* Two tokens issued to a user in one second are one token, and one logout
  ends both (`user_service.py:151`, "Issue a completely new pair").
- *Stale lists.* A reader between the invalidation and the commit leaves an old list behind
  (`tags.py:25`, "so the next GET /tags returns fresh data"); `EventuallyFresh` is what holds.
- *Threads lag.* A message that both clients show is in no thread until the sender's socket
  has ended (`chat.py:30`), as the session of the socket commits then.
- *Two processes.* `websocket.py:26` promises "all active connections for a specific user".
  With gunicorn's default of two processes a push misses the sockets of the other one;
  `ReachesProcess` says what it reaches, however many processes there are.
- *Retries that never happen.* `tasks.py:79-81` says that retries keep transient SMTP errors
  from silently dropping the mail, and `celery_app.py:31` speaks of three retries with
  exponential backoff; `_smtp_send` swallows every exception, so none reaches the retry.
- *At least once.* `celery_app.py:5-6` promises it of a Redis broker. The compose file uses
  `sqla+postgresql`, which forgets what a killed worker held; with `Restores = FALSE`,
  `WelcomeTracked` fails.
- *Mail before the fact.* `tasks.py:143` says the assignment mail is triggered "after a
  successful PATCH"; it is queued before the UPDATE, which may still fail (`AssigneeTold` is
  the direction that holds). The welcome mail likewise precedes its account's commit.
- *Attaching twice.* `task_repository.py:92` skips a link that exists, unless two requests
  attach it at once: one of them then meets the primary key and is answered 500
  (`DuplicateKey` in `Board`).
- *Migrations in compose.* `README.md:258` says that the `app` service runs
  `alembic upgrade head`; `docker-compose.yml:4` starts gunicorn directly, so `start.sh`, which
  `Migrations` models, is run only where the image's own command is.
- *Back to the base.* Dropping the tables leaves the two enum types, so that the next upgrade
  fails on them (`Leftovers` in `Migrations`). Two rollbacks that began at different versions
  can also deadlock.

## 4. What is proved

All theorems are about `Spec` for arbitrary constants, under the assumptions the modules name
(a `No...` value is outside its set, a lifetime and a batch are positive, tables are disjoint,
and so on); `SystemSpec` is the specification of the composition. They share one layout: an
invariant `IInv` with the lemmas *Init implies it* and
*each step keeps it* (one lemma or step per action), then each property from it.

- **RefreshTokensProofs.** Type correctness is not enough for rotation: a commit adds
  `marks[r] \X ins[r]` to the history, so one has to know that at that point both are
  singletons or `marks[r]` is empty, that the marked row is stored and belongs to `user[r]`,
  that a token flushed by one request is neither stored nor flushed by another, and that two
  requests never hold the lock of one row. `IInv` is that, by `pc`. From it: `TypeCorrect`,
  `RotationAtomicity`, `DeadTokensRunOut` (the action property) and `ImplementsLedger`: each
  step is a step of `SessionLedger` or leaves its variables unchanged. `DeliveryIsDurable`
  (`DeliveredDurable`) says that a client never holds a token without a row; it needs the
  commit to precede the response (`ResponseFirst = FALSE`), as in its run. With the other
  order it is false, since the commit may fail after the answer. `DeadlocksNeedReports` states
  a property no run checks: with `Chases` (the rows that a revocation holds and has still to
  visit belong to the owner of the presented token), whoever is in a cycle of lock waits is a
  revocation, and two of them are about one user. The model's `DeadlockVictim` looks at
  revocations only; this is why that loses nothing.
- **AccessTokensProofs.** A token is logged out only after its key was set, so `IInv` follows
  the request: once past SETEX, or past a remaining time of zero, its token is blacklisted up
  to `exp`, lost to a restart, or already in its last second; a waiting request's `remaining`
  was computed at or before the present, so the key it sets lives *at least* to `exp`. From it
  `LogoutHolds` and `LateAcceptIsBounded`, for any lifetime and any number of ticks.
- **ListCacheProofs.** `Invalidating` says of a scanning writer that each survivor is still
  owed by SCAN or in its batch, and of a writer past its invalidation that none is left. From
  it `InvalidationComplete`, for both kinds of invalidation and any batch size.
- **ChatProofs.** Four conjuncts: `Socket` (the registry against the handlers, and that what a
  push calls stale is closed or gone), `Handler` (what a handler has in hand at each `pc`),
  `Session` (ids are unique and a message is flushed or committed according to its handler),
  `Delivered` (what clients have got is what was inserted). From them `RegistryIsExact`,
  `Privacy`, `AtMostOnce`, `SessionsAreAtomic` and `LossIsExcused`, for any number of worker
  processes. `PushesReachProcess` adds that whoever is owed a message and has been passed has
  it, is gone, or is in another process, where it stays (`Connected`).
- **BoardProofs.** A commit applies an INSERT and DELETEs decided earlier, so `NoOrphans` needs
  what keeps them right until then. `Held`: the parents of a row to insert are share-locked by
  the time the request may commit and are still there, and the committed children of a row
  to delete are deleted too or still on the list. `Apart`: no session deletes what another
  has share-locked, and no two insert one key. From them `NothingOrphaned`, `NamesAreUnique`,
  `OnlyOwnersChange` and `SuccessTookEffect`, for any tables and any number of requests.
  `DeadlocksNeedDeletions`: a cycle of lock waits contains two deletions. `Reach` says
  that what a request has share-locked are parents of its own row and that the deletion of a
  tag reaches nothing but the tag and its links; so the one deletion that a creation waits for
  never wants a row which that creation has locked.
- **EditsProofs.** `Pending` says of a flushed edit that its row is there, locked by it alone
  (`Exclusive`) and that whoever it assigns has been mailed. From it `AssigneesAreTold`,
  `NoFieldClobbered` and `NoUpdateLost`. `EditsNeverDeadlock`: a request that waits holds
  nothing, except a deletion that has the task and wants the project, and whoever has the
  project waits for nobody; so no cycle of waits exists.
- **AccountsProofs.** `Directory` checks a value at the commit, the code's index earlier.
  `Claim` bridges the two: from the moment a row is in an index no committed account has its
  value, and no other uncommitted row that entered does. From it `ImplementsDirectory` and
  `RefusalMeansRace`, whose second half is about deadlocks: where no member of a cycle was
  raced, whoever is waited for has entered `email` and whoever waits for it has not, so that
  nobody in it can do both (`CyclesTakeRaces`). `RegistrationsNeverDeadlock` rests on
  `Midway`: a registration that has entered one index has entered that of `email`, so that all
  registrations take the indexes in one order; a profile update holds its old values too, and
  can be in a cycle.
- **AccountsProofs, the composition.** `SystemImplementsAccounts`: with the worker added the
  accounts still behave as `Accounts`, so its invariants hold here as well. Neither part alone
  says that an account has its mail. `Announced` (`MailBeforeCommit`) is the web side: a
  registration about to commit, and every committed account, has queued its mail. `Worked` is
  the worker's: a mail that was queued is waiting, held or acknowledged, an acknowledged one
  had an outcome, and `Counted`: the copies delivered and those still to come, one for each child
  that holds the mail untried and one for the queue, are at most one more than the times it went
  back into the queue. A bound on the delivered ones alone is not inductive, as several children
  may hold one mail.
  Together they give `WelcomesAreTracked`, under `Restores` (without it the property is false,
  see 3.3), and `DuplicatesHaveCauses` for both kinds of broker.
- **MigrationsProofs.** The first part is about the scripts as data: an upgrade creates each
  object after what it needs, a rollback drops each one before what it needs, and both move the
  same objects except the enum types. The schema is inductive only together with what every
  open transaction has done, and measured from where: `Base` is the revision the run read or,
  once it holds the row of `alembic_version`, the committed one, which nobody else can move
  then. `Ascends` and `Descends` say what is made or dropped from there up to the statement
  about to run, `Sound` what a run may have read, `OneStamps` that one transaction holds the
  version's row. From them `SchemaFollowsVersion`, `InstancesServeAtHead` and the action
  property `RefusalsHaveCauses`, for any number of instances, operators and crashes.
  `UpgradesTakeTurns` adds that without rollbacks (`Operators = {}`) one process at a time has
  changed anything and nobody is in a deadlock.

Every safety property and action property of the passing runs is stated by a theorem. Only
model-checked: the liveness properties (`Answered` of two modules, `EventuallyFresh`,
`WelcomeHandled`, `AllServe`), since fairness and the `ENABLED` in it are beyond the prover,
and the violated `ReuseRevokesAll`. Four of the theorems are as close to liveness as safety
comes: `DeadlocksNeedReports`, `DeadlocksNeedDeletions`, `EditsNeverDeadlock` and
`RegistrationsNeverDeadlock` say where requests can wait for each other in a circle at all.

## 5. What the models leave out

Signature and `typ` checks (a client holds only tokens it was issued), password hashing, the
contents of projects, tags and messages, validation and serialisation, logging, response
codes beyond granted, denied and failed. Reads that change nothing and decide nothing:
`GET /users/me`, the user list, filters, sorting and pages of the task list, the REST pages of
a chat thread. Columns in the migrations. A restart of Redis can also bring back list entries
that were deleted after its last snapshot; `RedisRestart` is in `AccessTokens`, where the code
depends on it most, and not in `ListCache`, where such an entry is bounded by its TTL. The
whitelist `UpdatableFields` never refuses a field, as no request schema has another, and is
only the list of fields of `Edits`. An acknowledgement that comes after its message was given
out again counts for nothing in `Mailer`; Redis may let it count for the second delivery after
a visibility timeout, when the mail has been tried already. Write buffers of sockets never fill.

## 6. Not modelled, and why

- The connection pool: its size, its timeout and its queue are SQLAlchemy's defaults, nothing
  in the repository sets or reads them; the models give every request a connection.
- Rate limiting: seven lines that configure a library, whose counting is its own.
- Middleware, settings, headers, the health probe: no state of their own. Exception mapping
  appears as the way each model's `Raise` ends.
- The offline mode of `alembic/env.py`, which prints SQL and changes nothing.
- Chat across several processes as a promise: the code has no channel between them, so there
  is nothing to verify beyond the failure noted in 3.3.
- `services/email_service.py`: called by nothing.
- Health checks, networks and images of the deployment; the compose file and `gunicorn_conf.py`
  are read for what the models take as parameters.

## 7. Plan

The plan was, in this order and most important first: `SessionLedger` and `RefreshTokens`;
`AccessTokens`; `ListCache`; `Chat`; `Board` and `Edits`; `Directory` and `Accounts`; `Mailer`
and its composition with `Accounts`; `Migrations`. All of it is in place, with proofs
about every module. What could follow:

1. `AccessTokens` and `RefreshTokens` composed, for a logout that fails between its halves.
2. The paging of a chat thread over ids that become visible out of order.
3. Abstract specifications for `Board` (a store with cascading deletes) and `Edits` (a row of
   fields written one request at a time), and proofs that the modules implement them.
