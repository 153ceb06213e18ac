# Verification of Nitay_Dropbox

TLA+ models, TLC runs and TLAPS proofs for the file-sync system in `src/`: a
Metadata Service (users, folders, files, versions, sync, notifications, sharing), a
Block Server (content-addressed blocks), a client library that splits and uploads
files, PostgreSQL and Redis. File names below are relative to `src/`.

## 1. Inventory

| Part | Code | State it keeps | Operations |
|---|---|---|---|
| Version commit | `metadata_service/app/main.py` `commit_version`, `db.py` `commit_file_version`, `delete_file` | tables `files`, `file_versions`, `file_version_blocks`, `blocks.ref_count`; row locks | commit a version, soft-delete a file |
| Block Server | `block_server/app/{main,grpc_server,db,storage}.py` | table `blocks`, one file per block under `BLOCK_STORAGE_PATH` | upload, download, `has_block`, garbage collection, `decrement_refcount` (not called) |
| Delta sync | `metadata_service/app/grpc_server.py` `GetMissingBlocks`, `db.py` | table `device_cursors` | answer which blocks a device misses, move its cursor |
| Notifications | `metadata_service/app/notifier.py`, `main.py` `websocket_endpoint` | in-memory registry `_connections` behind `_lock`, the Redis channel, one listener task | publish, listen and push, subscribe, unsubscribe, clean up |
| File chunker | `client_utils/chunker.py` | one task per block, a semaphore, retry counters | split, hash, upload, gather |
| Sharing and permissions | `db.py` `grant_folder_access`, `create_share_link`, `validate_share_link`, `get_folder_permission` | `folder_shares`, `share_links` | grant, create and validate links, check a permission |
| Folders, files, history | `db.py` `create_directory`, `create_file`, `get_file_history` | `folders`, `files` | single statements |
| Users and authentication | `auth.py`, `grpc_auth.py`, `main.py` `register`, `login`, `get_current_user` | `users`, the tokens signed, one context variable of the gRPC process | register, log in, decode a token, act |
| Storage backends | `block_server/app/storage.py` | block files, or objects in S3 | save, read, delete |
| Lifecycle | startup and shutdown of both services | tasks, the registry in memory | start, stop, restart |
| Health, metrics, configuration, demo | `main.py`, `config.py`, `docker-compose.yml`, `demo_upload.py` | none of their own | I/O |

### How the parts interact

* The client uploads each block to the Block Server, and then sends the list of
  hashes to the Metadata Service. The only link between the two services is the
  shared table `blocks`: a commit checks that every hash has a row and adds 1 to its
  `ref_count`. Uploads add 1 as well, and wait for the row lock of an open commit.
* A commit runs in one transaction under `SELECT ... FOR UPDATE` on the file's row.
  Its existence and permission checks run before it, as statements of their own.
* After the commit the handler publishes an event to Redis, outside the transaction;
  each Metadata Service instance has one listener task that pushes events to the
  WebSockets registered for the file.
* A device that hears of a change calls `GetMissingBlocks`, downloads what it misses
  and keeps the version it was told. The handler's three statements are not in a
  transaction.
* Every call to the Metadata Service acts for the user its token names. REST handlers get
  the claims as an argument; gRPC servicers read them from a context variable that the
  interceptor's wrapper sets before it calls them and resets afterwards. All calls share the
  name of the variable; its value belongs to the `asyncio` task a call runs in.

### What is hard here

Everything is `asyncio` over a connection pool, with two server processes on one
database and one disk, so handlers interleave at every `await`. The hazards, one by
one and at their lines, are listed in `PROJECT.json`. The main ones:

* `version_number` has no UNIQUE constraint: only the row lock keeps two commits from
  taking the same number, and only the rollback keeps failures from leaving gaps.
* Commits lock `blocks` rows in the order of the client's list, so commits to
  different files can deadlock.
* Upload is look-up, write, insert: two first uploads of a block overlap at each step.
* `write_bytes` truncates before it writes, so that an upload that fails can leave a damaged
  file under a row that another has inserted.
* `GetMissingBlocks` reads the current version twice, and its cursor upsert compares
  nothing.
* The registry of sockets is shared by all handlers, and the listener pushes to a
  copy of it while clients come and go.
* An announcement is lost when the process dies after COMMIT, when the publish fails, or
  while no listener is subscribed; a device must find out at its next look.
* The client retries calls the server may already have counted, or still be serving, and
  commits while earlier attempts are still running.
* Over HTTP a download reads the block and then lets `FileResponse` open its path again.
* Tokens and share links end while calls that use them are under way.

### What makes each part correct

* Commit: versions of a file are 1, 2, ..., n; `current_version_id` is the newest;
  no reference is lost or invented; a commit is all or nothing; every commit ends.
* Block Server: an answered upload is counted; a row has a file, which is whole unless an
  upload is writing it or has failed; a retry does not write; what a client was told exists
  stays; a zero count is collected or used again.
* Delta sync: an answer completes a version that was current during the call; the
  cursor is not behind the answer and goes back only if calls overlap.
* Notifications: what was acknowledged is registered, a gone client is not; events arrive in
  order and once, and none that a client counts on is forgotten while the listener listens.
* Live devices: a device that has done all it was told to is current, unless an
  announcement was lost since it last looked.
* File chunker: a return means that every block is stored, the upload ends, and a commit
  after it is a save of the file in one step, which nothing later changes.
* Users: an e-mail has one account, and it stays with whoever registered it; a token goes to
  whoever knows the password; a call acts for the user of its own token, and no token is
  accepted for longer than it lives.

## 2. Modules

| Module | Models | Notes |
|---|---|---|
| `VersionHistory` | what the service promises about versions: an append-only list per file | abstract specification; also the base of `DeltaSync` |
| `VersionCommit` | `commit_version` + `commit_file_version`, statement by statement, with uploads and deletions that touch the same rows | implements `VersionHistory` (`ImplementsHistory`) |
| `BlockServer` | upload, download, existence checks, collector, releases, on the local backend or S3 | one action per SQL statement or storage operation |
| `ChunkUpload` | the tasks of `chunk_and_upload`: semaphore, attempts, gather | EXTENDS `BlockServer`: each attempt is one of its upload calls |
| `ClientFlow` | a file from `chunk_file` over its upload to its commit | composition: EXTENDS `ChunkUpload`, and takes `VersionCommit` with INSTANCE over the same rows and counts; implements `FileSaves` (`SavesTheFile`) and, as is proved, `VersionCommit` |
| `FileSaves` | what a user sees of it: an upload that ends, and saves of the file in one step each | abstract specification |
| `DeltaSync` | `GetMissingBlocks` over `VersionHistory` | composition: EXTENDS `VersionHistory` |
| `Notifier` | publish, Redis channel, listener, registry, WebSocket handlers, restarts | one instance |
| `LiveSync` | commits, notifications, `GetMissingBlocks` and a device that stays connected | composition: EXTENDS `Notifier` |
| `Access` | registration, login, tokens, and the calls made with them | REST and gRPC |
| `Sharing` | folders, grants, share links, and the checks before every statement | one action per statement; commits and histories are only admitted here |
| `VersionCommitProofs`, `BlockServerProofs`, `ClientFlowProofs`, `DeltaSyncProofs`, `NotifierProofs`, `LiveSyncProofs`, `AccessProofs`, `SharingProofs` | theorems about the module of that name, and their proofs | TLAPS; `ClientFlowProofs` builds on `BlockServerProofs`, `LiveSyncProofs` on `NotifierProofs` |
| `MC...` | model values, block lists and symmetry sets for TLC | no behaviour |

### Correspondence, module by module

**VersionCommit.** `versions`, `links`, `rows`, `refs`, `current`, `deleted` are the
committed contents of the tables. PostgreSQL runs READ COMMITTED: what a transaction
writes appears in its `Commit` step, all at once, and a `Rollback` shows nothing; so the
statements whose effect nobody can see before COMMIT have no table effect of their
own. What others can see before COMMIT are the locks: `fileLock` (FOR UPDATE) and
`rowLock` (UPDATE of `blocks`), both held until the transaction ends. `Lookup` and
`Authorize` are the two checks before the transaction; `LockFile`, `ReadMax`,
`LinkBlock`/`UnknownBlock`, `IncrementRef`, `Commit` follow the code's order.
`StatementFails` may strike at any point (foreign key, timeout, lost connection,
killed process). `DeadlockVictim` is PostgreSQL's detector: some transaction on a cycle
of waits is rolled back. Version ids are UUIDs, so the request stands for the id.
`uploads` is a history variable.

**BlockServer.** A call (`pc`) goes `lookup`, then either `increment` or
`open`/`write`/`insert`, then `answer`. `Path.write_bytes` opens, which truncates, and then
writes: between the two the file is `"partial"`. `MayBeDamaged` names the only two causes for it
to be found so: an upload that is between them, or one that has failed there. But S3's put shows
the whole object at once (`PutObject`). `Fail` may end a call between any two operations. A
download finds the row and reads the file (`ReadFile`). gRPC sends these bytes. HTTP goes on to
`SendFile`: `FileResponse` opens the path anew, and on S3 the path is a URI that names no file.
An existence check (`has_block`, `HasBlock`) is over after the row. The collector's `DELETE ...
RETURNING` is `CollectRows`; the unlinks are separate steps from a list in memory (`doomed`),
which a restart forgets. `Release` is `decrement_refcount`, which nothing calls today;
`MaxReleases` lets it be called.

**ChunkUpload.** A task is `waiting` for the semaphore, `sending`, in `backoff`, `ok` or in
`error`. The attempt k of block i is the upload call `<<i, k>>` of `BlockServer`, so the
server keeps working on calls the client has given up. `ClientError` is retried up to
`MaxAttempts`; `TimeOut` (the 60 s total) is not, as in the code. `Gather` returns or raises.
The module has the steps; `ClientFlow` puts them together with the server's.

**ClientFlow.** `ChunkFile` cuts the content as the read loop does, and a block stands for its
own hash. `Service == INSTANCE VersionCommit` shares `rows` and `refs` with `BlockServer`: its
transaction is used step by step, and in the place of its one upload action come the statements
of the Block Server, which wait for rows the transaction has locked (`CountBlock`). A commit
starts when `chunk_and_upload` has returned; a further commit repeats it, before or after the
first has ended, as a client does that has seen no reply. `counted` is a history variable.
`asyncio.gather` lists results in the order of its tasks whatever the order they end in, so
`BlockHashes` is in block order before the sort by `block_index`, and the order of endings
(which the steps of the tasks leave free) does not show in it. The abstract module `FileSaves`
knows no blocks: its `saved` is, for each version, what its links read as when they are put
together.

**DeltaSync.** `Admit` or `Refuse`, `ReadMissing`, `ReadCurrent`, `UpsertCursor`, `Answer`, and
`Fail` at any point; commits and deletions come in between. `asked`, `basis`,
`removedFirst` and `overlapped` are history variables. A version is its file and its number. As in
the code, nothing checks that the version a device names is one of the file it asks for
(`known`).

**Notifier.** One event loop: an action is what happens between two awaits. The critical
sections of `_lock` contain no await, so they are single steps. `Publish` gives the event to the
channel if the listener is subscribed then (pub/sub keeps nothing). `Take` copies the set of
sockets into `pushes`, and `Push` ends one of the gathered sends. A socket's `phase` is `new`,
`open`, `leaving` (its client has gone) or `ended`. `EndHandler` is the `finally:
unsubscribe_all` of a client that went away; `HandlerRaises` is the same after a message the
handler cannot process, perhaps in the middle of its files. A message that is refused with an
error reply changes no state and is left out. `Restart` kills the instance and its registry with
every connection. Redis is external: it drops connections (`RedisDrops`) and comes back. `owed`
is a history variable: the pairs of a client and an event it can count on, because its
subscription was acknowledged when the event was published and it has neither unsubscribed nor
left since.

**LiveSync.** Here a commit and a `GetMissingBlocks` each have the one step at which they take
effect (how they run inside is the subject of `VersionCommit` and `DeltaSync`): `NewVersion`
numbers the version when the transaction returns, and `Announce` publishes it later, or never.
The device is external. The repository has no sync client, only its pieces, so the model takes
the simplest that uses the service as its README describes: it asks when its subscription is
acknowledged and after every push, one call per file at a time, and asks again if the call
fails. (The answer of `GetMissingBlocks` names blocks and no version number; the model keeps the
version it was computed from.) `missed` and `told` are history variables.

**Access.** `Register` is one INSERT with its 409; `SelectUser` and `Verify` are the two halves of a
login. `Decode` is `get_current_user` or the interceptor. Over REST the claims are the handler's
argument. Over gRPC, `Enter` is the `set()` of the wrapper, which puts them in the `context` of the
call's task and keeps what was there (`outer`), `Act` is the servicer's
`get_authenticated_user()`, and `Leave` the `reset()` in `finally`; any steps of other calls come in
between. `Task` says whose value a call sees: `grpc.aio` runs each call in a task of its own, and
with one value for all (`TaskOfAll`) calls act in each other's names. The clock goes in fractions
of a second and tokens keep whole ones, as python-jose does (`WholeSecond`), so that a token may
be accepted up to a second longer than its lifetime. Signatures are external: a token that is
no token of ours is `Nobody`. `issued` and `accepted` are history variables.

**Sharing.** A call goes through its handler's statements: `Lookup` (`get_file_folder_id`), `Check`
(`get_folder_permission`), and the statement itself; a link's `expires_at` is computed (`Stamp`)
before its INSERT. `delete_file` checks and acts in one statement. `Init` allows every earlier
grant. The REST and gRPC variants of an operation run the same statements. `entitled` and
`late` are history variables: calls whose caller has had the permission they need since they
began, and calls about a file that was deleted before they began. `parent_id` is checked and
then never read by any code, so it is not kept.

## 3. What is checked

`PROJECT.json` lists for every property a mutant of the code that violates it. Times are
those of two TLC workers.

| Run | Bounds | Shows |
|---|---|---|
| `commit_two_files` | 2 files, 2 blocks, 2 commits with lists `a`, `ab`, `ba`, `aa`; 2 uploads per block (50 s) | types; counts are exact; a block is waited for only across files, so commits to one file never deadlock; the transaction implements the atomic history; versions are numbered without repetition or gap, and the file points at the newest; every admitted commit ends |
| `blocks` | 3 uploads, 1 download or existence check, 2 blocks, 2 releases, both backends (2 min) | answered uploads are counted; a row has a file; what a call has found stays; a retry never writes; a zero count is collected or used again |
| `client_flow` | 2 blocks, equal or different, 1 slot, 2 attempts each, 2 commits (35 s) | a return means stored; the commit meets no unknown block; every version is the file, and a block of it is damaged only by an upload that is writing or has failed; counts add up over both services; to the user, commits are saves in one step that nothing later changes; the upload ends |
| `sync_answers` | 2 calls of a device, 2 files with 2 versions and 1, 2 blocks (90 s) | answers complete a current version; the cursor is not behind the answer; it goes back only by overlap |
| `notify_registry` | 2 files, 2 clients with 3 messages between them, 2 commits, 1 Redis failure, 1 restart (2 min) | acknowledged is registered, ended is not; nothing owed is forgotten; events arrive in order and at most once |
| `live_sync` | 1 file, 1 client with 2 messages, 2 commits, 1 Redis failure, 1 restart (50 s) | no push runs ahead of the data; a quiet device is current and a subscribed one becomes so, unless an announcement was lost |
| `access` | 2 registrations, 2 logins, 2 calls, 2 e-mails, 2 passwords, lifetime 1 s, time 0 to 2 s in halves (75 s) | an e-mail has one account, and it stays; only holders of the password get tokens; a call acts for its own token; sessions end |
| `sharing` | 2 calls of any kind, 2 users, 2 folders, 1 file, TTLs 0 to 2, time 0 to 2 (10 s) | nobody acts without having had the permission during the call; calls that begin after a deletion find nothing; links end with their TTL |

The safety properties hold for all values of the constants (section 4); the runs show that the
interesting cases happen and check what is not proved. Why their bounds are enough: numbering
needs two overlapping writers; a deadlock needs two transactions and two blocks; a repeated
block needs one list with a repetition; an overlap of uploads needs two, and a third to come
after the answer of the first; waiting for a slot needs one block more than slots; an attempt
that outlives its client needs two attempts; a repeated commit needs two; a cursor going back
needs two calls and one commit; a version of the wrong file needs two files; ordering needs two
events; cross-talk in the registry needs two clients, and leaving several files two files; that
a device falls behind and catches up needs one lost event and one more; mixed-up users need two
calls with tokens of two, one inside while the other looks; an expired token needs a clock that
goes past the lifetime, and the second that is cut off needs a clock that counts halves;
check-then-act needs one call between the two statements of another, on top of grants that were
made before.

The safety properties of `BlockServer` but `TypeOK` speak about the system as deployed, where
nothing has called `decrement_refcount` (`NothingReleased`); the same run goes on with releases
for the others. Every cfg leaves the deadlock check on; a service with nothing to do takes an
`Idle` step, which is enabled only when every call is over.

Symmetry is used only in runs without liveness properties, and only where the
constants are interchangeable in the specification and the properties.

### Fairness

* `VersionCommit!FairSpec`: an admitted request's next statement is executed (the event
  loop runs it, PostgreSQL grants a lock that stays free) and the deadlock detector
  strikes. Nothing makes clients send requests, and no failure is fair.
* `BlockServer!FairSpec`: the collector runs again and again; it catches every exception.
* `ClientFlow!FairFlowSpec`: the client's event loop runs, a request ends within its
  timeout, and the statements of an admitted commit go on. Nothing is asked of the Block
  Server or the network.
* `Notifier!FairSpec`: the event loop runs its tasks, Redis comes back, and a push to a
  client that does not read ends, because the WebSocket keep-alive of uvicorn (external)
  closes the connection. The code has no send timeout of its own: this is an
  assumption, and without it one such client stops the listener for everyone.
* `LiveSync!FairLiveSpec`: the event loop runs its tasks (publishing, forwarding, handling), a
  device asks when it has to, and a device that asks over and over is answered in the
  end (the one strong fairness). That an answer gets through is an assumption about the
  network; Redis and restarts are not fair.

### Disagreements between the code and its texts

Each is a run that TLC must find violated.

| Run | Text | What the code does |
|---|---|---|
| `blocks_whole` | `README.md:230` "Same bytes anywhere = 1 copy stored. Enables deduplication and resumable uploads for free." | two first uploads of a block overlap; one is answered, the other truncates the shared file and fails. The row stays, so no retry ever repairs the file |
| `sync_stale_answer` | `tests/test_sync_stress.py:122` "Advance cursor to current version (device has downloaded all blocks)" | a commit between the two reads moves the cursor past what the answer names |
| `download_s3` | `README.md:265` "Swapping to real S3 only requires replacing `save_block()` / `read_block()` in `storage.py`." | the HTTP download answers `FileResponse(path)`, where the path is an `s3://` URI: every download of a stored block fails, while gRPC sends the bytes |
| `notify_after_outage` | `notifier.py:65` "so all devices subscribed to this file receive a push" | one Redis error ends the listener task for the life of the process |

More, without a run of their own:

* `client_utils/chunker.py:8` announces "Retry with exponential backoff (up to 3 attempts per
  block)"; a total timeout raises `asyncio.TimeoutError`, which is not in the list of retried errors
  (`TimeOut`).
* `db.py:360` says "Advance (or create) the device cursor"; two overlapping calls of one device
  move it back. `CursorGoesBackOnlyByOverlap` says that nothing else does.
* `tests/test_deduplication.py:78` announces `ref_count == 2` for a block uploaded twice and used
  twice, its own line 139 asserts 4, and the code computes 4 (`RefCountConserved`).
* `README.md:236` "Safe GC" would not hold once `decrement_refcount` is used: an upload between the
  collector's DELETE and its unlink leaves a counted row without its file. No count reaches
  0 today.
* An empty file yields no block, and a commit of no blocks is rejected by the validation of
  the request, so the chunker cannot sync empty files (`Contents` are not empty).
* `demo_upload.py` sends no token, and the Metadata Service refuses calls without one.

## 4. What is proved

TLAPS checks every safety invariant and action property of the runs, and the three refinements,
for all values of the constants: any sets of files, blocks, users, devices, sockets and calls,
any bounds.

| Module | Theorem | States |
|---|---|---|
| `VersionCommitProofs` | `Invariance`, `TypeCorrect` | `Spec => []IInv`, `Spec => []TypeOK` |
| | `NumbersConsecutive`, `CurrentNewest` | `[]VersionsNumberedConsecutively`, `[]CurrentIsNewest` |
| | `WaitsCrossFiles` | `[]BlockWaitsCrossFiles` |
| | `RefCountExact` | `[]RefCountConserved` |
| | `HistoryInvariance`, `Refinement` | `Spec => []HInv`, `Spec => ImplementsHistory` |
| `BlockServerProofs` | `Invariance`, `TypeCorrect` | `Spec => []IInv`, `Spec => []TypeOK` |
| | `AnsweredIsCounted`, `RowKeepsFile`, `FoundStays` | `[]AnswersAreCounted`, `[]RowHasFile`, `[]FoundIsKept` |
| | `RetriesOnlyCount` | `Spec => RetryNeverWrites` |
| `ClientFlowProofs` | `ChunksJoin` | `Flatten(ChunkFile(bytes)) = bytes` for every file |
| | `FlowInvariance` | `FlowSpec => []FlowInv` |
| | `ReturnedIsStored`, `BlocksAreKnown`, `CountsExplained` | `[]ReturnMeansStored`, `[]NoUnknownBlock`, `[]CountsAreExplained` |
| | `VersionsAreTheFile` | `[]VersionsRebuildFile` |
| | `CommitsRefined` | `FlowSpec => CommitsAsSpecified` (the specification of `VersionCommit`) |
| | `FlowSaves` | `FlowSpec => SavesTheFile` (the specification of `FileSaves`) |
| `DeltaSyncProofs` | `Invariance`, `TypeCorrect` | `SyncSpec => []IInv`, `[]SyncTypeOK` |
| | `AnswerCompletes`, `CursorAfterAnswer` | `[]AnswerCompletesVersion`, `[]CursorNotBehindAnswer` |
| | `CursorForward` | `SyncSpec => CursorGoesBackOnlyByOverlap` |
| `NotifierProofs` | `Invariance`, `TypeCorrect` | `Spec => [](IInv /\ OrderInv)`, `[]TypeOK` |
| | `EndedUnregistered`, `AckedRegistered` | `[]EndedIsUnregistered`, `[]AckedIsRegistered` |
| | `DebtsQueuedOrPushed`, `EventsInOrder` | `[]DebtsOnTheirWay`, `[]PushedInOrder` |
| `LiveSyncProofs` | `LiveInvariance` | `LiveSpec => []LiveInv` |
| | `PushedVersionsExist`, `QuietDevicesCurrent` | `[]PushLeadsToVersion`, `[]QuietDeviceIsCurrent` |
| `AccessProofs` | `Invariance`, `TypeCorrect` | `Spec => []IInv`, `[]TypeOK` |
| | `RequestsActForToken`, `AccountsAreUnique` | `[]ActsForItsToken`, `[]OneAccountPerEmail` |
| | `TokensToHolders`, `SessionsAreBounded` | `[]OnlyHoldersGetTokens`, `[]SessionsEnd` |
| `SharingProofs` | `Invariance`, `TypeCorrect` | `Spec => []IInv`, `[]TypeOK` |
| | `ActorsEntitled`, `DeletedStayGone`, `ExpiredRefused` | `[]OnlyEntitledCallsAct`, `[]DeletedFilesStayGone`, `LinksExpire` |

A theorem about `FlowSpec`, `LiveSpec` or `Spec` holds for the specification with fairness as
well, which only adds conjuncts.

### Assumptions

All are `ASSUME`s of the modules, and TLC evaluates each in the runs of that module.

* `VersionCommit`: block lists are non-empty sequences of hashes, as validation requires
  (`ListsAssumption`; also in `VersionHistory`); `Nobody` is not a request.
* `ChunkUpload`: there is at least one attempt and one slot (`AttemptsAssumption`); the calls of
  the server are the attempts of the blocks (`CallsAssumption`); blocks are numbered from 0 as
  `enumerate` does (`BlocksAssumption`).
* `ClientFlow`: a full block has at least one byte (`SizeAssumption`), there is a block
  (`NotEmptyAssumption`: a commit of none is refused), the files that are looked at are
  sequences of bytes that are cut into as many blocks as there are (`ContentsAssumption`), and
  `Nobody` is no commit.
* `Access`, `Sharing`: `Nobody` is none of the users, e-mails, passwords or folders, `Never` is no
  time, and times are numbers. Without `NobodyAssumption` of `Access` a password could be the
  value that stands for having none, and the demo accounts could be logged in to.
* `BlockServer`, `DeltaSync`, `Notifier`: backends are `"local"` or `"s3"`, bounds are natural
  numbers. These bounds are any numbers, so the theorems do not depend on them.

### The arguments

**VersionCommit.** The numbering is not inductive as it stands: a transaction that has read MAX
commits only later, and the step is safe only because nobody else has committed to its
file since. `IInv` joins `TypeOK`; `FileLocks` (a transaction holds the lock of its file from
`LockFile` to its end); `RowLocks` (whoever holds a block's row is at or past its increments);
`NextNumberHeld` (the number a transaction has read is still one more than the largest
committed one of its file); and the numbering and the current version themselves. `FileLocks`
gives exclusion, which with `NextNumberHeld` makes the number that `Commit` writes the next one.
`WaitsCrossFiles` follows without a further induction: waiter and holder are both in
transactions, so they hold different file locks. `RefCountExact` adds that the links are
finitely many and all belong to committed versions, so that `Commit` adds exactly as many
links of a hash as it adds to its count.

*The refinement.* The mapping reads a history off the tables with `Cardinality` and `CHOOSE`, so
it needs `HInv`: a version has exactly the links its request asked for, the numbers of a file
fill 1 .. n, and the blocks a transaction has looked up keep their rows until it commits.
Then `Commit` is `CommitVersion` of the abstract module, a deletion is its
`RemoveFile`, an upload its `UploadBlock`, and every other step is a stutter.

**BlockServer.** An upload is counted for good only if its row cannot go away again, and nothing
in the upload says so. It holds because the collector has nothing to collect while every row
counts at least 1, and every row does while nothing is released. The invariant therefore reads
`TypeOK /\ (NothingReleased => Deployed)`, and `Deployed` relates rows, files, what calls have
found, and the number of calls past their statement, which the count of a row is never below.
`DamageHasCause` is the part about damaged files: a step that leaves one is a step of an upload
that is then still writing or has failed.
The theorems about the deployed system carry the same hypothesis as the properties.

**ClientFlow.** The client knows of the server only what an answer told it, and a commit knows of
the uploads only that the client returned. `FlowInv`, on top of the invariant of `BlockServer`,
passes the rows on: from answer to task, from task to return, from return to commit.
`Accounts` says how far each row's count is explained by attempts past their statement; since
such an attempt never returns to its statement, no attempt is counted twice, which also
keeps the uploads within the bound of `VersionCommit`'s action. That, step by step, is the
refinement `CommitsRefined`: `CountBlock` is `UploadBlock`, and all else of the client and the Block
Server leaves the variables of `VersionCommit` alone.

*The file.* `VersionsAreTheFile` needs to know what two recursive functions compute. Induction
is stated for sets (`Induction`: a set with 0 and the successor of each of its members has all
naturals), proved from the least number that is left out. By it, the function that `ChunkFile`
defines exists, going back from the end of the file, and so does that of `Flatten`, going
forward; `Flatten` of a list is its first element before `Flatten` of the rest (`FlattenFirst`);
and from any position on, the blocks join to the rest of the file (`ChunksJoin`). Then the links
of a version, in order, are the list its commit carried (`VersionLists`), which is the list of
the blocks (`HashesAreBlocks`). `FlowSaves` follows: a commit adds one version, which reads as
the file by `VersionsAreTheFile`, and no step changes the links of the others, so what they read
as stays.

**DeltaSync.** Answer and cursor come from different moments. Both are right because histories
only grow, so a version read earlier is what it was, and because two calls of a device that
are under way at once are both marked (`OverlapsMarked`). For the cursor it takes
`CursorNotPassed`: without an overlap nobody has moved the cursor past what the call has seen.

**Notifier.** `AckedIsRegistered` is not inductive: whoever takes an entry out of the registry must
know that the client no longer counts on it, which is settled when its message arrives or it
goes away, several steps earlier (`AckedIsConnected`, `GivenUpFirst`). Debts need
`OwedToSubscribers`, so that the copy that `Take` makes of the sockets includes everyone who is
owed. The order of events is a second invariant, `OrderInv`, which says of each event where it
stands: what a client received comes before what is being pushed, and that before what is
queued. It speaks of witnesses in `published`, which stay, where the property uses `CHOOSE`.

**LiveSync.** The steps are those of `Notifier` with versions and answers around them.
`LookSuffices` says that a subscribed device with nothing to ask for and nothing on its way to
it is current, or the answer that is coming is; a commit keeps it since an `Announced` event is
on its way from the moment its version has a number. `AnswersFresh` bounds answers from below by
the pushes handled before the question.

**Access.** What a request does is decided in steps of up to three calls: an account is
registered, its row is read, a token is signed and sent, it is decoded. Each part of `IInv`
carries what one step has established to the next; `OneRowPerEmail` is the table's constraint, and
`AccountsKept` that no registration overwrites a row. `ContextsOfCalls` says what the context of a
task is at every moment: the user of its call from `set()` to `reset()`, and nobody before and
after, which holds because what `set()` replaced and `reset()` puts back was nobody.

**Sharing.** The invariant says what a call knows at each of its statements, and that nothing
another call does takes it back: a file never changes folder and never comes back, a
link's time is fixed when it is made, and having had a permission is not undone.

### What the proofs changed

* The `CASE` by which `Check` of `Sharing` chose the next statement had arms that overlapped, so
  that TLA+, unlike TLC, did not say which one was meant. `AfterCheck` and an `IF` say it, as the
  code's branches do.
* `Access` had not said that `Nobody` is no password (above).
* `Sent` of `ChunkUpload` and the cursors of `DeltaSync` were rewritten in forms the provers
  reason about, with the same meaning.

### Only model-checked

Liveness: `EveryCommitEnds`, `ZeroCountIsCollected`, `UploadEnds` and `DevicesCatchUp`. They rest
on fairness and on `ENABLED`, which the prover does not treat.
The four properties that must be violated are TLC's as well.

## 5. What is not modelled

* The contents and limits of a history listing, and the nesting of folders: nothing reads
  `parent_id`.
* Who holds which permission in `VersionCommit` and `DeltaSync`: `Authorize` and `Admit` allow both
  answers, and `Sharing` says when they are given.
* Validation of input (hash format, sizes, integrity of an upload): it rejects before any
  state changes. (gRPC's `UploadBlock` stores the size it is told without comparing it to the
  data; no property here is about sizes.)
* The service key between the two services: a comparison with a constant, and no state.
* The passwords' hashing and the tokens' signature: library functions, taken as exact.
* Several clients at once in liveness: `DevicesCatchUp` is checked with one device, which keeps
  one socket; a device that connects anew after a restart is another socket. That clients do not
  disturb each other's registrations and pushes is safety (`AckedIsRegistered`,
  `DebtsOnTheirWay`), checked with two and proved for any number.
* A file that is deleted between the admission of `GetMissingBlocks` and its query: the answer is
  empty, as if the device were up to date, and no text of the repository says what it should be.
* Different clocks: one clock stands for those of the hosts and of PostgreSQL, so tokens and
  links end as exactly as these agree.
* Health and readiness probes, metrics, request ids, CORS, configuration: no state of the system.
* The limits of the connection pools, and table constraints no modelled statement can meet:
  they show only as failing statements, which every model has. A handler holds at most one
  connection at a time, so waiting for one is not part of a cycle.

## 6. Plan

1. `VersionHistory`, `VersionCommit` and their proofs (done): the most important behaviour.
2. `BlockServer`, `ChunkUpload`, `DeltaSync`, `Notifier`, `Sharing` (done).
3. `ClientFlow`, `LiveSync`, `Access`; both backends; restarts (done).
4. Once `decrement_refcount` has a caller: `\A h \in rows : refs[h] > 0 => disk[h] # "absent"`,
   which fails with one release today.
5. Proofs of every safety property and of the refinements (done).
6. Left to prove: what liveness rests on and needs no `ENABLED` (for each property a condition
   on states under which the guards of the next statement towards the goal hold), and that a
   step of `VersionHistory` only ever appends, carried over to the tables by the refinement.
