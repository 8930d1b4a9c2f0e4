# TaskTips Cloud: TLA+ models and proofs

TaskTips Cloud synchronises a user's projects (notes and tasks, held on several
devices) through a Rust API and a Rust worker, with PostgreSQL for metadata and
an S3 object store for contents.  This directory holds the TLA+ models of its
protocol core, the TLC configurations that check them, and TLAPS proofs.

Throughout, `P` is `src/crates/persistence/src/lib.rs`, `R` is
`src/crates/api/src/routes.rs`, `W` is `src/crates/worker/src/main.rs`, `O` is
`src/crates/object-store/src/lib.rs` and `M` is `src/migrations/0001_init.sql`.
`PROJECT.json` maps every definition to the lines it models.

Contents: 1 the system, 2 the modules and their relation to the code, 3 the
runs, 4 bounds, 5 fairness, 6 what the disagreements are, 7 the proofs, 8 what
is not modelled, 9 the plan, 10 how to run it.

## 1. The system

Three kinds of process share one database and one object store:

    devices --HTTP--> API (several requests at once, a connection each)
    administrators -> API                |
                                         +-- PostgreSQL (READ COMMITTED, row-level security)
                                         +-- object store (payloads, manifests)
                      worker(s) ---------+
                      polls every 5 s; begins a clean-up every hour

They never call each other; they interact through rows, row locks, advisory
locks, leases and objects.  Three facts shape every module:

* **The project row is the lock of a project.**  Whoever writes heads,
  revisions or the change log first runs `SELECT ... FOR UPDATE` on it
  (`project_state`, P:5754).  Readers do not lock; each of their *statements*
  sees what had been committed when it began.
* **The object store is not transactional.**  Each protocol orders its object
  operation against its row operation, and a crash may fall between the two.
* **A lease is only a token with an expiry time.**  A worker that has lost its
  lease does not know it until it next compares the token.

### Inventory

| component | state | operations | what is hard | what makes it correct | module |
|---|---|---|---|---|---|
| Project store | `projects` (status, generation, change_seq), `object_heads`, `object_revisions`, `change_log` | create, lock, append a revision, commit, roll back, change status | appends are numbered in transactions that may roll back; writers of several kinds; status changes without a guard | the log is gapless; a head is its object's latest revision; no update is lost; the committed log only grows | `ProjectStore`, `ChangeHistory` |
| Push | `idempotency_records`, `bootstrap_completions` | one push of several items; replay of a known request; expiry of records | repeats while the first call still runs; waiting for the project row while a restore replaces the generation; batch half done at a failure | an item takes effect at most once; one answer per request; an acknowledged item is committed; no push crosses a restore | `PushProtocol`, `AtomicPush` |
| Restore jobs | `restore_jobs`, `snapshots`, manifests in the object store | enqueue, cancel, claim, pre-restore snapshot, renew, store, mark ready, execute, retry, fail, reopen; user snapshots; expiry of pending ones | two workers in one job; crash between any two of the steps; cancellation against commit; administrators who reopen, disable or purge meanwhile | a job is applied once; a restore can be undone; a cancelled job stays cancelled; every job ends and the project gets out of maintenance | `RestoreJobs`, `AtomicRestore` |
| Replication | `bootstrap_manifests`, `bootstrap_completions`, cursors held by devices | prepare and record a manifest, serve its pages, pull | two statements of one request see two states; lost answers; manifests that expire | a device's copy is the project as it was at its cursor; a device that keeps asking catches up | `Replication` |
| Payloads | `payloads`, payload objects, advisory locks | upload, registration, look-up by a push, purge of the project, hourly clean-up (as far as it gets) | object and row are changed apart; an advisory lock that goes back to the connection pool in an open transaction; a purge that deletes objects without that lock | a revision has its row and a row its object; nobody waits for ever; orphans go (they do not, section 6) | `PayloadStore` |
| Sessions | `users`, `devices`, `refresh_tokens` | login, rotation with grace period and reuse detection, logout (two kinds), device revocation, password change, account status, the check of every authenticated request | transactions that lock users, devices and tokens in different orders; bulk updates that see only the rows of their statement; a password verified outside the transaction | one first use per token; what a revocation covers has no live token left; a client that repeats a refresh promptly stays signed in | `Sessions` |
| Accounts, invitations | `users`, `invitations` | register, create, invite, revoke, resend, expire, activate | activation against revocation and resending | an invitation that is void activates nothing | `Sessions` |
| Project purge; account export and purge | `jobs`, `account_purge_exports`, `users.status`, `projects.status` | enqueue, request an export, confirm, claim, export, detach, delete objects, complete, fail | crash after the detaching commit; leases not renewed while objects are deleted; checks of a confirmation that waits for locks; workers that lost their lease and go on | a successful purge leaves no object; nothing is destroyed that was not exported; only faults make a purge fail | `Purge`, `AtomicPurge` |
| Rate limits, upload budget | `distributed_rate_limit_buckets`, a semaphore | consume, prune | a single atomic statement each | the window's limit | not modelled |
| Object-store adapter | none | put, get, verify, list, delete | partial failure | used inside the other modules | not modelled on its own |
| Cursor tokens | none | seal, open | cryptography | a token cannot be altered | not modelled |
| Administration queries, audit, metrics | `audit_events`, `sync_attempts` | lists, trends, append | no protocol of their own | | not modelled |
| Row-level security, roles, schema | policies | enforced per statement | | tenants are separate | not modelled |
| API contract, front end, deployment, design mock-ups | none or client-side | | | | not modelled |

The hazards that follow from the fourth column are listed in `PROJECT.json`
under `hazards`, each at its line with the properties that cover it.

## 2. The modules

    ChangeHistory  <---refines---  ProjectStore  <--- EXTENDS --- PushProtocol  (MCPushProtocol)
                                        ^   ^  <----- EXTENDS --- RestoreJobs   (MCRestoreJobs)
                                        |   +-------- EXTENDS --- Replication
        ProjectStoreProofs, PushProofs, RestoreProofs, ReplicationProofs

    AtomicPush     <---refines---  PushProtocol <- PushProofs
    AtomicRestore  <---refines---  RestoreJobs  <- RestoreProofs <- RestoreOutcomeProofs
    AtomicPurge    <---refines---  Purge        <- PurgeProofs

    PayloadStore <- PayloadProofs   Sessions <- SessionProofs

`PushProtocol`, `RestoreJobs` and `Replication` implement `StoreSpec`, the
specification of `ProjectStore` (proved in `PushProofs`, `RestoreProofs` and
`ReplicationProofs`), and `StoreSpec` implements `ChangeHistory`: what is proved
of the store holds of all three.  `PushProtocol` implements `AtomicPush` as well
(`PushProofs`), `RestoreJobs` implements `AtomicRestore` (`RestoreOutcomeProofs`)
and `Purge` `AtomicPurge` (`PurgeProofs`).  `PayloadStore`, `Sessions` and `Purge`
have state of their own; what they need of the others (a project's status, the
payload rows) they keep themselves.

### ProjectStore

One project.  `status`, `generation` and `store` are the committed row and
tables; `holder` is the connection that has the project row, and `work` the
tables as its transaction sees them.  There is one uncommitted copy because
there is one row lock.

| definition | code |
|---|---|
| `Revised`, `Revise` | the three inserts and updates of push (P:4599) and restore (P:3208): next `change_seq`, revision, head, log row |
| `LockProject`, `Commit`, `Rollback` | `project_state` FOR UPDATE, `tx.commit()`, the transaction dropped by `?` |
| `CommitWrites`, `CommitRestore` | push commits in the generation it found; a restore commits the next one and reopens |
| `EnterMaintenance`, `LeaveMaintenance`, `DisableProject`, `StartPurge` | the status updates with the guards they have - and `disable_project` has none |
| `RankedAt` | "per object the last change at or before n", the query of bootstrap and restore |

`StoreSpec` is the contract of a writer: lock, append any number of revisions
on the current heads, then commit or roll back.  `ChangeHistory` is the
abstract view of a replicating device: one sequence that only grows at its end
and never rewinds, not even in a restore.  The refinement reads the committed
log in sequence order; appends to `work` are stutters and a commit publishes
the whole batch.

### PushProtocol

Several calls of `push_with_outcome` at once.  `call[c]` is a request's place
(`idle`, `waiting` for the project row, `applying` items), `idem` the
idempotency records, `completions` who has bootstrapped which generation,
`payloads` the registered contents.  Three history variables (`answers`,
`applied`, `began`) only feed the properties.

| action | code |
|---|---|
| `PushReplay`, `PushStart` | advisory lock of (device, key), then the look-up (P:4410-4453); the lock is held until the transaction ends, so `KeyIsLocked` is "another call has this slot" |
| `PushRefuse` | maintenance, generation, bootstrap checks in the order of the code; the refusal is stored and committed |
| `PushAdmit` | the checks pass and the row is ours |
| `PushSkipItem`, `PushApplyItem` | one item: compare-and-set, payload look-up, append |
| `PushCommit` | revisions and answer in one commit |
| `PushAbort` | any error return or dropped connection |
| `ExpireRecord`, `CompleteBootstrap`, `RegisterPayload`, `Restore*`, `ChangeStatus` | what other requests and the worker do to the tables push reads; `ExpireRecord` is the `DELETE` of expired records with which a push begins (P:4416), since the clean-up does not get as far as its own |

`PushStart` and `PushReplay` take the lock and read the record in one step:
nobody else can change the record between the two.

`AtomicPush` is what the protocol promises to the device: a request is decided at
one moment.  The answer and exactly the changes that it calls applied appear
together; each of them lies above everything committed before, one revision above
the base that was sent, which no committed revision of the object exceeds;
everybody who asks under the key is then told the same, until the record is
forgotten.  The refinement (`PushesAreAtomic`) reads the decisions off
`idempotency_records` and the changes off the committed log; locks, waiting, items
half done, aborted attempts and repeats that find the key locked are stutters.

### RestoreJobs

`job` and `snap` are the rows of `restore_jobs` and `snapshots`, `snap[s].stored`
is the manifest object, and `worker[w].pc` is a worker's place in
`process_restore_jobs` (W:101-181), one action per transaction or object-store
call:

    claimed -CreatePreRestoreSnapshot-> renewing -RenewLease-> storing -StoreManifest-> marking
      -MarkSnapshotReady-> renewingAgain -RenewLease-> executing -ExecuteRestore-> applying
      -RestoreItem*, CommitExecution-> idle
    errors: StepFails -> retrying -RetryWithLease-> idle;  cancel seen -> cancelling -CancelWithLease-> idle

Lease tokens are numbers that are never used twice; `Holds(w)` is the WHERE
clause `status = 'running' AND lease_token = $2`, which the code repeats in
every statement and which does not look at the expiry.  `expired` and `due`
stand for the two timestamps.  Users and administrators may enqueue, cancel,
reopen, disable, purge, push and take snapshots between any two of these
steps.  What a restore appends (`Wanted` less `SameState`) follows the
queries of the execution: target rows, tombstones for objects the target lacks,
minus the objects already in that state.

`AtomicRestore` is what all this promises to who asks for a restore: a request
is pending with the contents it asked for, and is then restored at one moment -
what the project shows becomes exactly those contents, the generation moves on
and the project opens - or dropped without a trace.  The refinement
(`RestoresAreAtomic`) reads the state of a request off its job (`Fate`), what it
wants off the target (`TargetItems`), and what the project shows off the heads;
claims, take-overs, snapshots, manifests, the items that are applied, crashes and
retries are stutters.

### Replication

`call[d]` is the request being served for a device and `client[d]` what the
device keeps: cursor, page token, the pages so far and its copy.  The device
is not part of the repository; `NewClient`, `StartsOver` and `Applied` are
marked external and do what the API asks of a device.  Every request that
reads in two statements is two actions (`OpenPage`/`ServePage`,
`OpenPull`/`ServePull`), and everything `ProjectStore` can do may happen in
between.  Answers may be lost, manifests expire, calls fail.

### PayloadStore

One process per connection: uploads (`put_payload`, R:560-709, with
`put_payload_file` and `register_payload`), pushes that refer to a payload, and
workers, which run the purge of the project (`prepare_project_purge`, W:183-230) and
begin `cleanup_orphans` (W:411-484).

    upload:  UploadStart -> UploadLock -> StorePayload -> [CopyPayload -> VerifyPayload] -> RegisterPayload
             errors: StoreFails, RefuseToRegister;  the client goes away: Abandon
    push:    PushStart -> PushLook -> PushCommit
    purge:   DetachPayloads (or ResumePurge) -> DeleteKey* -> CompletePurge
    clean-up: StartCleanup -> CleanupFails

An upload holds the advisory lock of its hash from `UploadLock` to the end; the
project row is held by a push that has found its payload.  The purge takes neither
the advisory lock nor any notice of uploads: it deletes by key what had a row when
the project went.  `HalfStored` is what a call of the object store may have done
although it did not return: an object, a temporary object (`temps`), both or none.

`PayloadLock` opens its transaction with a plain `BEGIN`, of which the connection
pool keeps no account.  An early return that drops it, or a client that goes away
while the handler waits, sends the connection back with its transaction open and
its locks held: the advisory lock (`leaked`), the project row too (`refused`), or
even an inserted row (`inserted`).  So it stays until another request uses the
connection, and its `COMMIT` ends - and commits - the open transaction, or the pool
closes it (`ReuseConnection`, external).

`cleanup_orphans` expires pending snapshots and bootstrap manifests (modelled in
`RestoreJobs` and `Replication`) and then calls `expire_account_purge_exports`,
whose statement PostgreSQL refuses (section 6, 4).  W:424 returns that error.  What
the function has after that line - expired records, unused payloads, orphaned and
temporary objects - never runs, and has no action in any module.

### Sessions

One account.  `account`, `device`, `token` and `invitation` are its rows,
`call[c]` is what a connection of the API is doing, with the row locks its
transaction holds: `lock` on the user row, `holdsDevice`, `rows` of tokens.  A
transaction is one action per statement that may have to wait, and what it
writes becomes visible in its last one.

| actions | code |
|---|---|
| `CheckPassword`, `LockLogin`, `CommitLogin` | the login route reads the user and verifies the password outside any transaction; `create_login_session` then locks the user row and looks at status and device |
| `LockToken`, `LockUser`, `CommitRotation`, `CommitReuse` | `rotate_refresh_token_inner` (P:1326): the token row is locked and judged (first use, repeat within the 30-second grace period of a healthy family, reuse), then the user row, the device |
| `LogOut`, `LogOutByToken`, `RevokeDevice`, `UpdatePassword`, `DisableAccount`, then `BeginUpdate`, `UpdateRow`, `Commit*` | the revocations: each ends in one `UPDATE refresh_tokens` |
| `CheckInvitee`, `WriteInvitation`, `LockInvitation`, `Activate`, ... | invitations and what consumes them |
| `LockAccess`, `CommitAccess` | `validate_access`, run before every authenticated request |
| `Fails`, `DeadlockBroken` | a transaction rolled back; one call of a cycle of waiting calls failed by PostgreSQL |

Three database behaviours matter.  A bulk `UPDATE` works on the rows its
statement saw when it began (`todo`) and waits for each that another
transaction holds; a token inserted meanwhile is not among them.  The foreign
key of an audit row needs the user row, and waits for a transaction that holds
it `FOR UPDATE` (`lock = "update"`), but not for one that has merely updated it
(`"noKey"`).  And cycles of waiting are resolved by failing one call.  That a
device revocation, which locks nothing of the user, still leaves no session
behind rests on the last two: a login or a rotation that overlaps it waits for
the device row, and its audit row waits for the login.

### Purge

One account, its projects and their payload objects, the jobs that destroy
them, and the workers that run these (`process_purge_jobs` and
`process_account_purge_job`, W:183-330).

    project:  EnqueueProjectPurge -> Claim -> PrepareProjectPurge -> DeleteKey* -> CompleteProjectPurge
    account:  RequestExport -> Claim -> PrepareExport -> FetchPayload* -> StoreArchive -> CompleteExport
              StartConfirm, Confirm
              -> Claim -> PrepareAccountPurge -> DeleteKey* -> CompleteAccountPurge
    errors:   StepFails -> Fail;  Crash, LeaseExpires -> Claim

"Prepare" is the transaction in which the rows go and the keys of the objects
are put into the job (`detached`, `keys`).  A confirmation is two actions,
because its checks are made before it waits for locks.  `Holds(w)` is the WHERE
clause on the lease with its expiry, `Owns(w)` the one of the two `fail_*`
statements, which look at the token only.  Around the workers an upload in its
three steps, `disable_project`, the administrator's status changes and the seven
days of an export, which end without a trace in its row but for the time: the
clean-up that would mark it expired, and that would sweep orphaned objects, ends
before (section 6, 4).  A fault (crash, a lease that ends under a living worker, an
error of a store) counts against the job it hits in `failures`.  The history
`orphans` names what is still in the store of objects that no job is to delete:
those of uploads that found their project closed, and archives that a worker stored
after it had lost the lease.

`AtomicPurge` is what all this promises to who asks for a purge.  From the moment
a request is accepted nothing is registered under the projects it covers, and an
account's request is accepted only when no other is under way and its archive is
there, and is the last.  The rows that a request covers disappear from the
catalog, with the projects, at one moment, once, and together; for an account only
while the archive is kept.  A request that is done has left no object that it
covers, and at no moment does the catalog name an object that is gone.  The
refinement (`PurgesAreAtomic`) reads the state of a request off its job
(`RequestOf`: an exporter's job is nobody's request, and "destroyed" is
`detached`), the catalog off the payload rows, and leaves out of the objects what
no request promises to delete and has no row (`LeftBehind`: uploads under way or
that found their project closed, the keys of failed jobs, archives stored without a
lease).  Claims, leases,
take-overs, retries, uploads and deletions key by key are stutters of the catalog.

## 3. The runs

| run | question | bounds | distinct states | result |
|---|---|---|---|---|
| `push_protocol` | Do pushes that are repeated, run at once, wait for a restore or fail keep their promises, and implement the store? | 1 device, 2 keys contending for 1 object, 2 calls, 3 changes, 2 generations | 88,732 | holds |
| `restore_workers` | Do two workers with crashes, stalls and take-overs apply each job once, undoably, and honour cancellations? | 2 jobs, 2 workers, 1 change, 3 generations, 3 leases, 1 fault | 1,217,365 | holds |
| `restore_reopen` | Is a restore atomic for who asked for it, with retries, reopening, user snapshots and pushes around it, and can it be undone? What is the only way to get stuck? | 2 jobs, 1 worker, 2 changes, 3 generations, 5 leases, 2 snapshots | 2,044,828 | holds |
| `restore_liveness` | Does every accepted restore end?  Is an expired snapshot, whose manifest is deleted, ever taken for ready, even if a worker stalls for a day? | 1 job, 2 workers, 5 leases, 1 fault, stalls past the expiry | 201,811 | holds |
| `replication` | Is a device's copy always the project at its cursor, and does it catch up?  Do the tables stay consistent, and does the store implement `ChangeHistory`? | 2 objects, 1 writer, 1 device, pages of 1, 3 changes, 2 generations, 1 fault | 1,095,968 | holds |
| `payload_store` | Has every revision its row and every row its object, whatever fails or goes away, and does a leaked lock keep anybody waiting for ever? | 1 hash, 2 uploads, 1 push, 1 worker, 3 faults | 12,870 | holds |
| `sessions` | Do revocations, password changes and suspensions end every session they should, whatever logins and rotations overlap them, and do prompt repeats keep a client signed in? | 1 device, 2 calls, limit 2, 3 tokens, 2 passwords, 2 invitation tokens | 2,209,326 | holds |
| `purge` | Is a purge atomic for who asked for it, does it leave nothing when it succeeds and destroy nothing that was not exported, and do only faults make it fail? | 1 project, 1 hash, 3 jobs, 2 workers, 2 attempts, 1 fault | 562,572 | holds |
| `cancelled_retry` | Has a project in maintenance always a way out? | 2 jobs, 1 worker, no faults | | violated, section 6 |
| `stalled_worker` | Is the pre-restore snapshot mandatory, as its comment says, even if a worker stalls for a day? | 1 job, 2 workers, no other faults | | violated, section 6 |
| `purge_retry` | Can an account purge be retried after one fault, as the documentation says? | 1 project, 1 hash, 2 jobs, 1 worker, 2 attempts, 1 fault | | violated, section 6 |
| `payload_orphans` | Does the clean-up collect what uploads left behind, as its comments say? | 1 hash, an upload, a push and a worker, 1 fault | | violated, section 6 |

What the properties say:

* **`ChangeLogIsGapless`**: a pull cursor is a sequence number, so the sequences
  of the log are exactly 1 .. change_seq, although they are counted inside
  transactions that may roll back.  **`HeadIsLatestRevision`**: the redundant
  head row agrees with the revisions.  **`RevisionsAreChained`**: each revision
  stands on the one before it, in the order of the log - no lost update.
  **`ImplementsHistory`**: the committed log never changes except at its end.
* **`AppliedAtMostOnce`** spans the whole behaviour: repeats at the same time,
  after the answer, after the record expired, across a restore.
  **`OneAnswerPerRequest`**: while the record lives.  **`PushesAreAtomic`** is the
  refinement of `AtomicPush`: what an answer calls applied, and nothing else of the
  request, is committed with it, so a client that is told `applied` may drop its
  local change, and one that is told anything else must not.
  (`AcknowledgedIsCommitted`, the half of it about the answers, is a property of
  the module and a theorem, and not run again.)
  **`NoPushCrossesARestore`** and **`OnlyBootstrappedDevicesWrite`**: what was
  checked holds at the commit, although the call waited for the row.
  **`StoreSpec`**: push does to the store only what the store's contract allows.
* **`EachRestoreAppliedOnce`** ties generation to succeeded jobs.
  **`RestoreIsUndoable`** compares the committed heads at the instant of the
  commit with the snapshot taken transactions earlier, perhaps by another
  worker.  **`RestoresAreAtomic`** is the refinement of
  `AtomicRestore`: the living objects after the commit are those the target had
  when it was asked for, however the log grew in between, and no other step of
  the machinery is seen by anybody.  (`RestoreReachesTarget`, its part about the
  commit alone, is a property of the module and a theorem, and not run again.)  **`CancelledNeverSucceeds`** and **`EveryRestoreEnds`**;
  **`ReadySnapshotIsStored`**, checked with stalls of a day: the clean-up fails a
  pending snapshot and deletes its manifest in separate steps, while a worker may be
  about to mark it ready; and **`StuckOnlyByCancelledRetry`**, which pins the known
  defect down: there is no other way into maintenance without a way out.
* **`ReplicaIsPrefix`**: the copy equals the last change per object up to the
  cursor.  **`CompletionIsOfGeneration`**: a device that is allowed to push in a
  generation has been shown at least the state that began it.
  **`DevicesCatchUp`**: a device of a project that stays open is up to date again
  and again.
* **`OneSuccessor`**: of all refreshes of one token, however they overlap, only
  one is its first use; the rest are grace rotations or reuses.
  **`RevokedDeviceHasNoSession`**, **`DisabledAccountHasNoSession`** and
  **`OldPasswordHasNoSession`** relate what one transaction wrote to what all
  transactions that overlapped it inserted.  The last has an exception, `late`:
  a login whose password was verified before the change and whose transaction
  follows it (`create_login_session` does not look at the password again).
  **`CalmClientStaysSignedIn`** is the purpose of the grace period: if a client
  only logs in and repeats refreshes in time, no family is revoked, unless the
  repeats filled it.  **`VoidInvitationNeverActivates`** and
  **`AccessIsOfActiveDevice`** are about the instant of a commit.
* **`SucceededPurgeLeftNothing`** spans all attempts of a job: each key detached
  by the first is deleted by some worker before the job succeeds, although
  leases are lost on the way.  **`PurgesAreAtomic`** is the refinement of
  `AtomicPurge`: it relates what is registered, destroyed and deleted to what was
  asked for and when, over all jobs and uploads.  It includes that the archive of
  the first phase is kept for the job of the second, with stale exporters, other
  purges and expired exports in between.
  (`DestroyedOnlyIfExported`, its part about the archive alone, is a property of
  the module and a theorem, and not run again.)
  **`PurgeFailsOnlyByFaults`**: workers never use up each other's attempts.
* **`CatalogIsStored`**: a committed revision has its payload row and a row its
  object.  It spans uploads that fail or are abandoned at any point, a row that
  somebody else's `COMMIT` publishes, and a purge that deletes an object while an
  upload of the same hash has found it there or has just copied it.
  **`RequestsAreAnswered`**: a lock that went back to the pool keeps no upload, no
  push and no purge of the project waiting for ever.

Each property of a passing run has a mutant: a plausible error in one mapped
definition (the definitions commented "Mutant:" in the modules), under which
TLC finds that property violated.  Among them: a sequence drawn from an SQL
sequence that rollbacks do not take back, last-writer-wins instead of
compare-and-set, only successes remembered, a take-over that keeps the dead
worker's token, execution without the lease or cancellation check, a page that
does not compare generations, a page token that repeats its page's offset, a cursor that
names the project's sequence, a copy whose error is ignored like that of the
deletion after it, an advisory lock that outlives its transaction, an account
without a password that any password opens, a snapshot marked ready whatever has
become of it, a token or an invitation read without `FOR UPDATE`, a login that does not look at the status again, tokens
revoked before the password is written, an archive that is not among the keys,
and an upload that registers without looking at the project again.

## 4. Bounds

Every bound is a named constant: `MaxSeq` (changes of a behaviour; an append
beyond it is disabled), `MaxGeneration`, `MaxSnapshots`, `MaxUserSnapshots`,
`MaxLeases` (lease tokens issued), `MaxTokens`, `MaxPasswords`, `MaxInvitations`
(rows and secrets issued), `MaxFaults` (crashes, stalls, lost answers, store
errors), and the sizes of the sets.  `MaxAttempts` (5 in the code), `Limit` and
`RetryLimit` are parameters of the code.  `MaxSeq` and `MaxGeneration` stand in
the guards of `Revise` and `CommitRestore`, so where they are reached a
transaction may only roll back, abort or, if its work is done, commit.

* Store (in `replication` and below push and restore): 2 objects are what it
  takes to tell "the object's revision" from "the project's sequence"; 3 changes
  give one object two revisions with another's in between.  The theorems of
  section 7 remove the bounds for the invariants.
* Push: two keys and one object make two calls contend for the same
  compare-and-set; a batch that creates and deletes the object has an item
  that stands on its predecessor; one device suffices because a second one
  differs from a second key only in its completion, and a restore makes that
  completion stale too.  Generation 2 is reached by a restore during a wait.
* Restores: with 2 workers and 3 leases a job can be taken over and the first
  worker still be running, and a second job can follow; one fault is the stall
  or crash that starts it.  Retries need no fault (`StepFails` is not bounded),
  so `restore_reopen` reaches three attempts, failure and reopening with
  `MaxFaults = 0`; 5 leases leave two for the other job.  In `restore_liveness`
  5 leases are more than the claims a job can use (three attempts and a
  take-over), so that running out of tokens does not end a behaviour early.
* Replication: pages of one record and three changes give bootstraps and pulls
  of several requests; generation 2 puts a restore in between.
* Payloads: hashes share nothing but the project row, so one hash with two
  uploads, a push and a purge holds every interleaving on a hash; three faults are
  two clients that go away and a failing object store.

* Sessions: two calls are what every race of two transactions takes, and a
  deadlock; three tokens are a token, its successor and its grace rotation, or
  two families; with `Limit = 2` a family can be full; two passwords and two
  invitation tokens are an old and a new one.  The theorems hold for any number.
* Purge: three jobs are an export whose seven days end or that fails, the one that replaces
  it and the purge, or a purge of the project before them; two workers are one
  that has lost its lease and one that took over; two attempts and one fault
  reach a retry and, where it fails without a fault, a failed job.

Symmetry is used only where no liveness property is checked, over identifiers
(calls, keys, workers, jobs, hashes) that no operator orders.

`Purge` is checked without deadlock detection: when the account is deleted and
no fault is left, nothing remains to be done.

## 5. Fairness

Three runs use fairness, and each assumption has a reason in the code.

* `RestoreJobs`: `SF(WorkerStep(w))` - a live worker polls every five seconds
  (W:57-96) and goes through its steps in sequence; PostgreSQL queues the
  waiters of a row lock, so a worker that finds the row taken again and again
  is served.  A crash is a step back to idle, that is, the restarted worker.
  `WF(LeaseExpires)`, `WF(RunAfterPasses)`: time passes.  `WF` of a client's
  commit: requests end.
* `Replication`: `SF(DeviceStep(d))` - a device goes on asking; `WF` that the
  holder of the project row ends its transaction.
* `PayloadStore`: `SF(UploadProgress(u))`, `SF(PushProgress(p))` - a request that
  has begun goes on, and PostgreSQL queues the waiters of a lock;
  `SF(PurgeStep(w))`, `SF(CleanupStep(w))` - the worker's loop takes jobs and begins
  a clean-up every hour, which fails every time; `WF(ReuseConnection)` - the pool
  hands the connection out again, or closes it when it has been idle.  Without
  `ReuseConnection` `RequestsAreAnswered` would be false: a dropped `PayloadLock`
  keeps its locks for as long as nobody uses its connection.  `payload_orphans` is
  refuted under this fairness: the clean-up runs again and again, and orphans stay.

Nothing is assumed of users, administrators, status changes or faults.
`PushProtocol`, `Sessions` and `Purge` are checked for safety only: their calls
may fail for ever, and `PurgeFailsOnlyByFaults` says what a liveness property of
the purge would rest on.

## 6. Where code and documents disagree

Four runs check a statement of the repository and find it violated.

1. **An account purge cannot be retried** (`purge_retry`).  The transaction of
   `prepare_account_purge` deletes the account's rows and replaces the job's
   payload by one that has no `phase` (P:4016).  Every attempt begins with
   `account_purge_phase`, which accepts `export` and `purge` only.  After one
   crash or store error between that commit and the end, all further attempts
   are refused until they are used up: the objects and the archive stay, and
   the account is `deleting` for good.  `docs/self-hosting.md:179` says that a
   purge that failed stays `deleting` and can be retried or resumed, and P:4089
   calls it "a bounded account purge retry".  `PurgeFailsOnlyByFaults` holds with
   exactly this case excepted.
2. **A cancelled retry leaves the project closed** (`cancelled_retry`).  A claim
   puts the project in maintenance; a failed step sends the job back to
   `queued`; `cancel_restore` (P:2641) treats every queued job as one that has
   not begun and only marks it cancelled.  No job is left, and
   `reopen_failed_restore` wants a failed one.  `docs/self-hosting.md:161` says
   that a cancelled job reopens the project.  `StuckOnlyByCancelledRetry` shows
   that this is the only such way.
3. **The mandatory snapshot may be missing** (`stalled_worker`).  If a worker
   stalls for 24 hours between taking the snapshot and marking it ready,
   `expire_pending_snapshots` fails it, `mark_snapshot_ready_for_job` updates no
   row without noticing, and the execution does not look at it.  P:2751 calls
   the snapshot mandatory.  With `StallsPastExpiry = FALSE` the other runs check
   that nothing shorter than such a stall leads there.
4. **The clean-up never gets to its payloads** (`payload_orphans`).  The statement
   of `expire_account_purge_exports` (P:3590-3598) is joined from lines that end in
   a backslash and have no space before it: PostgreSQL is sent `...
   account_purge_exports eWHERE e.expires_at <= CURRENT_TIMESTAMPAND ...`, a syntax
   error whatever the tables hold.  W:424 passes it on with `?`, and every
   `cleanup_orphans` ends there.  O:524 says "Deletes stale temporary or
   content-addressed objects that have no database reference.", P:3583 "Marks
   expired account exports and returns their detached object keys for deletion.".
   What a failed upload left in the object store, temporary objects, expired
   idempotency records that no push comes across, and the archives of expired
   exports stay.  There is a second obstacle behind it: `unreferenced_payload_key`
   (P:657) asks `FOR UPDATE` as `tasktips_worker`, to which M:1035 grants `SELECT` and
   `DELETE` on `payloads` only, and PostgreSQL refuses such a lock without `UPDATE`.

Behaviours that surprised us and contradict no document:

* A refusal for maintenance is stored under the request key and replayed for 30
  days although its answer says `retryable` (`OneAnswerPerRequest` states exactly
  this).
* `reopen_failed_restore` accepts any failed job of the past while another
  restore runs (`RestoreIsUndoable` and `RestoreReachesTarget` hold all the same,
  because the execution checks the status again; the job retries or fails).
* `disable_project` (P:2107) updates the status unconditionally: a project that
  is being deleted becomes `disabled`, `prepare_project_purge` answers `Conflict`,
  and the purge job fails without a fault (`undone` in `PurgeFailsOnlyByFaults`).
* An exporter that has lost its lease still stores its archive; once the purge
  has deleted the one it knows, nothing deletes this one (`orphans`).
* A retried export finds the archive of the attempt before, which never equals
  the new one (the tar headers carry the times of temporary files), and fails
  until the attempts are used up, unless the account has no payloads.
* In the reuse path of a rotation the error of the audit insert is ignored
  (P:1411), but it has aborted the transaction, and the revocation with it.  The
  insert can fail: it waits for the user row, and PostgreSQL breaks a deadlock with
  `admin_set_account_status` there, which holds that row and waits for the token.

## 7. What is proved

Eight modules hold proofs.  They hold for any sets of objects, contents, calls,
devices, workers, jobs, snapshots, tokens, payloads and projects, and any
bounds; all that is assumed are the named assumptions of the modules on their
constants (`StoreAssumption`, `PushAssumption`, `RestoreAssumption`,
`ReplicationAssumption`, `PayloadAssumption`, `SessionAssumption`,
`PurgeAssumption`, `TargetAssumption`, `PoolIsFinite`: that identifiers and kinds
of processes differ, that numbers are numbers, that a batch is a sequence of
items, that the API's pool has finitely many connections), which TLC evaluates
in every run.  One theorem, `RestoresCanBeUndone`, has a hypothesis of its own,
`~StallsPastExpiry`.

| module | theorem | statement |
|---|---|---|
| `ProjectStoreProofs` | `StoreCorrect` | `StoreSpec => []StoreInvariant` |
| | `StoreTypes`, `LogGapless`, `HeadsLatest`, `NoLostUpdate` | the parts of it that the runs check |
| | `StoreExtends` | `StoreSpec => []Extends(work, store)` |
| | `StoreImplementsHistory` | `StoreSpec => ImplementsHistory` |
| `PushProofs` | `PushImplementsStore` | `PushSpec => StoreSpec` |
| | `PushImplementsHistory` | `PushSpec => ImplementsHistory`, by the two refinements |
| | `PushCorrect` | `PushSpec => []PushInvariant` |
| | `PushImplementsDecision` | `PushSpec => PushesAreAtomic` |
| | `PushTypes`, `OnceOnly`, `OneAnswer`, `WithinGeneration`, `BootstrappedOnly` | the invariants of `push_protocol` |
| | `Acknowledged` | `PushSpec => []AcknowledgedIsCommitted` |
| `RestoreProofs` | `RestoreImplementsStore`, `RestoreImplementsHistory` | the two refinements |
| | `RestoreCorrect` | `RestoreSpec => []RestoreInvariant` |
| | `RestoreTypes`, `AppliedOnce`, `CancellationHolds`, `SnapshotStaysStored`, `StuckOnlyThatWay` | the invariants of the restore runs |
| `RestoreOutcomeProofs` | `RestoresImplementPromise` | `RestoreSpec => RestoresAreAtomic` |
| | `SnapshotShowsTheReplaced` | `RestoreSpec => []UndoHeld`, stalls or not |
| | `RestoresCanBeUndone` | `RestoreIsUndoable`, if no worker stalls for a day |
| | `RestoresReachTheirTarget` | `RestoreReachesTarget` |
| `ReplicationProofs` | `ReplImplementsStore`, `ReplImplementsHistory` | the two refinements |
| | `ReplCorrect` | `ReplSpec => []ReplInvariant` |
| | `ReplTypes`, `CopiesAreExact`, `CompletionsCurrent` | the invariants of `replication` |
| `PayloadProofs` | `PayloadCorrect` | `PayloadSpec => []PayloadInvariant` |
| | `PayloadTypes`, `CatalogStored` | the invariants of `payload_store` |
| `SessionProofs` | `SessionCorrect`, `LocksExclude` | `SessionSpec => []SessionInvariant`, and its lock part |
| | `SessionTypes` | `SessionSpec => []SessionTypeOK` |
| | `RotatedOnce`, `RevocationEndsSessions`, `DisablingEndsSessions`, `PasswordChangeEndsSessions`, `GraceKeepsSessions` | the invariants of `sessions` |
| | `AccessIsCurrent`, `VoidInvitations` | its two action properties |
| `PurgeProofs` | `PurgeCorrect` | `PurgeSpec => []PurgeInvariant` |
| | `PurgeTypes`, `SucceededLeavesNothing`, `FailsOnlyByFaults` | the invariants of `purge` |
| | `ExportedFirst` | `PurgeSpec => []DestroyedOnlyIfExported` |
| | `PurgeKeepsPromise` | `PurgeSpec => PurgesAreAtomic` |

None of the properties is inductive by itself.  What each inductive invariant
adds, and why:

* **Store.**  A commit makes `work` the committed store, so all facts must hold
  of `work` too; and an append keeps them only together: the new revision is one
  above the head, so "chained" needs "the head is the latest revision", and that
  needs all sequences of the log to lie below the next one, which is "gapless".
  `StoreInvariant == StoreTypeOK /\ Sound(store) /\ Sound(work)`.  For the
  refinement, `Extends` says that uncommitted tables only add to the committed
  ones, so that a commit appends to the history.
* **Push.**  `KeysHeld`: while a call has a key there is no record and no other
  call under it - from which one answer follows.  `BatchHeld`: what a call has
  worked off and what is left make up its batch, its results are in `work`, its
  generation is the current one and its device has bootstrapped it - read before
  the wait for the row, and true at the commit because the checks come after it.
  `AppliedHeld`: what was applied is in the log one revision above the base the
  client named, so a second application would make two revisions of one number,
  which "chained" excludes; and it lies between the beginnings of its generation
  and the next.
* **Pushes are atomic.**  The refinement needs the other half of "its results are
  in `work`": nothing else is.  `BatchIsAll`: `work.log` is the committed log and
  the changes the results call applied (`ChangesOf`), so that the commit adds these
  and no more.  That they stand on all that was there follows from "chained" of the
  new log, since their sequences are above the committed ones.
* **Restore.**  `LeaseHeld`: no two workers have one token, and the worker that
  applies a restore holds the project row and the lease.  `JobsHeld`: at most one
  job is active, the generation it found when it was claimed is the current one,
  and the generation counts the successes; from the two, a stalled worker cannot
  commit.  `SnapshotsHeld`: the snapshot a worker is about to mark ready is
  stored or has failed already.
* **What a restore leaves behind.**  Three invariants on top of it.  `UndoHeld`:
  the snapshot a worker carries shows the heads, sequence and generation of the
  store as long as the worker has the lease *and* the project is in maintenance.
  Both conditions are needed: a project that an administrator reopens moves on,
  and one that was reopened is not closed again before that job has ended
  (`ClosedBefore`, `HeldBefore`).  `UndoReady`: no clean-up fails that snapshot -
  the only place where `~StallsPastExpiry` is used, and the run `stalled_worker`
  shows that it cannot be left out.  `ReachHeld`: while a worker applies, each
  object without an item left in its plan shows in `work` what it shows in the
  target; the plan is complete because no change has revision 0
  (`PlanIsComplete`), each item settles its own object and disturbs no other
  (`RevisedShows`, `ItemSettles`), and nobody else touches the tables meanwhile
  (`HeldTables`).
* **Restores are atomic.**  The refinement needs, besides `ReachHeld`, that a
  target keeps its contents from the request to the commit (`TargetsKnown`): a
  snapshot never changes its items, and the rows ranked at a sequence stay the
  same because the committed log grows above it only (`Extends`, `RankedStays`).
  `JobFates` reduces every step to one of four: all requests stay, one more, one
  dropped, or one executed; `TableFates` says that only a client's commit and an
  execution change what the project shows.
* **Replication.**  `Captured(m)`: the items of a manifest that a call or a token
  names are the project at the manifest's sequence, and its generation began at
  or before that.  It is true when the manifest is captured, under the row, and
  stays true because the committed log only grows (`Extends`, `RankedStays`).
  `DevicesHeld` carries it through the pages to the copy; `PullContinues` says
  that a pull goes on from there, which needs the log to be gapless.
* **Payloads.**  The locks are derived from the places of the processes; `HashLock`
  and `ProjectLock` say that they exclude each other, leaked or not.  `FactsHeld` is
  what a process has found and can rely on while it has its locks: a push the row of
  its payload, an upload the object it has found or verified - unless the project is
  gone, in which case it will be refused - and so will an inserted row have an object
  if somebody's `COMMIT` publishes it.  Without the project row this would not be
  enough: the purge takes no advisory lock, but it deletes objects only of a project
  that is gone (`purging` in `Fact`).  A step changes the data in one of three ways
  (`Changes`): the catalog grows, each row after its object; objects go under a
  project that is gone; or the project changes its status, and nobody holds its row.
* **Sessions.**  `CallHeld` says what a call has read that is still true while it
  holds its locks: the account is active while somebody holds its row `FOR
  UPDATE`; the token a refresh judged is as it was; and a bulk update has, or
  will have, each token that must end with it (`Reached`, `Covers`).  The last is
  where the races are: a token that a login or rotation inserts while the update
  runs would be missed, so the proof shows that the insert waits for the user or
  device row that the revoking transaction holds.  `CalmHeld` says that every
  family has an unused member and that only a full one is being revoked.
  The types of session rows (`SessionTypeOK`) need a counting argument: token
  ids, passwords and invitation tokens are drawn below a bound that the guards
  test when a call *begins*, so `Room` keeps the number of calls under way that
  may still insert a row within what is left of the bound; it counts calls, hence
  `PoolIsFinite` (`PgPool::connect`, P:719, makes a bounded pool).
* **Purge.**  `Accounted` gives each object a place: it has a row, is an orphan,
  is an upload's, or is among the keys of a job that has not succeeded.  That a
  worker has deleted its part is `DeletedHeld`, and that the object does not come
  back is `RowsHeld` (its project is gone, so no upload can register it).
  `OnePurge` and `DetachedOnce` say which jobs exist together and that no key is
  in two of them, `ConfirmingHeld` and `PurgerHeld` carry the export from the
  checks of the confirmation to the destruction, and `CountHeld` ties `attempts`
  to `failures`: an attempt that has met no fault is that of a worker that holds
  its lease.
* **Purges are atomic.**  The refinement adds `AskedHeld`: the projects of a
  request are never active again (`NeverActiveAgain`: `disable_project` may take
  one out of "deleting", but nothing makes it active), so nothing is registered
  under them, and a job that ends well has detached its keys.  From it and
  `PurgeInvariant` follows what `AtomicPurge` demands of every state
  (`PromiseKept`); `OthersAskNothing` reduces the steps to those that touch a
  request, and `DestructionDestroys` shows that the rows the transaction selects
  are those the request covers, although uploads went on until it was accepted.

A proof that a step preserves an invariant goes through the actions by what they
change: lemmas such as `WhoChangesJobs` or `StepMoves` reduce a step to the few
forms of change of one row, and the parts of the invariant are shown for these.

Only model-checked: liveness (`EveryRestoreEnds`, `DevicesCatchUp`,
`RequestsAreAnswered`; the provers at hand do not treat fairness and ENABLED).
Every other property of a passing run is a theorem.

## 8. What is not modelled

* Data: contents, names, sizes, media types, JSON.  A body is a content hash or
  the tombstone; two requests have the same hash exactly if they are equal.
* Limits on sizes and pages, row-level security, roles: enforced before or
  around the operations, without state of their own.
* Cursor encryption: a token carries what it names.  Time: expiries are
  booleans or ages, and an action lets them pass.
* The download of payloads, and the part of `cleanup_orphans` behind W:424, which
  no run of the program reaches: `PayloadStore` is marked partly.
* Of sessions: the expiry of tokens (it only refuses), the registration switch,
  `X-Reauth-Nonce`, the administrator's own sessions and roles.  Three hazards
  are listed without a property: a family's revocation that misses a token not
  yet committed, the soft limit of a family, and the failing audit insert; each
  with the reason in `PROJECT.json`.
* Of purges: the check for restore jobs in the confirmation, the one-minute delay
  before a retry, snapshots and manifests (deleted with the payload objects, in
  the same loop), the request's own idempotency.
* Rate limits (one atomic statement each), audit rows, metrics, lists, schema,
  contract, front end, deployment: no protocol of their own.

Two assumptions about the surroundings: PostgreSQL gives READ COMMITTED, row
locks and advisory locks as documented, and the object store is consistent (a
get after a put sees the object).

## 9. Plan

1. The rest of `cleanup_orphans`, once its statement is repaired: it lists unused
   rows and old objects and deletes them later, against uploads and pushes that take
   them into use, and against confirmations of the exports it expires.
2. An expiring access token next to `Sessions`, if the code begins to keep state
   for it.

## 10. Running it

In this directory:

    tlc -workers 2 -config MCPushProtocol.cfg MCPushProtocol.tla
    tlc -workers 2 -config RestoreWorkers.cfg MCRestoreJobs.tla
    tlc -workers 2 -config Purge.cfg Purge.tla
    tlapm ReplicationProofs.tla
    tlapm RestoreOutcomeProofs.tla

`PROJECT.json` lists the module and configuration of every run.  The longest
runs take one to two minutes; the proofs of a module take between half a
minute and a few minutes.
