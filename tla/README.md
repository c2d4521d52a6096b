# Verification of the Django Ninja API starter

TLA+ models of the parts of this service whose correctness depends on the order
in which web processes, Celery workers, periodic tasks, PostgreSQL, the broker
and the object store do things; TLC runs that check them on small instances;
and TLAPS proofs of the properties that matter most for instances of any size.
Source paths below are relative to the repository.

## Inventory

| Component | State | Operations | Hard behaviour | What makes it correct |
|---|---|---|---|---|
| Export jobs (`organizations/export_tasks.py`, `api_export.py`) | `ExportJob` rows, objects under deterministic keys, Celery messages, PostgreSQL session advisory locks | create, retry, publish, generate with heartbeats, mark READY or FAILED, recover stale jobs, clean up expired ones | duplicate and lost messages, worker loss, hard time limit, lost connections, overlapping maintenance runs | one attempt at a time; a READY export has its object, unless its publication was interrupted; an EXPIRED one has none; an attempt keeps its job; every job settles |
| Sessions and tokens (`accounts/services.py`, `core/authentication.py`) | `AuthSession` rows, `auth_version`, blacklisted refresh tokens | login, refresh with rotation, replay, logout, authentication, revocation of all sessions, cleanup | reads before the transaction, logins overtaken by a password change, full-row saves | what a change of the account or a logout ended stays ended |
| Account operations (`accounts/operations.py`) | pending registration, password reset and email change rows, user rows | rotate, deliver, cancel, confirm | two confirmations of one token, confirmation against rotation, two accounts claiming one address, failed delivery | a token works once and only the newest one does; an email change dies with the credentials that asked for it |
| Organization ownership (`organizations/services.py`, migrations 0003, 0004) | memberships, roles, active users | change role, remove, deactivate, delete account, create organizations | write skew between transactions, commit-time triggers, lock order | every group has an active owner; no deadlock |
| Idempotent requests (`core/utils/idempotency.py`, `core/tasks.py`) | idempotency records, transaction advisory locks | run or replay a keyed request, expire, clean up | concurrent duplicates, failure after the operation, expiry during a request | an operation takes effect at most once per key and its reply is the one replayed |
| Image relations (`images/operations.py`, `images/api/`) | relations of images to contacts and the organization, with order and cover; row locks | attach, detach, reorder, set and unset the cover, delete images | concurrent changes of one object, deletion of its images in between | distinct places, one cover, no unique constraint hit |
| Image objects (`images/services.py`, `images/api/uploads.py`, `audit_media`, `backfill_image_variants`) | image rows, objects in the private bucket | single, bulk and keyed upload, deletion, audit, backfill | objects and rows change in separate steps; calls fail or lose their reply | no row without object, no unexplained object, truthful reports |
| Contacts and avatars (`contacts/`, `core/utils/avatar.py`, `accounts/users_api.py`) | contact and user rows, avatar files in the public bucket | CRUD, replacement and removal of the avatar | full-row saves of stale reads, files replaced around the update of the row | a named avatar can be fetched, no unexplained file, unique slugs |
| Usernames and personal organizations (`accounts/models.py`, `accounts/username.py`, `organizations/services.py`) | user and organization rows, two unique indexes | register, retry, rename, delete | insert conflicts inside a transaction, renames and deletions in between | unique names; every account has its personal organization under its username |
| Tags (`tags/`) | tags and tagged items | CRUD, assignment by name, removal | two assignments creating one tag, deletions and renames in between | an assignment answers the truth; items go with their contact |
| Scope and authorization (`organizations/scope.py`) | none of its own | resolve the organization and role of a request | membership changes during a request | nothing crosses organizations |
| Email, image processing, settings, throttles, health, error reporting, schemas, admin listings, scripts | none that matters here | | | |

How they interact: every component reads and writes PostgreSQL, mostly in
READ COMMITTED transactions of one request; requests publish Celery messages
to Redis; workers and Beat's periodic tasks run beside the requests; objects live in
S3-compatible buckets outside any transaction. Account operations call
`revoke_all_sessions` of the session component; deactivation and account
deletion first ask the ownership component; deleting an organization deletes its
export, image, contact and tag rows but none of the objects these name; bulk
uploads run under the idempotency lock; deleting a contact deletes its tagged
items, its avatar, and not its image relations.

## Plan

The order in which the models were written, and what comes next.

1. `ExportJobs` with the abstract `ExportLifecycle`, and `ExportJobsProofs`. Done.
2. `AuthSessions` with the abstract `SessionAccess`, and
   `AuthSessionsProofs`. Done.
3. `AccountOperations` with the abstract `SingleUseTokens`, and
   `AccountOperationsProofs`. Done.
4. `OrgOwnership`, and `OrgOwnershipProofs`. Done.
5. `Idempotency` with the abstract `AnswerLog`, and `IdempotencyProofs`. Done.
6. `ImageRelations`, and `ImageRelationsProofs`. `MediaObjects`, and
   `MediaObjectsProofs`. Done.
7. `Contacts`, `Tags` and `AccountNames`, composed in `OrgRecords`, and
   `OrgRecordsProofs`. Done.

## Exports: `ExportJobs`, `ExportLifecycle`, `MCExportJobs`, `ExportJobsProofs`

### State and actions

One action is one committed statement or transaction, one object-store call or
one broker call; everything between two of them is invisible to other
processes. Row locks of this component are held for exactly one action.

| Model | Code |
|---|---|
| `status`, `activity`, `expires` | `ExportJob.status`, the age of the time stamp that `is_export_job_stale` reads, the time left to `expires_at` |
| `stored` | objects in the private bucket under `exports/<org>/<job>.zip` |
| `queue`, `lock` | messages of a job in the broker, holder of its session advisory lock |
| `wpc`, `wjob`, `wage`, `wsaved`, `wconn` | a worker inside `export_org_data_task`: statement, job, time since the task started, whether it saved an object, whether its database session lives |
| `ppc`, `pjob`, `ptodo`, `page` | a request in `create_export`/`retry_export`, or a run of `recover_stale_exports`: statement, job, ids read, time since its `now` |
| `cpc`, `cjob`, `ctodo` | a run of `cleanup_expired_exports` |
| `CreateExport`, `RetryExport`, `StampQueued`, `Send`, `SendFails`, `RefuseExport` | `create_export`, `retry_export`, `enqueue_export_job` |
| `ScanStale`, `RecoverJob`, `SkipRecovered`, `EndRecovery` | `recover_stale_exports` |
| `TakeJob` ... `EndTask` | `export_org_data_task`, `_heartbeat`, `_mark_export_ready`, `export_job_lock` |
| `ScanExpired` ... `EndCleanup` | `cleanup_expired_exports` |
| `WorkerLost`, `HardTimeLimit`, `LoseConnection`, `LoseMessage`, `PublisherCrash`, `CleanerCrash` | the environment: a killed worker's message is redelivered (`acks_late`, `reject_on_worker_lost`), one killed by the hard limit is acknowledged |
| `DeleteRow`, `Tick` | deletion of the organization; one unit of time |

| `MarkReadyInterrupted`, `MarkReadyReplyLost`, `interrupted` | an exception between the commit of READY and the end of the `try` block; history of the exports it met |
| `TaskRaises` | an exception in a statement outside the `try` block |

Abstractions. Absolute times are ages, saturated at `AgeCap` and 0 where
nobody reads them; a process that is done with a job forgets it. `object_key` is the deterministic key exactly while a row is
READY, so it is not a variable; storage overwrites, so a save returns the name
it was given. Archive contents, attempt counts, error texts and the
notification email are left out. `Tick` waits for tasks at the hard limit,
because Celery kills them there; settings refuse a `StaleAfter` that does not
exceed it (`StaleAfterAssumption`).

A message that is delivered between the FAILED update of an attempt and the
release of its lock, as after an immediate retry, is dropped by `DropDuplicate`
and the job waits for recovery. That is a delay, not a loss, and the liveness
run includes it.

### Runs

Every instance has `TaskTimeLimit = 1`, `StaleAfter = 2`, `Retention = 1`: the
smallest values where an attempt can be old but not stale, a job stale, and an
export ready but not expired. `QueueCap` bounds the waiting messages of a job
(two are needed for a duplicate) and `MaxFaults` the crashes, losses and failed
calls of a behaviour. One job is used: jobs share nothing but workers and the
loops of the maintenance tasks, whose per-job steps are separate actions. Two jobs
exceed five million states. Overlapping runs of one maintenance task are left to
the proofs, which hold for any number of them.

| Run | Instance | Shows |
|---|---|---|
| `exports_safety` | 2 workers, 1 request, 1 recovery, 1 cleanup, 2 faults | `ExclusiveGeneration`, `DownloadableHasObject`, `ExpiredObjectGone`, `AttemptKeepsJob`, and that rows, workers, queue and bucket implement `ExportLifecycle` |
| `exports_liveness` | 2 workers that may lose their session, 1 fault, fairness | every active job settles; every expired export is cleaned up; the rows alone implement the lifecycle even without the lock |

Known defect: a READY export can lose its archive. The `except` block of
`export_org_data_task` (`export_tasks.py:219-228`) deletes the object that was
saved without looking at the row. When an exception arrives after the UPDATE to
READY has committed and before the `try` ends, which the soft time limit
(`CELERY_TASK_SOFT_TIME_LIMIT`, `base.py:133`) can do at any instruction and a lost
reply of the UPDATE does as well, the row stays READY, a poller is given a download
URL until `expires_at`, and the object is gone. `MarkReadyInterrupted` and
`MarkReadyReplyLost` are these steps, and the first of them is part of both
runs. They record the export in the history variable `interrupted`, and
`DownloadableHasObject`, `AttemptKeepsJob` and `ExportLifecycle` (its phase
`broken` and its actions `CompleteInterrupted` and `Break`) speak of exactly those
exports as an exception: what is checked and proved is that an archive is lost in
no other way.

With `ConnectionLoss = TRUE` two of the safety properties fail, which the run
above does not check: `ExclusiveGeneration` (a worker that lost its
session, and so its lock, generates together with a second one, although
`docs/operations.md:48-49` says the lock prevents duplicate generation) and
`DownloadableHasObject` (the second worker then deletes what the first one marks
READY). Either is seen by adding it to `ExportJobsLive.cfg`.

Fairness (liveness run only): the clock advances; Beat keeps starting both
maintenance tasks (`CELERY_BEAT_SCHEDULE`); a process that started goes on unless it
crashes; the broker hands every waiting message to some worker that keeps
becoming free (strong fairness per job, because a worker may be busy in
between). Nothing is assumed of users; faults are finitely many. When the fault
budget is spent no attempt hangs past the hard limit any more, which is what
"eventually settles" means: settles once failures stop.

### Proofs

`ExportJobsProofs` proves, for any number of jobs and processes, any limits
with `StaleAfter > TaskTimeLimit` and any number of faults:

- `TypeCorrect`: `TypeOK` is invariant.
- `RowRefinement`: the rows implement `ExportLifecycle`, with or without lost
  sessions.
- under `~ConnectionLoss`, `Inductive`: `IInv` is invariant, and from it
  `Exclusion`, `Ownership`, `Downloadable`, `NothingLeftBehind` and
  `Refinement` (the detailed specification implements the abstract one).

The safety properties are not inductive. `IInv` adds who knows which job
(`Assigned`), that a task holds its job's lock from first to last statement
(`LockHeld`), that the row of an attempt is never older than the task
(`AttemptFresh`, from which staleness is impossible because `StaleAfter` exceeds
the task limit; only the handler of an interrupted publication works on a row
that is READY by its own doing), that what is about to be marked READY is stored
(`UploadPresent`), and that a cleanup run only holds jobs whose retention is over
and deletes before it saves (`CleanerOver`, `CleanerDeletedFirst`). Each is one
lemma with one step per action. The assumption `~ConnectionLoss` is necessary:
the two failures described above are what happens without it. For `Refinement`
every step is shown to touch either rows or one object (`StepKinds`): the former
follow `RowRefinement` and publish only what is stored (`RowStepPhases`), the latter
can at most break an interrupted export (`ObjectStepPhases`). `IInv` itself was checked
by TLC before it was proved.

## Sessions: `AuthSessions`, `SessionAccess`, `MCAuthSessions`

### State and actions

One account is modelled; accounts share no rows in this component. The
transactions (rotation, password change and reset, confirmed email change,
activation, deletion) lock the account row first, and an insert of a session or
outstanding token waits for that lock through its foreign key, so each
transaction is one action. What a request reads outside of its transaction is an
action of its own: the blacklist check of a refresh (`PresentRefresh`), the user
row and then the session row of an authenticated request (`ReadUser`,
`CheckSession`), the password check of a login (`Login`), the load of an admin
form (`OpenForm`).

| Model | Code |
|---|---|
| `user` | credential columns of the account row: existence, `is_active`, password, `auth_version` |
| `sess`, `sver` | `AuthSession` rows: revoked, expired or deleted; `auth_version` |
| `minted`, `black`, `tsess`, `tver` | token pairs, blacklisted refresh tokens, claims `session_id` and `auth_version` |
| `pc`, `held`, `opened`, `copy` | a request: statement, token presented, session inserted, user instance read |
| `epoch`, `loginEpoch`, `epochOf` | history only: how many changes that must end all sessions were committed, now, when a login verified the password, and for the login of a session |
| `Login`, `StartSession`, `IssuePair` | `authenticate_for_token`, `create_auth_session`, `issue_token_pair`; the browser routes call the same |
| `PresentRefresh`, `RevokeReplayed`, `Rotate`, `RefuseRotation` | `rotate_token_pair` |
| `PresentLogout`, `RevokeLoggedOut`, `BlacklistLoggedOut` | `revoke_session_from_refresh` |
| `ReadUser`, `CheckSession` | `JWTAuth.get_user` |
| `ChangePassword`, `SaveProfile`, `DeleteAccount` | authenticated requests that write the account row |
| `OpenForm`, `SaveForm`, `SavePasswordForm` | the admin site: `UserAdmin.save_model` and the inherited password form, which ends no session |
| `SetActive`, `ResetPassword`, `ChangeEmail` | `set_user_active_status` and the transactions of confirmed tokens |
| `ExpireSession`, `CleanUpSession`, `Abandon` | time, `cleanup_expired_tokens`, a request that ends early |

An access token is checked as if it never expired by itself, which only makes
the properties stronger. Session rows removed by hand in the admin site and the
email-verification gate of login are not modelled.

`SaveProfile` (`PATCH /users/me`) and the admin forms save every column as they
read it. With `OverlappingSaves = FALSE` such a save only happens while its copy is
still the current row; with `TRUE` it happens whenever the code lets it.

### Runs

| Run | Instance | Shows |
|---|---|---|
| `auth_sessions` | 2 requests, 2 sessions, 2 pairs, 2 passwords, 2 account changes | an accepted token belongs to a login after the last account change; account changes stick; an open session keeps a refresh token that works, whatever replays, logouts and crashes happen; the whole implements `SessionAccess` |
| `auth_concurrent_refresh` | violation | two concurrent refreshes with one token leave two working refresh tokens, against `docs/security.md:6-7` |
| `auth_lost_update` | overlapping saves, violation | full-row saves undo credential changes, against `docs/improvements.md:416` |

Bounds: two requests are enough for every pair of racing handlers, and two
account changes for deactivation followed by activation; a second session lets a
revived login coexist with a rotated one; two pairs let a token rotate, and
three let it fork. `MaxChanges` bounds `auth_version`. Request, session and token names are
symmetric. No liveness is claimed: every request ends by itself, and nothing
here waits.

### Proofs

`AuthSessionsProofs` proves, for any number of requests, sessions, pairs,
passwords and account changes:

- `TypeCorrect` and `Refreshable` (`OpenSessionRefreshable`), overlapping saves
  included;
- under `~OverlappingSaves`, `Inductive`: `IInv` is invariant, and from it
  `NoStale`, `ChangesStick` and `Implementation` (rows, tokens and requests
  implement `SessionAccess`).

`NoStaleAccess` relates history to the rows only through the versions, so the
invariant says what `auth_version` means: it is one more than the number of
changes (`VersionsCount`), a login and the session it opens carry the version of
the moment the password was verified, and the claims of a pair are those of its
session row (`ClaimsMatch`). For `Refreshable` a logout must have ended its session
before it blacklists the token (`LoggedOutClosed`); that order of the two
statements is what the proof needs of `revoke_session_from_refresh`. The
refinement rests on `NoRevival`, one step per writer of the account or session
rows: a session that no longer stands never stands again, because every change
that raises the version or flips `is_active` also revokes. `auth_lost_update` shows that `~OverlappingSaves` cannot be
dropped for `ChangesStick`; with the old version back, an overtaken login is
accepted as well.

## Account operations: `AccountOperations`, `SingleUseTokens`, `MCAccountOperations`, `AccountOperationsProofs`

### State and actions

The three pending tables have at most one row per address (registration) or per
user (password reset, email change); the model calls such a place a slot.

| Model | Code |
|---|---|
| `email`, `version` | user rows: address or absence, `auth_version` |
| `pending` | `PendingRegistration`, `PendingPasswordReset`, `PendingEmailChange` rows: token, expiry, `new_email`, `auth_version` |
| `pc`, `slot`, `token` | a request: statement, the row and the token it is about |
| `issued`, `used`, `delivered`, `behind` | history only: tokens generated, honoured, emailed, and tokens of email changes whose user changed credentials afterwards |
| `AskRegistration`, `IssueRegistration`; `AskReset`, `IssueReset`; `IssueChange` | `rotate_pending_registration`, `rotate_password_reset`, `request_email_change` |
| `Deliver`, `CancelUndelivered` | the API routes: queue the email, or cancel the row when that fails; a reset that could not be mailed keeps its row |
| `RefuseRegistration`, `TakeRegistration`, `CreateAccount` | `confirm_registration` |
| `LookUp`, `RefuseGone`, `RefuseRow`, `ConfirmReset`, `TakeChange`, `ApplyChange` | `confirm_password_reset`, `confirm_email_change` |
| `Conflict` | the unique index on the address refuses the write and the transaction is rolled back |
| `ChangeCredentials`, `DeleteAccount`, `Expire`, `CleanUp`, `Abandon` | the session component, account deletion, time, `cleanup_expired_tokens`, a request that ends early |

Two confirmations take two steps under row locks (`create`, `apply`): between
the look at the other users and the write, a transaction that holds other rows
may take the address, and only the unique index stops the second. A token of a
reset or email change is first looked up without a lock (`LookUp`), and what was found
is checked again once the user is locked (`Revalidated`). A refused row is
deleted by a transaction that commits. Password rules, usernames and the retry
on a username collision are left out; full-row saves that write an old address
back belong to `AuthSessions`, and no such save is taken here.

### Runs

| Run | Instance | Shows |
|---|---|---|
| `account_operations` | 2 requests, 2 users, 3 addresses, 2 tokens, 2 changes of credentials | a pending token is neither used nor unknown; one account per address; no email change outlives the credentials it was asked with; an emailed token is not taken away; slots implement `SingleUseTokens` |

Two users and one free address suffice for a race for it; a third address lets
a user move away and back. A confirmed change raises the version itself, so
two changes are the least with which a stale email change can be confirmed.
Two tokens let one
replace the other while it is being confirmed, delivered or cancelled. Requests, users, addresses and tokens
are symmetric.

### Proofs

`AccountOperationsProofs` proves for any number of requests, users, addresses,
tokens and changes: `TypeCorrect` (`TypeOK`), `UniqueAddresses`
(`OneAccountPerAddress`), `BoundToCredentials` (`NoChangeFromBehind`),
`TokensStay` (`DeliveredTokensStay`) and `SingleUse` (`ImplementsSingleUse`). The
inductive invariant adds to the types that a request knows issued tokens only,
that a row is locked by one request whose token it holds, and that no token is
in two rows; for `BoundToCredentials`, that a row never carries a version its
user has not reached and that the version of an overtaken row is older than the
user's; and for `TokensStay`, that the token a request is about to deliver or
cancel is no other request's and not yet delivered (`Undelivered`). Each action
has one lemma.

## Organization ownership: `OrgOwnership`, `MCOrgOwnership`, `OrgOwnershipProofs`

### State and actions

| Model | Code |
|---|---|
| `made`, `role`, `account` | committed rows: group organizations, memberships (`admin` and `member` are one role here), users with `is_active` |
| `op`, `at`, `todo` | a transaction: what for, its next statement, the groups (or rows of groups) it has yet to lock |
| `held` | rows it locked `FOR UPDATE` or wrote, until it ends |
| `BeginRole`, `ChangeRole` | `change_membership_role`, `remove_membership` |
| `BeginDeactivate`, `CheckOwned` | `set_user_active_status(is_active=False)` with `assert_user_can_be_deactivated`; `BeginActivate` with `True` |
| `BeginDelete`, `GroupsLocked`, `CheckDeletion`, `DeleteRow`, `RowsDeleted` | `delete_user_account` and the cascade over memberships |
| `BeginCreate`, `TakeKeys` | `create_group_organization`; foreign keys are deferred, so their targets are locked at COMMIT |
| `BeginForm`, `ReadOwned` | `UserAdmin.save_model`: the user row is written first |
| `BeginEdit`, `EditMembership` | rows added, changed or deleted by `MembershipAdmin`: the only way in `src/` to add a member to a group, and no service checks it |
| `LockGroup`, `LockRow`, `LockUser` | the `SELECT ... FOR UPDATE` statements |
| `FireTriggers` | the deferred constraint triggers of migration 0003 |
| `Commit`, `Rollback` | the end; a refusal by a check, a trigger or a key is a rollback |

Transactions run in READ COMMITTED: every statement sees what is committed at
that time. The triggers run at COMMIT, before the transaction is visible, so
`FireTriggers` and `Commit` are two steps and others may commit in between. A
query that locks several rows reads which ones first (`Begin...`, `ReadOwned`)
and then locks them one by one; a row that changed in the meantime stays locked
but is left out of the check (`Succeeded`). The join of
`assert_user_can_be_deactivated` locks the membership row next to its group.

Personal organizations and slugs are those of `AccountNames`. Changes of the type of an
organization and sessions are not modelled.

### Runs

| Run | Instance | Shows |
|---|---|---|
| `ownership` | 3 transactions, 2 users, 2 groups, `Overlap = FALSE` | every group has an active owner; a change the services let through is not refused by a trigger; only transactions that retire one account can deadlock |

The code does not keep the order of locks that `docs/improvements.md:52` asks for,
"Lock user-dependent rows only after the user": the join in
`assert_user_can_be_deactivated` (`organizations/services.py:92-96`) locks the membership
rows of the user's ownerships before `set_user_active_status` locks the user. A deletion
of the same account locks the user first and its rows when it deletes them, so
the two can wait for each other when they have not locked the same groups, because an
ownership came to be in between; PostgreSQL aborts one.
`GroupsLockedInOrder` shows that no others can. TLC finds the deactivation in four
steps when `UsersBeforeRows` is checked on the same instance.

With two transactions and `Overlap = TRUE`, `GroupsHaveOwner` fails: the
triggers of two transactions each count on the other's owner, against
`docs/security.md:93-94`. It is rare, needs the admin site or a promotion at the
moment of a deactivation, and is seen by changing the constant in
`OrgOwnership.cfg`. The admin's user form also locks the user before the groups, against
`docs/improvements.md:47`.

`Overlap = FALSE` keeps apart what the locks do not (`Clash`): the two forms of
the admin site run alone, and nobody becomes an owner while the same account is
being deactivated or deleted. Everything else interleaves freely. Two users are
the least with a successor, two groups the least with a lock order, and a third
transaction can come in between two that wait. Transactions and users are
symmetric. A system in which every account is deleted and no group exists has
stopped, so TLC does not check for deadlock: `GroupsLockedInOrder` is about locks.

### Proofs

`OrgOwnershipProofs` proves, for any number of transactions, users and groups:

- `LocksHold`, whatever overlaps: `LockInv` is invariant. It says how far each
  kind of transaction can be and which locks it holds there (`LocksFit`), that
  no two transactions hold one row (`Exclusive`), what a transaction knows of the
  rows it has read under a lock (`Known`), and that the lock keeps the others
  from changing it (`Stands`). `TypeCorrect` is its first part.
- under `~Overlap`, `Inductive`: `OwnInv` is invariant, and from it
  `OwnersRemain` (`GroupsHaveOwner`), `TriggersNeverNeeded`
  (`ServicesRefuseFirst`) and `LockingOrder` (`GroupsLockedInOrder`).

`GroupsHaveOwner` is not inductive: a check and the commit it justifies are
several steps apart. `OwnInv` bridges them: whoever retires an account has
locked, or is about to lock, every group the account owns (`Covered`), and
whoever has checked a group still has the successor that the check found
(`Decided`), because to take that one's ownership somebody would need the lock of
the group. `~Overlap` (as `Separate`) is needed where the locks do not reach: a
promotion inserts a row no query of a deactivation could lock. Both invariants
were checked by TLC first, `LockInv` on two transactions with `Overlap = TRUE`,
`OwnInv` on the instance of the run.

## Idempotent requests: `Idempotency`, `AnswerLog`, `MCIdempotency`, `IdempotencyProofs`

### State and actions

| Model | Code |
|---|---|
| `record` | `IdempotencyRecord` rows: fingerprint of the request, its answer, whether `expires_at` is past |
| `pc`, `key`, `body`, `run`, `replaces` | a request inside `run_idempotently`: statement, hash of the key, fingerprint, the execution it has made, whether it has deleted an expired record |
| `runs`; `effects`, `answered` | executions so far; history: executions that were committed, answers that were given |
| `Begin`, `BeginUnkeyed` | `pg_try_advisory_xact_lock`, or no `Idempotency-Key` |
| `LookUpLive`, `LookUpNone` | the record is replayed or refused with 409; or there is none, or an expired one, which is deleted |
| `Operate` | the operation returns, with a status below 500 or not |
| `Commit`, `AnswerFailure`, `Abort` | the record and the commit; `set_rollback` on a 5xx; an exception or a killed worker |
| `Expire`, `Cleanup` | 24 hours; `cleanup_expired_idempotency_records` |

A client retries whenever it likes, with the same body or another: that is what
`Begin` with any key and body means. The lock is held until the transaction ends,
and deleting an expired record is not visible before, so `Cleanup` waits for it.
`AnswerLog` is what the header promises: while a key binds, one execution, and
its answer to everybody who sends the same body.

### Runs

| Run | Instance | Shows |
|---|---|---|
| `idempotency` | 3 requests, 2 keys, 2 bodies, 3 executions | one execution of a key at a time; a finished one can always be recorded; the whole implements `AnswerLog` |

Two requests race, a third comes back after the first has ended. A second key
shows that keys are independent. Three executions are one that fails or
expires, one that replaces it and one without a key. All four sets are
symmetric.

### Proofs

`IdempotencyProofs` proves the same for any number of requests, keys, bodies and
executions: `TypeCorrect`, `OneAtATime`, `RecordsAccepted` and `Promise`
(refinement). The inductive invariant says that the lock is exclusive
(`LockExclusive`), what its holder knows of the record (`LookUpHolds`: none, or an
expired one it has deleted, until it commits) and that an execution in hand has
not taken effect and is nobody else's (`RunOwned`).

## Image relations: `ImageRelations`, `MCImageRelations`, `ImageRelationsProofs`

### State and actions

| Model | Code |
|---|---|
| `images`, `objects`, `rel` | rows of images; of contacts or the organization; `PolymorphicImageRelation` with `order` and `is_cover` |
| `txn` | a transaction: what for, its statement, the rows it has locked (`held`) and has yet to lock (`todo`), and the relations as it read them (`view`) |
| `StartAttach` ... `StartUnsetCover`, `StartDelete` | the routes of `images/api/`, which look up the object without a lock |
| `LockTarget`, `LockRow` | `_lock_target`, `_locked_relations`: the object, then relation by relation with its image; one deleted meanwhile is passed over (`Left`), the next is the first in display order (`IsNext`) |
| `Refuse` | images of another organization or gone, incomplete reorderings, a cover that is not attached |
| `ReadImages`, `Attach`, `Detach`, `Reorder`, `SetCover`, `UnsetCover` | `images/operations.py` |
| `DeleteImages`, `DeleteObject` | `delete_image_record` with the cascade; `delete_contact` |
| `BreakDeadlock`, `Abort` | PostgreSQL; a lost worker |

`Attach` inserts at the end of its transaction, where the foreign keys are checked and wait for a
deletion of the image (`Blockers`). Relations are locked in display order and
image rows in the order asked for by a bulk deletion, so transactions on two
objects, or an attachment and a deletion, can wait for each other; PostgreSQL
aborts one of them, whose client gets an error and no change.
`docs/improvements.md` asks for locks in ascending order of primary keys, which is not
what these functions do. No property claims freedom from deadlock here.

The relations of a deleted contact stay, because nothing but an id ties them to
it; so the model keeps `rel` for an object that is gone.

### Runs

| Run | Instance | Shows |
|---|---|---|
| `image_relations` | 2 transactions, 1 object, 3 images and a foreign one, any two operations | places stay distinct; an attach never meets a unique constraint; an attach leaves one cover and never moves one |

Three images are the least for a reordering that is more than an exchange; two
transactions are enough for every race of two operations, and the properties
speak of one object. `MaxIds` bounds the images of a request by those there are,
and `MaxRequests` how many operations a behaviour has; places have no bound. The
initial states already hold every assignment of images with one or no cover, so
longer histories start from the same states. Places need not be dense: a
detached image leaves its place empty (`Detach`), as in the code.

### Proofs

`ImageRelationsProofs` proves the run's properties, and `ViewCurrent`, for any
number of requests, objects and images and requests about any number of images:
`TypeCorrect`, `PlacesDistinct`, `AttachNeverConflicts`, `CoversKept` and `ViewsStay`. The
inductive invariant needs four facts besides the types. At most one request has
locked an object (`TargetsHeld`) and at most one has locked an image (`RowsHeld`). What
a request has locked it has read as it is, and a relation it has not locked is
one it has yet to lock (`Seen`), which is why nothing is missing from what it has
read when there is nothing left to lock (`ViewIs`). And the places of an object have a
highest one (`Bounded`), without which `LastOrder` would choose nothing. Every
action is reduced to one of a few effects (`NextEffect`): to begin, to end, to lock,
to write an object's relations (`Writes`, of which each operation has to show that
they are good ones), to delete images or an object. The invariant is proved
effect by effect. That no image gets the place of another rests on `Ranks`: the
images of a request that come before one are a different number for each.

## Image objects: `MediaObjects`, `MCMediaObjects`, `MediaObjectsProofs`

### State and actions

| Model | Code |
|---|---|
| `status` | rows of images; `legacy` ones were uploaded before there were variants |
| `objects`, `aged` | objects of the private bucket, those older than the minimum age of the audit |
| `upload` | a request in `upload_image` or `bulk_upload_images`: files to come, the one at hand, its stored objects, those whose row is written, whether its transaction is broken |
| `deletion`, `audit`, `backfill` | a deletion with the keys to delete after its commit, a run of `audit_media`, the image a backfill is about |
| `reported`, `excused` | history: images a request reported as saved; images where a storage or database call failed or a process was killed |
| `StartUpload` ... `KillUpload` | `images/api/uploads.py` and `upload_image_file` |
| `OpenDeletion` ... `KillDeletion` | `delete_image_record` and its `on_commit`; `RollBackDeletion` is the failure of another image of a bulk deletion |
| `DeleteRowsOnly` | deletion of the organization, or in the admin site: objects stay and wait for the audit |
| `StartAudit` ... `EndAudit`, `Age` | `audit_media --delete-unreferenced` |
| `CheckVariants`, `PutVariants` | `backfill_image_variants` |

The four variants are one object. `Age` carries the assumption under which the
audit is safe: an upload with its transaction, and then the part of an audit between reading the
rows and listing the bucket, take less than `--minimum-age-hours`. An image
whose transaction stays open for longer would be taken for unreferenced.

### Runs

| Run | Instance | Shows |
|---|---|---|
| `media_objects` | 2 images, uploads of up to 2 files | an image keeps its objects; every object without an image is explained by a failure or is about to go; what a single or keyed upload reports as saved is saved |
| `media_reports` | the same, violation | a bulk upload without a key can report files as saved whose rows were rolled back |

Two images give a bulk upload with one good and one failing file, and a
deletion or audit of one beside the upload of the other. The images are
symmetric.

`media_reports` finds: an insert that fails inside the transaction of a bulk upload (a
file name over the length of the title) dooms the transaction; the handler of the
file swallows the exception, the block ends normally and rolls back. With an
`Idempotency-Key`, writing the record fails and the request answers 500;
without one it answers 200 and lists as saved the files before it.

`excused` holds what the code accepts: when the insert of a single upload commits
and its reply is lost, the objects of the new row are deleted
(`CreateRowReplyLost`); a put that fails after it took effect, or a failed deletion,
leaves an object for the audit.

### Proofs

`MediaObjectsProofs` proves `TypeCorrect`, `RowsKeepTheirObjects`
(`ImagesHaveObjects`), `OrphansAreExplained` (`NoUnexplainedOrphan`) and
`ReportsAreTrue` (`KeyedReportsTrue`) for any set of images and bulk uploads of
any length. The bucket has no transactions, so the inductive invariant `IInv`
is an account of who is responsible for each object: what an upload has stored
is exactly what the bucket has of its file (`UploadInv`), a deletion touches no
object before its rows are gone (`DeletionInv`), what an audit may delete was
known, settled and without a row, and stays so (`AuditInv`: rows of images are
never inserted twice), a backfill is about an image that has had a row
(`BackfillInv`), and what was reported has been drawn (`ReportInv`). TLC checked
`IInv` on the run's instance before it was proved.

## Contacts, avatars, tags and names: `Contacts`, `Tags`, `AccountNames`, `OrgRecords`, `MCOrgRecords`, `OrgRecordsProofs`

### State and actions

The three modules have no specification of their own: `OrgRecords` takes them
together, adds the actions in which they meet (the deletion of a contact with
its tagged items, of an account with its organization, and the save of a row
whose name somebody else is inserting), and states the specification.

| Model | Code |
|---|---|
| `rows`, `files` | rows of contacts and users: the slug of a contact or the username of a user, the other columns as one value, avatar; avatar files (large and thumbnail are one) |
| `req` | a request: statement and the row as it read it |
| `BeginCreate`, `Insert`, `InsertConflicts` | `create_contact_with_slug`: a free slug, insert, retry with a random suffix |
| `BeginEdit`, `BeginProfile`, `SaveRow` | PUT and PATCH of contacts and of users: all columns are saved as they were read |
| `BeginUpload`, `PutAvatar`, `SaveAvatar`, `DeleteFiles`; `BeginClear`, `ClearAvatar` | avatar routes: new files, the path in the row, the old files |
| `DeleteContact`, `DeleteAccount` | `delete_contact`, `delete_user_account` with the personal organization |
| `tags`, `items`, `asg` | rows of tags and tagged items; an assignment inside `assign_tags_to_object`, with the tags it has inserted and not committed |
| `CreateTag`, `RenameTag`, `DeleteTag`, `Unassign` | `tags/services.py` |
| `Assign`, `ReadExisting`, `InsertTag`, `Reread`, `ReadItems`, `CommitAssignment` | the statements of `assign_tags_to_object` |
| `personal`, `groups`, `act` | personal organizations by creator, slugs of group organizations; a registration or a renaming, with the names it has inserted and not committed |
| `Register`, `InsertUser`, `InsertOrg`, `CommitRegistration` | `create_user` with `create_personal_organization`: names free by what is committed, two inserts, one commit |
| `InsertUserConflicts`, `InsertOrgConflicts` | the retries with a random suffix, each undone up to its own savepoint |
| `CheckName`, `Rename` | `update_username`: the check, and the two updates |
| `CreateGroup` | `create_group_organization`, of which only the slug matters here |

Names of one kind are numbered: 0 is the base and n its n-th suffix, so that
registrations with the same base collide. An insert or an update waits for a transaction
that has inserted the same name and has not ended (`HoldsUsername`,
`HoldsSlug`). The random suffix of a retry is any name. The routing slug of a
user, which is drawn like the username and never changes, is left out.

`update_username` writes the user row before its personal organization, and
`delete_user_account` locks them in the opposite order, the one
`docs/improvements.md:39` asks for. PostgreSQL would abort one of the two; the
model has each pair as one step and an `Abort` before it.

A tag's name is a slug and a variant: names that differ in case only have one slug.
An insert with `ON CONFLICT DO NOTHING` waits for another transaction that has inserted
the slug (`Waits`). Two assignments that insert two new names in opposite
orders deadlock; PostgreSQL aborts one (`Abort`).

### Runs

| Run | Instance | Shows |
|---|---|---|
| `org_records` | 2 requests about rows, 2 assignments, 2 registrations or renames, 3 requests in all, 2 contacts, 3 users, 3 avatars, 3 tags of 2 slugs | a named avatar is stored and every other file is explained; an assignment that answers 200 has put each name on the contact, and refuses only for a tag of another name; items go with their contact; every account has its personal organization under its username |

Three requests are two that race and one that set the scene; three avatars are
the one that is there and one for each of two uploads. Three users are the one
that is there and two registrations that race for a name, and `Attempts = 2` lets
each creation retry once and give up. `MaxTags = 2` names in one assignment, 50 in
the code (`MAX_TAGS_PER_ASSIGNMENT`), are the least of which one can be there
already and another not. Names are drawn in a fixed order, which saves a
symmetry. There is one name more than users; a creation that would use up the
slugs of organizations does not start (`OrgSlugs # Names` in `InsertUser`), since
the code never runs out of suffixes.

The properties leave out, by history variables, what the code does not prevent:

- `overwritten`: PUT, PATCH and the profile save the whole row as read, so they
  set back an avatar or a username that changed in between (the personal
  organization keeps the new name), and re-insert a contact or user that was
  deleted (`docs/hardening/production-readiness-checklist.md:150-151` promises a
  partial PATCH); and a lost reply to the avatar's update deletes the new files.
- `stray`: two avatar uploads that read one row each delete the same old files, and
  the loser's new ones stay.
- `late`: an assignment that found a contact before its deletion leaves items
  without one, since `object_id` is no foreign key.
- `disturbed`: a tag renamed, deleted or unassigned during an assignment.

### Proofs

`OrgRecordsProofs` proves all five properties of the run for any contacts,
users, avatars, tags, requests, assignments, registrations and retries, with no
hypothesis beyond the named assumptions on the constants (`ContactsAssumption`,
`NoRowAssumption`, `RecordsAssumption`: the sets of keys are finite and
disjoint, the absent values are none of the others, and there are at most as
many contacts as users, which only says that there are names enough for both). Its
inductive invariant `IInv` has one part for each component.

- `ContactInv`, for `AvatarsMatch`. The proof leaves aside what requests are
  and looks at who *names* an avatar: a row, a request that has read it
  (`Sees`), has put it (`Puts`) or is about to delete it (`Drops`).
  A new avatar is named by its upload alone (`NewUnknown`), the avatar of a row by
  no other row and by no request about another one (`OneOwner`), what is about to
  be deleted is no longer a row's (`OldReplaced`), and every file is named or
  stray. Each step has one of nine effects on these names (`Custody`), which is
  shown action by action once (`CustodyStep`), and each part is preserved by each
  effect.
- `NameInv`, for `AccountsStayWhole`. What an uncommitted registration has
  inserted is unseen and its own (`Reserved`): the unique index makes everybody else
  wait. A request is about a row that was created (`KnownRows`), so no save can
  reach the row of an account under way.
- `TagInv`, for `ItemsFollow` and `AnswersStayTrue`. What an assignment has
  inserted and not committed clashes with no row and no other assignment
  (`MadeWell`). What it has read *stands* until it answers (`Stands`, one part
  for each statement of `assign_tags_to_object`) as long as others only add
  tags and items, and everything else marks it `disturbed`.

The parts meet where a row is a contact's or a user's: `ContactInv` needs
`NameInv` for the row a commit inserts, `NameInv` needs to know what a full save
does to a username (`Apart`), and `TagInv` that only a deletion takes a contact
away (`TagEffect`). TLC checked every part on the run's instance before it was
proved.

## What is proved, and what is only model-checked

The theorems are those of the eight `...Proofs` modules. Every one holds for
all values of the constants that satisfy the named assumptions of the module, and
is proved from an inductive invariant that TLC has checked on a small instance
first. Three modules need a hypothesis, without which a violation is known:
`~ConnectionLoss` in `ExportJobsProofs` (not for types and the refinement by
the rows), `~OverlappingSaves` in `AuthSessionsProofs` (not for types and
`OpenSessionRefreshable`) and `~Overlap` in `OrgOwnershipProofs` (not for the
locks). All theorems are about
safety, refinements included.

Model-checked only is liveness (`ActiveJobsSettle`, `RetentionEnforced`): TLAPS does
not handle fairness and `ENABLED` here. Every other property of a passing run
is the statement of a theorem.

Functions over finite sets that the models compute with a `CHOOSE` (the first
free suffix, the next key, the next name of an assignment) are covered by the
proofs; whether one exists at all is a lemma (`ANameIsFree`, `NatLeast`).

## Not modelled

- Share links (`images/api/access.py`): rows that one request inserts, another
  revokes and a resolve checks in one read, and that go with their image. No
  protocol of several steps. Edits of an image's title and texts: one update of
  one row.
- `organizations/scope.py`: a query over memberships. The models take its result
  as given, and a membership that ends during a request does not stop it, in the
  model as in the code.
- Email delivery, image processing, settings, throttles, health checks, error
  reporting, schemas, admin listings, seed and wait commands and scripts: no
  protocol state.

The lifecycles of different components are not composed beyond `OrgRecords`:
where one calls another (`revoke_all_sessions`, `assert_user_can_be_deactivated`,
`run_idempotently`), the caller's model has the effect as a step of its own.
