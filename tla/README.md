# KnowVault: a TLA+ verification project

KnowVault keeps a tenant's documents in a governed catalog. Worker processes
synchronise sources (folders, git repositories, mail, PostgreSQL projections)
into PostgreSQL, extract evidence, project it into a search index and purge it
when retention ends; a server answers questions from what may be read. Nearly
all state is in PostgreSQL, nearly all rules are in `db/migrations`, and nearly
all difficulty lies in what happens between two transactions. The project
models that part: the durable job queue everything runs on, the scope
synchronisation that decides what is readable, the search projection and its
rebuild, key rotation, the one-shot parser sandbox, and questions with the purge
of their conversations.

## 1. The system's parts

| Part | State | Operations | Hard behaviour |
|---|---|---|---|
| Job queue (`internal/jobs`, 000013, 000070, 000075, 000100) | `job`, `job_attempt`: status, lease owner, epoch, deadline, attempts | enqueue, claim, heartbeat, lock lease, complete, fail, reclaim | expiry against open transactions, processes that share a worker id, retry budget, lag of `transaction_timestamp()` |
| Worker process (`workercomposition/runtime.go`) | current claim, re-index cursor | poll: drain outbox, auto-sync, profile revision, reclaim, claim, dispatch | crash anywhere, swallowed errors, an outbox that keeps a poll from its jobs |
| Scope synchronisation (`internal/ingestion`, 000014, 000016, 000107) | scope, activation per revision, membership per revision and object, object lifecycle, `sync_run` | begin, observe, ingest, reconcile, activate / publish partially, fail | many transactions per job, revision cutover, overlapping scopes, partial scans |
| Registration and scheduling (`source/registration`, 000018, 000089) | the scope's jobs | register, activate, sync, auto-sync | concurrent requests, one live job per scope |
| PostgreSQL snapshots (`ingestion/postgresql.go`) | as above, one transaction per snapshot | publish snapshot | lease renewed inside the transaction |
| Search projection (`internal/search`, 000005, 000029, 000030) | outbox events and head, chunks, external index | enqueue event, apply, publish, delete, clean up | two systems, crash between them, reordering |
| Search profiles (000072) | profile revisions, physical indexes | request, stage, re-index, activate | long re-index beside a moving outbox |
| Retention and purge (`internal/purge`, 000015, 000054-000056) | retention fence, purge queue | request, begin, destroy, complete | purge against publication and against open question transactions |
| Secret rotation (`internal/rotation`, 000019) | key versions, coverage | re-wrap, recompute digests, retire | old and new keys side by side |
| Sandbox dispatcher (`internal/sandboxdispatch`) | one-shot leases, hand-off | dispatch, observe, settle | retry only before transfer |
| Sessions, workspaces, audit (000002-000004, 000009-000011, 000088) | sessions, command receipts, hash chain | renew, terminate, command replay, append | concurrent requests with one key |
| Questions and conversations (`internal/question`, 000024, 000048, 000080) | runs, turns, retention, idempotency keys, encrypted artifacts | create, replay, execute, complete, fail, read | a gate read before the write, lost replies, a purge in between |
| Retrieval, analytics, graph, model gateway, connectors, parsers, crypto, API, deployment | mostly per request | | mostly data, I/O or sequential |

The API and the scheduler put jobs into the queue. A worker's poll claims one and
runs its handler. The handler talks to the source through a connector and writes
in a sequence of transactions, each of which first locks the job row and checks
the lease (`app.lock_job_lease`); the publishing one moves the scope's authority;
`queue.Complete` ends the job. Ingestion also appends outbox events that the same
worker's next polls apply to the search index. Processes share nothing but the
database and the index, and every transaction runs at READ COMMITTED
(`internal/platform/database/database.go:340`).

What makes each part correct:

- queue: one lease at a time, no write without the current lease, bounded
  retries, attempts accounted for, nothing lost, every job ends;
- scope synchronisation: an object's lifecycle is what its memberships say,
  authority moves only forward and only on complete coverage, a superseded
  revision writes nothing, a job is acknowledged for a published result only;
- search projection: the index ends up with exactly the readable chunks, events
  are applied in order, and nothing purged comes back;
- purge: what is purged stays purged and is unreadable from the moment the purge
  begins; rotation: everything stays readable during a rotation, and a key is
  retired only when nothing needs it;
- sandbox: a parser process gets one document, an answer implies that the process
  is gone, a document is offered again only if no parser ever had it;
- questions: one key is one run, the journal tells what became of it, no run is
  left behind by an error, and nothing enters a conversation that is purged;
- sessions and commands: a terminated session is never renewed, a replayed command
  changes nothing.

`PROJECT.json` lists the hazards, each at its line, with the properties for them.

## 2. Plan

| Order | Module | What it adds | State |
|---|---|---|---|
| 1 | `JobLedger` | what the queue promises (abstract specification) | done |
| 2 | `JobQueue`, `JobQueueProofs` | the queue, its invariants, refinement of `JobLedger`, proofs | done |
| 3 | `ScopeSync`, `ScopeSyncProofs`, `ScopeCatalogProofs` | synchronisation and cutover, on top of `JobLedger` | done for presence, proofs included |
| 4 | `SearchProjection`, `SearchProofs`, `ProjectionProofs` | outbox, applier, external index, purge of a version, staged re-index and cutover | done, proofs included |
| 5 | `Rotation`, `RotationProofs` | rotation windows of both key domains and their jobs | done, proofs included |
| 6 | `SandboxDispatch`, `SandboxProofs` | one-shot dispatch, hand-off, fail-closed latch, shutdown | done for version 2, proofs included |
| 7 | `QuestionRun`, `QuestionRunProofs` | a run from request to outcome, the queued purge of its conversation | done for two answer modes, proofs included |
| 8 | proofs | coherence of the catalog for overlapping scopes that do not reconcile at the same time | open |
| 9 | `Sessions`, `CommandReplay`, `AuditChain` | control plane | planned |

`ScopeSync` instantiates `JobLedger` rather than `JobQueue`: the refinement proof
is what allows the smaller state space. The jobs of `Rotation` and the purge
requests of `QuestionRun` have the few columns of the queue that matter there
(status, attempts, whether the lease has lapsed). No module to be proved about
uses a `RECURSIVE` operator.

## 3. Modules

### JobLedger

The promise: a unit of work is enqueued once, leased at most `MaxAttempts` times,
results are recorded under the current lease only, and it ends `SUCCEEDED` or
`DEAD`. No clock, no worker, no transaction.

### JobQueue

One variable per column of `job` that matters (`status`, `attempts`, `epoch`,
`owner`, `left`, `wait`, `key`, `mark`), `outcome` for `job_attempt`, `results`
for the derived writes that lease-fenced transactions commit, `held` and `tx` for
the memory of the worker processes.

- Time is a countdown: `left[j]` is `lease_deadline - now` and `wait[j]` is
  `available_at - now`. The fences read `clock_timestamp()` after the row lock
  (000100), so they see `left` itself. `claim_next_job` and
  `reclaim_expired_jobs` read `transaction_timestamp()`, which lags by
  `lag \in 0 .. TxnLag`. Countdowns stop at `-(TxnLag + 1)`, below which no
  comparison tells them apart, so no horizon is needed.
- A result transaction is `BeginResult` (`lock_job_lease`), any number of
  `RenewInResult` (the PostgreSQL publication renews its own, uncommitted
  deadline) and `CommitResult` or `RollbackResult`. While it is open nobody else
  gets the row; the deadline may pass.
- `Reclaim(p, S, lag)` takes the `ReclaimLimit` oldest expired, unlocked leases.
- `Crash(p)` stands for a dead process, for a reply that never arrived and for a
  handler that returned after an error it could not report: the claim is
  forgotten, an open transaction rolls back.
- `SetTenant` (external) suspends and resumes the organization: enqueue and claim
  look at it, the lease functions do not.
- `drains` says whether the search outbox can be drained at the moment, and
  `SetOutbox` changes it. `poll` calls `applySearch` first and returns its error
  before it reclaims or claims (`runtime.go:430-442`), so both have `drains` in
  their guards. Why it can fail for good is `SearchProjection`'s matter (`Stuck`).
- Abstracted: payloads, error codes, types of jobs (every handler is a sequence
  of lease-fenced transactions). `mark` keeps what the partial unique index of
  000075 looks at. An id is not reused for a second key (000070 answers with the
  existing job).

### ScopeSync

`status`, `attempts`, `results` belong to the ledger; `latest`, `active`, `act`
are `source_scope` and `source_scope_activation`; `member` is
`source_object_scope`, `object` is `source_object.lifecycle_state`; `syncRun` has
one row per attempt; `run[s]` is the local state of `Handler.Handle` under the
scope's current lease. One action per transaction of the handler, in the order of
the code:

`Claim` - `Resolve` - `BeginSync` - `Observe` - `Ingest`* - (`OpenReconcile` -
`CommitReconcile` - (`ActivateInPlace` | `OpenCutover` - `CommitCutover`)) |
`PublishPartial` - `Complete`, with `FailSync`/`FailJob` and `LeaseLost` from
everywhere.

- `Observe` takes any split of the objects into ingested, quarantined and unseen
  ones, and any coverage.
- Reconciliation and cutover end with an UPDATE whose subqueries look at the
  memberships of other scopes. `Open...` evaluates it on the statement's
  snapshot; `Commit...` applies it. When such an UPDATE waits for a row,
  PostgreSQL rechecks the row with the same snapshot for the other tables.
- `Revise` is external: nothing in the repository advances `latest_revision`; the
  guards of 000014 admit it, ADR-0061 is about it.
- Not modelled: trust and confirmation gates (they only refuse a request),
  versions, extractions and evidence, the state `MOVED` that nothing sets.

### SearchProjection

`lifecycle`, `member`, `current`, `retention`, `ext` and `chunk` are what the
projection reads of the catalog; `outbox` and `published` the event log and its
head; `revs` the profile revisions; `index` the external index, a set of documents
by the revision whose physical index holds them; `late` the writes that timed out
on a worker and may still be carried out. Two variables are history and steer
nothing: `missed`, the chunks the code passed over in one of three ways (a return
through a fresh membership, `Unannounced`; a page the budget has cut, `CutOffBy`; a
cursor reached in another revision, `SkippedBy`), and `outrun`, the chunks that were
erased while a write of them was under way.

- Catalog side, one transaction each: `IngestVersion`, `Reextract`, `Reobserve`,
  `Absent`, `CutOff`, `BeginPurge`, `Cleanup`, `CompletePurge`, `StageRevision`.
- `ApplyOnce` of a worker: `ReadNext` - (`LoadDocument` - `Index` or
  `IndexTimeout`) | `DeleteProfileCopies` - `Publish`, or one of the exits
  `VersionPurged`, `PublishMissing`, `PublishSuperseded`, else `Fail`. Several
  workers may be inside it at once; `Conflict` is one whose mounted profile is not
  that of the newest revision.
- The rebuild: `StartReindex` - `ReadPage` - (`Reload`, `Rewrite`)* - `NextPage`
  until `Exhausted` - `ActivateRevision`. The cursor is in the worker's memory and
  does not say whose it is; `built` remembers that, for `SkippedBy` alone.
  `Redeploy` mounts another profile in a worker.
- External: the index is a map from document id to document with last write wins;
  a document is which chunk it is and which scopes it names, embeddings and text
  are not there.

### SandboxDispatch

The host (`proc`, `sup`, `supState`), the dispatcher (`hand`, `fd`, `worker`, `wk`,
`lease`, `abort`, `todo`, the flags, `status`, `doc`) and the submitters (`sub`,
`chan`, `relay`, `told`). A step is one critical section of `d.mu`, one call across
the supervisor boundary or one write between two sections. Calls that the code
starts on a goroutine of their own (`abortV2`, `dropV2Worker`, `fenceV2Handoff`, the
latch's clean-up) wait in `todo` and run concurrently; that also stands for the
latch making its clean-up calls one after the other, which is one order of these.
Using a descriptor that another path has closed has the outcome the kernel gives,
`EBADF`, which the code takes for a failed proof. The step that copies the status
before `status.json` is written is merged with the write. `RejectHandoff` is every
refusal of a handoff: a peer that is not the supervisor is hung up on, a frame that
cannot be read or does not match its peer latches RED and leaves the process alone,
a cgroup that cannot be opened does both, and admission only kills. Ids are fresh,
so the replay tables cannot matter and are left out, and so is the dispatcher of
version 1.

### Rotation

A seal is a pair: the key the bytes were made with and the label the row gives it.
`mount` is what each process read of the manifest when it started, which is how
manifest, process and window may be a version apart. `Begin`, `Complete`,
`StageKey` and `RetireKey` are the operator; a pass is `Claim` - `ReadWindow` -
`CommitPass` or `RollbackPass` - `Return`, its successor job and the end of the
window committed with its rewrites, its acknowledgement in a transaction of its
own. `domain` chooses between the two checks: the artifact pass hands over the
window's pair, the digest pass its own key version. Nothing in the code waits for
a process to mount a new key before a window opens or closes, and ADR-0070 does not
ask for it: a process is stale until it restarts. `stale` of an item is history: its
last seal came from a stale process. `drains` is the one of `JobQueue`.

### QuestionRun

`h[r]` is the handler of request `r` inside `Create`, and the request's id also
names the run and the conversation it may mint; `run` is `question_run` with its
retention, citations and artifacts that can still be decrypted; `idem`, `conv`,
`req` are `question_idempotency`, `conversation_retention` and
`conversation_purge_request`; `audit` counts the outcomes recorded of a run; `pg`
is a purge process.

- `Submit` - (`Memory`) - `Lookup` - `StartOpen` - `StartCommit` - `Retrieve` -
  (`Snapshot`) - `CompleteOpen` - `CompleteCommit` - `Get`, with `StartAbort` (a
  unique violation leads to a second `Lookup`), `Fail` for every error of the
  execution, `ReadError` for the rest, `Crash` anywhere. A commit whose reply is
  lost is a committed step whose handler goes on as if it had failed.
- Transactions that decide in one statement and commit later are two steps
  (`StartOpen`/`StartCommit`, `CompleteOpen`/`CompleteCommit`,
  `CleanupOpen`/`CleanupCommit`): at READ COMMITTED everything not locked may
  change in between. `Locked` and `RetentionLocked` are the row locks they hold.
- The purge: `EnqueuePurge` - `Claim` - `ReadState` - `Begin` - `CleanupOpen` -
  `CleanupCommit` - `CompleteRequest` | `FailRequest`, with `Lapse`, `Reclaim`,
  `PurgeError` and `CrashPurger`.
- `conv[c].writers` is history: the requests that were past their last look at
  retention (`Writing`) when the cleanup committed `PURGED`. A text is its subject,
  its period or both, because splicing them is what the request hash depends on.
- Retrieval, the model and the answer are the set of fragments found and cited.

## 4. Runs

| Run | Configuration | Result |
|---|---|---|
| `job_queue` | 2 jobs, 2 keys, 1 scope, 2 processes with one worker id, 2 attempts, leases of 2 ticks, lag 1, reclaim limit 1 | holds, 791,160 states |
| `job_queue_live` | 1 process, leases of 1 tick, fairness | holds, 320,356 states |
| `scope_sync` | 1 scope, 2 objects, 2 revisions, 2 jobs of 2 attempts | holds, 151,039 states |
| `scope_sync_overlap_cutover` | 2 scopes, 1 object, 1 attempt | violated, section 6 |
| `rotation` | 1 item, 3 keys, 2 processes, batches of 1, 2 windows, 2 attempts, one fault, fairness | holds, 1,244,020 states |
| `rotation_stale` | the same | violated, section 6 |
| `sandbox` | 1 role, 1 peer, 1 job, one failed kill, proof, write or handoff, fairness | holds, 135,384 states |
| `search` | 1 worker, 1 object, 2 versions, 2 chunks, 2 events, 2 revisions, all catalog changes, one crash, one late write, pages of 2 and slices of 1, fairness | holds, 253,520 states |
| `search_paging` | 5 chunks, pages of 3, slices of 4 | violated, section 6 |
| `search_membership` | 2 scopes, 1 chunk | violated, section 6 |
| `question` | 1 answered conversation, 2 requests, 2 keys, 1 fragment, 1 purger with 2 attempts, one fault | holds, 2,569,905 states |
| `question_purge` | the same | violated, section 6 |

Why the bounds suffice. Queue: two processes are needed for every race on a
lease, and they share a worker id because that is the harder case; two attempts
are the first, retried one and the last one; a lease of two ticks can be live, on
its last tick, expired, and expired beyond the lag; a reclaim limit of one makes
the oldest of two expired leases matter. `ScopeSync`: two revisions give every
relation of candidate and authority that the code distinguishes, two objects the
seen and the unseen one, two jobs of two attempts a resync after a cutover and a
retry of each. Rotation: a third key makes a process stale by more than one window
and lets a window meet the labels of the one before it; with batches of one over one
item a full batch and an empty one happen; two attempts and one fault let a job die,
and a second window meets the first one's jobs. Sandbox: one peer and one job meet
every abort, drop, fence, latch and shutdown; the safety properties were also
checked, without an error, with two peers (1,407,456 states) and with two jobs
(1,342,112 states), instances too large for the liveness properties of the run.
Search: two chunks are one that the slice holds and one it cuts off, two versions one
that supersedes the other, two revisions the serving one and the staged one, two
events a write and what follows it; a worker that may crash and whose write may land
late meets its own write from before, as it would another worker's. Several workers
at once are in the proofs. Question: the second request is the first again, another
one under its key, or another turn of the same conversation; the fault may hit any
step of a handler or of the purger. One purger at a time is checked; a second one could only meet the row lock and the `PURGED`
early return, which are there.

No run but the two of the queue checks for deadlock: the bounded number of
requests, events, windows or documents can be used up, and then nothing is left
to do.

Symmetry: processes and jobs in `job_queue` (equal priorities, one worker id),
objects in `scope_sync`, workers in `search_paging`; none in a run with a liveness
property.

Fairness, and what justifies it:

- `job_queue_live`: time passes; an idle process keeps polling (`Execute` polls on
  a ticker), so claim and reclaim are weakly fair, but both are enabled only while
  the outbox drains, because `poll` drains it first; a transaction ends (statement
  and context timeouts); a handler does a finite amount of work, so a process that
  holds a job returns (strong fairness, because a row lock may disable the return
  again and again). Nothing is assumed of enqueues, heartbeats, crashes, the
  tenant's status or the outbox, which is why the property asks for
  `<>[](tenantActive /\ drains)`.
- `search`: a worker polls and each poll ends (every call has a timeout); a
  worker is eventually redeployed with the profile that was requested, without
  which nobody could build the revision. Nothing is assumed of catalog changes, nor
  that a late write lands.
- `rotation`: workers poll, run what they claimed and reclaim what lapsed, where the
  outbox lets them (`<>[]drains`). Nothing is assumed of the operator or of restarts.
- `sandbox`: goroutines and timers run, and a connection ends when its other
  side is gone or the dispatcher closes it. Nothing is assumed of submitters, of
  the supervisor or of the parser, which may hang.

`question` has no liveness property: a run can stay `RUNNING` for ever (section
6), and `StrandedOnlyByLoss` says exactly when.

What the properties of the newer modules say:

| Property | In words |
|---|---|
| `JobQueue.EveryJobSettles` | every job ends, if the tenant stays active and the outbox can be drained |
| `ScopeSync.StrandedOnlyByOpenRun` | a scope is stuck in `SYNCING` only by a job that is `DEAD` and whose last run never recorded its end: its process was lost and it was reclaimed, or `failSync`'s own transaction failed |
| `SearchProjection.ProjectionComplete` | an indexable chunk whose events are published can be found in the serving or the staged index, unless it is in `missed` |
| `SearchProjection.OutboxComplete` | ... and was written to some revision's index, with the same exceptions: what the outbox alone owes |
| `SearchProjection.PurgeErases` | once the purge's delete is published, no revision holds a copy, unless the erasure outran a write that was under way |
| `SearchProjection.Drains` | the outbox empties, or its head is an `UPSERT` with no exit (`Stuck`): the version was extracted again or the scope cut over |
| `SearchProjection.StagedActivates` | a requested revision is served, unless the outbox is stuck |
| `SandboxDispatch.RetryUntransferred` | a document is offered again only if no parser got it |
| `SandboxDispatch.ResultAfterGone`, `ReapedMeansGone` | an outcome is released and a role reported reaped only after the process is gone |
| `SandboxDispatch.SilentAfterLatch` | after the fail-closed latch no relay that began later is published |
| `SandboxDispatch.ShutdownDrains`, `ShutdownReturns` | shutdown ends, and leaves no process but that of an expired hand-off |
| `SandboxDispatch.Answered` | every submitter whose offer was written is answered or disconnected |
| `Rotation.LostOnlyByStale` | an item that cannot be opened was sealed last by a stale process; the rotation itself loses nothing |
| `Rotation.FirstCompletes` | the first window is closed by its own jobs, or one of them is `DEAD`, if the outbox can be drained |
| `QuestionRun.ReplaySame`, `CollisionIsReplay`, `RepeatConflictsOnlyFollowUp` | one key is one run; a unique violation is a lost race for the key; only a bare follow-up can conflict with itself |
| `QuestionRun.AuditMatches` | one outcome is recorded, and the true one, but for an asker who is removed inside the completing transaction: then a completion is recorded of a run that stays `RUNNING` |
| `QuestionRun.StrandedOnlyByLoss` | an error never leaves a run `RUNNING` |
| `QuestionRun.LeftByWriters` | what can still be decrypted after a purge was written by a request past its last look at retention when the cleanup committed |

The exceptions in these properties are what the code does, found by TLC; those that a
document or a comment denies are the violated runs and the lists of section 6.

## 5. Proofs

Every safety invariant and every action property that a passing run checks is also a
theorem, proved for any number of the objects, scopes, chunks, workers, jobs, peers
or requests of its module and at any value of its bounds. One has a hypothesis that
the code needs as well (`CatalogCoherent`: one scope). The others rest on the
assumptions on the constants only: their types, bounds of at least one, `None`
outside the sets it stands beside.

The argument is the same everywhere: an inductive invariant `IInv`, a lemma per
action (or per kind of action) that keeps it, a lemma that joins them, and the
properties as consequences.

| Theorem | Property | Hypotheses |
|---|---|---|
| `JobQueueProofs`: `TypeCorrect`, `LeaseExclusion`, `ResultFencing`, `AttemptAccounting`, `OneActivation` | `TypeOK`, `LeaseExclusive`, `ResultFenced`, `AttemptLedger`, `OneLiveActivation` | none |
| `LiveLeaseKept`, `Refinement` | `LiveLeaseSurvives`, `ImplementsLedger` | none |
| `ScopeSyncProofs`: `TypeCorrect`, `AuthorityIsEarned`, `AcknowledgedIsPublished`, `StrandedByOpenRun` | `TypeOK`, `AuthorityEarned`, `AckAfterPublish`, `StrandedOnlyByOpenRun` | none |
| `SupersededIsFenced`, `CoverageIsRequired` | `SupersededFenced`, `CoverageProtects` | none |
| `ScopeCatalogProofs`: `LoneObjectsCoherent` | `LoneCoherent` | none |
| `OneScopeCoherent` | `CatalogCoherent` | one scope |
| `SearchProofs`: `TypeCorrect`, `NothingResurrects` | `TypeOK`, `NoNewCopy` | none |
| `PurgedIsErased` | `PurgeErases` | none |
| `ProjectionProofs`: `FoundOrMissed`, `WrittenOrMissed` | `ProjectionComplete`, `OutboxComplete` | none |
| `RotationProofs`: `TypeCorrect`, `LostByStale` | `TypeOK`, `LostOnlyByStale` | none |
| `SandboxProofs`: `TypeCorrect`, `RetryIsSafe`, `ReleasedWhenGone`, `OneDocument`, `ReapedIsGone`, `NothingLeftBehind`, `LatchSilences` | `TypeOK`, `RetryUntransferred`, `ResultAfterGone`, `OneShot`, `ReapedMeansGone`, `ShutdownDrains`, `SilentAfterLatch` | none |
| `QuestionRunProofs`: `TypeCorrect`, `OneKeyOneRun`, `ViolationIsReplay`, `RepeatIsNoConflict`, `JournalMatches`, `FailureClosesRun`, `PurgeIsComplete` | `TypeOK`, `ReplaySame`, `CollisionIsReplay`, `RepeatConflictsOnlyFollowUp`, `AuditMatches`, `StrandedOnlyByLoss`, `LeftByWriters` | none |

### JobQueueProofs

`IInv == TypeOK /\ AttemptLedger /\ ResultFenced /\ OneLiveActivation /\ HeldKnown
/\ HeldUnique /\ DeadlineBounds`. `LeaseExclusive` is not inductive: that two
processes do not both pass the fence follows only from the fact that a process
remembers an epoch that was really handed out (`HeldKnown`) and that no two
processes remember the same one (`HeldUnique`); `claim_next_job` keeps both true
because it hands out `lease_epoch + 1`. `AttemptLedger` ties the epoch to the
number of attempts, which lets `TypeOK` bound the attempts: a claim needs a
`PENDING` job, and a `PENDING` job has attempts left. `ResultFenced` is kept by
`Expired`, which skips locked rows. `DeadlineBounds` says that a deadline is never
further away than a lease, and is what `LiveLeaseSurvives` needs of a heartbeat, and
of a commit that writes back a deadline that ticked inside the transaction.
`LedgerInit` and `LedgerStep` are the refinement: every step maps to a step of
`JobLedger` or to a stutter.

### ScopeSyncProofs and ScopeCatalogProofs

`IInv` says of each scope what its queue looks like (`QueueInv`: only the last job
can be live, and a run in memory belongs to it), what a run knows of the revision it
resolved (`RevInv`: between `BeginSync` and its publication the revision is
`SYNCING` and the authority has not moved past it) and what the properties need in a
form that steps keep (`DoneInv`). `RevInv` carries the two action properties: a run
that could still write below the authority would have resolved a revision that is
not its own any more. `StrandedOnlyByOpenRun` needs the two halves of it at all times:
while the latest revision is `SYNCING`, the job is not `SUCCEEDED` and the row of its
last run is open (`OpenRunKept`).

`ScopeCatalogProofs` adds the object. A reconciliation and a cutover write what a
snapshot told them, so the invariant must say that the snapshot is still true when
it is applied (`SnapshotInv`). It is, for an object no two scopes hold (`Alone`): the
memberships counted are all of the run's own scope, and those only this run can have
written. That gives `LoneCoherent` for any number of scopes, and `CatalogCoherent`
for one. With two the property is false, which is what `scope_sync_overlap_cutover`
shows: the hypothesis is the code's, not the prover's.

### SearchProofs

`IInv == TypeOK /\ CatalogInv /\ RevisionInv /\ WorkInv`: what the tables say of
each other (an event names a chunk that exists; a `DELETE` one whose version is being
purged), that the newest revision alone may be staged, and what a worker holds, from
where it stands. `TypeOK` needs the last one: the pool of `Reindex` stays within its
slice because page, documents in hand and documents written never exceed it.

`NothingResurrects` is an action property no run checks in this form: once the
`DELETE` of a chunk is in the outbox, no step adds a copy of it to the index, to the
writes under way or to a worker's hands. It holds with any number of workers,
crashes and late writes. So what can break the erasure is only a copy that was read
before the purge and lands after the `DELETE` was carried out, and that is what
`outrun` remembers: `PurgedIsErased` has no hypothesis. What the erasure found
nowhere under way never comes back.

The order of ids is handled without induction: the rank of a chunk is the number of
smaller ones, ranks are injective (`RankInjective`) and, by counting, onto
(`RankOnto`), and `FirstOf`, `Max` and `InIdOrder` follow.

### ProjectionProofs

The strengthening of `ProjectionComplete` is that every chunk is covered at all
times (`CoverInv`): it has a copy in a live revision, or can never be indexed again
(`Closed`: purged, superseded, replaced or deleted), or its object is away
(`Hidden`), or an event is to come, or it is in `missed`. An event counts only if
every worker that already handles it will have written to a live revision when it
publishes (`InTime`); this is why a revision that is staged between the load and the
write loses nothing. The steps that could break it:

- `PublishMissing` drops an event of a hidden object; the object returns through a
  membership that is `MISSING`, and then the return is an event, or through a fresh
  one, and then its chunks are in `missed`;
- `PublishSuperseded` and a `DELETE` erase copies of closed chunks only
  (`IndexMoves`);
- a late write replaces a copy, never removes one (`CopyKept`);
- `ActivateRevision` makes one revision live where there were two. `WalkInv` says
  what the pass before it has done: every chunk it went past, in whatever order the
  pool finished, is covered by the staged revision alone, and so is every chunk up
  to the cursor a later slice starts at, where the pass that reached it was of the
  same revision. What a page leaves out is not listed or cut off, what a reload
  refuses is not indexable, and both are covered without the pass
  (`UnlistedCovered`). Several workers may walk at once, and each one's walk is
  enough.

No hypothesis limits the scopes, the pages or the slices: the three ways a chunk can
be passed over are in the statement, and two of them are violated runs.

### RotationProofs

`LostOnlyByStale` speaks of the manifest; that nothing a current process sealed
becomes unreadable needs that its label is the key of its bytes, that every such
label is one of the window's pair while it is open (`Opened`), and that a window ends
only with the batch that found nothing left (`Settled` holds again). These are said
of the items that are not `stale`: what a stale process seals may carry any label,
and what it reseals is what TLC shows in `rotation_stale`. A pass may have read
another window's pair; its rewrite is compared with the window that is open when it
commits, and no process has mounted more than the manifest or the window its pass
read (`MountInv`). A digest pass of a stale process is refused, so in that domain the
stale items are only those it wrote afresh.

### SandboxProofs

`IInv` ties a job to one peer for good (`LeaseInv`), a document to the peer of its
lease (`RanInv`), an answer to its first value (`AnswerInv`), the serving goroutine to
what its peer has had (`Knows`), a reported state to a process that is gone
(`StatusInv`), and says of every descriptor the dispatcher holds that somebody still
owes its fence, or that RED is latched (`DrainInv`). `ShutdownDrains` follows from the
last one: when `ServeReturns` is possible nobody is left who could owe it, the
expired hand-off excepted.

### QuestionRunProofs

`ReplaySame` and `CollisionIsReplay` need that a key names a run that was started
under it (`KeyInv`) and that an open start has a turn number past every turn of its
conversation (`TurnInv`): two starts of one conversation cannot be open at once,
because the second waits for the row, so no unique violation but the key's is
possible. `AuditMatches` and `StrandedOnlyByLoss` are kept by what an execution may
still do from where it stands (`OutcomeInv`, `ConvInv`). `LeftByWriters` needs
`PurgeInv`: whoever is still `Writing` in a `PURGED` conversation was among its
writers when it became so. It holds because no step makes a
conversation `ACTIVE` again and nobody starts writing once the state is `PURGING`.

### What stays with TLC

The liveness properties (`EveryJobSettles`, `Drains`, `StagedActivates`,
`FirstCompletes`, `Answered`, `ShutdownReturns`): liveness under fairness is out of
this prover's reach. Also what several overlapping scopes do to an object they share
(`CatalogCoherent`, `OverlapSurvives`).

## 6. Where documents and code disagree

Five disagreements are runs that TLC refutes; `PROJECT.json` quotes the lines.

| Run | The text | What the code does |
|---|---|---|
| `scope_sync_overlap_cutover` | ADR-0061: an object an overlapping scope holds survives | not when that scope's ingest commits while the closing statement waits for the row |
| `search_paging` | `applier.go:247-248`: an empty cursor once the corpus is exhausted | a page cut to the slice's budget is taken for the last one if the uncut page was short; the index is activated without the rest |
| `search_membership` | `applier.go:715-716`: "Restoration emits a fresh event" | only if the membership of the returning scope was `MISSING` (`presence.go:24`); through another scope the object returns silently, and the event that was skipped meanwhile is gone |
| `rotation_stale` | 000019:346-348: a worker with a stale manifest fails closed | `rewrapOne` (`handler.go:190`) seals under the key its process has mounted and labels with the window's pair, so the check compares the window with itself; the wrapper cannot be opened. The digest pass is refused |
| `question_purge` | `DATA_MODEL.md:634`, 000054:3-8: `PURGED` only after the content is verified to be absent | the start reads the retention without a lock, the candidate snapshot does not read it, and the completing transaction reads it at its head; each may commit artifacts after the cleanup has looked. They are unreadable (`RunReadable`) and never erased, since a `PURGED` conversation is not purged again. `LeftByWriters` is the exact extent |

The following were met with the same modules, on instances that are not kept as
runs, or while reading.

Scope synchronisation:

- a job buried by reclaim, or one whose last attempt ends with a failed `failSync`
  transaction, leaves its activation `SYNCING`, and neither `Activate` nor `Sync` may
  start a new one (ADR-0058:107; `handler.go:1294-1296`);
- a published run's job can end `DEAD`, because `Complete` is a transaction of its
  own (`jobs.go:283`; ADR-0056:57);
- a seen but quarantined object is closed as `DELETED` by a cutover (ADR-0061:92;
  000107:496);
- two concurrent reconciliations of overlapping scopes leave an object `ACTIVE`
  that neither holds, until the next complete sync (`handler.go:1055-1059`);
- memberships of an unfinished older revision stay `ACTIVE` after a first
  activation (000107:464).

Search:

- a write that timed out, or that another worker holds, is carried out after the
  purge's delete, which nothing fences: 000015:3-4 has it that the purge "never lets a
  stale worker, job or index resurrect it". TLC shows it for `PurgeErases` without its
  exception and one late write; the property as checked says that there is no other
  way;
- a pending event of an object that a cutover closes, or of a version that is
  extracted again, has no exit and blocks the outbox for good (`applier.go:190-204`),
  where LLD.md:224-225 has poison input become an inspectable failure. TLC shows it
  for `Drains` without `Stuck`. Neither reclaim nor claim is reached any more
  (`runtime.go:431-442`), so no job of the organisation ends either;
- the cursor of a rebuild does not say which revision it was reached in
  (`runtime.go:551-571`): a worker whose pass fails after a slice, and that meets a
  later revision of its own profile because others have activated the first and
  superseded it, starts behind its old cursor and activates an index without what is
  before it. It takes two workers and four revisions, too many states for a run;
- while a revision is staged, events go to it and not to the serving index
  (DATA_MODEL.md:381 speaks of ordered replay and dual apply);
- the scopes a document names may be stale (`client.go:244-251`, 405); queries are
  checked against the catalog again.

Sandbox:

- a deadline abort and a valid outcome can close each other's descriptors; the
  proof then fails and the dispatcher latches, with nothing at fault
  (`v2.go:1574-1580`, 1835-1912);
- a failed status write sets `d.red` without `relayMu` (`v2_status.go:322-350`), so
  a relay in flight is published after it, contrary to `v2.go:963-967`;
  `SilentAfterLatch` is about the latch;
- a submitter whose offer could not be written hears nothing, where ADR-0081 item 5
  has a typed retry;
- the fence of an expired hand-off is not in `connWG` (`v2.go:1375-1390`), contrary
  to ADR-0081:124-125, which is why `ShutdownDrains` excepts it.

Rotation:

- a second window reuses the idempotency key `rotation:begin:` and has no driver
  of its own, and a window whose job is `DEAD` cannot be given another, because
  `Begin` is answered with that job: `FirstCompletes` is about the first window and
  ends with either;
- `Coordinator` has no caller in production code.

Questions:

- the splice of a follow-up precedes the request hash, so sending it again after
  the turn it began is a conflict and not a replay (`service.go:887-931`);
- `complete` does not read the row count of its last update: if the asker is
  removed inside the transaction, `question.completed` is recorded of a run that
  stays `RUNNING`;
- nothing ever ends a `RUNNING` run whose process died, whose start reply or
  cleanup was lost, or whose asker was removed;
- a `DEAD` purge request leaves the conversation `PURGING`, and a new request needs
  `ACTIVE`.

## 7. Not modelled, and why

The repository is far larger than its concurrent core, and most of it is left out:

- the tool loop, the structured intent gate, the meta dialogue and the listing and
  archiving of conversations: the first three are other ways to compute an answer
  and end in the same completing transaction, the last are single statements;
- the publication of a PostgreSQL snapshot (only its lease renewal is in
  `JobQueue`), source discovery, and the queue of source-version purges, which is
  the queue of conversation purges over again;
- sessions, workspace commands and the audit chain: planned;
- versions, extractions and evidence beyond what the projection reads of them;
  authorisation gates, trust and confirmations, which are predicates that only
  refuse;
- retrieval, planning, governed SQL, analytics and snapshot aggregates: pure
  functions over data without shared state, several times the size of everything
  modelled here and checked by their own tests;
- connectors, parsers, canonical encodings and cryptography: data, not control;
- HTTP, MCP, web interface, operator tools, architecture checks, deployment:
  decoding, rendering and I/O.

## 8. Running

    tlc -config MCJobQueue.cfg MCJobQueue
    tlc -config MCJobQueueLive.cfg MCJobQueue
    tlc -config MCScopeSync.cfg MCScopeSync
    tlc -config MCScopeSyncOverlapCutover.cfg MCScopeSync
    tlc -config MCSearchProjection.cfg MCSearchProjection
    tlc -config MCSearchPaging.cfg MCSearchProjection
    tlc -config MCSearchMembership.cfg MCSearchProjection
    tlc -config MCRotation.cfg MCRotation
    tlc -config MCRotationStale.cfg MCRotation
    tlc -config MCSandboxDispatch.cfg MCSandboxDispatch
    tlc -config MCQuestionRun.cfg MCQuestionRun
    tlc -config MCQuestionPurge.cfg MCQuestionRun
    tlapm JobQueueProofs.tla
    tlapm ScopeSyncProofs.tla
    tlapm ScopeCatalogProofs.tla
    tlapm SearchProofs.tla
    tlapm ProjectionProofs.tla
    tlapm RotationProofs.tla
    tlapm SandboxProofs.tla
    tlapm QuestionRunProofs.tla

The longest run, and the longest proof, take about three minutes. Definitions whose comment
begins with "Fault:" are deliberate mistakes that the properties must catch; no
specification uses them.
