------------------------------- MODULE JobQueue -------------------------------
(***************************************************************************)
(* The durable job queue: table job / job_attempt and the functions        *)
(* enqueue_job, claim_next_job, heartbeat_job, lock_job_lease,             *)
(* complete_job, fail_job and reclaim_expired_jobs, driven by the worker   *)
(* processes that poll it (internal/jobs, internal/platform/               *)
(* workercomposition).                                                     *)
(*                                                                         *)
(* Time is kept as countdowns: left[j] is lease_deadline - now and wait[j] *)
(* is available_at - now, so Tick moves all of them and no horizon is      *)
(* needed.  heartbeat, complete, fail and lock_job_lease read              *)
(* clock_timestamp() after locking the row (000100), that is, now; claim   *)
(* and reclaim read transaction_timestamp(), which may lag now by up to    *)
(* TxnLag.                                                                 *)
(*                                                                         *)
(* A result transaction is two steps.  It begins with lock_job_lease,      *)
(* which takes the job row FOR UPDATE, and commits later; in between the   *)
(* deadline may pass.  Everybody else waits for the row or skips it.       *)
(***************************************************************************)
EXTENDS Integers, FiniteSets

CONSTANTS
    Jobs,           \* job ids
    Keys,           \* idempotency keys
    Scopes,         \* source scopes an ACTIVATE-marked job can name
    Procs,          \* worker processes
    WorkerIds,      \* configured worker ids (lease_owner)
    workerId,       \* [Procs -> WorkerIds]: two processes may share an id
    priority,       \* [Jobs -> Nat]: job.priority, smaller first
    MaxAttempts,    \* job.max_attempts
    LeaseTicks,     \* length of a lease, and of its heartbeat extension
    Backoffs,       \* retry_after_seconds values the handlers use
    TxnLag,         \* bound: age of transaction_timestamp() at use
    ReclaimLimit,   \* reclaim_limit of one poll
    None            \* SQL NULL

ASSUME QueueAssumption ==
    /\ workerId \in [Procs -> WorkerIds]
    /\ priority \in [Jobs -> Nat]
    /\ MaxAttempts \in Nat \ {0}
    /\ LeaseTicks \in Nat \ {0}
    /\ Backoffs \subseteq Nat
    /\ TxnLag \in Nat
    /\ ReclaimLimit \in Nat \ {0}
    /\ None \notin Jobs /\ None \notin WorkerIds /\ None \notin Keys
    /\ None \notin Scopes

VARIABLES
    \* public.job, one row per job id that has been enqueued
    status,         \* "ABSENT" before the insert
    attempts,       \* attempt_count
    epoch,          \* lease_epoch, the fencing token
    owner,          \* lease_owner
    left,           \* lease_deadline - now, 0 when there is no lease
    wait,           \* available_at - now, 0 unless PENDING
    key,            \* idempotency_key
    mark,           \* scope of an operation = 'ACTIVATE' payload, or None
    \* public.job_attempt
    outcome,        \* [Jobs -> [attempt_number -> outcome]]
    \* what the lease-fenced transactions of the handlers have written
    results,        \* [Jobs -> epochs under which a result committed]
    \* public.organization
    tenantActive,
    \* search_outbox, abstracted: Drain of the due events succeeds
    drains,
    \* memory of the worker processes
    held,           \* the claim a process is working on
    tx              \* its open result transaction

jobVars  == <<status, attempts, epoch, owner, left, wait, key, mark, outcome>>
procVars == <<held, tx>>
envVars  == <<tenantActive, drains>>
vars     == <<jobVars, results, envVars, procVars>>

Terminal == {"SUCCEEDED", "DEAD"}
Live     == {"PENDING", "RUNNING"}
Statuses == {"ABSENT"} \cup Live \cup Terminal
Outcomes == {"NONE", "OPEN", "SUCCEEDED", "FAILED", "LEASE_EXPIRED"}

Idle == [job |-> None, epoch |-> 0]
NoTx == [open |-> FALSE, left |-> 0]

\* A countdown stops where transaction_timestamp() cannot tell it apart.
Floor    == -(TxnLag + 1)
Count(n) == IF n > Floor THEN n - 1 ELSE n

TypeOK ==
    /\ status   \in [Jobs -> Statuses]
    /\ attempts \in [Jobs -> 0 .. MaxAttempts]
    /\ epoch    \in [Jobs -> Nat]
    /\ owner    \in [Jobs -> WorkerIds \cup {None}]
    /\ left     \in [Jobs -> Int]
    /\ wait     \in [Jobs -> Int]
    /\ key      \in [Jobs -> Keys \cup {None}]
    /\ mark     \in [Jobs -> Scopes \cup {None}]
    /\ outcome  \in [Jobs -> [1 .. MaxAttempts -> Outcomes]]
    /\ results  \in [Jobs -> SUBSET Nat]
    /\ tenantActive \in BOOLEAN /\ drains \in BOOLEAN
    /\ held \in [Procs -> [job : Jobs \cup {None}, epoch : Nat]]
    /\ tx   \in [Procs -> [open : BOOLEAN, left : Int]]

Init ==
    /\ status   = [j \in Jobs |-> "ABSENT"]
    /\ attempts = [j \in Jobs |-> 0]
    /\ epoch    = [j \in Jobs |-> 0]
    /\ owner    = [j \in Jobs |-> None]
    /\ left     = [j \in Jobs |-> 0]
    /\ wait     = [j \in Jobs |-> 0]
    /\ key      = [j \in Jobs |-> None]
    /\ mark     = [j \in Jobs |-> None]
    /\ outcome  = [j \in Jobs |-> [n \in 1 .. MaxAttempts |-> "NONE"]]
    /\ results  = [j \in Jobs |-> {}]
    /\ tenantActive = TRUE /\ drains = TRUE
    /\ held = [p \in Procs |-> Idle]
    /\ tx   = [p \in Procs |-> NoTx]

-----------------------------------------------------------------------------
(* Guards shared by the operations.                                        *)

\* The job row is locked by an open result transaction.
Locked(j) == \E p \in Procs : tx[p].open /\ held[p].job = j

\* Fault: the fence compares the owner but forgets the epoch.
LeaseLiveNoEpoch(p) ==
    LET j == held[p].job
    IN  /\ j # None
        /\ status[j] = "RUNNING"
        /\ owner[j] = workerId[p]
        /\ left[j] > 0

\* heartbeat_job / lock_job_lease / complete_job / fail_job accept a caller
\* only when the row is RUNNING under its id and epoch and has not expired.
LeaseLive(p) ==
    LET j == held[p].job
    IN  /\ j # None
        /\ status[j] = "RUNNING"
        /\ owner[j] = workerId[p]
        /\ epoch[j] = held[p].epoch
        /\ left[j] > 0

\* The same call, outside any transaction of p, first has to get the row lock.
MayCall(p) ==
    /\ ~tx[p].open
    /\ ~Locked(held[p].job)
    /\ LeaseLive(p)

\* Fault: the index covers queued jobs only.
ActivationSlotFreePendingOnly(s) ==
    s = None \/ \A i \in Jobs : mark[i] = s => status[i] # "PENDING"

\* Partial unique index job_one_live_activation_per_scope (000075).
ActivationSlotFree(s) ==
    s = None \/ \A i \in Jobs : mark[i] = s => status[i] \notin Live

\* Fault: a job gets one attempt more than its budget.
AfterLossOneMore(n) == IF n <= MaxAttempts THEN "PENDING" ELSE "DEAD"

\* fail_job and reclaim_expired_jobs: retry until attempt_count reaches
\* max_attempts.
AfterLoss(n) == IF n < MaxAttempts THEN "PENDING" ELSE "DEAD"

-----------------------------------------------------------------------------
(* Producers.                                                              *)

\* enqueue_job inserts unless the id or the key exists already (it then
\* answers with the existing id) or the insert breaks the unique index.  The
\* callers of internal/jobs ask for no delay (AvailableAfter 0).
Enqueue(j, k, s) ==
    /\ tenantActive
    /\ status[j] = "ABSENT"
    /\ \A i \in Jobs : key[i] # k
    /\ ActivationSlotFree(s)
    /\ status' = [status EXCEPT ![j] = "PENDING"]
    /\ key'    = [key EXCEPT ![j] = k]
    /\ mark'   = [mark EXCEPT ![j] = s]
    /\ UNCHANGED <<attempts, epoch, owner, left, wait, outcome, results,
                   envVars, held, tx>>

-----------------------------------------------------------------------------
(* Worker processes.                                                       *)

Runnable(j, lag) == status[j] = "PENDING" /\ wait[j] <= -lag

\* ORDER BY priority, available_at (ties, by id, are left open).
Precedes(i, j) ==
    \/ priority[i] < priority[j]
    \/ priority[i] = priority[j] /\ wait[i] < wait[j]

Claim(p, j, lag) ==
    /\ held[p] = Idle
    /\ tenantActive /\ drains
    /\ Runnable(j, lag)
    /\ \A i \in Jobs : Runnable(i, lag) => ~Precedes(i, j)
    /\ status'   = [status EXCEPT ![j] = "RUNNING"]
    /\ owner'    = [owner EXCEPT ![j] = workerId[p]]
    /\ epoch'    = [epoch EXCEPT ![j] = @ + 1]
    /\ attempts' = [attempts EXCEPT ![j] = @ + 1]
    /\ left'     = [left EXCEPT ![j] = LeaseTicks - lag]
    /\ wait'     = [wait EXCEPT ![j] = 0]
    /\ outcome'  = [outcome EXCEPT ![j][attempts[j] + 1] = "OPEN"]
    /\ held'     = [held EXCEPT ![p] = [job |-> j, epoch |-> epoch[j] + 1]]
    /\ UNCHANGED <<key, mark, results, envVars, tx>>

Heartbeat(p) ==
    /\ MayCall(p)
    /\ left' = [left EXCEPT ![held[p].job] = LeaseTicks]
    /\ UNCHANGED <<status, attempts, epoch, owner, wait, key, mark, outcome,
                   results, envVars, held, tx>>

\* lock_job_lease at the head of a handler's write transaction.
BeginResult(p) ==
    /\ MayCall(p)
    /\ tx' = [tx EXCEPT ![p] = [open |-> TRUE, left |-> left[held[p].job]]]
    /\ UNCHANGED <<jobVars, results, envVars, held>>

\* heartbeat_job inside that transaction (renewPostgreSQLPublicationLease):
\* it sees and moves the transaction's own, uncommitted deadline.
RenewInResult(p) ==
    /\ tx[p].open
    /\ tx[p].left > 0
    /\ tx' = [tx EXCEPT ![p].left = LeaseTicks]
    /\ UNCHANGED <<jobVars, results, envVars, held>>

\* The commit reads no clock: only the row lock protects it.
CommitResult(p) ==
    /\ tx[p].open
    /\ results' = [results EXCEPT ![held[p].job] = @ \cup {held[p].epoch}]
    /\ left'    = [left EXCEPT ![held[p].job] = tx[p].left]
    /\ tx'      = [tx EXCEPT ![p] = NoTx]
    /\ UNCHANGED <<status, attempts, epoch, owner, wait, key, mark, outcome,
                   envVars, held>>

RollbackResult(p) ==
    /\ tx[p].open
    /\ tx' = [tx EXCEPT ![p] = NoTx]
    /\ UNCHANGED <<jobVars, results, envVars, held>>

Complete(p) ==
    LET j == held[p].job
    IN  /\ MayCall(p)
        /\ status'  = [status EXCEPT ![j] = "SUCCEEDED"]
        /\ owner'   = [owner EXCEPT ![j] = None]
        /\ left'    = [left EXCEPT ![j] = 0]
        /\ outcome' = [outcome EXCEPT ![j][attempts[j]] = "SUCCEEDED"]
        /\ held'    = [held EXCEPT ![p] = Idle]
        /\ UNCHANGED <<attempts, epoch, wait, key, mark, results,
                       envVars, tx>>

\* Fault: the retry path forgets to close the attempt row.
FailLeavesAttemptOpen(p, backoff) ==
    LET j == held[p].job
    IN  /\ MayCall(p)
        /\ status' = [status EXCEPT ![j] = AfterLoss(attempts[j])]
        /\ owner'  = [owner EXCEPT ![j] = None]
        /\ left'   = [left EXCEPT ![j] = 0]
        /\ wait'   = [wait EXCEPT ![j] =
                          IF attempts[j] < MaxAttempts THEN backoff ELSE 0]
        /\ held'   = [held EXCEPT ![p] = Idle]
        /\ UNCHANGED <<attempts, epoch, key, mark, outcome, results,
                       envVars, tx>>

Fail(p, backoff) ==
    LET j == held[p].job
    IN  /\ MayCall(p)
        /\ status'  = [status EXCEPT ![j] = AfterLoss(attempts[j])]
        /\ owner'   = [owner EXCEPT ![j] = None]
        /\ left'    = [left EXCEPT ![j] = 0]
        /\ wait'    = [wait EXCEPT ![j] =
                          IF attempts[j] < MaxAttempts THEN backoff ELSE 0]
        /\ outcome' = [outcome EXCEPT ![j][attempts[j]] = "FAILED"]
        /\ held'    = [held EXCEPT ![p] = Idle]
        /\ UNCHANGED <<attempts, epoch, key, mark, results, envVars, tx>>

\* heartbeat, complete and fail are refused (CodeLeaseLost): the handler
\* returns and the process polls again.
LeaseLost(p) ==
    /\ held[p] # Idle
    /\ ~tx[p].open
    /\ ~Locked(held[p].job)
    /\ ~LeaseLive(p)
    /\ held' = [held EXCEPT ![p] = Idle]
    /\ UNCHANGED <<jobVars, results, envVars, tx>>

\* The process dies and restarts, or a swallowed database error makes the
\* handler return: the claim is forgotten, an open transaction rolls back.
Crash(p) ==
    /\ held[p] # Idle
    /\ held' = [held EXCEPT ![p] = Idle]
    /\ tx'   = [tx EXCEPT ![p] = NoTx]
    /\ UNCHANGED <<jobVars, results, envVars>>

\* Faults: reclaim waits for nobody's row lock; it takes a lease early; it
\* passes over a job that has spent its budget.
ExpiredIgnoresLock(j, lag)  == status[j] = "RUNNING" /\ left[j] < -lag
ExpiredEarly(j, lag)        == status[j] = "RUNNING" /\ left[j] <= lag /\ ~Locked(j)
ExpiredWithinBudget(j, lag) == /\ status[j] = "RUNNING" /\ left[j] < -lag
                               /\ ~Locked(j) /\ attempts[j] < MaxAttempts

Expired(j, lag) == status[j] = "RUNNING" /\ left[j] < -lag /\ ~Locked(j)

\* reclaim_expired_jobs: FOR UPDATE SKIP LOCKED, oldest deadline first, at
\* most ReclaimLimit rows; called by an idle process at the head of its poll.
Reclaim(p, S, lag) ==
    LET due == {j \in Jobs : Expired(j, lag)}
    IN  /\ held[p] = Idle
        /\ drains
        /\ S # {} /\ S \subseteq due
        /\ Cardinality(S) <= ReclaimLimit
        /\ S # due => /\ Cardinality(S) = ReclaimLimit
                      /\ \A i \in S, j \in due \ S : left[i] <= left[j]
        /\ status'  = [j \in Jobs |-> IF j \in S THEN AfterLoss(attempts[j])
                                                 ELSE status[j]]
        /\ owner'   = [j \in Jobs |-> IF j \in S THEN None ELSE owner[j]]
        /\ left'    = [j \in Jobs |-> IF j \in S THEN 0 ELSE left[j]]
        /\ wait'    = [j \in Jobs |-> IF j \in S /\ attempts[j] < MaxAttempts
                                        THEN -lag ELSE wait[j]]
        /\ outcome' = [j \in Jobs |-> IF j \in S
                         THEN [outcome[j] EXCEPT ![attempts[j]] = "LEASE_EXPIRED"]
                         ELSE outcome[j]]
        /\ UNCHANGED <<attempts, epoch, key, mark, results, envVars,
                       held, tx>>

-----------------------------------------------------------------------------
(* Environment.                                                            *)

Tick ==
    /\ left' = [j \in Jobs |-> IF status[j] = "RUNNING" THEN Count(left[j]) ELSE 0]
    /\ wait' = [j \in Jobs |-> IF status[j] = "PENDING" THEN Count(wait[j]) ELSE 0]
    /\ tx'   = [p \in Procs |-> IF tx[p].open
                                  THEN [tx[p] EXCEPT !.left = Count(@)] ELSE tx[p]]
    /\ UNCHANGED <<status, attempts, epoch, owner, key, mark, outcome,
                   results, envVars, held>>

\* An administrator suspends or resumes the organization.
SetTenant ==
    /\ tenantActive' = ~tenantActive
    /\ UNCHANGED <<drains, jobVars, results, procVars>>

\* The search outbox gets an event that cannot be applied at its head, or is
\* drained again.  poll drains it first (applySearch) and, when that fails,
\* returns before Reclaim and Claim; the supervisor restarts the process,
\* which meets the same event.
SetOutbox ==
    /\ drains' = ~drains
    /\ UNCHANGED <<tenantActive, jobVars, results, procVars>>

-----------------------------------------------------------------------------
Lags == 0 .. TxnLag

ClaimAny(p)   == \E j \in Jobs, lag \in Lags : Claim(p, j, lag)
ReclaimAny(p) == \E S \in SUBSET Jobs, lag \in Lags : Reclaim(p, S, lag)
FailAny(p)    == \E b \in Backoffs : Fail(p, b)
CloseResult(p) == CommitResult(p) \/ RollbackResult(p)
Return(p)     == Complete(p) \/ FailAny(p) \/ LeaseLost(p)

WorkerStep(p) ==
    \/ ClaimAny(p) \/ ReclaimAny(p)
    \/ Heartbeat(p) \/ BeginResult(p) \/ RenewInResult(p) \/ CloseResult(p)
    \/ Return(p) \/ Crash(p)

Next ==
    \/ \E j \in Jobs, k \in Keys, s \in Scopes \cup {None} : Enqueue(j, k, s)
    \/ \E p \in Procs : WorkerStep(p)
    \/ Tick
    \/ SetTenant
    \/ SetOutbox

Spec == Init /\ [][Next]_vars

\* Time passes, an idle process keeps polling, an open transaction ends, and
\* a handler does a finite amount of work, so it returns.  A poll reaches
\* Reclaim and Claim only while drains holds: that is in their guards, so the
\* fairness promises nothing of a process whose search outbox is stuck.
Fairness ==
    /\ WF_vars(Tick)
    /\ \A p \in Procs : /\ WF_vars(ClaimAny(p))
                        /\ WF_vars(ReclaimAny(p))
                        /\ WF_vars(CloseResult(p))
                        /\ SF_vars(Return(p))

FairSpec == Spec /\ Fairness

-----------------------------------------------------------------------------
(* Properties.                                                             *)

\* POKA_YOKE JOB-004: no two processes pass the lease fence of one job at the
\* same time, even if they are configured with the same worker id, because
\* claim_next_job gives every lease a new epoch.
LeaseExclusive ==
    \A p, q \in Procs :
        p # q /\ held[p].job = held[q].job => ~(LeaseLive(p) /\ LeaseLive(q))

\* The row lock lock_job_lease takes keeps the fence closed until the commit:
\* while a result transaction is open its lease is still the job's current
\* one, even when the deadline has passed meanwhile, and no second
\* transaction is open on the job.
ResultFenced ==
    \A p \in Procs : tx[p].open =>
        LET j == held[p].job
        IN  /\ j \in Jobs
            /\ status[j] = "RUNNING"
            /\ owner[j] = workerId[p]
            /\ epoch[j] = held[p].epoch
            /\ \A q \in Procs : tx[q].open /\ held[q].job = j => q = p

\* job and job_attempt tell one story: attempts 1 .. attempt_count exist, all
\* but the last ended without success, the last is open exactly while the job
\* is RUNNING and succeeded exactly when the job did, the epoch counts the
\* attempts, and only a spent budget makes a job DEAD.
AttemptLedger ==
    \A j \in Jobs :
        /\ epoch[j] = attempts[j]
        /\ \A n \in 1 .. MaxAttempts :
             /\ n > attempts[j] <=> outcome[j][n] = "NONE"
             /\ n < attempts[j] => outcome[j][n] \in {"FAILED", "LEASE_EXPIRED"}
             /\ n = attempts[j] =>
                  /\ outcome[j][n] = "OPEN" <=> status[j] = "RUNNING"
                  /\ outcome[j][n] = "SUCCEEDED" <=> status[j] = "SUCCEEDED"
        /\ status[j] = "ABSENT" => attempts[j] = 0
        /\ status[j] \in {"RUNNING", "SUCCEEDED"} => attempts[j] > 0
        /\ status[j] = "DEAD" => attempts[j] = MaxAttempts
        /\ status[j] = "PENDING" => attempts[j] < MaxAttempts

\* Review remark Z5 (000075): a scope never has two live activation jobs,
\* whatever the order of enqueues, retries and completions.
OneLiveActivation ==
    \A i, j \in Jobs :
        /\ i # j /\ mark[i] # None /\ mark[i] = mark[j]
        /\ status[i] \in Live
        => status[j] \notin Live

\* When a process holds a live lease and does not give it up in this step, the
\* row still names it and its deadline comes no more than a tick closer.
LeaseKept ==
    \A p \in Procs :
        LeaseLive(p) /\ held'[p] = held[p] =>
            LET j == held[p].job
            IN  /\ status'[j] = "RUNNING"
                /\ owner'[j] = owner[j]
                /\ epoch'[j] = epoch[j]
                /\ left'[j] >= left[j] - 1

\* Nobody takes a live lease away: neither reclaim nor the commit of a result,
\* nor a stale process with the same id, ends a lease that has not expired.
LiveLeaseSurvives == [][LeaseKept]_vars

Ledger == INSTANCE JobLedger

\* The queue implements the ledger: results are recorded only under the
\* current lease, a budget bounds the leases, and what has ended stays ended
\* (POKA_YOKE JOB-001, JOB-003, JOB-004).
ImplementsLedger == Ledger!Spec

\* JOB-001: once the tenant stays active and the search outbox can be drained,
\* every job that was enqueued ends SUCCEEDED or DEAD, whatever crashes, lost
\* leases and retries happen.  Without the second condition it would be false:
\* poll returns applySearch's error before it reclaims or claims anything.
EveryJobSettles ==
    <>[](tenantActive /\ drains) =>
        \A j \in Jobs : status[j] \in Live ~> status[j] \in Terminal
=============================================================================
