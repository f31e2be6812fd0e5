---------------------------- MODULE JobQueueProofs ----------------------------
(***************************************************************************)
(* Proofs about JobQueue for every number of jobs, workers and scopes, and *)
(* every lease length, retry budget and clock lag.                         *)
(*                                                                         *)
(* None of the safety properties is inductive alone.  LeaseExclusive needs *)
(* that two processes never remember the same (job, epoch) pair, and that  *)
(* needs that nobody remembers an epoch the job has not reached;           *)
(* ResultFenced needs the attempt ledger to know what a claim can touch;   *)
(* LiveLeaseSurvives needs that a transaction's own deadline is never      *)
(* behind the row's.  IInv joins them.                                     *)
(***************************************************************************)
EXTENDS JobQueue, TLAPS

\* A process remembers nothing, or an epoch its job has really reached.
HeldKnown ==
    \A p \in Procs :
        \/ held[p] = Idle
        \/ /\ held[p].job \in Jobs
           /\ 0 < held[p].epoch /\ held[p].epoch <= epoch[held[p].job]

\* No two processes remember the same claim.
HeldUnique ==
    \A p, q \in Procs :
        /\ p # q /\ held[p].job # None /\ held[p].job = held[q].job
        => held[p].epoch # held[q].epoch

\* A deadline is never more than one lease away, and the deadline an open
\* transaction will commit is not before the one in the row.
DeadlineBounds ==
    /\ \A j \in Jobs : left[j] <= LeaseTicks
    /\ \A p \in Procs : tx[p].open =>
          left[held[p].job] <= tx[p].left /\ tx[p].left <= LeaseTicks

\* The inductive invariant.
IInv ==
    /\ TypeOK
    /\ AttemptLedger
    /\ ResultFenced
    /\ OneLiveActivation
    /\ HeldKnown
    /\ HeldUnique
    /\ DeadlineBounds

-----------------------------------------------------------------------------
(* Every step preserves IInv: one lemma per action.                        *)

\* enqueue_job touches one ABSENT row, which nobody holds.
LEMMA EnqueueInd ==
    ASSUME IInv, NEW j \in Jobs, NEW k \in Keys,
           NEW s \in Scopes \cup {None}, Enqueue(j, k, s)
    PROVE  IInv'
<1>1. TypeOK'
  BY QueueAssumption DEF IInv, TypeOK, envVars, Enqueue, Statuses, Live
<1>2. AttemptLedger'
  BY QueueAssumption DEF IInv, TypeOK, AttemptLedger, Enqueue
<1>3. ResultFenced'
  BY DEF IInv, TypeOK, ResultFenced, Enqueue
<1>4. OneLiveActivation'
  BY QueueAssumption DEF IInv, TypeOK, OneLiveActivation, Enqueue,
         ActivationSlotFree, Live
<1>5. HeldKnown' /\ HeldUnique' /\ DeadlineBounds'
  BY DEF IInv, HeldKnown, HeldUnique, DeadlineBounds, Enqueue
<1> QED BY <1>1, <1>2, <1>3, <1>4, <1>5 DEF IInv

\* claim_next_job: the row was PENDING, so no transaction is open on it, and
\* the new epoch is larger than any a process remembers.
LEMMA ClaimInd ==
    ASSUME IInv, NEW p \in Procs, NEW j \in Jobs, NEW lag \in Lags,
           Claim(p, j, lag)
    PROVE  IInv'
<1>1. /\ status[j] = "PENDING"
      /\ attempts[j] \in Nat /\ attempts[j] + 1 \in 1 .. MaxAttempts
      /\ epoch[j] = attempts[j] /\ lag \in Nat
  BY QueueAssumption DEF IInv, TypeOK, AttemptLedger, Claim, Runnable, Lags
<1>2. ~tx[p].open
  BY QueueAssumption DEF IInv, ResultFenced, Claim, Idle
<1>3. \A q \in Procs : tx[q].open => held[q].job # j
  BY <1>1 DEF IInv, ResultFenced
<1>4. \A q \in Procs : held[q].job = j => held[q].epoch <= epoch[j]
  BY QueueAssumption DEF IInv, HeldKnown, Idle
<1>5. TypeOK'
  <2>1. outcome' \in [Jobs -> [1 .. MaxAttempts -> Outcomes]]
    BY <1>1 DEF IInv, TypeOK, envVars, Claim, Outcomes
  <2>2. attempts' \in [Jobs -> 0 .. MaxAttempts]
    BY <1>1, QueueAssumption DEF IInv, TypeOK, envVars, Claim
  <2>3. /\ status' \in [Jobs -> Statuses]
        /\ owner' \in [Jobs -> WorkerIds \cup {None}]
    BY QueueAssumption DEF IInv, TypeOK, envVars, Claim, Statuses, Live
  <2>4. epoch' \in [Jobs -> Nat] /\ left' \in [Jobs -> Int] /\ wait' \in [Jobs -> Int]
    BY <1>1, QueueAssumption DEF IInv, TypeOK, envVars, Claim
  <2>5. held' \in [Procs -> [job : Jobs \cup {None}, epoch : Nat]]
    BY <1>1 DEF IInv, TypeOK, envVars, Claim
  <2> QED BY <2>1, <2>2, <2>3, <2>4, <2>5 DEF IInv, TypeOK, envVars, Claim
<1>6. AttemptLedger'
  <2> SUFFICES ASSUME NEW i \in Jobs
               PROVE AttemptLedger!(i)'
    BY DEF AttemptLedger
  <2>1. CASE i # j
    BY <2>1, <1>1, QueueAssumption DEF IInv, TypeOK, AttemptLedger, Claim
  <2>2. CASE i = j
    <3> DEFINE n == attempts[j] + 1
    <3>1. /\ attempts'[j] = n /\ epoch'[j] = n /\ status'[j] = "RUNNING"
          /\ \A m \in 1 .. MaxAttempts :
                outcome'[j][m] = IF m = n THEN "OPEN" ELSE outcome[j][m]
      BY <1>1 DEF IInv, TypeOK, Claim
    <3>3. \A m \in 1 .. MaxAttempts : outcome[j][m] \in Outcomes
      <4>1. outcome \in [Jobs -> [1 .. MaxAttempts -> Outcomes]]
        BY DEF IInv, TypeOK
      <4> QED BY <4>1
    <3>2. /\ n \in 1 .. MaxAttempts
          /\ \A m \in 1 .. MaxAttempts :
               /\ m >= n <=> outcome[j][m] = "NONE"
               /\ m < n => outcome[j][m] \in {"FAILED", "LEASE_EXPIRED"}
      BY <1>1, <3>3, QueueAssumption DEF IInv, AttemptLedger, Outcomes
    <3> HIDE DEF n
    <3> QED BY <3>1, <3>2, <2>2, QueueAssumption
  <2> QED BY <2>1, <2>2
<1>7. ResultFenced'
  BY <1>2, <1>3 DEF IInv, TypeOK, ResultFenced, Claim
<1>8. OneLiveActivation'
  BY <1>1 DEF IInv, TypeOK, OneLiveActivation, Claim, Live
<1>9. /\ \A q \in Procs : held'[q] = IF q = p THEN [job |-> j, epoch |-> epoch[j] + 1]
                                              ELSE held[q]
      /\ \A i \in Jobs : epoch'[i] = IF i = j THEN epoch[j] + 1 ELSE epoch[i]
      /\ \A i \in Jobs : left'[i] = IF i = j THEN LeaseTicks - lag ELSE left[i]
      /\ tx' = tx
  BY DEF IInv, TypeOK, Claim
<1>10. /\ \A i \in Jobs : epoch[i] \in Nat /\ left[i] \in Int
       /\ \A q \in Procs : held[q].epoch \in Nat
  BY DEF IInv, TypeOK
<1>11. HeldKnown'
  BY <1>1, <1>9, <1>10, QueueAssumption DEF IInv, HeldKnown, Idle
<1>12. HeldUnique'
  BY <1>1, <1>4, <1>9, <1>10, QueueAssumption DEF IInv, HeldUnique
<1>13. DeadlineBounds'
  BY <1>1, <1>2, <1>3, <1>9, <1>10, QueueAssumption DEF IInv, DeadlineBounds, ResultFenced
<1> QED BY <1>5, <1>6, <1>7, <1>8, <1>11, <1>12, <1>13 DEF IInv

\* heartbeat_job moves one deadline, of a row nobody has locked.
LEMMA HeartbeatInd ==
    ASSUME IInv, NEW p \in Procs, Heartbeat(p)
    PROVE  IInv'
<1>1. TypeOK'
  BY QueueAssumption DEF IInv, TypeOK, envVars, Heartbeat, MayCall, LeaseLive
<1>2. AttemptLedger' /\ ResultFenced' /\ OneLiveActivation'
  BY DEF IInv, AttemptLedger, ResultFenced, OneLiveActivation, Heartbeat
<1>3. HeldKnown' /\ HeldUnique'
  BY DEF IInv, HeldKnown, HeldUnique, Heartbeat
<1>4. DeadlineBounds'
  BY QueueAssumption DEF IInv, TypeOK, DeadlineBounds, Heartbeat, Locked,
         MayCall, LeaseLive
<1> QED BY <1>1, <1>2, <1>3, <1>4 DEF IInv

\* lock_job_lease: the caller passed the fence and the row was unlocked.
LEMMA BeginResultInd ==
    ASSUME IInv, NEW p \in Procs, BeginResult(p)
    PROVE  IInv'
<1>1. TypeOK'
  BY QueueAssumption DEF IInv, TypeOK, envVars, ResultFenced, HeldKnown, BeginResult,
         jobVars, Idle, MayCall, LeaseLive
<1>2. ResultFenced'
  BY QueueAssumption DEF IInv, TypeOK, ResultFenced, HeldKnown, BeginResult,
         jobVars, Idle, Locked, MayCall, LeaseLive
<1>3. DeadlineBounds'
  BY QueueAssumption DEF IInv, TypeOK, DeadlineBounds, HeldKnown, BeginResult,
         jobVars, Idle, MayCall, LeaseLive
<1>4. AttemptLedger' /\ OneLiveActivation' /\ HeldKnown' /\ HeldUnique'
  BY DEF IInv, AttemptLedger, OneLiveActivation, HeldKnown, HeldUnique,
         BeginResult, jobVars
<1> QED BY <1>1, <1>2, <1>3, <1>4 DEF IInv

\* A heartbeat inside the transaction moves only its own deadline.
LEMMA RenewInResultInd ==
    ASSUME IInv, NEW p \in Procs, RenewInResult(p)
    PROVE  IInv'
<1>1. TypeOK'
  <2>1. tx \in [Procs -> [open : BOOLEAN, left : Int]] /\ LeaseTicks \in Int
    BY QueueAssumption DEF IInv, TypeOK
  <2>2. tx' \in [Procs -> [open : BOOLEAN, left : Int]]
    BY <2>1 DEF RenewInResult
  <2> QED BY <2>2 DEF IInv, TypeOK, envVars, RenewInResult, jobVars
<1>2. ResultFenced'
  BY DEF IInv, TypeOK, ResultFenced, RenewInResult, jobVars
<1>3. DeadlineBounds'
  BY QueueAssumption DEF IInv, TypeOK, ResultFenced, DeadlineBounds,
         RenewInResult, jobVars
<1>4. AttemptLedger' /\ OneLiveActivation' /\ HeldKnown' /\ HeldUnique'
  BY DEF IInv, AttemptLedger, OneLiveActivation, HeldKnown, HeldUnique,
         RenewInResult, jobVars
<1> QED BY <1>1, <1>2, <1>3, <1>4 DEF IInv

\* The commit closes the only transaction open on its job.
LEMMA CommitResultInd ==
    ASSUME IInv, NEW p \in Procs, CommitResult(p)
    PROVE  IInv'
<1>1. TypeOK'
  BY QueueAssumption DEF IInv, TypeOK, envVars, ResultFenced, CommitResult, NoTx
<1>2. ResultFenced'
  BY DEF IInv, TypeOK, ResultFenced, CommitResult, NoTx
<1>3. DeadlineBounds'
  BY QueueAssumption DEF IInv, TypeOK, ResultFenced, DeadlineBounds,
         CommitResult, NoTx
<1>4. AttemptLedger' /\ OneLiveActivation' /\ HeldKnown' /\ HeldUnique'
  BY DEF IInv, AttemptLedger, OneLiveActivation, HeldKnown, HeldUnique,
         CommitResult
<1> QED BY <1>1, <1>2, <1>3, <1>4 DEF IInv

\* A rollback leaves the row as it was.
LEMMA RollbackResultInd ==
    ASSUME IInv, NEW p \in Procs, RollbackResult(p)
    PROVE  IInv'
<1>1. TypeOK'
  BY DEF IInv, TypeOK, envVars, RollbackResult, jobVars, NoTx
<1>2. ResultFenced' /\ DeadlineBounds'
  BY DEF IInv, TypeOK, ResultFenced, DeadlineBounds, RollbackResult, jobVars,
         NoTx
<1>3. AttemptLedger' /\ OneLiveActivation' /\ HeldKnown' /\ HeldUnique'
  BY DEF IInv, AttemptLedger, OneLiveActivation, HeldKnown, HeldUnique,
         RollbackResult, jobVars
<1> QED BY <1>1, <1>2, <1>3 DEF IInv

\* complete_job: fenced, so it ends the current attempt.
LEMMA CompleteInd ==
    ASSUME IInv, NEW p \in Procs, Complete(p)
    PROVE  IInv'
<1>1. TypeOK'
  BY QueueAssumption DEF IInv, TypeOK, envVars, HeldKnown, AttemptLedger, Complete,
         Idle, Statuses, Live, Terminal, Outcomes, MayCall, LeaseLive
<1>2. AttemptLedger'
  BY QueueAssumption DEF IInv, TypeOK, AttemptLedger, HeldKnown, Complete,
         Idle, Outcomes, MayCall, LeaseLive
<1>3. ResultFenced'
  BY QueueAssumption DEF IInv, TypeOK, ResultFenced, HeldKnown, Complete,
         Idle, Locked, MayCall, LeaseLive
<1>4. OneLiveActivation'
  BY QueueAssumption DEF IInv, TypeOK, OneLiveActivation, Complete, Live,
         MayCall, LeaseLive
<1>5. HeldKnown' /\ HeldUnique'
  BY QueueAssumption DEF IInv, TypeOK, HeldKnown, HeldUnique, Complete, Idle,
         MayCall, LeaseLive
<1>6. DeadlineBounds'
  BY QueueAssumption DEF IInv, TypeOK, ResultFenced, DeadlineBounds, Complete,
         Locked, Idle, MayCall, LeaseLive
<1> QED BY <1>1, <1>2, <1>3, <1>4, <1>5, <1>6 DEF IInv

\* fail_job: fenced, so it ends the current attempt.
LEMMA FailInd ==
    ASSUME IInv, NEW p \in Procs, NEW backoff \in Backoffs, Fail(p, backoff)
    PROVE  IInv'
<1>1. TypeOK'
  BY QueueAssumption DEF IInv, TypeOK, envVars, HeldKnown, AttemptLedger, Fail, Idle,
         Statuses, Live, Terminal, Outcomes, AfterLoss, MayCall, LeaseLive
<1>2. AttemptLedger'
  BY QueueAssumption DEF IInv, TypeOK, AttemptLedger, HeldKnown, Fail, Idle,
         Outcomes, AfterLoss, MayCall, LeaseLive
<1>3. ResultFenced'
  BY QueueAssumption DEF IInv, TypeOK, ResultFenced, HeldKnown, Fail, Idle,
         Locked, MayCall, LeaseLive
<1>4. OneLiveActivation'
  BY QueueAssumption DEF IInv, TypeOK, OneLiveActivation, Fail, Live,
         AfterLoss, MayCall, LeaseLive
<1>5. HeldKnown' /\ HeldUnique'
  BY QueueAssumption DEF IInv, TypeOK, HeldKnown, HeldUnique, Fail, Idle,
         MayCall, LeaseLive
<1>6. DeadlineBounds'
  BY QueueAssumption DEF IInv, TypeOK, ResultFenced, DeadlineBounds, Fail,
         Locked, Idle, MayCall, LeaseLive
<1> QED BY <1>1, <1>2, <1>3, <1>4, <1>5, <1>6 DEF IInv

\* A refused call only makes the process forget its claim.
LEMMA LeaseLostInd ==
    ASSUME IInv, NEW p \in Procs, LeaseLost(p)
    PROVE  IInv'
<1>1. TypeOK'
  BY QueueAssumption DEF IInv, TypeOK, envVars, LeaseLost, jobVars, Idle
<1>2. ResultFenced' /\ DeadlineBounds'
  BY DEF IInv, TypeOK, ResultFenced, DeadlineBounds, LeaseLost, jobVars, Idle
<1>3. HeldKnown' /\ HeldUnique'
  BY DEF IInv, TypeOK, HeldKnown, HeldUnique, LeaseLost, jobVars, Idle
<1>4. AttemptLedger' /\ OneLiveActivation'
  BY DEF IInv, AttemptLedger, OneLiveActivation, LeaseLost, jobVars
<1> QED BY <1>1, <1>2, <1>3, <1>4 DEF IInv

\* A crash forgets the claim and rolls the transaction back.
LEMMA CrashInd ==
    ASSUME IInv, NEW p \in Procs, Crash(p)
    PROVE  IInv'
<1>1. TypeOK'
  BY QueueAssumption DEF IInv, TypeOK, envVars, Crash, jobVars, Idle, NoTx
<1>2. ResultFenced' /\ DeadlineBounds'
  BY DEF IInv, TypeOK, ResultFenced, DeadlineBounds, Crash, jobVars, Idle, NoTx
<1>3. HeldKnown' /\ HeldUnique'
  BY DEF IInv, TypeOK, HeldKnown, HeldUnique, Crash, jobVars, Idle
<1>4. AttemptLedger' /\ OneLiveActivation'
  BY DEF IInv, AttemptLedger, OneLiveActivation, Crash, jobVars
<1> QED BY <1>1, <1>2, <1>3, <1>4 DEF IInv

\* reclaim_expired_jobs: only rows without an open transaction are taken.
LEMMA ReclaimInd ==
    ASSUME IInv, NEW p \in Procs, NEW S \in SUBSET Jobs,
           NEW lag \in Lags, Reclaim(p, S, lag)
    PROVE  IInv'
<1>1. TypeOK'
  <2>0. lag \in Int BY QueueAssumption DEF Lags
  <2>1. left' \in [Jobs -> Int] /\ wait' \in [Jobs -> Int]
    BY <2>0, QueueAssumption DEF IInv, TypeOK, envVars, Reclaim
  <2>2. status' \in [Jobs -> Statuses] /\ owner' \in [Jobs -> WorkerIds \cup {None}]
    BY DEF IInv, TypeOK, envVars, Reclaim, Statuses, Live, Terminal, AfterLoss
  <2>3. outcome' \in [Jobs -> [1 .. MaxAttempts -> Outcomes]]
    <3>1. outcome \in [Jobs -> [1 .. MaxAttempts -> Outcomes]]
      BY DEF IInv, TypeOK
    <3> QED BY <3>1 DEF Reclaim, Outcomes
  <2> QED BY <2>1, <2>2, <2>3 DEF IInv, TypeOK, envVars, Reclaim
<1>2. AttemptLedger'
  BY QueueAssumption DEF IInv, TypeOK, AttemptLedger, Reclaim, Expired,
         AfterLoss, Outcomes
<1>3. ResultFenced'
  BY DEF IInv, TypeOK, ResultFenced, Reclaim, Expired, Locked
<1>4. OneLiveActivation'
  BY DEF IInv, TypeOK, OneLiveActivation, Reclaim, Expired, AfterLoss, Live
<1>5. HeldKnown' /\ HeldUnique'
  BY DEF IInv, HeldKnown, HeldUnique, Reclaim
<1>6. DeadlineBounds'
  <2>1. \A q \in Procs : tx[q].open => held[q].job \in Jobs \ S
    BY DEF IInv, ResultFenced, Reclaim, Expired, Locked
  <2>2. /\ \A i \in Jobs : left'[i] = IF i \in S THEN 0 ELSE left[i]
        /\ held' = held /\ tx' = tx
    BY DEF Reclaim
  <2>3. LeaseTicks \in Int /\ LeaseTicks > 0
    BY QueueAssumption
  <2> QED BY <2>1, <2>2, <2>3 DEF IInv, DeadlineBounds
<1> QED BY <1>1, <1>2, <1>3, <1>4, <1>5, <1>6 DEF IInv

\* Time moves a row's deadline and its transaction's together.
LEMMA TickInd ==
    ASSUME IInv, Tick
    PROVE  IInv'
<1>1. TypeOK'
  <2>1. left' \in [Jobs -> Int] /\ wait' \in [Jobs -> Int]
    BY QueueAssumption DEF IInv, TypeOK, envVars, Tick, Count, Floor
  <2>2. tx' \in [Procs -> [open : BOOLEAN, left : Int]]
    <3>1. ASSUME NEW p \in Procs PROVE tx'[p] \in [open : BOOLEAN, left : Int]
       <4>1. tx[p] \in [open : BOOLEAN, left : Int] BY DEF IInv, TypeOK
       <4>2. Count(tx[p].left) \in Int BY <4>1, QueueAssumption DEF Count, Floor
       <4> QED BY <4>1, <4>2 DEF Tick
    <3> QED BY <3>1 DEF Tick
  <2> QED BY <2>1, <2>2 DEF IInv, TypeOK, envVars, Tick
<1>2. DeadlineBounds'
  <2>1. \A m, n \in Int : m <= n => Count(m) <= Count(n) /\ Count(n) <= n
    BY QueueAssumption DEF Count, Floor
  <2>2. \A j \in Jobs : left[j] \in Int /\ Count(left[j]) \in Int
    BY QueueAssumption DEF IInv, TypeOK, Count, Floor
  <2>3. ASSUME NEW j \in Jobs
        PROVE  left'[j] <= LeaseTicks
    BY <2>1, <2>2, QueueAssumption DEF IInv, DeadlineBounds, Tick
  <2>4. ASSUME NEW p \in Procs, tx'[p].open
        PROVE  left'[held'[p].job] <= tx'[p].left /\ tx'[p].left <= LeaseTicks
    <3>1. /\ tx[p].open /\ tx[p].left \in Int
          /\ tx'[p].left = Count(tx[p].left) /\ held' = held
      BY <2>4 DEF IInv, TypeOK, Tick
    <3>2. /\ held[p].job \in Jobs
          /\ left'[held[p].job] = Count(left[held[p].job])
          /\ left[held[p].job] <= tx[p].left /\ tx[p].left <= LeaseTicks
      BY <3>1 DEF IInv, ResultFenced, DeadlineBounds, Tick
    <3>3. Count(tx[p].left) \in Int /\ LeaseTicks \in Int
      BY <3>1, QueueAssumption DEF Count, Floor
    <3> QED BY <2>1, <2>2, <3>1, <3>2, <3>3
  <2> QED BY <2>3, <2>4 DEF DeadlineBounds
<1>3. ResultFenced'
  BY DEF IInv, TypeOK, ResultFenced, Tick
<1>4. AttemptLedger' /\ OneLiveActivation' /\ HeldKnown' /\ HeldUnique'
  BY DEF IInv, AttemptLedger, OneLiveActivation, HeldKnown, HeldUnique, Tick
<1> QED BY <1>1, <1>2, <1>3, <1>4 DEF IInv

\* Suspending the organization or sticking its search outbox touches neither
\* jobs nor processes.
LEMMA EnvironmentInd ==
    ASSUME IInv, SetTenant \/ SetOutbox
    PROVE  IInv'
<1>1. UNCHANGED <<jobVars, results, procVars>>
  BY DEF SetTenant, SetOutbox
<1>2. TypeOK'
  <2>1. tenantActive' \in BOOLEAN /\ drains' \in BOOLEAN
    BY DEF IInv, TypeOK, SetTenant, SetOutbox
  <2> QED BY <1>1, <2>1 DEF IInv, TypeOK, jobVars, procVars
<1>3. AttemptLedger' /\ ResultFenced' /\ OneLiveActivation'
  BY <1>1 DEF IInv, AttemptLedger, ResultFenced, OneLiveActivation, jobVars,
              procVars
<1>4. HeldKnown' /\ HeldUnique' /\ DeadlineBounds'
  BY <1>1 DEF IInv, HeldKnown, HeldUnique, DeadlineBounds, jobVars, procVars
<1> QED BY <1>2, <1>3, <1>4 DEF IInv

-----------------------------------------------------------------------------
LEMMA InitInd == Init => IInv
<1> SUFFICES ASSUME Init PROVE IInv
  OBVIOUS
<1>1. TypeOK
  BY QueueAssumption DEF Init, TypeOK, Statuses, Outcomes, Idle, NoTx
<1>2. AttemptLedger /\ ResultFenced /\ OneLiveActivation
  BY QueueAssumption
     DEF Init, AttemptLedger, ResultFenced, OneLiveActivation, NoTx, Live
<1>3. HeldKnown /\ HeldUnique /\ DeadlineBounds
  BY QueueAssumption
     DEF Init, HeldKnown, HeldUnique, DeadlineBounds, Idle, NoTx
<1> QED BY <1>1, <1>2, <1>3 DEF IInv

LEMMA NextInd == IInv /\ [Next]_vars => IInv'
<1> SUFFICES ASSUME IInv, [Next]_vars PROVE IInv'
  OBVIOUS
<1>1. ASSUME NEW p \in Procs, WorkerStep(p) PROVE IInv'
  BY <1>1, ClaimInd, ReclaimInd, HeartbeatInd, BeginResultInd, RenewInResultInd,
     CommitResultInd, RollbackResultInd, CompleteInd, FailInd, LeaseLostInd,
     CrashInd
     DEF WorkerStep, ClaimAny, ReclaimAny, FailAny, CloseResult, Return
<1>2. CASE UNCHANGED vars
  BY <1>2 DEF IInv, TypeOK, AttemptLedger, ResultFenced, OneLiveActivation,
              HeldKnown, HeldUnique, DeadlineBounds, vars, envVars, jobVars,
              procVars
<1> QED BY <1>1, <1>2, EnqueueInd, TickInd, EnvironmentInd DEF Next

\* The strengthened invariant holds in every reachable state.
THEOREM Invariance == Spec => []IInv
BY InitInd, NextInd, PTL DEF Spec

-----------------------------------------------------------------------------
(* Consequences.                                                           *)

\* Every column keeps its domain; in particular attempt_count never exceeds
\* max_attempts, whatever retries and reclaims happen.
THEOREM TypeCorrect == Spec => []TypeOK
<1>1. IInv => TypeOK
  BY DEF IInv
<1> QED BY Invariance, <1>1, PTL

\* The fence admits at most one process per job (JOB-004), for any assignment
\* of worker ids to processes, the constant one included.
THEOREM LeaseExclusion == Spec => []LeaseExclusive
<1>1. IInv => LeaseExclusive
  BY QueueAssumption DEF IInv, HeldUnique, LeaseExclusive, LeaseLive
<1> QED BY Invariance, <1>1, PTL

\* Between lock_job_lease and the commit the lease stays the current one.
THEOREM ResultFencing == Spec => []ResultFenced
<1>1. IInv => ResultFenced
  BY DEF IInv
<1> QED BY Invariance, <1>1, PTL

\* job and job_attempt agree in every reachable state.
THEOREM AttemptAccounting == Spec => []AttemptLedger
<1>1. IInv => AttemptLedger
  BY DEF IInv
<1> QED BY Invariance, <1>1, PTL

\* A scope never has two live activation jobs.
THEOREM OneActivation == Spec => []OneLiveActivation
<1>1. IInv => OneLiveActivation
  BY DEF IInv
<1> QED BY Invariance, <1>1, PTL

-----------------------------------------------------------------------------
(* No step takes a live lease away.                                        *)

\* Two processes cannot both pass the fence, and a process whose transaction
\* is open on a job shares the job with no other live lease.
LEMMA SoleHolder ==
    ASSUME IInv, NEW p \in Procs, NEW q \in Procs, LeaseLive(p),
           held[q].job = held[p].job, LeaseLive(q) \/ tx[q].open
    PROVE  p = q
BY QueueAssumption DEF IInv, HeldUnique, ResultFenced, LeaseLive

LEMMA KeptStep == IInv /\ [Next]_vars => [LeaseKept]_vars
<1> SUFFICES ASSUME IInv, Next, NEW p \in Procs, LeaseLive(p),
                    held'[p] = held[p]
             PROVE  LET j == held[p].job
                    IN  /\ status'[j] = "RUNNING" /\ owner'[j] = owner[j]
                        /\ epoch'[j] = epoch[j] /\ left'[j] >= left[j] - 1
  BY DEF LeaseKept
<1> DEFINE h == held[p].job
<1>1. /\ h \in Jobs /\ h # None /\ held[p] # Idle
      /\ status[h] = "RUNNING" /\ owner[h] = workerId[p]
      /\ epoch[h] = held[p].epoch /\ left[h] \in Int
      /\ left[h] > 0 /\ left[h] <= LeaseTicks
  <2>1. held[p] # Idle
    BY DEF LeaseLive, Idle
  <2>2. h \in Jobs
    BY <2>1 DEF IInv, HeldKnown
  <2> QED BY <2>1, <2>2, QueueAssumption DEF IInv, TypeOK, LeaseLive, DeadlineBounds
<1> HIDE DEF h
<1> DEFINE Kept == /\ status'[h] = "RUNNING" /\ owner'[h] = owner[h]
                   /\ epoch'[h] = epoch[h] /\ left'[h] >= left[h] - 1
<1>2. SUFFICES Kept
  BY <1>1 DEF h
<1>3. ASSUME NEW j \in Jobs, NEW k \in Keys, NEW s \in Scopes \cup {None},
             Enqueue(j, k, s)
      PROVE  Kept
  BY <1>1, <1>3 DEF IInv, TypeOK, Enqueue, h
<1>4. ASSUME NEW q \in Procs, NEW j \in Jobs, NEW lag \in Lags, Claim(q, j, lag)
      PROVE  Kept
  BY <1>1, <1>4 DEF IInv, TypeOK, Claim, Runnable, h
<1>5. ASSUME NEW q \in Procs, NEW S \in SUBSET Jobs, NEW lag \in Lags,
             Reclaim(q, S, lag)
      PROVE  Kept
  <2>1. h \notin S
    BY <1>1, <1>5, QueueAssumption DEF Reclaim, Expired, Lags, h
  <2> QED BY <1>1, <1>5, <2>1 DEF Reclaim, h
<1>6. ASSUME NEW q \in Procs, Heartbeat(q)
      PROVE  Kept
  BY <1>1, <1>6, QueueAssumption DEF IInv, TypeOK, Heartbeat, h
<1>7. ASSUME NEW q \in Procs,
             BeginResult(q) \/ RenewInResult(q) \/ RollbackResult(q)
                \/ LeaseLost(q) \/ Crash(q) \/ SetTenant \/ SetOutbox
      PROVE  Kept
  BY <1>1, <1>7 DEF BeginResult, RenewInResult, RollbackResult, LeaseLost,
                    Crash, SetTenant, SetOutbox, jobVars, h
<1>8. ASSUME NEW q \in Procs, CommitResult(q)
      PROVE  Kept
  <2>1. CASE held[q].job # h
    BY <1>1, <1>8, <2>1 DEF IInv, TypeOK, CommitResult, h
  <2>2. CASE held[q].job = h
    <3>1. /\ tx[q].open /\ tx[q].left \in Int
          /\ left[h] <= tx[q].left
      BY <1>8, <2>2 DEF IInv, TypeOK, DeadlineBounds, CommitResult
    <3>2. left'[h] = tx[q].left
      BY <1>1, <1>8, <2>2 DEF IInv, TypeOK, CommitResult
    <3> QED BY <1>1, <1>8, <3>1, <3>2 DEF CommitResult, h
  <2> QED BY <2>1, <2>2
<1>9. ASSUME NEW q \in Procs, Complete(q) \/ \E b \in Backoffs : Fail(q, b)
      PROVE  Kept
  <2>1. LeaseLive(q) /\ held'[q] = Idle
    BY <1>9 DEF IInv, TypeOK, Complete, Fail, MayCall
  <2>2. held[q].job # h
    BY <1>1, <2>1, SoleHolder DEF h
  <2> QED BY <1>1, <1>9, <2>2 DEF IInv, TypeOK, Complete, Fail, h
<1>10. CASE Tick
  BY <1>1, <1>10, QueueAssumption DEF Tick, Count, Floor, h
<1> QED BY <1>3, <1>4, <1>5, <1>6, <1>7, <1>8, <1>9, <1>10
        DEF Next, WorkerStep, ClaimAny, ReclaimAny, FailAny, CloseResult, Return

\* An unexpired lease ends only by its holder's own Complete, Fail or crash.
THEOREM LiveLeaseKept == Spec => LiveLeaseSurvives
BY Invariance, KeptStep, PTL DEF Spec, LiveLeaseSurvives

-----------------------------------------------------------------------------
(* The queue implements the ledger.                                        *)

LEMMA LedgerInit == Init => Ledger!Init
BY DEF Init, Ledger!Init

LEMMA LedgerStep == IInv /\ [Next]_vars => [Ledger!Next]_(Ledger!ledgerVars)
<1> SUFFICES ASSUME IInv, Next
             PROVE  Ledger!Next \/ UNCHANGED Ledger!ledgerVars
  BY DEF vars, jobVars, procVars, Ledger!ledgerVars
<1>1. ASSUME NEW j \in Jobs, NEW k \in Keys, NEW s \in Scopes \cup {None},
             Enqueue(j, k, s)
      PROVE  Ledger!Enqueue(j)
  BY <1>1 DEF Enqueue, Ledger!Enqueue
<1>2. ASSUME NEW p \in Procs, NEW j \in Jobs, NEW lag \in Lags, Claim(p, j, lag)
      PROVE  Ledger!Lease(j)
  BY <1>2 DEF IInv, AttemptLedger, Claim, Runnable, Ledger!Lease
<1>3. ASSUME NEW p \in Procs, CommitResult(p)
      PROVE  held[p].job \in Jobs /\ Ledger!Record(held[p].job)
  <2>1. /\ held[p].job \in Jobs /\ status[held[p].job] = "RUNNING"
        /\ held[p].epoch = attempts[held[p].job]
    BY <1>3 DEF IInv, ResultFenced, AttemptLedger, CommitResult
  <2> QED BY <1>3, <2>1 DEF CommitResult, Ledger!Record
<1>4. ASSUME NEW p \in Procs, Complete(p)
      PROVE  held[p].job \in Jobs /\ Ledger!Finish(held[p].job)
  BY <1>4 DEF IInv, HeldKnown, Idle, Complete, MayCall, LeaseLive, Ledger!Finish
<1>5. ASSUME NEW p \in Procs, NEW b \in Backoffs, Fail(p, b)
      PROVE  Ledger!Release({held[p].job}) /\ held[p].job \in Jobs
  BY <1>5 DEF IInv, TypeOK, HeldKnown, Idle, Fail, MayCall, LeaseLive, AfterLoss,
              Ledger!Release, Ledger!AfterLoss
<1>6. ASSUME NEW p \in Procs, NEW S \in SUBSET Jobs, NEW lag \in Lags,
             Reclaim(p, S, lag)
      PROVE  Ledger!Release(S)
  BY <1>6 DEF Reclaim, Expired, AfterLoss, Ledger!Release, Ledger!AfterLoss
<1>7. ASSUME NEW p \in Procs,
             \/ Heartbeat(p) \/ BeginResult(p) \/ RenewInResult(p)
             \/ RollbackResult(p) \/ LeaseLost(p) \/ Crash(p)
             \/ Tick \/ SetTenant \/ SetOutbox
      PROVE  UNCHANGED Ledger!ledgerVars
  BY <1>7 DEF Heartbeat, BeginResult, RenewInResult, RollbackResult, LeaseLost,
              Crash, Tick, SetTenant, SetOutbox, jobVars, procVars,
              Ledger!ledgerVars
<1>8. ASSUME NEW p \in Procs, WorkerStep(p)
      PROVE  Ledger!Next \/ UNCHANGED Ledger!ledgerVars
  BY <1>2, <1>3, <1>4, <1>5, <1>6, <1>7, <1>8
     DEF WorkerStep, ClaimAny, ReclaimAny, FailAny, CloseResult, Return,
         Ledger!Next
<1>9. CASE Tick \/ SetTenant \/ SetOutbox
  BY <1>9 DEF Tick, SetTenant, SetOutbox, jobVars, Ledger!ledgerVars
<1> QED BY <1>1, <1>8, <1>9 DEF Next, Ledger!Next

\* Every behaviour of the queue, with its clocks, crashes and transactions, is
\* a behaviour of the time-free ledger.
THEOREM Refinement == Spec => ImplementsLedger
BY Invariance, LedgerInit, LedgerStep, PTL
   DEF Spec, ImplementsLedger, Ledger!Spec

=============================================================================
