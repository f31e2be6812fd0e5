------------------------------- MODULE Rotation -------------------------------
(***************************************************************************)
(* Rotation of a content-bound key (ADR-0070): internal/rotation and the   *)
(* functions of migrations 000019 and 000020 it calls.                     *)
(*                                                                         *)
(* In domain KEK an item is an encrypted artifact and its seal the DEK     *)
(* wrapper; in domain DIGEST an item is an evidence fragment and its seal  *)
(* the pair of keyed digests. A seal has the key the bytes were made with  *)
(* and the label (reference and version) the row gives it. A pass reads    *)
(* the window and a batch, and commits its rewrites, the follow-on job or  *)
(* the end of the window in the same transaction: the rows it writes are   *)
(* locked from their check to the commit, so one step stands for both.     *)
(* The job's acknowledgement is a transaction of its own.                  *)
(*                                                                         *)
(* No code waits for a process to mount the new manifest before a window   *)
(* opens or closes: a process is stale until it restarts, and the history  *)
(* field stale of an item remembers that a stale process sealed it last.   *)
(***************************************************************************)
EXTENDS Naturals, FiniteSets

CONSTANTS
    Items,
    Procs,       \* processes that seal items and run jobs
    MaxKey,      \* bound: versions of the key
    BatchSize,   \* rotationBatchSize
    MaxAttempts, \* of a rotation job
    MaxCycles,   \* bound: windows opened
    MaxJobs,     \* bound: follow-on jobs
    MaxFaults    \* bound: restarts for no reason, leases that lapse, lost connections

ASSUME RotationAssumption ==
    /\ MaxKey \in Nat \ {0} /\ BatchSize \in Nat \ {0} /\ MaxAttempts \in Nat \ {0}
    /\ MaxCycles \in Nat /\ MaxJobs \in Nat /\ MaxFaults \in Nat

VARIABLES
    domain,   \* the rotation domain
    manifest, \* the mounted secrets: active key, previous key (0: none)
    mount,    \* [Procs -> what the process read of the manifest when it started]
    window,   \* rotation_state of the domain
    cycle,    \* how often a window was opened (history)
    item,     \* [Items -> row and seal]
    job,      \* job 0 has the key of Begin, job n + 1 the one of job n's follow-on
    pass,     \* [Procs -> the job it runs, and what its transaction read]
    drains,   \* the search outbox can be drained (JobQueue)
    faults

vars == <<domain, manifest, mount, window, cycle, item, job, pass, drains, faults>>

Keys  == 1 .. MaxKey
Jobs  == 0 .. MaxJobs
Pairs == [active : Keys, previous : 0 .. MaxKey]
Live  == {i \in Items : item[i].state = "LIVE"}

TypeOK ==
    /\ domain \in {"KEK", "DIGEST"}
    /\ manifest \in Pairs /\ mount \in [Procs -> Pairs]
    /\ window \in [phase : {"NONE", "REWRAPPING", "COMPLETE"}, pair : Pairs]
    /\ cycle \in 0 .. MaxCycles
    /\ item \in [Items -> [state : {"NONE", "LIVE", "PURGED"},
                           label : 0 .. MaxKey, key : 0 .. MaxKey, stale : BOOLEAN]]
    /\ job \in [Jobs -> [status : {"NONE", "PENDING", "RUNNING", "SUCCEEDED", "DEAD"},
                         attempts : 0 .. MaxAttempts]]
    /\ pass \in [Procs -> [step : {"IDLE", "CLAIMED", "READ", "DONE", "FAILED"},
                           job : Jobs, attempt : 0 .. MaxAttempts,
                           pair : Pairs, batch : SUBSET Items]]
    /\ drains \in BOOLEAN /\ faults \in 0 .. MaxFaults

FirstPair == [active |-> 1, previous |-> 0]
Unsealed(state) == [state |-> state, label |-> 0, key |-> 0, stale |-> FALSE]
Idle == [step |-> "IDLE", job |-> 0, attempt |-> 0, pair |-> FirstPair, batch |-> {}]

Init ==
    /\ domain \in {"KEK", "DIGEST"}
    /\ manifest = FirstPair /\ mount = [p \in Procs |-> FirstPair]
    /\ window = [phase |-> "NONE", pair |-> FirstPair] /\ cycle = 0
    /\ item = [i \in Items |-> Unsealed("NONE")]
    /\ job = [j \in Jobs |-> [status |-> "NONE", attempts |-> 0]]
    /\ pass = [p \in Procs |-> Idle]
    /\ drains = TRUE /\ faults = 0

-----------------------------------------------------------------------------
(* Keys and items.                                                         *)

\* The operator mounts the next key beside the current one.
StageKey ==
    /\ manifest.previous = 0 /\ manifest.active < MaxKey /\ window.phase # "REWRAPPING"
    /\ manifest' = [active |-> manifest.active + 1, previous |-> manifest.active]
    /\ UNCHANGED <<domain, mount, window, cycle, item, job, pass, drains, faults>>

\* ... and removes the old one when the window that left it is closed.
RetireKey ==
    /\ window.phase = "COMPLETE" /\ window.pair = manifest /\ manifest.previous # 0
    /\ manifest' = [manifest EXCEPT !.previous = 0]
    /\ UNCHANGED <<domain, mount, window, cycle, item, job, pass, drains, faults>>

\* A process restarts, for a new manifest or by a crash: it mounts what is
\* there and forgets its pass; a transaction that was open is rolled back.
Restart(p) ==
    /\ \/ mount[p] # manifest /\ faults' = faults
       \/ faults < MaxFaults /\ faults' = faults + 1
    /\ mount' = [mount EXCEPT ![p] = manifest]
    /\ pass'  = [pass EXCEPT ![p] = Idle]
    /\ UNCHANGED <<domain, manifest, window, cycle, item, job, drains>>

\* The process still seals under a key that is no longer the active one.
Stale(p) == mount[p].active # manifest.active

\* WrapDEK, or a digest: what a process writes is sealed under its active key.
Write(p, i) ==
    /\ item[i].state = "NONE"
    /\ item' = [item EXCEPT ![i] = [state |-> "LIVE", label |-> mount[p].active,
                                    key |-> mount[p].active, stale |-> Stale(p)]]
    /\ UNCHANGED <<domain, manifest, mount, window, cycle, job, pass, drains, faults>>

Purge(i) ==
    /\ item[i].state = "LIVE"
    /\ item' = [item EXCEPT ![i] = Unsealed("PURGED")]
    /\ UNCHANGED <<domain, manifest, mount, window, cycle, job, pass, drains, faults>>

-----------------------------------------------------------------------------
(* The coordinator.                                                        *)

\* EnqueueInTransaction: a job whose key exists is returned, whatever became of it.
Enqueued(j) ==
    IF job[j].status = "NONE" THEN [job EXCEPT ![j].status = "PENDING"] ELSE job

\* Begin with the pair of the manifest. Within a window the same pair is a
\* repeat and another one is refused; a closed window is opened again.
Begin ==
    /\ manifest.previous # 0
    /\ \/ window.phase # "REWRAPPING" /\ cycle < MaxCycles /\ cycle' = cycle + 1
       \/ window.phase = "REWRAPPING" /\ window.pair = manifest /\ cycle' = cycle
    /\ window' = [phase |-> "REWRAPPING", pair |-> manifest]
    /\ job' = Enqueued(0)
    /\ UNCHANGED <<domain, manifest, mount, item, pass, drains, faults>>

\* artifact_wrapped_under_key_count, evidence_digest_remaining_count.
Remaining(rows, pair) ==
    {i \in Items : rows[i].state = "LIVE" /\ rows[i].label = pair.previous}

\* A window is named by its active pair in domain KEK, by its previous
\* version in domain DIGEST.
SamePair(pair) ==
    IF domain = "KEK" THEN window.pair.active = pair.active
    ELSE window.pair.previous = pair.previous

\* Fault: the end of a window does not count what is left.
MayCompleteUncounted(rows, pair) == SamePair(pair)

\* kek_rotation_complete, digest_rotation_complete: the same pair, and nothing
\* left under the previous key unless the window is closed already.
MayComplete(rows, pair) ==
    /\ SamePair(pair)
    /\ window.phase = "COMPLETE" \/ Remaining(rows, pair) = {}

\* Coordinator.Complete, by the operator.
Complete ==
    /\ window.phase = "REWRAPPING" /\ MayComplete(item, window.pair)
    /\ window' = [window EXCEPT !.phase = "COMPLETE"]
    /\ UNCHANGED <<domain, manifest, mount, cycle, item, job, pass, drains, faults>>

-----------------------------------------------------------------------------
(* The pass: HandleKEKRewrap and HandleDigestRecompute.                    *)

Claim(p, j) ==
    /\ pass[p].step = "IDLE" /\ job[j].status = "PENDING" /\ drains
    /\ job' = [job EXCEPT ![j] = [status |-> "RUNNING", attempts |-> @.attempts + 1]]
    /\ pass' = [pass EXCEPT ![p] = [Idle EXCEPT !.step = "CLAIMED", !.job = j,
                                                !.attempt = job[j].attempts + 1]]
    /\ UNCHANGED <<domain, manifest, mount, window, cycle, item, drains, faults>>

\* lock_job_lease: the lease of this very claim.
LeaseLive(p) ==
    LET j == pass[p].job
    IN  job[j].status = "RUNNING" /\ job[j].attempts = pass[p].attempt

\* The transaction is over; what it read is forgotten.
Over(p, step) == [pass[p] EXCEPT !.step = step, !.pair = FirstPair, !.batch = {}]

\* The window is read without a lock, and one batch under its previous key.
ReadWindow(p) ==
    /\ pass[p].step = "CLAIMED"
    /\ IF window.phase = "COMPLETE" THEN pass' = [pass EXCEPT ![p] = Over(p, "DONE")]
       ELSE \E batch \in SUBSET Remaining(item, window.pair) :
                /\ \/ Cardinality(batch) = BatchSize
                   \/ Cardinality(batch) < BatchSize /\ batch = Remaining(item, window.pair)
                /\ pass' = [pass EXCEPT ![p].step = "READ", ![p].pair = window.pair,
                                        ![p].batch = batch]
    /\ UNCHANGED <<domain, manifest, mount, window, cycle, item, job, drains, faults>>

\* rewrapOne unwraps with a mounted key; reprojectOne has no key to look up.
Opens(p, i) ==
    domain = "KEK" => /\ item[i].label \in {mount[p].active, mount[p].previous}
                      /\ item[i].key = item[i].label

\* artifact_rewrap and evidence_digest_rewrite, for every item of the batch.
MayRewrite(p) ==
    /\ LeaseLive(p)
    /\ IF domain = "KEK" THEN window.pair = pass[p].pair
       ELSE window.pair.active = mount[p].active
    /\ \A i \in pass[p].batch : i \in Remaining(item, window.pair) /\ Opens(p, i)

\* The rewrap labels with the window's active pair what WrapDEK sealed under
\* the active key of the process; the digest is labelled with its own version.
Resealed(p) ==
    [i \in Items |->
        IF i \notin pass[p].batch THEN item[i]
        ELSE [item[i] EXCEPT
                 !.key   = mount[p].active, !.stale = Stale(p),
                 !.label = IF domain = "KEK" THEN pass[p].pair.active ELSE mount[p].active]]

\* Fault: the follow-on job has the idempotency key of the first.
FollowOnFirst(j) == 0

FollowOn(j) == j + 1

Full(p) == Cardinality(pass[p].batch) = BatchSize

\* What the transaction of the pass requires of the rows when it commits.
MayCommit(p) ==
    /\ pass[p].batch # {} => MayRewrite(p)
    /\ ~Full(p) => MayComplete(Resealed(p), pass[p].pair)

CommitPass(p) ==
    /\ pass[p].step = "READ" /\ MayCommit(p)
    /\ item' = Resealed(p)
    /\ IF Full(p) THEN /\ FollowOn(pass[p].job) \in Jobs
                       /\ job' = Enqueued(FollowOn(pass[p].job)) /\ window' = window
       ELSE window' = [window EXCEPT !.phase = "COMPLETE"] /\ job' = job
    /\ pass' = [pass EXCEPT ![p] = Over(p, "DONE")]
    /\ UNCHANGED <<domain, manifest, mount, cycle, drains, faults>>

\* A refused statement, or a lost connection, rolls the pass back.
RollbackPass(p) ==
    /\ pass[p].step = "READ"
    /\ \/ ~MayCommit(p) /\ faults' = faults
       \/ faults < MaxFaults /\ faults' = faults + 1
    /\ pass' = [pass EXCEPT ![p] = Over(p, "FAILED")]
    /\ UNCHANGED <<domain, manifest, mount, window, cycle, item, job, drains>>

\* Fault: one attempt more than the job has.
AfterLossOneMore(n) == IF n <= MaxAttempts THEN "PENDING" ELSE "DEAD"

AfterLoss(n) == IF n < MaxAttempts THEN "PENDING" ELSE "DEAD"

\* Handler.complete and Handler.fail: a lost lease is not an error.
Return(p) ==
    LET j == pass[p].job
        to == IF pass[p].step = "DONE" THEN "SUCCEEDED" ELSE AfterLoss(job[j].attempts)
    IN  /\ pass[p].step \in {"DONE", "FAILED"}
        /\ job' = IF LeaseLive(p) THEN [job EXCEPT ![j].status = to] ELSE job
        /\ pass' = [pass EXCEPT ![p] = Idle]
        /\ UNCHANGED <<domain, manifest, mount, window, cycle, item, drains, faults>>

\* Reclaim: the process is gone, or slower than its lease.
Reclaim(j) ==
    /\ job[j].status = "RUNNING" /\ drains
    /\ \/ /\ \A p \in Procs : pass[p].step # "IDLE" => ~(pass[p].job = j /\ LeaseLive(p))
          /\ faults' = faults
       \/ faults < MaxFaults /\ faults' = faults + 1
    /\ job' = [job EXCEPT ![j].status = AfterLoss(job[j].attempts)]
    /\ UNCHANGED <<domain, manifest, mount, window, cycle, item, pass, drains>>

\* The search outbox gets stuck or is drained again: poll applies it first and
\* reaches neither Reclaim nor Claim while that fails (JobQueue).
SetOutbox ==
    /\ drains' = ~drains
    /\ UNCHANGED <<domain, manifest, mount, window, cycle, item, job, pass, faults>>

-----------------------------------------------------------------------------
Operator == StageKey \/ RetireKey \/ Begin \/ Complete

PassStep(p) == ReadWindow(p) \/ CommitPass(p) \/ RollbackPass(p) \/ Return(p)

Next ==
    \/ Operator \/ SetOutbox
    \/ \E p \in Procs : Restart(p) \/ PassStep(p)
    \/ \E p \in Procs, i \in Items : Write(p, i)
    \/ \E i \in Items : Purge(i)
    \/ \E p \in Procs, j \in Jobs : Claim(p, j)
    \/ \E j \in Jobs : Reclaim(j)

Spec == Init /\ [][Next]_vars

\* Workers poll, run what they claimed and reclaim what lapsed.
LiveSpec ==
    /\ Spec
    /\ \A p \in Procs : WF_vars(PassStep(p)) /\ WF_vars(\E j \in Jobs : Claim(p, j))
    /\ WF_vars(\E j \in Jobs : Reclaim(j))

-----------------------------------------------------------------------------
\* The seal of an item is as labelled, under a key the manifest still holds.
Openable(i) ==
    item[i].key = item[i].label /\ item[i].label \in {manifest.active, manifest.previous}

\* Rotation loses nothing by itself ("rotation -> zero lost artifacts",
\* ADR-0070 section 1.6): an item that cannot be opened any more was sealed
\* last by a process that had not mounted the active key. Whatever passes,
\* crashes, purges and windows there were, every window that closes has
\* rewritten all the others, and what the pass wrote can be opened.
LostOnlyByStale == \A i \in Live : Openable(i) \/ item[i].stale

\* Once the search outbox can be drained, the first window of a domain is
\* closed by its own jobs or one of them is DEAD: lost leases, crashes between
\* the pass and its acknowledgement, purges under a batch and full batches only
\* delay it (enqueueNext, the short batch that completes). A DEAD job leaves
\* the window open, and Begin returns that job for ever.
FirstCompletes ==
    <>[]drains =>
        ((cycle = 1 /\ window.phase = "REWRAPPING") ~>
            (window.phase = "COMPLETE" \/ \E j \in Jobs : job[j].status = "DEAD"))

-----------------------------------------------------------------------------
(* What a comment says and the code does not do.                           *)

\* What a row says of its seal is true: artifact_rewrap promises that "a
\* worker with a stale manifest fails closed" instead of sealing under
\* another key than the one it names. It compares the window with the pair
\* the pass read from the window, never with what the process has mounted.
SealedAsLabelled == \A i \in Live : item[i].key = item[i].label
=============================================================================
