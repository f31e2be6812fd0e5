------------------------------ MODULE ScopeSync ------------------------------
(***************************************************************************)
(* Source scope synchronisation: a SOURCE_SCOPE_SYNC job scans a source,   *)
(* publishes what it saw into the object catalog under one revision of the *)
(* scope, and finally makes that revision the authoritative one            *)
(* (internal/ingestion/handler.go, pipeline.go; app.source_scope_* and     *)
(* app.source_object_* functions; internal/source/registration).           *)
(*                                                                         *)
(* The queue is the ledger of JobLedger, which JobQueue implements.  By    *)
(* JobQueue!LeaseExclusive and ResultFenced a worker that lost its lease   *)
(* writes nothing, so one run per scope is kept: the one of the current    *)
(* lease.  By JobQueue!OneLiveActivation a scope has one live job.         *)
(*                                                                         *)
(* Transactions run at READ COMMITTED.  The two that read rows of other    *)
(* scopes, reconciliation and cutover, are an Open step that evaluates     *)
(* their last statement on its snapshot and a Commit step; the other       *)
(* writes touch only rows they have locked and are one step.  A request    *)
(* may have read a status that has changed when its job is enqueued:       *)
(* begin_sync looks at the status again.                                   *)
(***************************************************************************)
EXTENDS Naturals, FiniteSets

CONSTANTS
    Scopes,         \* source scopes of one connection; they may overlap
    Objects,        \* external identities of source objects
    MaxRevision,    \* bound: revisions of one scope
    MaxSyncs,       \* bound: jobs requested for one scope
    MaxAttempts     \* job.max_attempts

ASSUME SyncAssumption ==
    /\ MaxRevision \in Nat \ {0}
    /\ MaxSyncs \in Nat \ {0}
    /\ MaxAttempts \in Nat \ {0}

Revisions == 1 .. MaxRevision
JobIds    == Scopes \X (1 .. MaxSyncs)

VARIABLES
    \* public.job, as JobLedger keeps it
    status, attempts, results,
    requested,      \* [Scopes -> number of jobs requested so far]
    \* public.source_scope and source_scope_activation
    latest,         \* latest_revision
    active,         \* active_revision, 0 for NULL
    act,            \* activation status of every revision
    \* public.source_object_scope and source_object
    member,         \* [Scopes -> [Revisions -> [Objects -> membership_state]]]
    object,         \* [Objects -> lifecycle_state]
    \* public.sync_run, one row per attempt that began a sync
    syncRun,
    \* the worker that holds the current lease of the scope's job
    run

Q == INSTANCE JobLedger WITH Jobs <- JobIds

jobVars   == <<status, attempts, results>>
scopeVars == <<latest, active, act>>
catalog   == <<member, object>>
vars      == <<jobVars, requested, scopeVars, catalog, syncRun, run>>

Activations == {"ABSENT", "DRAFT", "SYNCING", "READY", "FAILED", "REVOKED"}
Memberships == {"NONE", "ACTIVE", "MISSING", "REMOVED"}
Lifecycles  == {"NONE", "ACTIVE", "MISSING", "DELETED"}
RunStatuses == {"NONE", "RUNNING", "SUCCEEDED", "FAILED"}
Phases      == {"NONE", "CLAIMED", "RESOLVED", "BEGUN", "INGEST", "RECONCILING",
                "RECONCILED", "CUTOVER", "PUBLISHED", "FAILING"}

NoRun == [phase |-> "NONE", rev |-> 0, todo |-> {}, seen |-> {},
          whole |-> FALSE, gone |-> {}, missing |-> {}, deleted |-> {}]

TypeOK ==
    /\ status   \in [JobIds -> Q!Statuses]
    /\ attempts \in [JobIds -> 0 .. MaxAttempts]
    /\ results  \in [JobIds -> SUBSET (1 .. MaxAttempts)]
    /\ requested \in [Scopes -> 0 .. MaxSyncs]
    /\ latest   \in [Scopes -> Revisions]
    /\ active   \in [Scopes -> 0 .. MaxRevision]
    /\ act      \in [Scopes -> [Revisions -> Activations]]
    /\ member   \in [Scopes -> [Revisions -> [Objects -> Memberships]]]
    /\ object   \in [Objects -> Lifecycles]
    /\ syncRun  \in [JobIds -> [1 .. MaxAttempts -> RunStatuses]]
    /\ run \in [Scopes -> [phase : Phases, rev : 0 .. MaxRevision,
                           todo : SUBSET Objects, seen : SUBSET Objects,
                           whole : BOOLEAN, gone : SUBSET Objects,
                           missing : SUBSET Objects, deleted : SUBSET Objects]]

\* A registered scope: revision 1 in DRAFT, nothing synchronised yet.
Init ==
    /\ Q!Init
    /\ requested = [s \in Scopes |-> 0]
    /\ latest    = [s \in Scopes |-> 1]
    /\ active    = [s \in Scopes |-> 0]
    /\ act       = [s \in Scopes |-> [r \in Revisions |->
                       IF r = 1 THEN "DRAFT" ELSE "ABSENT"]]
    /\ member    = [s \in Scopes |-> [r \in Revisions |-> [o \in Objects |-> "NONE"]]]
    /\ object    = [o \in Objects |-> "NONE"]
    /\ syncRun   = [j \in JobIds |-> [n \in 1 .. MaxAttempts |-> "NONE"]]
    /\ run       = [s \in Scopes |-> NoRun]

-----------------------------------------------------------------------------
(* Requests for synchronisation.                                           *)

Job(s)  == <<s, requested[s]>>
Busy(s) == requested[s] > 0 /\ status[Job(s)] \in Q!Live

\* The API and the scheduler find no live job and enqueue a fresh one.
Request(s) ==
    /\ ~Busy(s)
    /\ requested[s] < MaxSyncs
    /\ Q!Enqueue(<<s, requested[s] + 1>>)
    /\ requested' = [requested EXCEPT ![s] = @ + 1]
    /\ UNCHANGED <<scopeVars, catalog, syncRun, run>>

Activate(s) == act[s][latest[s]] \in {"DRAFT", "READY", "FAILED"} /\ Request(s)

Sync(s) == act[s][latest[s]] = "READY" /\ Request(s)

\* The schedule follows the authoritative revision, the job the latest one.
AutoSync(s) == active[s] # 0 /\ act[s][active[s]] = "READY" /\ Request(s)

\* The control plane adds a revision of the scope's configuration.
Revise(s) ==
    /\ latest[s] < MaxRevision
    /\ latest' = [latest EXCEPT ![s] = @ + 1]
    /\ act'    = [act EXCEPT ![s][latest[s] + 1] = "DRAFT"]
    /\ UNCHANGED <<jobVars, requested, active, catalog, syncRun, run>>

-----------------------------------------------------------------------------
(* Handler.Handle, transaction by transaction.                             *)

At(s, phase) == run[s].phase = phase

Claim(s) ==
    /\ At(s, "NONE")
    /\ requested[s] > 0
    /\ Q!Lease(Job(s))
    /\ run' = [run EXCEPT ![s].phase = "CLAIMED"]
    /\ UNCHANGED <<requested, scopeVars, catalog, syncRun>>

\* Fault: the pending revision is one too far.
ResolveNext(s) ==
    /\ At(s, "CLAIMED")
    /\ run' = [run EXCEPT ![s].phase = "RESOLVED", ![s].rev = latest[s] + 1]
    /\ UNCHANGED <<jobVars, requested, scopeVars, catalog, syncRun>>

\* source_scope_pending_revision, in a read transaction of its own.
Resolve(s) ==
    /\ At(s, "CLAIMED")
    /\ run' = [run EXCEPT ![s].phase = "RESOLVED", ![s].rev = latest[s]]
    /\ UNCHANGED <<jobVars, requested, scopeVars, catalog, syncRun>>

\* source_scope_begin_sync: never behind the authoritative revision.
MayBegin(s, r) ==
    /\ active[s] <= r
    /\ act[s][r] \in {"DRAFT", "READY", "FAILED", "SYNCING"}

\* source_scope_registered_begin_sync and the sync_run insert.
BeginSync(s) ==
    LET r == run[s].rev
    IN  /\ At(s, "RESOLVED")
        /\ MayBegin(s, r)
        /\ Q!Record(Job(s))
        /\ act'     = [act EXCEPT ![s][r] = "SYNCING"]
        /\ syncRun' = [syncRun EXCEPT ![Job(s)][attempts[Job(s)]] = "RUNNING"]
        /\ run'     = [run EXCEPT ![s].phase = "BEGUN"]
        /\ UNCHANGED <<requested, latest, active, catalog>>

\* The connector's page: what can be ingested, what is quarantined, by the
\* connector or later by ingestObject before it opens its transaction, and
\* whether everything could be listed.  A quarantined object counts as seen.
Observe(s, ok, quarantined, whole) ==
    /\ At(s, "BEGUN")
    /\ run' = [run EXCEPT ![s].phase = "INGEST", ![s].todo = ok,
                          ![s].seen = ok \cup quarantined, ![s].whole = whole]
    /\ UNCHANGED <<jobVars, requested, scopeVars, catalog, syncRun>>

\* assert_scope_revision_syncing
Syncing(s) == act[s][run[s].rev] = "SYNCING"

\* source_object_observation_publish refuses what has been closed for good.
Restorable(s, o) ==
    object[o] # "DELETED" /\ member[s][run[s].rev][o] # "REMOVED"

\* ingestObject: ensureObject, version, extraction and publishObjectPresence
\* in one lease-fenced transaction.
Ingest(s, o) ==
    /\ At(s, "INGEST") /\ o \in run[s].todo
    /\ Syncing(s)
    /\ Restorable(s, o)
    /\ Q!Record(Job(s))
    /\ member' = [member EXCEPT ![s][run[s].rev][o] = "ACTIVE"]
    /\ object' = [object EXCEPT ![o] = "ACTIVE"]
    /\ run'    = [run EXCEPT ![s].todo = @ \ {o}]
    /\ UNCHANGED <<requested, scopeVars, syncRun>>

Scanned(s) == At(s, "INGEST") /\ run[s].todo = {}

\* Coverage that may close something: complete, and not an empty listing.
Authoritative(s) == run[s].whole /\ run[s].seen # {}

\* Memberships of o that are ACTIVE, leaving those in M out.
ActiveMembership(o, M) ==
    \E s \in Scopes, r \in Revisions : member[s][r][o] = "ACTIVE" /\ <<s, r, o>> \notin M

\* What the scan did not see.
Absent(s) ==
    {o \in Objects : member[s][run[s].rev][o] = "ACTIVE" /\ o \notin run[s].seen}

\* reconcile: the first statement marks this scope's unseen memberships, the
\* second finds, on its own snapshot, the objects nobody else holds.
OpenReconcile(s) ==
    LET r    == run[s].rev
        mine == {<<s, r, o>> : o \in Absent(s)}
    IN  /\ Scanned(s) /\ Authoritative(s)
        /\ Syncing(s)
        /\ run' = [run EXCEPT
             ![s].phase = "RECONCILING",
             ![s].gone = Absent(s),
             ![s].missing = {o \in Objects :
                 /\ o \in Absent(s) \/ member[s][r][o] = "MISSING"
                 /\ ~ActiveMembership(o, mine)}]
        /\ UNCHANGED <<jobVars, requested, scopeVars, catalog, syncRun>>

\* Fault: the update of the memberships forgets the revision.
CommitReconcileAllRevisions(s) ==
    /\ At(s, "RECONCILING")
    /\ Q!Record(Job(s))
    /\ member' = [member EXCEPT ![s] = [r \in Revisions |-> [o \in Objects |->
                    IF @[r][o] = "ACTIVE" /\ o \notin run[s].seen
                    THEN "MISSING" ELSE @[r][o]]]]
    /\ object' = [o \in Objects |->
                    IF o \in run[s].missing /\ object[o] = "ACTIVE"
                    THEN "MISSING" ELSE object[o]]
    /\ run'    = [run EXCEPT ![s].phase = "RECONCILED",
                             ![s].gone = {}, ![s].missing = {}]
    /\ UNCHANGED <<requested, scopeVars, syncRun>>

\* The second statement waits for the object's row and rechecks only that row.
CommitReconcile(s) ==
    /\ At(s, "RECONCILING")
    /\ Q!Record(Job(s))
    /\ member' = [member EXCEPT ![s][run[s].rev] =
                    [o \in Objects |-> IF o \in run[s].gone THEN "MISSING" ELSE @[o]]]
    /\ object' = [o \in Objects |->
                    IF o \in run[s].missing /\ object[o] = "ACTIVE"
                    THEN "MISSING" ELSE object[o]]
    /\ run'    = [run EXCEPT ![s].phase = "RECONCILED",
                             ![s].gone = {}, ![s].missing = {}]
    /\ UNCHANGED <<requested, scopeVars, syncRun>>

Succeed(s) == syncRun' = [syncRun EXCEPT ![Job(s)][attempts[Job(s)]] = "SUCCEEDED"]

\* source_scope_activate_revision without an older authority to supersede
\* (ACTIVATED, RESYNC) or behind a newer one (HELD).
ActivateInPlace(s) ==
    LET r == run[s].rev
    IN  /\ At(s, "RECONCILED")
        /\ active[s] = 0 \/ active[s] >= r
        /\ Syncing(s)
        /\ Q!Record(Job(s))
        /\ act'    = [act EXCEPT ![s][r] = IF active[s] > r THEN "FAILED" ELSE "READY"]
        /\ active' = [active EXCEPT ![s] = IF @ > r THEN @ ELSE r]
        /\ Succeed(s)
        /\ run'    = [run EXCEPT ![s].phase = "PUBLISHED"]
        /\ UNCHANGED <<requested, latest, catalog>>

\* The older memberships a cutover of s to r removes.
Older(s, r) == {<<s, q, o>> : q \in 1 .. (r - 1), o \in Objects}

\* Fault: a MISSING membership elsewhere does not keep an object recoverable
\* (the cutover before 000107).
HeldMissingNever(s, r, o) == FALSE

\* Another scope, or the new revision, still holds the object MISSING.
HeldMissing(s, r, o) ==
    \E t \in Scopes, q \in Revisions :
        member[t][q][o] = "MISSING" /\ <<t, q, o>> \notin Older(s, r)

\* source_scope_activate_revision over an older authority: its last statement
\* finds, on its own snapshot, the objects that have no ACTIVE membership left.
OpenCutover(s) ==
    LET r    == run[s].rev
        lost == {o \in Objects :
                   /\ \E q \in 1 .. (r - 1) : member[s][q][o] # "NONE"
                   /\ ~ActiveMembership(o, Older(s, r))}
    IN  /\ At(s, "RECONCILED")
        /\ active[s] # 0 /\ active[s] < r
        /\ Syncing(s)
        /\ run' = [run EXCEPT
             ![s].phase = "CUTOVER",
             ![s].missing = {o \in lost : HeldMissing(s, r, o)},
             ![s].deleted = {o \in lost : ~HeldMissing(s, r, o)}]
        /\ UNCHANGED <<jobVars, requested, scopeVars, catalog, syncRun>>

\* Fault: the supersession does not spare the candidate.
RevokedWithCandidate(s, r) ==
    [q \in Revisions |->
        IF q <= r /\ act[s][q] \in {"READY", "SYNCING"} THEN "REVOKED"
        ELSE act[s][q]]

\* The candidate becomes READY, older READY or SYNCING revisions REVOKED.
Revoked(s, r) ==
    [q \in Revisions |->
        IF q = r THEN "READY"
        ELSE IF q < r /\ act[s][q] \in {"READY", "SYNCING"} THEN "REVOKED"
        ELSE act[s][q]]

CommitCutover(s) ==
    LET r == run[s].rev
    IN  /\ At(s, "CUTOVER")
        /\ Q!Record(Job(s))
        /\ act'    = [act EXCEPT ![s] = Revoked(s, r)]
        /\ active' = [active EXCEPT ![s] = r]
        /\ member' = [member EXCEPT ![s] = [q \in Revisions |-> [o \in Objects |->
                        IF q < r /\ @[q][o] # "NONE" THEN "REMOVED" ELSE @[q][o]]]]
        /\ object' = [o \in Objects |->
                        IF object[o] \notin {"ACTIVE", "MISSING"} THEN object[o]
                        ELSE IF o \in run[s].missing THEN "MISSING"
                        ELSE IF o \in run[s].deleted THEN "DELETED"
                        ELSE object[o]]
        /\ Succeed(s)
        /\ run'    = [run EXCEPT ![s].phase = "PUBLISHED",
                                 ![s].missing = {}, ![s].deleted = {}]
        /\ UNCHANGED <<requested, latest>>

\* Fault: partial coverage advances the authority like complete coverage.
PublishPartialAdvances(s) ==
    LET r == run[s].rev
    IN  /\ Scanned(s) /\ ~Authoritative(s)
        /\ Syncing(s)
        /\ Q!Record(Job(s))
        /\ act'    = [act EXCEPT ![s][r] = "READY"]
        /\ active' = [active EXCEPT ![s] = r]
        /\ Succeed(s)
        /\ run'    = [run EXCEPT ![s].phase = "PUBLISHED"]
        /\ UNCHANGED <<requested, latest, catalog>>

\* source_scope_publish_partial: a scan that proves no absence never cuts over.
PublishPartial(s) ==
    LET r    == run[s].rev
        hold == active[s] # 0 /\ active[s] # r
    IN  /\ Scanned(s) /\ ~Authoritative(s)
        /\ Syncing(s)
        /\ Q!Record(Job(s))
        /\ act'    = [act EXCEPT ![s][r] = IF hold THEN "FAILED" ELSE "READY"]
        /\ active' = [active EXCEPT ![s] = IF hold THEN @ ELSE r]
        /\ Succeed(s)
        /\ run'    = [run EXCEPT ![s].phase = "PUBLISHED"]
        /\ UNCHANGED <<requested, latest, catalog>>

\* Fault: the job is acknowledged before its result is published.
CompleteEarly(s) ==
    /\ run[s].phase \in {"RECONCILED", "PUBLISHED"}
    /\ Q!Finish(Job(s))
    /\ run' = [run EXCEPT ![s] = NoRun]
    /\ UNCHANGED <<requested, scopeVars, catalog, syncRun>>

\* jobs.Complete, after the publication and in a transaction of its own.
Complete(s) ==
    /\ At(s, "PUBLISHED")
    /\ Q!Finish(Job(s))
    /\ run' = [run EXCEPT ![s] = NoRun]
    /\ UNCHANGED <<requested, scopeVars, catalog, syncRun>>

-----------------------------------------------------------------------------
(* Failures.                                                               *)

\* Fault: the two writes are not one transaction, and the first one is lost.
FailSyncRunOnly(s) ==
    /\ run[s].phase \in {"BEGUN", "INGEST", "RECONCILING", "RECONCILED", "CUTOVER"}
    /\ \/ /\ Syncing(s)
          /\ Q!Record(Job(s))
          /\ syncRun' = [syncRun EXCEPT ![Job(s)][attempts[Job(s)]] = "FAILED"]
       \/ UNCHANGED <<jobVars, syncRun>>
    /\ run' = [run EXCEPT ![s] = [NoRun EXCEPT !.phase = "FAILING"]]
    /\ UNCHANGED <<requested, latest, active, act, catalog>>

\* failSync, first transaction: mark_failed and the sync_run update.  Its
\* error is swallowed, and it certainly fails when the activation is not
\* SYNCING: both writes roll back, and the job is failed all the same.
FailSync(s) ==
    /\ run[s].phase \in {"BEGUN", "INGEST", "RECONCILING", "RECONCILED", "CUTOVER"}
    /\ \/ /\ Syncing(s)
          /\ Q!Record(Job(s))
          /\ act'     = [act EXCEPT ![s][run[s].rev] = "FAILED"]
          /\ syncRun' = [syncRun EXCEPT ![Job(s)][attempts[Job(s)]] = "FAILED"]
       \/ UNCHANGED <<jobVars, act, syncRun>>
    /\ run' = [run EXCEPT ![s] = [NoRun EXCEPT !.phase = "FAILING"]]
    /\ UNCHANGED <<requested, latest, active, catalog>>

\* Handler.fail: queue.Fail, after failSync or before the sync began.
FailJob(s) ==
    /\ run[s].phase \in {"CLAIMED", "RESOLVED", "FAILING"}
    /\ Q!Release({Job(s)})
    /\ run' = [run EXCEPT ![s] = NoRun]
    /\ UNCHANGED <<requested, scopeVars, catalog, syncRun>>

\* The worker dies or loses its lease: an open transaction rolls back, the
\* deadline passes, and reclaim_expired_jobs returns or buries the job.
LeaseLost(s) ==
    /\ ~At(s, "NONE")
    /\ Q!Release({Job(s)})
    /\ run' = [run EXCEPT ![s] = NoRun]
    /\ UNCHANGED <<requested, scopeVars, catalog, syncRun>>

-----------------------------------------------------------------------------
Next ==
    \E s \in Scopes :
        \/ Activate(s) \/ Sync(s) \/ AutoSync(s) \/ Revise(s)
        \/ Claim(s) \/ Resolve(s) \/ BeginSync(s)
        \/ \E ok, quarantined \in SUBSET Objects, whole \in BOOLEAN :
              ok \cap quarantined = {} /\ Observe(s, ok, quarantined, whole)
        \/ \E o \in Objects : Ingest(s, o)
        \/ OpenReconcile(s) \/ CommitReconcile(s)
        \/ ActivateInPlace(s) \/ OpenCutover(s) \/ CommitCutover(s)
        \/ PublishPartial(s) \/ Complete(s)
        \/ FailSync(s) \/ FailJob(s) \/ LeaseLost(s)

Spec == Init /\ [][Next]_vars

-----------------------------------------------------------------------------
(* Properties.                                                             *)

\* What the memberships say about an object.
Derived(o) ==
    LET states == {member[s][r][o] : s \in Scopes, r \in Revisions}
    IN  IF "ACTIVE" \in states THEN "ACTIVE"
        ELSE IF "MISSING" \in states THEN "MISSING"
        ELSE IF "REMOVED" \in states THEN "DELETED"
        ELSE "NONE"

\* An object's lifecycle is the sum of its memberships: readable while one
\* is ACTIVE, recoverable while one is MISSING, closed for good afterwards
\* (ADR-0061 section 2), whatever fails, is retried or rolls back on the way.
CatalogCoherent == \A o \in Objects : object[o] = Derived(o)

\* ADR-0061 section 3: once a newer revision has authority, nothing is added
\* to or restored in an older one; its memberships only close.
SupersededFenced ==
    [][\A s \in Scopes, r \in Revisions, o \in Objects :
          r < active[s] /\ member'[s][r][o] # member[s][r][o]
          => member'[s][r][o] = "REMOVED"]_vars

\* Authority is earned: the authoritative revision was synchronised and is
\* not revoked, whichever failures and cutovers came before and after.
AuthorityEarned ==
    \A s \in Scopes : active[s] # 0 =>
        act[s][active[s]] \in {"SYNCING", "READY", "FAILED"}

\* ADR-0061 section 4: without a complete, non-empty scan no object leaves
\* the catalog and no authority moves from one revision to another.
CoverageProtects ==
    [][\A s \in Scopes :
          \/ active[s] # 0 /\ active'[s] # active[s]
          \/ \E o \in Objects : /\ object[o] = "ACTIVE" /\ object'[o] # "ACTIVE"
                                /\ run'[s] # run[s]
          => Authoritative(s)]_vars

\* A job is acknowledged only for a published result: the last attempt of a
\* SUCCEEDED job has a SUCCEEDED run, no matter which attempts were lost.
AckAfterPublish ==
    \A j \in JobIds :
        status[j] = "SUCCEEDED" => syncRun[j][attempts[j]] = "SUCCEEDED"

\* The last attempt of the scope that began a sync has not recorded its end.
LastRunOpen(s) ==
    \E n \in 1 .. requested[s], a \in 1 .. MaxAttempts :
        /\ syncRun[<<s, n>>][a] = "RUNNING"
        /\ \A m \in 1 .. MaxSyncs, b \in 1 .. MaxAttempts :
              m > n \/ (m = n /\ b > a) => syncRun[<<s, m>>][b] = "NONE"

\* A failed terminal run leaves SYNCING (ADR-0058).  What can strand the latest
\* revision there, where no activation can be requested any more, is a job
\* that died and a run that never recorded its end: its process was lost and
\* the lease reclaimed, or failSync's own transaction failed, an error that is
\* swallowed before the job is failed.  No attempt whose failure was recorded
\* does it, and no attempt that published.
StrandedOnlyByOpenRun ==
    \A s \in Scopes : act[s][latest[s]] = "SYNCING" /\ ~Busy(s) =>
        status[Job(s)] = "DEAD" /\ LastRunOpen(s)

-----------------------------------------------------------------------------
(* What the documents say and the code does not do.                        *)

\* ADR-0061 section 2: an object an overlapping scope still holds ACTIVE
\* survives another scope's cutover.
OverlapSurvives ==
    \A o \in Objects :
        (\E s \in Scopes, r \in Revisions : member[s][r][o] = "ACTIVE")
        => object[o] # "DELETED"
=============================================================================
