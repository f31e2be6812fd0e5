---------------------------- MODULE ScopeSyncProofs ----------------------------
(***************************************************************************)
(* Proofs about ScopeSync for every set of scopes and objects, every       *)
(* number of revisions and jobs and every retry budget. The only           *)
(* assumption is SyncAssumption.                                           *)
(*                                                                         *)
(* The properties of one scope rest on QueueInv (a scope has one live job, *)
(* and a run exactly while that job is leased) and on RevInv (what a run   *)
(* established about its revision when it began is true until it           *)
(* publishes). What overlapping scopes do to each other's objects is no    *)
(* part of them. CatalogInv adds the catalog: what the snapshot of an open *)
(* reconciliation or cutover says of an object is still true at its        *)
(* commit, as long as no second scope holds the object.                    *)
(***************************************************************************)
EXTENDS ScopeSync, TLAPS

\* The phases of a run that has resolved its revision, and of one that has
\* begun and not ended its synchronisation.
Begun    == {"BEGUN", "INGEST", "RECONCILING", "RECONCILED", "CUTOVER"}
Resolved == Begun \cup {"RESOLVED", "PUBLISHED"}

\* One live job; and a run is what a lease stands for.
QueueInv(s) ==
    /\ \A n \in 1 .. MaxSyncs : /\ n > requested[s] => status[<<s, n>>] = "ABSENT"
                                /\ n < requested[s] => status[<<s, n>>] \in Q!Terminal
    /\ requested[s] # 0 => status[Job(s)] # "ABSENT"
    /\ run[s].phase # "NONE" => requested[s] # 0 /\ status[Job(s)] = "RUNNING"
                                /\ attempts[Job(s)] # 0
    /\ requested[s] # 0 /\ status[Job(s)] = "RUNNING" => run[s].phase # "NONE"

\* What a run knows of its revision.
RevInv(s) ==
    /\ active[s] <= latest[s]
    /\ run[s].phase \in Resolved =>
         /\ run[s].rev \in 1 .. latest[s]
         /\ run[s].rev # latest[s] => act[s][latest[s]] = "DRAFT"
    /\ run[s].phase \in Begun => Syncing(s) /\ active[s] <= run[s].rev
    /\ run[s].phase \in {"RECONCILING", "RECONCILED", "CUTOVER"} => Authoritative(s)
    /\ run[s].phase = "CUTOVER" => active[s] # 0 /\ active[s] # run[s].rev
    /\ run[s].phase = "PUBLISHED" => ~Syncing(s)

\* An attempt that has not begun its sync, or is still to come, has no sync_run.
Ahead(s, n, a) ==
    \/ n > requested[s]
    \/ n = requested[s] /\ a > attempts[<<s, n>>]
    \/ /\ n = requested[s] /\ a = attempts[<<s, n>>]
       /\ run[s].phase \in {"CLAIMED", "RESOLVED"}

JournalInv(s) ==
    \A n \in 1 .. MaxSyncs, a \in 1 .. MaxAttempts :
        Ahead(s, n, a) => syncRun[<<s, n>>][a] = "NONE"

\* The properties of a scope, in a form every step keeps.
DoneInv(s) ==
    /\ active[s] # 0 => act[s][active[s]] \in {"SYNCING", "READY", "FAILED"}
    /\ act[s][latest[s]] = "SYNCING" =>
         /\ requested[s] # 0 /\ status[Job(s)] \in {"PENDING", "RUNNING", "DEAD"}
         /\ LastRunOpen(s)
    /\ run[s].phase = "PUBLISHED" => syncRun[Job(s)][attempts[Job(s)]] = "SUCCEEDED"
    /\ \A n \in 1 .. MaxSyncs : status[<<s, n>>] = "SUCCEEDED" =>
         syncRun[<<s, n>>][attempts[<<s, n>>]] = "SUCCEEDED"

ScopeInv(s) == QueueInv(s) /\ RevInv(s) /\ DoneInv(s) /\ JournalInv(s)

\* The inductive invariant of the scopes.
IInv == TypeOK /\ \A s \in Scopes : ScopeInv(s)

RunRow == [phase : Phases, rev : 0 .. MaxRevision, todo : SUBSET Objects,
           seen : SUBSET Objects, whole : BOOLEAN, gone : SUBSET Objects,
           missing : SUBSET Objects, deleted : SUBSET Objects]

\* What one scope's worker, or its control plane, does.
Scan(s) ==
    \E ok, quarantined \in SUBSET Objects, whole \in BOOLEAN :
        ok \cap quarantined = {} /\ Observe(s, ok, quarantined, whole)

\* Steps of the run alone; of the run and the catalog; and the end of a lease.
Look(s)  == Resolve(s) \/ Scan(s) \/ OpenReconcile(s) \/ OpenCutover(s)
Write(s) == (\E o \in Objects : Ingest(s, o)) \/ CommitReconcile(s)
Drop(s)  == FailJob(s) \/ LeaseLost(s)

Requested(s) == Activate(s) \/ Sync(s) \/ AutoSync(s)
Published(s) == ActivateInPlace(s) \/ CommitCutover(s) \/ PublishPartial(s)

Step(s) ==
    \/ Requested(s) \/ Revise(s) \/ Claim(s) \/ Look(s) \/ BeginSync(s) \/ Write(s)
    \/ Published(s) \/ Complete(s) \/ FailSync(s) \/ Drop(s)

LEMMA NextIsStep == Next => \E s \in Scopes : Step(s)
  BY DEF Next, Step, Requested, Look, Write, Published, Drop, Scan

\* Nothing of scope t is touched.
Kept(t) ==
    /\ requested'[t] = requested[t] /\ latest'[t] = latest[t] /\ active'[t] = active[t]
    /\ act'[t] = act[t] /\ run'[t] = run[t] /\ member'[t] = member[t]
    /\ \A n \in 1 .. MaxSyncs : /\ status'[<<t, n>>] = status[<<t, n>>]
                                /\ attempts'[<<t, n>>] = attempts[<<t, n>>]
                                /\ syncRun'[<<t, n>>] = syncRun[<<t, n>>]

-----------------------------------------------------------------------------
(* Types.                                                                  *)

LEMMA Typed ==
    ASSUME TypeOK
    PROVE  /\ status \in [JobIds -> Q!Statuses] /\ attempts \in [JobIds -> 0 .. MaxAttempts]
           /\ results \in [JobIds -> SUBSET (1 .. MaxAttempts)]
           /\ requested \in [Scopes -> 0 .. MaxSyncs] /\ latest \in [Scopes -> Revisions]
           /\ active \in [Scopes -> 0 .. MaxRevision]
           /\ act \in [Scopes -> [Revisions -> Activations]]
           /\ member \in [Scopes -> [Revisions -> [Objects -> Memberships]]]
           /\ object \in [Objects -> Lifecycles]
           /\ syncRun \in [JobIds -> [1 .. MaxAttempts -> RunStatuses]]
           /\ run \in [Scopes -> RunRow]
  BY DEF TypeOK, RunRow

LEMMA NoRunTyped ==
    NoRun \in RunRow /\ [NoRun EXCEPT !.phase = "FAILING"] \in RunRow
<1>1. NoRun \in RunRow
  BY SyncAssumption DEF NoRun, RunRow, Phases
<1> QED BY <1>1 DEF RunRow, Phases

\* The updates of a run keep its row.
LEMMA RunRowForms ==
    ASSUME NEW row \in RunRow, NEW p \in Phases, NEW v \in 0 .. MaxRevision, NEW w \in BOOLEAN,
           NEW A \in SUBSET Objects, NEW B \in SUBSET Objects
    PROVE  /\ [row EXCEPT !.phase = p] \in RunRow /\ [row EXCEPT !.todo = A] \in RunRow
           /\ [row EXCEPT !.phase = p, !.rev = v] \in RunRow
           /\ [row EXCEPT !.phase = p, !.todo = A, !.seen = B, !.whole = w] \in RunRow
           /\ [row EXCEPT !.phase = p, !.gone = A, !.missing = B] \in RunRow
           /\ [row EXCEPT !.phase = p, !.missing = A, !.deleted = B] \in RunRow
<1>1. [row EXCEPT !.phase = p] \in RunRow /\ [row EXCEPT !.todo = A] \in RunRow
  BY DEF RunRow
<1>2. [row EXCEPT !.phase = p, !.rev = v] \in RunRow
  BY DEF RunRow
<1>3. [row EXCEPT !.phase = p, !.todo = A, !.seen = B, !.whole = w] \in RunRow
  BY DEF RunRow
<1>4. /\ [row EXCEPT !.phase = p, !.gone = A, !.missing = B] \in RunRow
      /\ [row EXCEPT !.phase = p, !.missing = A, !.deleted = B] \in RunRow
  BY DEF RunRow
<1> QED BY <1>1, <1>2, <1>3, <1>4

\* The job of a run is one of the queue's, leased and numbered.
LEMMA RunJob ==
    ASSUME TypeOK, NEW s \in Scopes, QueueInv(s), run[s].phase # "NONE"
    PROVE  /\ Job(s) \in JobIds /\ status[Job(s)] = "RUNNING"
           /\ attempts[Job(s)] \in 1 .. MaxAttempts
  BY Typed, SyncAssumption DEF QueueInv, Job, JobIds

\* A step of one scope touches no run but its own.
LEMMA RunStep ==
    ASSUME TypeOK, NEW s \in Scopes, Step(s)
    PROVE  run' \in [Scopes -> RunRow] /\ \A t \in Scopes : t # s => run'[t] = run[t]
<1> USE SyncAssumption
<1>1. run \in [Scopes -> RunRow] /\ run[s] \in RunRow /\ latest[s] \in 0 .. MaxRevision
  BY Typed DEF Revisions
<1>2. SUFFICES \E row \in RunRow : run' = [run EXCEPT ![s] = row]
  BY <1>1
<1>3. Phases = {"NONE", "CLAIMED", "RESOLVED", "BEGUN", "INGEST", "RECONCILING",
                "RECONCILED", "CUTOVER", "PUBLISHED", "FAILING"}
  BY DEF Phases
<1>4. CASE Requested(s) \/ Revise(s)
  BY <1>1, <1>4 DEF Requested, Activate, Sync, AutoSync, Request, Revise
<1>5. CASE Claim(s) \/ BeginSync(s)
  <2>1. PICK p \in Phases : run' = [run EXCEPT ![s].phase = p]
    BY <1>3, <1>5 DEF Claim, BeginSync
  <2>2. run' = [run EXCEPT ![s] = [run[s] EXCEPT !.phase = p]]
    BY <1>1, <2>1
  <2> QED BY <1>1, <2>2, RunRowForms
<1>6. CASE Resolve(s)
  <2>1. run' = [run EXCEPT ![s] = [run[s] EXCEPT !.phase = "RESOLVED", !.rev = latest[s]]]
    BY <1>1, <1>6 DEF Resolve
  <2> QED BY <1>1, <1>3, <2>1, RunRowForms
<1>7. CASE Scan(s)
  <2>1. PICK A \in SUBSET Objects, B \in SUBSET Objects, w \in BOOLEAN :
          run' = [run EXCEPT ![s].phase = "INGEST", ![s].todo = A, ![s].seen = B, ![s].whole = w]
    <3>1. PICK ok \in SUBSET Objects, quarantined \in SUBSET Objects, whole \in BOOLEAN :
            Observe(s, ok, quarantined, whole)
      BY <1>7 DEF Scan
    <3> QED BY <3>1 DEF Observe
  <2>2. run' = [run EXCEPT ![s] = [run[s] EXCEPT !.phase = "INGEST", !.todo = A, !.seen = B,
                                                 !.whole = w]]
    BY <1>1, <2>1
  <2> QED BY <1>1, <1>3, <2>2, RunRowForms
<1>8. CASE OpenReconcile(s) \/ CommitReconcile(s)
  <2>1. PICK p \in Phases, A \in SUBSET Objects, B \in SUBSET Objects :
          run' = [run EXCEPT ![s].phase = p, ![s].gone = A, ![s].missing = B]
    BY <1>3, <1>8 DEF OpenReconcile, CommitReconcile, Absent
  <2>2. run' = [run EXCEPT ![s] = [run[s] EXCEPT !.phase = p, !.gone = A, !.missing = B]]
    BY <1>1, <2>1
  <2> QED BY <1>1, <2>2, RunRowForms
<1>9. CASE OpenCutover(s) \/ CommitCutover(s)
  <2>1. PICK p \in Phases, A \in SUBSET Objects, B \in SUBSET Objects :
          run' = [run EXCEPT ![s].phase = p, ![s].missing = A, ![s].deleted = B]
    BY <1>3, <1>9 DEF OpenCutover, CommitCutover
  <2>2. run' = [run EXCEPT ![s] = [run[s] EXCEPT !.phase = p, !.missing = A, !.deleted = B]]
    BY <1>1, <2>1
  <2> QED BY <1>1, <2>2, RunRowForms
<1>10. ASSUME NEW o \in Objects, Ingest(s, o)
       PROVE  \E row \in RunRow : run' = [run EXCEPT ![s] = row]
  <2>1. run' = [run EXCEPT ![s] = [run[s] EXCEPT !.todo = run[s].todo \ {o}]]
    BY <1>1, <1>10 DEF Ingest
  <2>2. run[s].todo \ {o} \in SUBSET Objects
    BY <1>1 DEF RunRow
  <2> QED BY <1>1, <1>3, <2>1, <2>2, RunRowForms
<1>11. CASE ActivateInPlace(s) \/ PublishPartial(s)
  <2>1. run' = [run EXCEPT ![s] = [run[s] EXCEPT !.phase = "PUBLISHED"]]
    BY <1>1, <1>11 DEF ActivateInPlace, PublishPartial
  <2> QED BY <1>1, <1>3, <2>1, RunRowForms
<1>12. CASE Complete(s) \/ FailSync(s) \/ Drop(s)
  BY <1>12, NoRunTyped DEF Complete, FailSync, Drop, FailJob, LeaseLost
<1> QED BY <1>4, <1>5, <1>6, <1>7, <1>8, <1>9, <1>10, <1>11, <1>12
        DEF Step, Look, Write, Published

\* The rows keep their types: an attempt is counted, and numbered within the
\* budget, before it records or begins anything.
LEMMA TypeStep ==
    ASSUME TypeOK, NEW s \in Scopes, QueueInv(s), RevInv(s), Step(s)
    PROVE  TypeOK'
<1> USE SyncAssumption
<1>1. /\ status \in [JobIds -> Q!Statuses] /\ attempts \in [JobIds -> 0 .. MaxAttempts]
      /\ results \in [JobIds -> SUBSET (1 .. MaxAttempts)]
      /\ requested \in [Scopes -> 0 .. MaxSyncs] /\ latest \in [Scopes -> Revisions]
      /\ active \in [Scopes -> 0 .. MaxRevision]
      /\ act \in [Scopes -> [Revisions -> Activations]]
      /\ member \in [Scopes -> [Revisions -> [Objects -> Memberships]]]
      /\ object \in [Objects -> Lifecycles]
      /\ syncRun \in [JobIds -> [1 .. MaxAttempts -> RunStatuses]]
      /\ run \in [Scopes -> RunRow]
  BY Typed
<1>2. SUFFICES
        /\ status' \in [JobIds -> Q!Statuses] /\ attempts' \in [JobIds -> 0 .. MaxAttempts]
        /\ results' \in [JobIds -> SUBSET (1 .. MaxAttempts)]
        /\ requested' \in [Scopes -> 0 .. MaxSyncs] /\ latest' \in [Scopes -> Revisions]
        /\ active' \in [Scopes -> 0 .. MaxRevision]
        /\ act' \in [Scopes -> [Revisions -> Activations]]
        /\ member' \in [Scopes -> [Revisions -> [Objects -> Memberships]]]
        /\ object' \in [Objects -> Lifecycles]
        /\ syncRun' \in [JobIds -> [1 .. MaxAttempts -> RunStatuses]]
  BY RunStep DEF TypeOK, RunRow
<1>3. run[s] \in RunRow
  BY <1>1
<1>4. run[s].phase \in Resolved => run[s].rev \in Revisions
  BY <1>1, <1>3 DEF RevInv, Revisions, RunRow
<1>5. run[s].phase # "NONE" => Job(s) \in JobIds /\ attempts[Job(s)] \in 1 .. MaxAttempts
  BY RunJob
<1>6. CASE Requested(s)
  <2>1. /\ requested[s] < MaxSyncs /\ requested' = [requested EXCEPT ![s] = @ + 1]
        /\ status' = [status EXCEPT ![<<s, requested[s] + 1>>] = "PENDING"]
        /\ UNCHANGED <<attempts, results, latest, active, act, member, object, syncRun, run>>
    BY <1>6 DEF Requested, Activate, Sync, AutoSync, Request, Q!Enqueue, scopeVars, catalog
  <2>2. requested' \in [Scopes -> 0 .. MaxSyncs]
    BY <1>1, <2>1
  <2>3. status' \in [JobIds -> Q!Statuses]
    BY <1>1, <2>1 DEF Q!Statuses, Q!Live
  <2> QED BY <1>1, <2>1, <2>2, <2>3
<1>7. CASE Revise(s)
  <2>1. /\ latest[s] < MaxRevision /\ latest' = [latest EXCEPT ![s] = @ + 1]
        /\ act' = [act EXCEPT ![s][latest[s] + 1] = "DRAFT"]
        /\ UNCHANGED <<status, attempts, results, requested, active, member, object, syncRun, run>>
    BY <1>7 DEF Revise, jobVars, catalog
  <2>2. latest' \in [Scopes -> Revisions] /\ act' \in [Scopes -> [Revisions -> Activations]]
    BY <1>1, <2>1 DEF Revisions, Activations
  <2> QED BY <1>1, <2>1, <2>2
<1>8. CASE Claim(s)
  <2>1. /\ status' = [status EXCEPT ![Job(s)] = "RUNNING"] /\ attempts[Job(s)] < MaxAttempts
        /\ requested[s] > 0
        /\ attempts' = [attempts EXCEPT ![Job(s)] = @ + 1]
        /\ UNCHANGED <<results, requested, latest, active, act, member, object, syncRun>>
    BY <1>8 DEF Claim, Q!Lease, scopeVars, catalog
  <2>2. Job(s) \in JobIds
    BY <1>1, <2>1 DEF Job, JobIds
  <2>3. status' \in [JobIds -> Q!Statuses] /\ attempts' \in [JobIds -> 0 .. MaxAttempts]
    BY <1>1, <2>1, <2>2 DEF Q!Statuses, Q!Live
  <2> QED BY <1>1, <2>1, <2>3
<1>9. CASE Look(s)
  <2>1. UNCHANGED <<status, attempts, results, requested, latest, active, act, member, object, syncRun>>
    BY <1>9 DEF Look, Resolve, Scan, Observe, OpenReconcile, OpenCutover, jobVars, scopeVars, catalog
  <2> QED BY <1>1, <2>1
<1>10. ASSUME NEW x \in {"RUNNING", "SUCCEEDED", "FAILED"}, run[s].phase # "NONE",
              syncRun' = [syncRun EXCEPT ![Job(s)][attempts[Job(s)]] = x]
       PROVE  syncRun' \in [JobIds -> [1 .. MaxAttempts -> RunStatuses]]
  BY <1>1, <1>5, <1>10 DEF RunStatuses
<1>11. ASSUME run[s].phase # "NONE", results' = [results EXCEPT ![Job(s)] = @ \cup {attempts[Job(s)]}]
       PROVE  results' \in [JobIds -> SUBSET (1 .. MaxAttempts)]
  BY <1>1, <1>5, <1>11
<1>12. CASE BeginSync(s)
  <2>1. /\ run[s].phase = "RESOLVED" /\ act' = [act EXCEPT ![s][run[s].rev] = "SYNCING"]
        /\ results' = [results EXCEPT ![Job(s)] = @ \cup {attempts[Job(s)]}]
        /\ syncRun' = [syncRun EXCEPT ![Job(s)][attempts[Job(s)]] = "RUNNING"]
        /\ UNCHANGED <<status, attempts, requested, latest, active, member, object>>
    BY <1>12 DEF BeginSync, At, Q!Record, catalog
  <2>2. act' \in [Scopes -> [Revisions -> Activations]]
    BY <1>1, <1>4, <2>1 DEF Resolved, Activations
  <2>3. /\ results' \in [JobIds -> SUBSET (1 .. MaxAttempts)]
        /\ syncRun' \in [JobIds -> [1 .. MaxAttempts -> RunStatuses]]
    BY <1>10, <1>11, <2>1
  <2> QED BY <1>1, <2>1, <2>2, <2>3
<1>13. CASE Write(s)
  <2>1. /\ run[s].phase \in {"INGEST", "RECONCILING"}
        /\ results' = [results EXCEPT ![Job(s)] = @ \cup {attempts[Job(s)]}]
        /\ UNCHANGED <<status, attempts, requested, latest, active, act, syncRun>>
    BY <1>13 DEF Write, Ingest, CommitReconcile, At, Q!Record, scopeVars
  <2>2. run[s].rev \in Revisions /\ results' \in [JobIds -> SUBSET (1 .. MaxAttempts)]
    BY <1>4, <1>11, <2>1 DEF Resolved, Begun
  <2>3. CASE \E o \in Objects : Ingest(s, o)
    BY <1>1, <2>1, <2>2, <2>3 DEF Ingest, Memberships, Lifecycles
  <2>4. CASE CommitReconcile(s)
    <3>1. member' \in [Scopes -> [Revisions -> [Objects -> Memberships]]]
      BY <1>1, <2>2, <2>4 DEF CommitReconcile, Memberships
    <3>2. object' \in [Objects -> Lifecycles]
      BY <1>1, <2>4 DEF CommitReconcile, Lifecycles
    <3> QED BY <1>1, <2>1, <2>2, <3>1, <3>2
  <2> QED BY <1>13, <2>3, <2>4 DEF Write
<1>14. CASE Published(s)
  <2>1. /\ run[s].phase \in Begun
        /\ results' = [results EXCEPT ![Job(s)] = @ \cup {attempts[Job(s)]}]
        /\ syncRun' = [syncRun EXCEPT ![Job(s)][attempts[Job(s)]] = "SUCCEEDED"]
        /\ UNCHANGED <<status, attempts, requested, latest>>
    BY <1>14 DEF Published, ActivateInPlace, CommitCutover, PublishPartial, Scanned, At, Q!Record,
       Succeed, Begun
  <2>2. run[s].rev \in Revisions /\ run[s].phase # "NONE"
    BY <1>4, <2>1 DEF Resolved, Begun
  <2>3. act' \in [Scopes -> [Revisions -> Activations]] /\ active' \in [Scopes -> 0 .. MaxRevision]
    <3>1. CASE ActivateInPlace(s)
      BY <1>1, <2>2, <3>1 DEF ActivateInPlace, Activations, Revisions
    <3>2. CASE CommitCutover(s)
      BY <1>1, <2>2, <3>2 DEF CommitCutover, Revoked, Activations, Revisions
    <3>3. CASE PublishPartial(s)
      BY <1>1, <2>2, <3>3 DEF PublishPartial, Activations, Revisions
    <3> QED BY <1>14, <3>1, <3>2, <3>3 DEF Published
  <2>4. /\ member' \in [Scopes -> [Revisions -> [Objects -> Memberships]]]
        /\ object' \in [Objects -> Lifecycles]
    <3>1. CASE CommitCutover(s)
      BY <1>1, <3>1 DEF CommitCutover, Memberships, Lifecycles
    <3>2. CASE ~CommitCutover(s)
      BY <1>1, <1>14, <3>2 DEF Published, ActivateInPlace, PublishPartial, catalog
    <3> QED BY <3>1, <3>2
  <2>5. /\ results' \in [JobIds -> SUBSET (1 .. MaxAttempts)]
        /\ syncRun' \in [JobIds -> [1 .. MaxAttempts -> RunStatuses]]
    BY <1>10, <1>11, <2>1, <2>2
  <2> QED BY <1>1, <2>1, <2>3, <2>4, <2>5
<1>15. CASE FailSync(s)
  <2>1. /\ run[s].phase \in Begun
        /\ UNCHANGED <<status, attempts, requested, latest, active, member, object>>
        /\ \/ /\ results' = [results EXCEPT ![Job(s)] = @ \cup {attempts[Job(s)]}]
              /\ act' = [act EXCEPT ![s][run[s].rev] = "FAILED"]
              /\ syncRun' = [syncRun EXCEPT ![Job(s)][attempts[Job(s)]] = "FAILED"]
           \/ UNCHANGED <<results, act, syncRun>>
    BY <1>15 DEF FailSync, Begun, Q!Record, jobVars, catalog
  <2>2. run[s].rev \in Revisions /\ run[s].phase # "NONE"
    BY <1>4, <2>1 DEF Resolved, Begun
  <2>3. CASE UNCHANGED <<results, act, syncRun>>
    BY <1>1, <2>1, <2>3
  <2>4. CASE ~UNCHANGED <<results, act, syncRun>>
    <3>1. act' \in [Scopes -> [Revisions -> Activations]]
      <4>1. act' = [act EXCEPT ![s][run[s].rev] = "FAILED"]
        BY <2>1, <2>4
      <4> QED BY <1>1, <2>2, <4>1 DEF Activations
    <3>2. /\ results' \in [JobIds -> SUBSET (1 .. MaxAttempts)]
          /\ syncRun' \in [JobIds -> [1 .. MaxAttempts -> RunStatuses]]
      BY <1>10, <1>11, <2>1, <2>2, <2>4
    <3> QED BY <1>1, <2>1, <3>1, <3>2
  <2> QED BY <2>3, <2>4
<1>16. CASE Complete(s) \/ Drop(s)
  <2>1. UNCHANGED <<attempts, results, requested, latest, active, act, member, object, syncRun>>
    BY <1>16 DEF Complete, Drop, FailJob, LeaseLost, Q!Finish, Q!Release, scopeVars, catalog
  <2>2. status' \in [JobIds -> Q!Statuses]
    BY <1>1, <1>16 DEF Complete, Drop, FailJob, LeaseLost, Q!Finish, Q!Release, Q!AfterLoss,
       Q!Statuses, Q!Live, Q!Terminal
  <2> QED BY <1>1, <2>1, <2>2
<1> QED BY <1>6, <1>7, <1>8, <1>9, <1>12, <1>13, <1>14, <1>15, <1>16 DEF Step

-----------------------------------------------------------------------------
(* Scopes.                                                                 *)

\* A step of one scope touches no other.
LEMMA OthersKept ==
    ASSUME TypeOK, NEW s \in Scopes, QueueInv(s), RevInv(s), Step(s),
           NEW t \in Scopes, t # s
    PROVE  Kept(t)
<1> USE SyncAssumption
<1>1. /\ status \in [JobIds -> Q!Statuses] /\ attempts \in [JobIds -> 0 .. MaxAttempts]
      /\ requested \in [Scopes -> 0 .. MaxSyncs] /\ latest \in [Scopes -> Revisions]
      /\ active \in [Scopes -> 0 .. MaxRevision]
      /\ act \in [Scopes -> [Revisions -> Activations]]
      /\ member \in [Scopes -> [Revisions -> [Objects -> Memberships]]]
      /\ syncRun \in [JobIds -> [1 .. MaxAttempts -> RunStatuses]]
  BY Typed
<1>2. /\ \A n \in 1 .. MaxSyncs : <<t, n>> \in JobIds /\ <<t, n>> # Job(s)
      /\ \A n \in 1 .. MaxSyncs, m \in Nat : <<t, n>> # <<s, m>>
  BY DEF JobIds, Job
<1>3. run'[t] = run[t]
  BY RunStep
<1>4. requested'[t] = requested[t] /\ latest'[t] = latest[t]
  BY <1>1 DEF Step, Requested, Activate, Sync, AutoSync, Request, Revise, Claim, Look, Resolve, Scan,
     Observe, OpenReconcile, OpenCutover, BeginSync, Write, Ingest, CommitReconcile, Published,
     ActivateInPlace, CommitCutover, PublishPartial, Complete, FailSync, Drop, FailJob, LeaseLost,
     scopeVars
<1>5. active'[t] = active[t] /\ act'[t] = act[t]
  BY <1>1 DEF Step, Requested, Activate, Sync, AutoSync, Request, Revise, Claim, Look, Resolve, Scan,
     Observe, OpenReconcile, OpenCutover, BeginSync, Write, Ingest, CommitReconcile, Published,
     ActivateInPlace, CommitCutover, PublishPartial, Complete, FailSync, Drop, FailJob, LeaseLost,
     scopeVars
<1>6. member'[t] = member[t]
  BY <1>1 DEF Step, Requested, Activate, Sync, AutoSync, Request, Revise, Claim, Look, Resolve, Scan,
     Observe, OpenReconcile, OpenCutover, BeginSync, Write, Ingest, CommitReconcile, Published,
     ActivateInPlace, CommitCutover, PublishPartial, Complete, FailSync, Drop, FailJob, LeaseLost,
     catalog
<1>7. ASSUME NEW n \in 1 .. MaxSyncs
      PROVE  /\ status'[<<t, n>>] = status[<<t, n>>] /\ attempts'[<<t, n>>] = attempts[<<t, n>>]
             /\ syncRun'[<<t, n>>] = syncRun[<<t, n>>]
  <2>1. status'[<<t, n>>] = status[<<t, n>>]
    <3>1. requested[s] + 1 \in Nat
      BY <1>1
    <3>2. <<t, n>> \in JobIds /\ <<t, n>> # Job(s) /\ <<t, n>> # <<s, requested[s] + 1>>
      BY <1>2, <3>1
    <3> QED BY <1>1, <3>2 DEF Step, Requested, Activate, Sync, AutoSync, Request, Revise, Claim,
       Look, Resolve, Scan, Observe, OpenReconcile, OpenCutover, BeginSync, Write, Ingest,
       CommitReconcile, Published, ActivateInPlace, CommitCutover, PublishPartial, Complete, FailSync,
       Drop, FailJob, LeaseLost, jobVars, Q!Enqueue, Q!Lease, Q!Record, Q!Finish, Q!Release
  <2>2. attempts'[<<t, n>>] = attempts[<<t, n>>] /\ syncRun'[<<t, n>>] = syncRun[<<t, n>>]
    BY <1>1, <1>2 DEF Step, Requested, Activate, Sync, AutoSync, Request, Revise, Claim,
       Look, Resolve, Scan, Observe, OpenReconcile, OpenCutover, BeginSync, Write, Ingest,
       CommitReconcile, Published, ActivateInPlace, CommitCutover, PublishPartial, Complete, FailSync,
       Drop, FailJob, LeaseLost, jobVars, Succeed, Q!Enqueue, Q!Lease, Q!Record, Q!Finish, Q!Release
  <2> QED BY <2>1, <2>2
<1> QED BY <1>3, <1>4, <1>5, <1>6, <1>7 DEF Kept

\* A run left open stays the last one while the journal of the scope is kept.
LEMMA OpenRunKept ==
    ASSUME NEW s \in Scopes, requested[s] \in 0 .. MaxSyncs, LastRunOpen(s),
           requested'[s] \in 0 .. MaxSyncs, requested[s] <= requested'[s],
           \A n \in 1 .. MaxSyncs : syncRun'[<<s, n>>] = syncRun[<<s, n>>]
    PROVE  LastRunOpen(s)'
<1>1. PICK n \in 1 .. requested[s], a \in 1 .. MaxAttempts :
        /\ syncRun[<<s, n>>][a] = "RUNNING"
        /\ \A m \in 1 .. MaxSyncs, b \in 1 .. MaxAttempts :
              m > n \/ (m = n /\ b > a) => syncRun[<<s, m>>][b] = "NONE"
  BY DEF LastRunOpen
<1>2. n \in 1 .. requested'[s] /\ n \in 1 .. MaxSyncs
  BY SyncAssumption
<1>3. /\ syncRun'[<<s, n>>][a] = "RUNNING"
      /\ \A m \in 1 .. MaxSyncs, b \in 1 .. MaxAttempts :
            m > n \/ (m = n /\ b > a) => syncRun'[<<s, m>>][b] = "NONE"
  BY <1>1, <1>2
<1> QED BY <1>2, <1>3 DEF LastRunOpen

\* What is said of a scope is about its own rows.
LEMMA KeptInv ==
    ASSUME TypeOK, NEW t \in Scopes, ScopeInv(t), Kept(t)
    PROVE  ScopeInv(t)'
<1>1. requested[t] \in 0 .. MaxSyncs
  BY Typed
<1>2. requested[t] # 0 => /\ Job(t)' = Job(t) /\ status'[Job(t)] = status[Job(t)]
                          /\ attempts'[Job(t)] = attempts[Job(t)]
                          /\ syncRun'[Job(t)] = syncRun[Job(t)]
  BY <1>1, SyncAssumption DEF Kept, Job
<1>3. QueueInv(t)'
  BY <1>1, <1>2 DEF ScopeInv, QueueInv, Kept
<1>4. RevInv(t)'
  BY DEF ScopeInv, RevInv, Kept, Syncing, Authoritative
<1>5. LastRunOpen(t) => LastRunOpen(t)'
  BY <1>1, OpenRunKept DEF Kept
<1>6. DoneInv(t)'
  BY <1>1, <1>2, <1>5 DEF ScopeInv, QueueInv, DoneInv, Kept
<1>7. JournalInv(t)'
  BY DEF ScopeInv, JournalInv, Ahead, Kept
<1> QED BY <1>3, <1>4, <1>6, <1>7 DEF ScopeInv

\* A job is requested when no job of the scope is live, so there is no run.
LEMMA RequestedInd ==
    ASSUME TypeOK, NEW s \in Scopes, ScopeInv(s), Requested(s)
    PROVE  ScopeInv(s)'
<1> USE SyncAssumption
<1>1. /\ status \in [JobIds -> Q!Statuses] /\ requested \in [Scopes -> 0 .. MaxSyncs]
      /\ requested[s] \in 0 .. MaxSyncs
  BY Typed
<1>2. /\ requested[s] < MaxSyncs /\ requested' = [requested EXCEPT ![s] = @ + 1] /\ ~Busy(s)
      /\ status' = [status EXCEPT ![<<s, requested[s] + 1>>] = "PENDING"]
      /\ UNCHANGED <<attempts, latest, active, act, member, syncRun, run>>
  BY DEF Requested, Activate, Sync, AutoSync, Request, Q!Enqueue, scopeVars, catalog
<1>3. requested'[s] = requested[s] + 1 /\ Job(s)' = <<s, requested[s] + 1>>
  BY <1>1, <1>2 DEF Job
<1>4. /\ \A n \in 1 .. MaxSyncs : n # requested[s] + 1 => status'[<<s, n>>] = status[<<s, n>>]
      /\ status'[<<s, requested[s] + 1>>] = "PENDING"
  BY <1>1, <1>2 DEF JobIds
<1>5. requested[s] # 0 => status[<<s, requested[s]>>] \in Q!Terminal
  <2>1. requested[s] # 0 => Job(s) \in JobIds /\ status[Job(s)] \in Q!Statuses
    BY <1>1 DEF Job, JobIds
  <2> QED BY <1>1, <1>2, <2>1 DEF ScopeInv, QueueInv, Busy, Job, Q!Statuses, Q!Live
<1>6. run[s].phase = "NONE"
  BY <1>1, <1>5 DEF ScopeInv, QueueInv, Job, Q!Terminal
<1>7. QueueInv(s)'
  <2>1. \A n \in 1 .. MaxSyncs : /\ n > requested[s] + 1 => status'[<<s, n>>] = "ABSENT"
                                 /\ n < requested[s] + 1 => status'[<<s, n>>] \in Q!Terminal
    BY <1>1, <1>4, <1>5 DEF ScopeInv, QueueInv
  <2> QED BY <1>1, <1>2, <1>3, <1>4, <1>6, <2>1 DEF QueueInv
<1>8. RevInv(s)'
  BY <1>2, <1>6 DEF ScopeInv, RevInv, Resolved, Begun
<1>9. LastRunOpen(s) => LastRunOpen(s)'
  BY <1>1, <1>2, <1>3, OpenRunKept
<1>10. DoneInv(s)'
  BY <1>1, <1>2, <1>3, <1>4, <1>6, <1>9 DEF ScopeInv, DoneInv
<1>11. JournalInv(s)'
  BY <1>1, <1>2, <1>3, <1>6 DEF ScopeInv, JournalInv, Ahead
<1> QED BY <1>7, <1>8, <1>10, <1>11 DEF ScopeInv

\* A new revision is in DRAFT, and newer than any a run has resolved.
LEMMA ReviseInd ==
    ASSUME TypeOK, NEW s \in Scopes, ScopeInv(s), Revise(s)
    PROVE  ScopeInv(s)'
<1>1. /\ latest \in [Scopes -> Revisions] /\ act \in [Scopes -> [Revisions -> Activations]]
      /\ active[s] \in 0 .. MaxRevision /\ latest[s] \in 1 .. MaxRevision
  BY Typed DEF Revisions
<1>2. /\ latest[s] < MaxRevision /\ latest' = [latest EXCEPT ![s] = @ + 1]
      /\ act' = [act EXCEPT ![s][latest[s] + 1] = "DRAFT"]
      /\ UNCHANGED <<status, attempts, requested, active, syncRun, run>>
  BY DEF Revise, jobVars
<1>3. /\ latest'[s] = latest[s] + 1 /\ act'[s][latest[s] + 1] = "DRAFT"
      /\ \A r \in 1 .. latest[s] : act'[s][r] = act[s][r]
  BY <1>1, <1>2, SyncAssumption DEF Revisions
<1>4. Job(s)' = Job(s) /\ QueueInv(s)'
  BY <1>2 DEF ScopeInv, QueueInv, Job
<1>5. RevInv(s)'
  BY <1>1, <1>2, <1>3 DEF ScopeInv, RevInv, Syncing, Authoritative, Resolved
<1>6. DoneInv(s)'
  BY <1>1, <1>2, <1>3, <1>4 DEF ScopeInv, RevInv, DoneInv
<1>7. JournalInv(s)'
  BY <1>2 DEF ScopeInv, JournalInv, Ahead
<1> QED BY <1>4, <1>5, <1>6, <1>7 DEF ScopeInv

LEMMA ClaimInd ==
    ASSUME TypeOK, NEW s \in Scopes, ScopeInv(s), Claim(s)
    PROVE  ScopeInv(s)'
<1> USE SyncAssumption
<1>1. /\ status \in [JobIds -> Q!Statuses] /\ attempts \in [JobIds -> 0 .. MaxAttempts]
      /\ run \in [Scopes -> RunRow] /\ requested[s] \in 0 .. MaxSyncs
  BY Typed
<1>2. /\ requested[s] # 0 /\ status[Job(s)] = "PENDING" /\ run[s].phase = "NONE"
      /\ status' = [status EXCEPT ![Job(s)] = "RUNNING"]
      /\ attempts' = [attempts EXCEPT ![Job(s)] = @ + 1]
      /\ run' = [run EXCEPT ![s].phase = "CLAIMED"]
      /\ UNCHANGED <<requested, latest, active, act, syncRun>>
  BY DEF Claim, At, Q!Lease, scopeVars
<1>3. Job(s)' = Job(s) /\ Job(s) \in JobIds /\ run'[s].phase = "CLAIMED"
  BY <1>1, <1>2 DEF Job, JobIds, RunRow
<1>4. /\ status'[Job(s)] = "RUNNING" /\ attempts'[Job(s)] # 0
      /\ \A n \in 1 .. MaxSyncs : n # requested[s] =>
            status'[<<s, n>>] = status[<<s, n>>] /\ attempts'[<<s, n>>] = attempts[<<s, n>>]
  BY <1>1, <1>2, <1>3 DEF Job, JobIds
<1>5. QueueInv(s)'
  BY <1>1, <1>2, <1>3, <1>4 DEF ScopeInv, QueueInv
<1>6. RevInv(s)'
  BY <1>2, <1>3 DEF ScopeInv, RevInv, Resolved, Begun
<1>7. DoneInv(s)'
  <2>1. ASSUME NEW n \in 1 .. MaxSyncs, status'[<<s, n>>] = "SUCCEEDED"
        PROVE  syncRun'[<<s, n>>][attempts'[<<s, n>>]] = "SUCCEEDED"
    <3>1. n # requested[s]
      BY <1>4, <2>1 DEF Job
    <3> QED BY <1>2, <1>4, <2>1, <3>1 DEF ScopeInv, DoneInv
  <2>2. LastRunOpen(s)' = LastRunOpen(s)
    BY <1>2 DEF LastRunOpen
  <2> QED BY <1>2, <1>3, <1>4, <2>1, <2>2 DEF ScopeInv, DoneInv
<1>8. JournalInv(s)'
  <2>1. attempts[Job(s)] \in Nat /\ attempts'[Job(s)] = attempts[Job(s)] + 1
    BY <1>1, <1>2, <1>3
  <2>2. ASSUME NEW n \in 1 .. MaxSyncs, NEW a \in 1 .. MaxAttempts, Ahead(s, n, a)'
        PROVE  Ahead(s, n, a)
    BY <1>1, <1>2, <1>4, <2>1, <2>2 DEF Ahead, Job
  <2> QED BY <1>2, <2>2 DEF ScopeInv, JournalInv
<1> QED BY <1>5, <1>6, <1>7, <1>8 DEF ScopeInv

\* A step within the lease that leaves the queue and the runs' journal alone.
LEMMA WithinLease ==
    ASSUME TypeOK, NEW s \in Scopes, ScopeInv(s), run[s].phase # "NONE",
           run'[s].phase \notin {"NONE", "CLAIMED", "PUBLISHED"}, RevInv(s)',
           run'[s].phase = "RESOLVED" => run[s].phase = "CLAIMED",
           UNCHANGED <<requested, status, attempts, latest, active, act, syncRun>>
    PROVE  ScopeInv(s)'
<1>1. Job(s)' = Job(s) /\ LastRunOpen(s)' = LastRunOpen(s)
  BY DEF Job, LastRunOpen
<1>2. QueueInv(s)' /\ DoneInv(s)'
  BY <1>1 DEF ScopeInv, QueueInv, DoneInv
<1>3. JournalInv(s)'
  BY DEF ScopeInv, JournalInv, Ahead
<1> QED BY <1>2, <1>3 DEF ScopeInv

\* The run looks at the source, at its scope or at the catalog.
LEMMA LookInd ==
    ASSUME TypeOK, NEW s \in Scopes, ScopeInv(s), Look(s)
    PROVE  ScopeInv(s)'
<1>1. /\ run \in [Scopes -> RunRow] /\ latest[s] \in 1 .. MaxRevision
      /\ active[s] \in 0 .. MaxRevision
  BY Typed DEF Revisions
<1>2. UNCHANGED <<requested, status, attempts, latest, active, act, syncRun>>
  BY DEF Look, Resolve, Scan, Observe, OpenReconcile, OpenCutover, jobVars, scopeVars
<1>3. CASE Resolve(s)
  <2>1. run[s].phase = "CLAIMED" /\ run'[s].phase = "RESOLVED" /\ run'[s].rev = latest[s]
    BY <1>1, <1>3 DEF Resolve, At, RunRow
  <2>2. RevInv(s)'
    BY <1>1, <1>2, <2>1 DEF ScopeInv, RevInv, Begun
  <2> QED BY <1>2, <2>1, <2>2, WithinLease
<1>4. CASE Scan(s)
  <2>1. run[s].phase = "BEGUN" /\ run'[s].phase = "INGEST" /\ run'[s].rev = run[s].rev
    BY <1>1, <1>4 DEF Scan, Observe, At, RunRow
  <2>2. RevInv(s)'
    BY <1>1, <1>2, <2>1 DEF ScopeInv, RevInv, Begun, Resolved, Syncing
  <2> QED BY <1>2, <2>1, <2>2, WithinLease
<1>5. CASE OpenReconcile(s)
  <2>1. /\ run[s].phase = "INGEST" /\ run'[s].phase = "RECONCILING" /\ run'[s].rev = run[s].rev
        /\ run'[s].whole = run[s].whole /\ run'[s].seen = run[s].seen /\ Authoritative(s)
    BY <1>1, <1>5 DEF OpenReconcile, Scanned, At, RunRow
  <2>2. RevInv(s)'
    BY <1>1, <1>2, <2>1 DEF ScopeInv, RevInv, Begun, Resolved, Syncing, Authoritative
  <2> QED BY <1>2, <2>1, <2>2, WithinLease
<1>6. CASE OpenCutover(s)
  <2>1. /\ run[s].phase = "RECONCILED" /\ run'[s].phase = "CUTOVER" /\ run'[s].rev = run[s].rev
        /\ run'[s].whole = run[s].whole /\ run'[s].seen = run[s].seen
        /\ active[s] # 0 /\ active[s] < run[s].rev
    BY <1>1, <1>6 DEF OpenCutover, At, RunRow
  <2>2. RevInv(s)'
    BY <1>1, <1>2, <2>1 DEF ScopeInv, RevInv, Begun, Resolved, Syncing, Authoritative
  <2> QED BY <1>2, <2>1, <2>2, WithinLease
<1> QED BY <1>3, <1>4, <1>5, <1>6 DEF Look

\* It writes to the catalog.
LEMMA WriteInd ==
    ASSUME TypeOK, NEW s \in Scopes, ScopeInv(s), Write(s)
    PROVE  ScopeInv(s)'
<1>1. run \in [Scopes -> RunRow]
  BY Typed
<1>2. UNCHANGED <<requested, status, attempts, latest, active, act, syncRun>>
  BY DEF Write, Ingest, CommitReconcile, scopeVars, Q!Record
<1>3. CASE \E o \in Objects : Ingest(s, o)
  <2>1. run[s].phase = "INGEST" /\ run'[s].phase = "INGEST" /\ run'[s].rev = run[s].rev
    BY <1>1, <1>3 DEF Ingest, At, RunRow
  <2>2. RevInv(s)'
    BY <1>2, <2>1 DEF ScopeInv, RevInv, Begun, Resolved, Syncing
  <2> QED BY <1>2, <2>1, <2>2, WithinLease
<1>4. CASE CommitReconcile(s)
  <2>1. /\ run[s].phase = "RECONCILING" /\ run'[s].phase = "RECONCILED"
        /\ run'[s].rev = run[s].rev
        /\ run'[s].whole = run[s].whole /\ run'[s].seen = run[s].seen
    BY <1>1, <1>4 DEF CommitReconcile, At, RunRow
  <2>2. RevInv(s)'
    BY <1>2, <2>1 DEF ScopeInv, RevInv, Begun, Resolved, Syncing, Authoritative
  <2> QED BY <1>2, <2>1, <2>2, WithinLease
<1> QED BY <1>3, <1>4 DEF Write

\* A step within the lease that moves the activation of the run's revision
\* and the journal row of its attempt.
LEMMA JournalStep ==
    ASSUME TypeOK, NEW s \in Scopes, ScopeInv(s), run[s].phase # "NONE",
           run'[s].phase \notin {"NONE", "CLAIMED", "RESOLVED"}, RevInv(s)',
           UNCHANGED <<requested, status, attempts, latest>>, NEW x,
           syncRun' = [syncRun EXCEPT ![Job(s)][attempts[Job(s)]] = x],
           active'[s] # 0 => act'[s][active'[s]] \in {"SYNCING", "READY", "FAILED"},
           run'[s].phase = "PUBLISHED" => x = "SUCCEEDED",
           act'[s][latest[s]] = "SYNCING" => x = "RUNNING"
    PROVE  ScopeInv(s)'
<1>1. /\ Job(s)' = Job(s) /\ Job(s) \in JobIds /\ status[Job(s)] = "RUNNING"
      /\ attempts[Job(s)] \in 1 .. MaxAttempts /\ requested[s] # 0
  BY RunJob DEF ScopeInv, QueueInv, Job
<1>2. QueueInv(s)'
  BY <1>1 DEF ScopeInv, QueueInv
<1>3. syncRun'[Job(s)][attempts[Job(s)]] = x
  BY <1>1, Typed
<1>4. ASSUME NEW n \in 1 .. MaxSyncs, status[<<s, n>>] = "SUCCEEDED"
      PROVE  syncRun'[<<s, n>>] = syncRun[<<s, n>>]
  <2>1. <<s, n>> # Job(s) /\ <<s, n>> \in JobIds
    BY <1>1, <1>4 DEF JobIds
  <2> QED BY <2>1, Typed
<1>5. /\ \A n \in 1 .. MaxSyncs, a \in 1 .. MaxAttempts :
           n # requested[s] \/ a # attempts[Job(s)] =>
              syncRun'[<<s, n>>][a] = syncRun[<<s, n>>][a]
      /\ requested[s] \in 1 .. MaxSyncs
  <2>1. requested[s] \in 1 .. MaxSyncs
    BY <1>1, Typed, SyncAssumption
  <2>2. ASSUME NEW n \in 1 .. MaxSyncs, NEW a \in 1 .. MaxAttempts,
               n # requested[s] \/ a # attempts[Job(s)]
        PROVE  syncRun'[<<s, n>>][a] = syncRun[<<s, n>>][a]
    <3>1. <<s, n>> \in JobIds /\ syncRun[<<s, n>>] \in [1 .. MaxAttempts -> RunStatuses]
      BY Typed DEF JobIds
    <3>2. syncRun[Job(s)] \in [1 .. MaxAttempts -> RunStatuses]
      BY <1>1, Typed
    <3> QED BY <1>1, <2>2, <3>1, <3>2, Typed DEF Job
  <2> QED BY <2>1, <2>2
<1>6. x = "RUNNING" => LastRunOpen(s)'
  <2>1. ASSUME NEW m \in 1 .. MaxSyncs, NEW b \in 1 .. MaxAttempts,
               m > requested[s] \/ (m = requested[s] /\ b > attempts[Job(s)])
        PROVE  syncRun'[<<s, m>>][b] = "NONE"
    <3>1. Ahead(s, m, b)
      BY <2>1 DEF Ahead, Job
    <3> QED BY <1>1, <1>5, <2>1, <3>1 DEF ScopeInv, JournalInv
  <2>2. requested[s] \in 1 .. requested'[s] /\ attempts[Job(s)] \in 1 .. MaxAttempts
    BY <1>1, <1>5
  <2>3. x = "RUNNING" => syncRun'[<<s, requested[s]>>][attempts[Job(s)]] = "RUNNING"
    BY <1>3 DEF Job
  <2>4. \A m \in 1 .. MaxSyncs, b \in 1 .. MaxAttempts :
           m > requested[s] \/ (m = requested[s] /\ b > attempts[Job(s)]) =>
              syncRun'[<<s, m>>][b] = "NONE"
    BY <2>1
  <2> QED BY <2>2, <2>3, <2>4, Zenon DEF LastRunOpen
<1>7. DoneInv(s)'
  BY <1>1, <1>3, <1>4, <1>6 DEF ScopeInv, DoneInv
<1>8. JournalInv(s)'
  <2>1. ASSUME NEW n \in 1 .. MaxSyncs, NEW a \in 1 .. MaxAttempts, Ahead(s, n, a)'
        PROVE  syncRun'[<<s, n>>][a] = "NONE"
    <3>1. Ahead(s, n, a) /\ (n # requested[s] \/ a # attempts[Job(s)])
      BY <1>1, <1>5, <2>1 DEF Ahead, Job
    <3> QED BY <1>5, <3>1 DEF ScopeInv, JournalInv
  <2> QED BY <2>1 DEF JournalInv
<1> QED BY <1>2, <1>7, <1>8 DEF ScopeInv

\* The sync begins: its revision is SYNCING, and not behind the authority.
LEMMA BeginInd ==
    ASSUME TypeOK, NEW s \in Scopes, ScopeInv(s), BeginSync(s)
    PROVE  ScopeInv(s)'
<1> USE SyncAssumption
<1> DEFINE r == run[s].rev
<1>1. /\ run \in [Scopes -> RunRow] /\ act \in [Scopes -> [Revisions -> Activations]]
      /\ latest[s] \in 1 .. MaxRevision /\ active[s] \in 0 .. MaxRevision
  BY Typed DEF Revisions
<1>2. /\ run[s].phase = "RESOLVED" /\ active[s] <= r
      /\ act' = [act EXCEPT ![s][r] = "SYNCING"]
      /\ syncRun' = [syncRun EXCEPT ![Job(s)][attempts[Job(s)]] = "RUNNING"]
      /\ UNCHANGED <<requested, status, attempts, latest, active>>
  BY DEF BeginSync, At, MayBegin, Q!Record
<1>3. run'[s].phase = "BEGUN" /\ run'[s].rev = r
  BY <1>1 DEF BeginSync, RunRow
<1>4. r \in 1 .. latest[s] /\ r \in Revisions
  BY <1>1, <1>2 DEF ScopeInv, RevInv, Resolved, Revisions
<1> HIDE DEF r
<1>5. /\ act'[s][r] = "SYNCING" /\ \A q \in Revisions : q # r => act'[s][q] = act[s][q]
  BY <1>1, <1>2, <1>4
<1>6. latest[s] \in Revisions /\ (active[s] # 0 => active[s] \in Revisions)
  BY <1>1 DEF Revisions
<1>7. RevInv(s)'
  <2>1. r # latest[s] => act[s][latest[s]] = "DRAFT"
    BY <1>2 DEF r, ScopeInv, RevInv, Resolved
  <2> QED BY <1>2, <1>3, <1>4, <1>5, <1>6, <2>1 DEF ScopeInv, RevInv, Begun, Syncing
<1>8. active'[s] # 0 => act'[s][active'[s]] \in {"SYNCING", "READY", "FAILED"}
  BY <1>2, <1>5, <1>6 DEF ScopeInv, DoneInv
<1> QED BY <1>2, <1>3, <1>7, <1>8, JournalStep

\* It is published: what has authority afterwards was synchronised.
LEMMA PublishedInd ==
    ASSUME TypeOK, NEW s \in Scopes, ScopeInv(s), Published(s)
    PROVE  ScopeInv(s)'
<1> USE SyncAssumption
<1> DEFINE r == run[s].rev
<1>1. /\ run \in [Scopes -> RunRow] /\ act \in [Scopes -> [Revisions -> Activations]]
      /\ active \in [Scopes -> 0 .. MaxRevision]
      /\ latest[s] \in 1 .. MaxRevision /\ active[s] \in 0 .. MaxRevision
  BY Typed DEF Revisions
<1>2. /\ run[s].phase \in Begun
      /\ syncRun' = [syncRun EXCEPT ![Job(s)][attempts[Job(s)]] = "SUCCEEDED"]
      /\ UNCHANGED <<requested, status, attempts, latest>>
  BY DEF Published, ActivateInPlace, CommitCutover, PublishPartial, Scanned, At, Q!Record,
     Succeed, Begun
<1>3. run'[s].phase = "PUBLISHED" /\ run'[s].rev = r
  BY <1>1 DEF Published, ActivateInPlace, CommitCutover, PublishPartial, RunRow
<1>4. r \in 1 .. latest[s] /\ r \in Revisions /\ active[s] <= r
  BY <1>1, <1>2 DEF ScopeInv, RevInv, Resolved, Revisions
<1>5. latest[s] \in Revisions /\ (active[s] # 0 => active[s] \in Revisions)
  BY <1>1 DEF Revisions
<1>6. /\ act'[s][r] \in {"READY", "FAILED"}
      /\ \A q \in Revisions : q > r => act'[s][q] = act[s][q]
      /\ \/ active'[s] = r
         \/ active'[s] = active[s] /\ \A q \in Revisions : q # r => act'[s][q] = act[s][q]
  <2>1. CASE ActivateInPlace(s)
    <3>1. /\ act' = [act EXCEPT ![s][r] = IF active[s] > r THEN "FAILED" ELSE "READY"]
          /\ active' = [active EXCEPT ![s] = IF @ > r THEN @ ELSE r]
      BY <2>1 DEF ActivateInPlace
    <3> HIDE DEF r
    <3> QED BY <1>1, <1>4, <3>1 DEF Revisions
  <2>2. CASE PublishPartial(s)
    <3>1. PICK hold \in BOOLEAN :
            /\ act' = [act EXCEPT ![s][r] = IF hold THEN "FAILED" ELSE "READY"]
            /\ active' = [active EXCEPT ![s] = IF hold THEN @ ELSE r]
      BY <2>2 DEF PublishPartial
    <3> HIDE DEF r
    <3> QED BY <1>1, <1>4, <3>1 DEF Revisions
  <2>3. CASE CommitCutover(s)
    <3>1. act' = [act EXCEPT ![s] = Revoked(s, r)] /\ active' = [active EXCEPT ![s] = r]
      BY <2>3 DEF CommitCutover
    <3> HIDE DEF r
    <3> QED BY <1>1, <1>4, <3>1 DEF Revoked, Revisions
  <2> QED BY <2>1, <2>2, <2>3 DEF Published
<1>7. r # latest[s] => act[s][latest[s]] = "DRAFT"
  BY <1>2 DEF ScopeInv, RevInv, Resolved
<1> HIDE DEF r
<1>8. r # latest[s] => act'[s][latest[s]] = "DRAFT"
  <2>1. r # latest[s] => latest[s] > r
    BY <1>1, <1>4
  <2>2. r # latest[s] => act'[s][latest[s]] = act[s][latest[s]]
    BY <1>5, <1>6, <2>1
  <2> QED BY <1>7, <2>2
<1>9. RevInv(s)'
  <2>1. r # latest[s] => act'[s][latest[s]] = "DRAFT"
    BY <1>8
  <2>2. active'[s] <= latest[s]
    BY <1>1, <1>4, <1>6 DEF ScopeInv, RevInv
  <2>3. act'[s][r] # "SYNCING"
    BY <1>6
  <2> QED BY <1>2, <1>3, <1>4, <2>1, <2>2, <2>3 DEF RevInv, Begun, Syncing
<1>10. active'[s] # 0 => act'[s][active'[s]] \in {"SYNCING", "READY", "FAILED"}
  BY <1>4, <1>5, <1>6 DEF ScopeInv, DoneInv
<1>11. run[s].phase # "NONE" /\ run'[s].phase = "PUBLISHED"
  BY <1>2, <1>3 DEF Begun
<1>12. act'[s][latest[s]] # "SYNCING"
  BY <1>6, <1>8
<1> QED BY <1>2, <1>9, <1>10, <1>11, <1>12, JournalStep

\* It fails: the revision leaves SYNCING, or keeps what it was.
LEMMA FailSyncInd ==
    ASSUME TypeOK, NEW s \in Scopes, ScopeInv(s), FailSync(s)
    PROVE  ScopeInv(s)'
<1> USE SyncAssumption
<1> DEFINE r == run[s].rev
<1>1. /\ run \in [Scopes -> RunRow] /\ act \in [Scopes -> [Revisions -> Activations]]
      /\ latest[s] \in 1 .. MaxRevision /\ active[s] \in 0 .. MaxRevision
  BY Typed DEF Revisions
<1>2. run[s].phase \in Begun /\ UNCHANGED <<requested, status, attempts, latest, active>>
  BY DEF FailSync, Begun, Q!Record, jobVars
<1>3. run'[s].phase = "FAILING"
  BY <1>1 DEF FailSync, NoRun
<1>4. RevInv(s)'
  BY <1>2, <1>3 DEF ScopeInv, RevInv, Begun, Resolved
<1>5. CASE UNCHANGED <<act, syncRun>>
  BY <1>2, <1>3, <1>4, <1>5, WithinLease DEF Begun
<1>6. CASE ~UNCHANGED <<act, syncRun>>
  <2>1. /\ act' = [act EXCEPT ![s][r] = "FAILED"]
        /\ syncRun' = [syncRun EXCEPT ![Job(s)][attempts[Job(s)]] = "FAILED"]
    BY <1>6 DEF FailSync
  <2>2. r \in Revisions /\ (active[s] # 0 => active[s] \in Revisions)
    BY <1>1, <1>2 DEF ScopeInv, RevInv, Resolved, Revisions
  <2> HIDE DEF r
  <2>3. active'[s] # 0 => act'[s][active'[s]] \in {"SYNCING", "READY", "FAILED"}
    BY <1>1, <1>2, <2>1, <2>2 DEF ScopeInv, DoneInv
  <2>4. run[s].phase # "NONE" /\ run'[s].phase = "FAILING"
    BY <1>2, <1>3 DEF Begun
  <2>5. act'[s][latest[s]] # "SYNCING"
    BY <1>1, <1>2, <2>1, <2>2 DEF ScopeInv, RevInv, Resolved, Revisions, r
  <2> QED BY <1>2, <1>4, <2>1, <2>3, <2>4, <2>5, JournalStep
<1> QED BY <1>5, <1>6

\* The lease ends, after the publication or without one.
LEMMA EndInd ==
    ASSUME TypeOK, NEW s \in Scopes, ScopeInv(s), Complete(s) \/ Drop(s)
    PROVE  ScopeInv(s)'
<1>1. /\ status \in [JobIds -> Q!Statuses] /\ run \in [Scopes -> RunRow]
      /\ requested[s] \in 0 .. MaxSyncs
  BY Typed
<1>2. /\ UNCHANGED <<requested, attempts, latest, active, act, syncRun>> /\ run[s].phase # "NONE"
      /\ run' = [run EXCEPT ![s] = NoRun]
  BY DEF Complete, Drop, FailJob, LeaseLost, At, Q!Finish, Q!Release, scopeVars
<1>3. run'[s].phase = "NONE" /\ Job(s)' = Job(s)
  BY <1>1, <1>2 DEF NoRun, Job
<1>4. requested[s] # 0 /\ Job(s) \in JobIds /\ status[Job(s)] = "RUNNING"
  BY <1>2, RunJob DEF ScopeInv, QueueInv
<1>5. /\ \A n \in 1 .. MaxSyncs : n # requested[s] => status'[<<s, n>>] = status[<<s, n>>]
      /\ \/ run[s].phase = "PUBLISHED" /\ status'[Job(s)] = "SUCCEEDED"
         \/ status'[Job(s)] \in {"PENDING", "DEAD"}
  <2>1. CASE Complete(s)
    <3>1. run[s].phase = "PUBLISHED" /\ status' = [status EXCEPT ![Job(s)] = "SUCCEEDED"]
      BY <2>1 DEF Complete, At, Q!Finish
    <3> QED BY <1>1, <1>4, <3>1 DEF Job, JobIds
  <2>2. CASE Drop(s)
    <3>1. status' = [j \in JobIds |-> IF j \in {Job(s)} THEN Q!AfterLoss(attempts[j])
                                      ELSE status[j]]
      BY <2>2 DEF Drop, FailJob, LeaseLost, Q!Release
    <3> QED BY <1>1, <1>4, <3>1 DEF Job, JobIds, Q!AfterLoss
  <2> QED BY <2>1, <2>2
<1>6. QueueInv(s)'
  BY <1>2, <1>3, <1>5 DEF ScopeInv, QueueInv
<1>7. RevInv(s)'
  BY <1>2, <1>3 DEF ScopeInv, RevInv, Begun, Resolved
<1>8. DoneInv(s)'
  <2>1. ASSUME NEW n \in 1 .. MaxSyncs, status'[<<s, n>>] = "SUCCEEDED"
        PROVE  syncRun'[<<s, n>>][attempts'[<<s, n>>]] = "SUCCEEDED"
    <3>1. CASE n = requested[s]
      BY <1>2, <1>5, <2>1, <3>1 DEF ScopeInv, DoneInv, Job
    <3>2. CASE n # requested[s]
      BY <1>2, <1>5, <2>1, <3>2 DEF ScopeInv, DoneInv
    <3> QED BY <3>1, <3>2
  <2>2. run[s].phase = "PUBLISHED" => act[s][latest[s]] # "SYNCING"
    BY DEF ScopeInv, RevInv, Resolved, Syncing
  <2>3. LastRunOpen(s)' = LastRunOpen(s)
    BY <1>2 DEF LastRunOpen
  <2> QED BY <1>2, <1>3, <1>4, <1>5, <2>1, <2>2, <2>3 DEF ScopeInv, DoneInv
<1>9. JournalInv(s)'
  BY <1>2, <1>3 DEF ScopeInv, JournalInv, Ahead
<1> QED BY <1>6, <1>7, <1>8, <1>9 DEF ScopeInv

-----------------------------------------------------------------------------
(* The invariant of the scopes, and what it gives.                         *)

LEMMA InitInv ==
    Init => IInv
<1> SUFFICES ASSUME Init PROVE IInv
  OBVIOUS
<1> USE SyncAssumption DEF Init
<1>1. TypeOK
  <2>1. run \in [Scopes -> RunRow]
    BY NoRunTyped
  <2>2. /\ status \in [JobIds -> Q!Statuses] /\ attempts \in [JobIds -> 0 .. MaxAttempts]
        /\ results \in [JobIds -> SUBSET (1 .. MaxAttempts)]
        /\ requested \in [Scopes -> 0 .. MaxSyncs]
        /\ syncRun \in [JobIds -> [1 .. MaxAttempts -> RunStatuses]]
    BY DEF Q!Init, Q!Statuses, RunStatuses
  <2>3. /\ latest \in [Scopes -> Revisions] /\ active \in [Scopes -> 0 .. MaxRevision]
        /\ act \in [Scopes -> [Revisions -> Activations]]
    BY DEF Revisions, Activations
  <2>4. /\ member \in [Scopes -> [Revisions -> [Objects -> Memberships]]]
        /\ object \in [Objects -> Lifecycles]
    BY DEF Memberships, Lifecycles
  <2> QED BY <2>1, <2>2, <2>3, <2>4 DEF TypeOK, RunRow
<1>2. ASSUME NEW s \in Scopes
      PROVE  ScopeInv(s)
  <2>1. /\ requested[s] = 0 /\ run[s].phase = "NONE" /\ active[s] = 0 /\ latest[s] = 1
        /\ act[s][1] = "DRAFT"
        /\ \A n \in 1 .. MaxSyncs : status[<<s, n>>] = "ABSENT"
        /\ \A n \in 1 .. MaxSyncs, a \in 1 .. MaxAttempts : syncRun[<<s, n>>][a] = "NONE"
    BY DEF NoRun, Q!Init, Revisions, JobIds
  <2>2. QueueInv(s) /\ RevInv(s)
    BY <2>1 DEF QueueInv, RevInv, Begun, Resolved
  <2>3. DoneInv(s) /\ JournalInv(s)
    BY <2>1 DEF DoneInv, JournalInv
  <2> QED BY <2>2, <2>3 DEF ScopeInv
<1> QED BY <1>1, <1>2 DEF IInv

LEMMA NextInv ==
    ASSUME IInv, [Next]_vars
    PROVE  IInv'
<1>1. ASSUME NEW s \in Scopes, Step(s)
      PROVE  IInv'
  <2>1. TypeOK /\ ScopeInv(s) /\ QueueInv(s) /\ RevInv(s)
    BY DEF IInv, ScopeInv
  <2>2. TypeOK'
    BY <1>1, <2>1, TypeStep
  <2>3. ScopeInv(s)'
    BY <1>1, <2>1, RequestedInd, ReviseInd, ClaimInd, LookInd, BeginInd, WriteInd, PublishedInd,
       FailSyncInd, EndInd DEF Step
  <2>4. ASSUME NEW t \in Scopes, t # s
        PROVE  ScopeInv(t)'
    <3>1. Kept(t)
      BY <1>1, <2>1, <2>4, OthersKept
    <3> QED BY <2>1, <3>1, KeptInv DEF IInv
  <2> QED BY <2>2, <2>3, <2>4 DEF IInv
<1>2. CASE UNCHANGED vars
  <2>1. UNCHANGED <<status, attempts, results, requested, latest, active, act, member, object,
                    syncRun, run>>
    BY <1>2 DEF vars, jobVars, scopeVars, catalog
  <2>2. TypeOK'
    BY <2>1 DEF IInv, TypeOK
  <2>3. ASSUME NEW t \in Scopes
        PROVE  ScopeInv(t)'
    BY <2>1, KeptInv DEF IInv, Kept
  <2> QED BY <2>2, <2>3 DEF IInv
<1> QED BY <1>1, <1>2, NextIsStep

\* Every state the scopes can reach, whatever scopes and objects there are and
\* however their transactions interleave.
THEOREM Invariance == Spec => []IInv
<1>1. Init => IInv
  BY InitInv
<1>2. IInv /\ [Next]_vars => IInv'
  BY NextInv
<1> QED BY <1>1, <1>2, PTL DEF Spec

\* The rows of the queue, the scopes, the catalog and the runs.
THEOREM TypeCorrect == Spec => []TypeOK
<1>1. IInv => TypeOK
  BY DEF IInv
<1> QED BY Invariance, <1>1, PTL

\* source_scope_activate_revision, source_scope_publish_partial and
\* mark_failed: the authoritative revision was synchronised, and no cutover
\* or failure leaves the authority with a revision that is revoked.
THEOREM AuthorityIsEarned == Spec => []AuthorityEarned
<1>1. IInv => AuthorityEarned
  BY DEF IInv, ScopeInv, DoneInv, AuthorityEarned
<1> QED BY Invariance, <1>1, PTL

\* jobs.Complete: a job that is acknowledged has published, by its last attempt.
THEOREM AcknowledgedIsPublished == Spec => []AckAfterPublish
<1>1. ASSUME IInv
      PROVE  AckAfterPublish
  <2>1. ASSUME NEW j \in JobIds, status[j] = "SUCCEEDED"
        PROVE  syncRun[j][attempts[j]] = "SUCCEEDED"
    <3>1. PICK s \in Scopes, n \in 1 .. MaxSyncs : j = <<s, n>>
      BY DEF JobIds
    <3> QED BY <1>1, <2>1, <3>1 DEF IInv, ScopeInv, DoneInv
  <2> QED BY <2>1 DEF AckAfterPublish
<1> QED BY Invariance, <1>1, PTL

\* failSync: the latest revision is left in SYNCING with nobody at work only by
\* a job that died, and only when the last sync that began never recorded how
\* it ended.
THEOREM StrandedByOpenRun == Spec => []StrandedOnlyByOpenRun
<1>1. ASSUME IInv
      PROVE  StrandedOnlyByOpenRun
  <2>1. ASSUME NEW s \in Scopes, act[s][latest[s]] = "SYNCING", ~Busy(s)
        PROVE  status[Job(s)] = "DEAD" /\ LastRunOpen(s)
    <3>1. requested[s] \in Nat
      BY <1>1, Typed, SyncAssumption DEF IInv
    <3> QED BY <1>1, <2>1, <3>1 DEF IInv, ScopeInv, DoneInv, Busy, Q!Live
  <2> QED BY <2>1 DEF StrandedOnlyByOpenRun
<1> QED BY Invariance, <1>1, PTL

\* A run writes to a revision that is not behind the authority: it was not when
\* the sync began, and only this run can have moved the authority since.
THEOREM SupersededIsFenced == Spec => SupersededFenced
<1>1. ASSUME IInv, [Next]_vars, NEW s \in Scopes, NEW r \in Revisions, NEW o \in Objects,
             r < active[s], member'[s][r][o] # member[s][r][o]
      PROVE  member'[s][r][o] = "REMOVED"
  <2>1. PICK t \in Scopes : Step(t)
    BY <1>1, NextIsStep DEF vars, catalog
  <2>2. TypeOK /\ ScopeInv(t) /\ QueueInv(t) /\ RevInv(t)
    BY <1>1 DEF IInv, ScopeInv
  <2>3. Step(s) /\ RevInv(s)
    BY <1>1, <2>1, <2>2, OthersKept DEF Kept
  <2>4. /\ member \in [Scopes -> [Revisions -> [Objects -> Memberships]]]
        /\ active[s] \in Nat /\ r \in Nat /\ run[s].rev \in Nat
    BY <2>2, Typed, SyncAssumption DEF Revisions, RunRow
  <2>5. Write(s) \/ CommitCutover(s)
    BY <1>1, <2>3 DEF Step, Requested, Activate, Sync, AutoSync, Request, Revise, Claim, Look,
       Resolve, Scan, Observe, OpenReconcile, OpenCutover, BeginSync, Published, ActivateInPlace,
       PublishPartial, Complete, FailSync, Drop, FailJob, LeaseLost, catalog
  <2>6. ~Write(s)
    <3>1. SUFFICES ASSUME Write(s) PROVE FALSE
      OBVIOUS
    <3>2. run[s].phase \in Begun
      BY <3>1 DEF Write, Ingest, CommitReconcile, At, Begun
    <3>3. r # run[s].rev
      BY <1>1, <2>3, <2>4, <3>2 DEF RevInv
    <3>4. member'[s][r][o] = member[s][r][o]
      <4>1. PICK rows : member' = [member EXCEPT ![s][run[s].rev] = rows]
        <5>1. CASE CommitReconcile(s)
          BY <5>1 DEF CommitReconcile
        <5>2. ASSUME NEW k \in Objects, Ingest(s, k)
              PROVE  member' = [member EXCEPT ![s][run[s].rev] =
                                              [member[s][run[s].rev] EXCEPT ![k] = "ACTIVE"]]
          BY <2>4, <5>2 DEF Ingest
        <5> QED BY <3>1, <5>1, <5>2 DEF Write
      <4> QED BY <2>4, <3>3, <4>1
    <3> QED BY <1>1, <3>4
  <2>7. CommitCutover(s)
    BY <2>5, <2>6
  <2>8. member' = [member EXCEPT ![s] = [q \in Revisions |-> [k \in Objects |->
                     IF q < run[s].rev /\ @[q][k] # "NONE" THEN "REMOVED" ELSE @[q][k]]]]
    BY <2>7 DEF CommitCutover
  <2> QED BY <1>1, <2>4, <2>8
<1>2. IInv /\ [Next]_vars =>
        [\A s \in Scopes, r \in Revisions, o \in Objects :
            r < active[s] /\ member'[s][r][o] # member[s][r][o]
            => member'[s][r][o] = "REMOVED"]_vars
  BY <1>1
<1> QED BY Invariance, <1>2, PTL DEF Spec, SupersededFenced

\* No object leaves the catalog and no authority moves without the complete,
\* non-empty scan of the very run that does it.
THEOREM CoverageIsRequired == Spec => CoverageProtects
<1> DEFINE Loss(s) ==
      \/ active[s] # 0 /\ active'[s] # active[s]
      \/ \E o \in Objects : /\ object[o] = "ACTIVE" /\ object'[o] # "ACTIVE"
                            /\ run'[s] # run[s]
<1>1. ASSUME IInv, [Next]_vars, NEW s \in Scopes, Loss(s)
      PROVE  Authoritative(s)
  <2>1. PICK t \in Scopes : Step(t)
    BY <1>1, NextIsStep DEF vars, catalog, scopeVars
  <2>2. TypeOK /\ ScopeInv(t) /\ QueueInv(t) /\ RevInv(t)
    BY <1>1 DEF IInv, ScopeInv
  <2>3. Step(s) /\ RevInv(s)
    BY <1>1, <2>1, <2>2, OthersKept DEF Kept
  <2>4. /\ active \in [Scopes -> 0 .. MaxRevision] /\ object \in [Objects -> Lifecycles]
        /\ run[s].rev \in Nat /\ active[s] \in Nat
    BY <2>2, Typed, SyncAssumption DEF RunRow
  <2>5. Write(s) \/ Published(s)
    BY <1>1, <2>3 DEF Step, Requested, Activate, Sync, AutoSync, Request, Revise, Claim, Look,
       Resolve, Scan, Observe, OpenReconcile, OpenCutover, BeginSync,
       Complete, FailSync, Drop, FailJob, LeaseLost, catalog, scopeVars
  <2>6. CASE CommitReconcile(s) \/ CommitCutover(s)
    BY <2>3, <2>6 DEF CommitReconcile, CommitCutover, At, RevInv
  <2>7. CASE \E o \in Objects : Ingest(s, o)
    BY <1>1, <2>4, <2>7 DEF Ingest, scopeVars
  <2>8. CASE ActivateInPlace(s)
    <3>1. run[s].phase = "RECONCILED"
      BY <2>8 DEF ActivateInPlace, At
    <3> QED BY <2>3, <3>1 DEF RevInv
  <2>9. CASE PublishPartial(s)
    BY <1>1, <2>4, <2>9 DEF PublishPartial, catalog
  <2> QED BY <2>5, <2>6, <2>7, <2>8, <2>9 DEF Write, Published
<1>2. IInv /\ [Next]_vars => [\A s \in Scopes : Loss(s) => Authoritative(s)]_vars
  BY <1>1
<1> QED BY Invariance, <1>2, PTL DEF Spec, CoverageProtects
=============================================================================
