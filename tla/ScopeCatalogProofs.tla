--------------------------- MODULE ScopeCatalogProofs ---------------------------
(***************************************************************************)
(* Proofs about the catalog ScopeSync writes, on the invariant of          *)
(* ScopeSyncProofs. An object that no two scopes hold is coherent however  *)
(* many scopes there are; that overlapping scopes can lose an object is    *)
(* what the run scope_sync_overlap_cutover shows, so with several scopes   *)
(* the hypothesis cannot be dropped. With one scope it always holds.       *)
(*                                                                         *)
(* A reconciliation and a cutover write what a snapshot of an earlier      *)
(* state told them. SnapshotInv says that for such an object it is still   *)
(* true: the memberships it counted are all the run's own scope's, and     *)
(* those only this run can have written.                                   *)
(***************************************************************************)
EXTENDS ScopeSyncProofs

\* Scope s has a membership of o, open or closed.
Holds(s, o) == \E r \in Revisions : member[s][r][o] # "NONE"

\* No two scopes do.
Alone(o) == \A s, t \in Scopes : Holds(s, o) /\ Holds(t, o) => s = t

\* Some membership of o is in state x; some of scope s's.
Some(o, x) == \E s \in Scopes, r \in Revisions : member[s][r][o] = x
Own(s, o, x) == \E r \in Revisions : member[s][r][o] = x

\* What an open reconciliation found about o: the membership it will mark, and
\* whether that leaves o no ACTIVE one.
ReconcileInv(s, o) ==
    LET r == run[s].rev
    IN  /\ o \in run[s].gone <=> member[s][r][o] = "ACTIVE" /\ o \notin run[s].seen
        /\ o \in run[s].missing <=>
             /\ o \in run[s].gone \/ member[s][r][o] = "MISSING"
             /\ \A q \in Revisions : member[s][q][o] = "ACTIVE" => q = r /\ o \in run[s].gone

\* What an open cutover found about o: it is only held below the candidate, or
\* there and MISSING in what stays.
CutoverInv(s, o) ==
    LET r     == run[s].rev
        lost  == /\ \E q \in 1 .. (r - 1) : member[s][q][o] # "NONE"
                 /\ \A q \in Revisions : member[s][q][o] = "ACTIVE" => q < r
        later == \E q \in Revisions : member[s][q][o] = "MISSING" /\ q >= r
    IN  /\ o \in run[s].missing <=> lost /\ later
        /\ o \in run[s].deleted <=> lost /\ ~later

SnapshotInv(s, o) ==
    /\ run[s].phase = "RECONCILING" => ReconcileInv(s, o)
    /\ run[s].phase = "CUTOVER" => CutoverInv(s, o)

\* The inductive invariant of one object.
ObjectInv(o) ==
    Alone(o) => /\ object[o] = Derived(o)
                /\ \A s \in Scopes : SnapshotInv(s, o)

-----------------------------------------------------------------------------
(* Operators.                                                              *)

LEMMA DerivedIs ==
    ASSUME NEW o \in Objects
    PROVE  /\ Derived(o) = IF Some(o, "ACTIVE") THEN "ACTIVE"
                           ELSE IF Some(o, "MISSING") THEN "MISSING"
                           ELSE IF Some(o, "REMOVED") THEN "DELETED" ELSE "NONE"
           /\ Derived(o)' = IF Some(o, "ACTIVE")' THEN "ACTIVE"
                            ELSE IF Some(o, "MISSING")' THEN "MISSING"
                            ELSE IF Some(o, "REMOVED")' THEN "DELETED" ELSE "NONE"
<1>1. \A x : x \in {member[s][r][o] : s \in Scopes, r \in Revisions} <=> Some(o, x)
  BY DEF Some
<1>2. \A x : x \in {member'[s][r][o] : s \in Scopes, r \in Revisions} <=> Some(o, x)'
  BY DEF Some
<1> QED BY <1>1, <1>2 DEF Derived

\* Memberships that do not change leave an object what it was.
LEMMA DerivedKept ==
    ASSUME NEW o \in Objects,
           \A s \in Scopes, r \in Revisions : member'[s][r][o] = member[s][r][o]
    PROVE  Derived(o)' = Derived(o)
<1>1. \A x : Some(o, x)' <=> Some(o, x)
  BY DEF Some
<1> QED BY <1>1, DerivedIs

\* What one scope alone holds is decided by its own memberships.
LEMMA OwnIsSome ==
    ASSUME NEW o \in Objects, Alone(o), NEW s \in Scopes, Holds(s, o), NEW x, x # "NONE"
    PROVE  Some(o, x) <=> Own(s, o, x)
  BY DEF Alone, Holds, Some, Own

\* Only three steps touch an object or its memberships.
LEMMA Effect ==
    ASSUME IInv, NEW s \in Scopes, Step(s), NEW o \in Objects
    PROVE  \/ CommitReconcile(s) \/ CommitCutover(s) \/ Ingest(s, o)
           \/ /\ object'[o] = object[o]
              /\ \A t \in Scopes, r \in Revisions : member'[t][r][o] = member[t][r][o]
<1>1. /\ member \in [Scopes -> [Revisions -> [Objects -> Memberships]]]
      /\ object \in [Objects -> Lifecycles]
  BY Typed DEF IInv
<1>2. CASE Requested(s) \/ Revise(s) \/ Claim(s) \/ Look(s) \/ BeginSync(s) \/ Complete(s)
           \/ FailSync(s) \/ Drop(s) \/ ActivateInPlace(s) \/ PublishPartial(s)
  <2>1. UNCHANGED <<member, object>>
    BY <1>2 DEF Requested, Activate, Sync, AutoSync, Request, Revise, Claim, Look, Resolve, Scan,
       Observe, OpenReconcile, OpenCutover, BeginSync, ActivateInPlace, PublishPartial, Complete,
       FailSync, Drop, FailJob, LeaseLost, catalog
  <2> QED BY <2>1
<1>3. ASSUME NEW k \in Objects, Ingest(s, k), k # o
      PROVE  /\ object'[o] = object[o]
             /\ \A t \in Scopes, r \in Revisions : member'[t][r][o] = member[t][r][o]
  <2>1. /\ member' = [member EXCEPT ![s][run[s].rev][k] = "ACTIVE"]
        /\ object' = [object EXCEPT ![k] = "ACTIVE"]
    BY <1>3 DEF Ingest
  <2> QED BY <1>1, <1>3, <2>1
<1> QED BY <1>2, <1>3 DEF Step, Write, Published

\* The memberships of o after each of the three, and what becomes of o.
LEMMA IngestEffect ==
    ASSUME IInv, NEW s \in Scopes, NEW o \in Objects, Ingest(s, o)
    PROVE  /\ object'[o] = "ACTIVE" /\ run[s].rev \in Revisions /\ run'[s].phase = "INGEST"
           /\ member'[s][run[s].rev][o] = "ACTIVE"
           /\ \A t \in Scopes, r \in Revisions :
                t # s \/ r # run[s].rev => member'[t][r][o] = member[t][r][o]
<1>1. /\ member \in [Scopes -> [Revisions -> [Objects -> Memberships]]]
      /\ object \in [Objects -> Lifecycles] /\ run \in [Scopes -> RunRow]
      /\ latest[s] \in Revisions
  BY Typed DEF IInv
<1>2. /\ member' = [member EXCEPT ![s][run[s].rev][o] = "ACTIVE"]
      /\ object' = [object EXCEPT ![o] = "ACTIVE"] /\ run[s].phase = "INGEST"
  BY DEF Ingest, At
<1>3. run[s].rev \in Revisions
  BY <1>1, <1>2, SyncAssumption DEF IInv, ScopeInv, RevInv, Begun, Resolved, Revisions
<1>4. run'[s].phase = "INGEST"
  BY <1>1, <1>2 DEF Ingest, RunRow
<1> QED BY <1>1, <1>2, <1>3, <1>4

LEMMA ReconcileEffect ==
    ASSUME IInv, NEW s \in Scopes, NEW o \in Objects, CommitReconcile(s)
    PROVE  /\ run[s].phase = "RECONCILING" /\ run'[s].phase = "RECONCILED"
           /\ run[s].rev \in Revisions
           /\ object'[o] = IF o \in run[s].missing /\ object[o] = "ACTIVE" THEN "MISSING"
                           ELSE object[o]
           /\ \A t \in Scopes, r \in Revisions :
                member'[t][r][o] = IF t = s /\ r = run[s].rev /\ o \in run[s].gone
                                   THEN "MISSING" ELSE member[t][r][o]
<1>1. /\ member \in [Scopes -> [Revisions -> [Objects -> Memberships]]]
      /\ run \in [Scopes -> RunRow] /\ latest[s] \in Revisions
  BY Typed DEF IInv
<1>2. /\ member' = [member EXCEPT ![s][run[s].rev] =
                      [k \in Objects |-> IF k \in run[s].gone THEN "MISSING" ELSE @[k]]]
      /\ object' = [k \in Objects |->
                      IF k \in run[s].missing /\ object[k] = "ACTIVE" THEN "MISSING" ELSE object[k]]
      /\ run[s].phase = "RECONCILING"
  BY DEF CommitReconcile, At
<1>3. run[s].rev \in Revisions
  BY <1>1, <1>2, SyncAssumption DEF IInv, ScopeInv, RevInv, Begun, Resolved, Revisions
<1>4. run'[s].phase = "RECONCILED"
  BY <1>1 DEF CommitReconcile, RunRow
<1> QED BY <1>1, <1>2, <1>3, <1>4

LEMMA CutoverEffect ==
    ASSUME IInv, NEW s \in Scopes, NEW o \in Objects, CommitCutover(s)
    PROVE  /\ run[s].phase = "CUTOVER" /\ run'[s].phase = "PUBLISHED"
           /\ run[s].rev \in Revisions
           /\ object'[o] = IF object[o] \notin {"ACTIVE", "MISSING"} THEN object[o]
                           ELSE IF o \in run[s].missing THEN "MISSING"
                           ELSE IF o \in run[s].deleted THEN "DELETED" ELSE object[o]
           /\ \A t \in Scopes, r \in Revisions :
                member'[t][r][o] = IF t = s /\ r < run[s].rev /\ member[s][r][o] # "NONE"
                                   THEN "REMOVED" ELSE member[t][r][o]
<1>1. /\ member \in [Scopes -> [Revisions -> [Objects -> Memberships]]]
      /\ run \in [Scopes -> RunRow] /\ latest[s] \in Revisions
  BY Typed DEF IInv
<1>2. /\ member' = [member EXCEPT ![s] = [q \in Revisions |-> [k \in Objects |->
                      IF q < run[s].rev /\ @[q][k] # "NONE" THEN "REMOVED" ELSE @[q][k]]]]
      /\ object' = [k \in Objects |->
                      IF object[k] \notin {"ACTIVE", "MISSING"} THEN object[k]
                      ELSE IF k \in run[s].missing THEN "MISSING"
                      ELSE IF k \in run[s].deleted THEN "DELETED" ELSE object[k]]
      /\ run[s].phase = "CUTOVER"
  BY DEF CommitCutover, At
<1>3. run[s].rev \in Revisions
  BY <1>1, <1>2, SyncAssumption DEF IInv, ScopeInv, RevInv, Begun, Resolved, Revisions
<1>4. run'[s].phase = "PUBLISHED"
  BY <1>1 DEF CommitCutover, RunRow
<1> QED BY <1>1, <1>2, <1>3, <1>4

\* Memberships are closed, never forgotten.
LEMMA AloneBefore ==
    ASSUME IInv, NEW s \in Scopes, Step(s), NEW o \in Objects, Alone(o)'
    PROVE  Alone(o)
<1>1. ASSUME NEW t \in Scopes, NEW r \in Revisions, member[t][r][o] # "NONE"
      PROVE  member'[t][r][o] # "NONE"
  BY <1>1, Effect, IngestEffect, ReconcileEffect, CutoverEffect
<1>2. \A t \in Scopes : Holds(t, o) => Holds(t, o)'
  BY <1>1 DEF Holds
<1> QED BY <1>2 DEF Alone

-----------------------------------------------------------------------------
(* The snapshots.                                                          *)

\* The second statement of a reconciliation, on its own snapshot: the others
\* hold nothing of an object this scope has marked.
LEMMA OpenReconcileInd ==
    ASSUME IInv, NEW s \in Scopes, OpenReconcile(s), NEW o \in Objects, Alone(o)
    PROVE  SnapshotInv(s, o)'
<1> DEFINE r == run[s].rev
           mine == {<<s, r, k>> : k \in Absent(s)}
<1>1. run \in [Scopes -> RunRow] /\ latest[s] \in Revisions
  BY Typed DEF IInv
<1>2. run[s].phase = "INGEST"
  BY DEF OpenReconcile, Scanned, At
<1>3. r \in Revisions
  BY <1>1, <1>2, SyncAssumption DEF IInv, ScopeInv, RevInv, Begun, Resolved, Revisions
<1>4. /\ run'[s].phase = "RECONCILING" /\ run'[s].rev = r /\ run'[s].seen = run[s].seen
      /\ run'[s].gone = Absent(s) /\ member' = member
      /\ run'[s].missing = {k \in Objects : /\ k \in Absent(s) \/ member[s][r][k] = "MISSING"
                                           /\ ~ActiveMembership(k, mine)}
  BY <1>1 DEF OpenReconcile, RunRow, catalog
<1>5. o \in Absent(s) <=> member[s][r][o] = "ACTIVE" /\ o \notin run[s].seen
  BY DEF Absent
<1> HIDE DEF r
<1>6. \A t \in Scopes, q \in Revisions :
        <<t, q, o>> \in mine <=> t = s /\ q = r /\ o \in Absent(s)
  OBVIOUS
<1>7. ASSUME o \in Absent(s) \/ member[s][r][o] = "MISSING"
      PROVE  ~ActiveMembership(o, mine)
             <=> \A q \in Revisions : member[s][q][o] = "ACTIVE" => q = r /\ o \in Absent(s)
  <2>1. Holds(s, o)
    BY <1>3, <1>5, <1>7 DEF Holds
  <2>2. \A t \in Scopes, q \in Revisions : member[t][q][o] = "ACTIVE" => t = s
    BY <2>1 DEF Alone, Holds
  <2> HIDE DEF mine
  <2> QED BY <1>6, <2>2 DEF ActiveMembership
<1>8. ReconcileInv(s, o)'
  <2> HIDE DEF mine
  <2> QED BY <1>4, <1>5, <1>7 DEF ReconcileInv
<1> QED BY <1>4, <1>8 DEF SnapshotInv

\* The last statement of a cutover, on its own.
LEMMA OpenCutoverInd ==
    ASSUME IInv, NEW s \in Scopes, OpenCutover(s), NEW o \in Objects, Alone(o)
    PROVE  SnapshotInv(s, o)'
<1> DEFINE r == run[s].rev
           old == \E q \in 1 .. (r - 1) : member[s][q][o] # "NONE"
           later == \E q \in Revisions : member[s][q][o] = "MISSING" /\ q >= r
<1>1. run \in [Scopes -> RunRow] /\ latest[s] \in Revisions
  BY Typed DEF IInv
<1>2. run[s].phase = "RECONCILED"
  BY DEF OpenCutover, At
<1>3. r \in Revisions
  BY <1>1, <1>2, SyncAssumption DEF IInv, ScopeInv, RevInv, Begun, Resolved, Revisions
<1>4. /\ run'[s].phase = "CUTOVER" /\ run'[s].rev = r /\ member' = member
      /\ o \in run'[s].missing <=>
            (old /\ ~ActiveMembership(o, Older(s, r))) /\ HeldMissing(s, r, o)
      /\ o \in run'[s].deleted <=>
            (old /\ ~ActiveMembership(o, Older(s, r))) /\ ~HeldMissing(s, r, o)
  BY <1>1 DEF OpenCutover, RunRow, catalog
<1> HIDE DEF r
<1>5. \A t \in Scopes, q \in Revisions : <<t, q, o>> \in Older(s, r) <=> t = s /\ q < r
  BY <1>3, SyncAssumption DEF Older, Revisions
<1>6. ASSUME old
      PROVE  /\ ~ActiveMembership(o, Older(s, r))
                <=> \A q \in Revisions : member[s][q][o] = "ACTIVE" => q < r
             /\ HeldMissing(s, r, o) <=> later
  <2>1. Holds(s, o)
    BY <1>3, <1>6, SyncAssumption DEF Holds, Revisions
  <2>2. \A t \in Scopes, q \in Revisions : member[t][q][o] # "NONE" => t = s
    BY <2>1 DEF Alone, Holds
  <2>3. \A q \in Revisions : q >= r <=> ~(q < r)
    BY <1>3, SyncAssumption DEF Revisions
  <2> QED BY <1>5, <2>2, <2>3 DEF ActiveMembership, HeldMissing
<1>7. CutoverInv(s, o)'
  BY <1>4, <1>6 DEF CutoverInv
<1> QED BY <1>4, <1>7 DEF SnapshotInv

\* What reconciliation makes of an object.
LEMMA ReconcileCoherent ==
    ASSUME IInv, NEW s \in Scopes, CommitReconcile(s), NEW o \in Objects, Alone(o),
           object[o] = Derived(o), ReconcileInv(s, o)
    PROVE  object'[o] = Derived(o)'
<1> DEFINE r == run[s].rev
<1>1. /\ r \in Revisions
      /\ object'[o] = IF o \in run[s].missing /\ object[o] = "ACTIVE" THEN "MISSING" ELSE object[o]
      /\ \A t \in Scopes, q \in Revisions :
           member'[t][q][o] = IF t = s /\ q = r /\ o \in run[s].gone
                              THEN "MISSING" ELSE member[t][q][o]
  BY ReconcileEffect
<1>2. /\ o \in run[s].gone => member[s][r][o] = "ACTIVE"
      /\ o \in run[s].missing <=>
           /\ o \in run[s].gone \/ member[s][r][o] = "MISSING"
           /\ \A q \in Revisions : member[s][q][o] = "ACTIVE" => q = r /\ o \in run[s].gone
  BY DEF ReconcileInv
<1> HIDE DEF r
<1>3. CASE o \in run[s].missing
  <2>1. Holds(s, o)
    BY <1>1, <1>2, <1>3 DEF Holds
  <2>2. \A t \in Scopes, q \in Revisions : member[t][q][o] = "ACTIVE" => t = s /\ q = r
    BY <1>2, <1>3, <2>1 DEF Alone, Holds
  <2>3. ~Some(o, "ACTIVE")'
    BY <1>1, <1>2, <1>3, <2>2 DEF Some
  <2>4. Some(o, "MISSING")'
    BY <1>1, <1>2, <1>3 DEF Some
  <2>5. object[o] \in {"ACTIVE", "MISSING"}
    <3>1. Some(o, "ACTIVE") \/ Some(o, "MISSING")
      BY <1>1, <1>2, <1>3 DEF Some
    <3> QED BY <3>1, DerivedIs
  <2> QED BY <1>1, <1>3, <2>3, <2>4, <2>5, DerivedIs
<1>4. CASE o \notin run[s].missing /\ o \in run[s].gone
  <2>1. PICK q \in Revisions : member[s][q][o] = "ACTIVE" /\ q # r
    BY <1>2, <1>4
  <2>2. Some(o, "ACTIVE") /\ Some(o, "ACTIVE")'
    BY <1>1, <2>1 DEF Some
  <2> QED BY <1>1, <1>4, <2>2, DerivedIs
<1>5. CASE o \notin run[s].missing /\ o \notin run[s].gone
  BY <1>1, <1>5, DerivedKept
<1> QED BY <1>3, <1>4, <1>5

\* What a cutover does.
LEMMA CutoverCoherent ==
    ASSUME IInv, NEW s \in Scopes, CommitCutover(s), NEW o \in Objects, Alone(o),
           object[o] = Derived(o), CutoverInv(s, o)
    PROVE  object'[o] = Derived(o)'
<1> DEFINE r == run[s].rev
           later == \E q \in Revisions : member[s][q][o] = "MISSING" /\ q >= r
           lost == /\ \E q \in 1 .. (r - 1) : member[s][q][o] # "NONE"
                   /\ \A q \in Revisions : member[s][q][o] = "ACTIVE" => q < r
<1>1. /\ r \in Revisions
      /\ object'[o] = IF object[o] \notin {"ACTIVE", "MISSING"} THEN object[o]
                      ELSE IF o \in run[s].missing THEN "MISSING"
                      ELSE IF o \in run[s].deleted THEN "DELETED" ELSE object[o]
      /\ \A t \in Scopes, q \in Revisions :
           member'[t][q][o] = IF t = s /\ q < r /\ member[s][q][o] # "NONE"
                              THEN "REMOVED" ELSE member[t][q][o]
  BY CutoverEffect
<1>2. /\ o \in run[s].missing <=> lost /\ later
      /\ o \in run[s].deleted <=> lost /\ ~later
  BY DEF CutoverInv
<1> HIDE DEF r
<1>3. /\ \A q \in Revisions : q >= r <=> ~(q < r)
      /\ \A q \in Revisions : q < r <=> q \in 1 .. (r - 1)
      /\ \A q \in 1 .. (r - 1) : q \in Revisions
  BY <1>1, SyncAssumption DEF Revisions
<1>4. CASE lost
  <2>1. PICK p \in Revisions : p < r /\ member[s][p][o] # "NONE"
    BY <1>3, <1>4
  <2>2. Holds(s, o) /\ member'[s][p][o] = "REMOVED"
    BY <1>1, <2>1 DEF Holds
  <2>3. \A t \in Scopes, q \in Revisions : member[t][q][o] # "NONE" => t = s
    BY <2>2 DEF Alone, Holds
  <2>4. ~Some(o, "ACTIVE")' /\ Some(o, "REMOVED")'
    BY <1>1, <1>4, <2>2, <2>3 DEF Some
  <2>5. Some(o, "MISSING")' <=> later
    BY <1>1, <1>3, <2>3 DEF Some
  <2>6. object[o] # "NONE" /\ (later => object[o] \in {"ACTIVE", "MISSING"})
    <3>1. member[s][p][o] \in {"ACTIVE", "MISSING", "REMOVED"}
      BY <2>1, Typed DEF IInv, Memberships
    <3>2. Some(o, member[s][p][o]) /\ (later => Some(o, "MISSING"))
      BY <2>1 DEF Some
    <3> QED BY <3>1, <3>2, DerivedIs
  <2>7. object[o] \in {"ACTIVE", "MISSING", "DELETED"}
    BY <2>6, DerivedIs
  <2> QED BY <1>1, <1>2, <1>4, <2>4, <2>5, <2>6, <2>7, DerivedIs
<1>5. CASE ~lost
  <2>1. object'[o] = object[o]
    BY <1>1, <1>2, <1>5
  <2>2. CASE \E q \in 1 .. (r - 1) : member[s][q][o] # "NONE"
    <3>1. PICK q \in Revisions : member[s][q][o] = "ACTIVE" /\ ~(q < r)
      BY <1>5, <2>2
    <3>2. Some(o, "ACTIVE") /\ Some(o, "ACTIVE")'
      BY <1>1, <3>1 DEF Some
    <3> QED BY <2>1, <3>2, DerivedIs
  <2>3. CASE ~\E q \in 1 .. (r - 1) : member[s][q][o] # "NONE"
    <3>1. \A t \in Scopes, q \in Revisions : member'[t][q][o] = member[t][q][o]
      BY <1>1, <1>3, <2>3
    <3> QED BY <2>1, <3>1, DerivedKept
  <2> QED BY <2>2, <2>3
<1> QED BY <1>4, <1>5

-----------------------------------------------------------------------------
(* The invariant of an object, and what it gives.                          *)

\* The step of a scope, on what its own run knows of the object.
LEMMA OwnSnapshot ==
    ASSUME IInv, NEW s \in Scopes, Step(s), NEW o \in Objects, Alone(o), SnapshotInv(s, o)
    PROVE  SnapshotInv(s, o)'
<1>1. run \in [Scopes -> RunRow]
  BY Typed DEF IInv
<1>2. CASE OpenReconcile(s) \/ OpenCutover(s)
  BY <1>2, OpenReconcileInd, OpenCutoverInd
<1>3. CASE Requested(s) \/ Revise(s)
  <2>1. run'[s] = run[s] /\ member' = member
    BY <1>3 DEF Requested, Activate, Sync, AutoSync, Request, Revise, catalog
  <2> QED BY <2>1 DEF SnapshotInv, ReconcileInv, CutoverInv
<1>4. ASSUME ~(OpenReconcile(s) \/ OpenCutover(s)), ~(Requested(s) \/ Revise(s))
      PROVE  run'[s].phase \notin {"RECONCILING", "CUTOVER"}
  <2>1. CASE \E k \in Objects : Ingest(s, k)
    BY <2>1, IngestEffect
  <2>2. CASE Claim(s) \/ Resolve(s) \/ Scan(s) \/ BeginSync(s)
    <3>1. CASE Claim(s) \/ BeginSync(s)
      BY <1>1, <3>1 DEF Claim, BeginSync, RunRow
    <3>2. CASE Resolve(s)
      BY <1>1, <3>2 DEF Resolve, RunRow
    <3>3. CASE Scan(s)
      BY <1>1, <3>3 DEF Scan, Observe, RunRow
    <3> QED BY <2>2, <3>1, <3>2, <3>3
  <2>3. CASE CommitReconcile(s) \/ Published(s)
    <3>1. run'[s].phase \in {"RECONCILED", "PUBLISHED"}
      <4>1. CASE CommitReconcile(s)
        BY <1>1, <4>1 DEF CommitReconcile, RunRow
      <4>2. CASE Published(s)
        BY <1>1, <4>2 DEF Published, ActivateInPlace, CommitCutover, PublishPartial, RunRow
      <4> QED BY <2>3, <4>1, <4>2
    <3> QED BY <3>1
  <2>4. CASE Complete(s) \/ FailSync(s) \/ Drop(s)
    BY <1>1, <2>4 DEF Complete, FailSync, Drop, FailJob, LeaseLost, NoRun
  <2> QED BY <1>4, <2>1, <2>2, <2>3, <2>4 DEF Step, Look, Write
<1> QED BY <1>2, <1>3, <1>4 DEF SnapshotInv

LEMMA ObjectNext ==
    ASSUME IInv, NEW o \in Objects, ObjectInv(o), [Next]_vars
    PROVE  ObjectInv(o)'
<1>1. ASSUME NEW s \in Scopes, Step(s), Alone(o)'
      PROVE  object'[o] = Derived(o)' /\ \A t \in Scopes : SnapshotInv(t, o)'
  <2>1. Alone(o) /\ object[o] = Derived(o) /\ \A t \in Scopes : SnapshotInv(t, o)
    BY <1>1, AloneBefore DEF ObjectInv
  <2>2. TypeOK /\ QueueInv(s) /\ RevInv(s)
    BY DEF IInv, ScopeInv
  <2>3. ASSUME NEW t \in Scopes
        PROVE  SnapshotInv(t, o)'
    <3>1. CASE t = s
      BY <1>1, <2>1, <3>1, OwnSnapshot
    <3>2. CASE t # s
      <4>1. run'[t] = run[t] /\ member'[t] = member[t]
        BY <1>1, <2>2, <3>2, OthersKept DEF Kept
      <4> QED BY <2>1, <4>1 DEF SnapshotInv, ReconcileInv, CutoverInv
    <3> QED BY <3>1, <3>2
  <2>4. object'[o] = Derived(o)'
    <3>1. CASE CommitReconcile(s)
      BY <2>1, <3>1, ReconcileEffect, ReconcileCoherent DEF SnapshotInv
    <3>2. CASE CommitCutover(s)
      BY <2>1, <3>2, CutoverEffect, CutoverCoherent DEF SnapshotInv
    <3>3. CASE Ingest(s, o)
      <4>1. Some(o, "ACTIVE")' /\ object'[o] = "ACTIVE"
        BY <3>3, IngestEffect DEF Some
      <4> QED BY <4>1, DerivedIs
    <3>4. CASE /\ object'[o] = object[o]
               /\ \A t \in Scopes, r \in Revisions : member'[t][r][o] = member[t][r][o]
      BY <2>1, <3>4, DerivedKept
    <3> QED BY <1>1, <3>1, <3>2, <3>3, <3>4, Effect
  <2> QED BY <2>3, <2>4
<1>2. CASE UNCHANGED vars
  <2>1. UNCHANGED <<member, object, run>>
    BY <1>2 DEF vars, catalog
  <2> QED BY <2>1 DEF ObjectInv, Alone, Holds, Derived, SnapshotInv, ReconcileInv, CutoverInv
<1> QED BY <1>1, <1>2, NextIsStep DEF ObjectInv

LEMMA ObjectInit ==
    ASSUME Init
    PROVE  \A o \in Objects : ObjectInv(o)
<1>1. ASSUME NEW o \in Objects
      PROVE  ObjectInv(o)
  <2>1. /\ object[o] = "NONE" /\ \A s \in Scopes : run[s].phase = "NONE"
        /\ \A s \in Scopes, r \in Revisions : member[s][r][o] = "NONE"
    BY <1>1 DEF Init, NoRun
  <2>2. Derived(o) = "NONE"
    BY <2>1, DerivedIs DEF Some
  <2> QED BY <2>1, <2>2 DEF ObjectInv, SnapshotInv
<1> QED BY <1>1

\* The catalog, as the code can promise it for any number of scopes.
LoneCoherent == \A o \in Objects : Alone(o) => object[o] = Derived(o)

\* ingestObject, reconcile and source_scope_activate_revision: what no two
\* scopes hold has the lifecycle its memberships say, whatever the others do.
THEOREM LoneObjectsCoherent == Spec => []LoneCoherent
<1>1. Init => IInv /\ \A o \in Objects : ObjectInv(o)
  BY InitInv, ObjectInit
<1>2. IInv /\ (\A o \in Objects : ObjectInv(o)) /\ [Next]_vars
        => IInv' /\ (\A o \in Objects : ObjectInv(o))'
  BY NextInv, ObjectNext
<1>3. (\A o \in Objects : ObjectInv(o)) => LoneCoherent
  BY DEF ObjectInv, LoneCoherent
<1> QED BY <1>1, <1>2, <1>3, PTL DEF Spec

\* With one scope every object is such an object.
THEOREM OneScopeCoherent ==
    ASSUME \A s, t \in Scopes : s = t
    PROVE  Spec => []CatalogCoherent
<1>1. LoneCoherent => CatalogCoherent
  BY DEF LoneCoherent, CatalogCoherent, Alone
<1> QED BY LoneObjectsCoherent, <1>1, PTL
=============================================================================
