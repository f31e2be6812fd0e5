----------------------------- MODULE RotationProofs -----------------------------
(***************************************************************************)
(* Proofs about Rotation for every number of items, processes, key         *)
(* versions and jobs, every batch size and every number of faults. The     *)
(* only assumption is RotationAssumption.                                  *)
(*                                                                         *)
(* LostOnlyByStale is not inductive: what a pass commits depends on which  *)
(* windows there were since it read its batch. KeyInv says that the        *)
(* manifest moves within one version of the pair of the last window, that  *)
(* no process has mounted more than the pass it is in has read, and that   *)
(* the version a closed window has left is free of fresh items.            *)
(***************************************************************************)
EXTENDS Rotation, TLAPS

\* The previous key of a pair is the version before the active one.
Adjacent(pair) == pair.previous + 1 = pair.active

\* The items that were sealed last under the active key of their time.
Fresh == {i \in Live : ~item[i].stale}

\* What is between two windows.
Settled ==
    /\ manifest.active \in {window.pair.active, window.pair.active + 1}
    /\ manifest.active = window.pair.active + 1 => manifest.previous = window.pair.active
    /\ \A i \in Fresh : item[i].label \in window.pair.active .. manifest.active

\* What is within one.
Opened ==
    /\ manifest = window.pair /\ manifest.previous # 0
    /\ \A i \in Fresh : item[i].label \in {manifest.active, manifest.previous}

KeyInv ==
    /\ manifest.previous # 0 => Adjacent(manifest)
    /\ Adjacent(window.pair) /\ \A p \in Procs : Adjacent(pass[p].pair)
    /\ IF window.phase = "REWRAPPING" THEN Opened ELSE Settled
    /\ \A i \in Fresh : item[i].key = item[i].label

\* A process is never ahead of the manifest, nor of the window its pass read.
MountInv ==
    /\ \A p \in Procs : mount[p].active <= manifest.active
    /\ \A p \in Procs : pass[p].step = "READ" => mount[p].active <= pass[p].pair.active

\* There are no rotation jobs before the first window.
StartInv ==
    window.phase = "NONE" => /\ \A j \in Jobs : job[j].status = "NONE"
                             /\ \A p \in Procs : pass[p].step = "IDLE"

\* A job waits only while it has attempts left.
JobInv ==
    \A j \in Jobs : /\ job[j].status = "PENDING" => job[j].attempts < MaxAttempts
                    /\ job[j].status = "NONE" => job[j].attempts = 0

\* The inductive invariant.
IInv == TypeOK /\ JobInv /\ KeyInv /\ MountInv /\ StartInv

ItemRow == [state : {"NONE", "LIVE", "PURGED"}, label : 0 .. MaxKey, key : 0 .. MaxKey,
            stale : BOOLEAN]
JobRow  == [status : {"NONE", "PENDING", "RUNNING", "SUCCEEDED", "DEAD"},
            attempts : 0 .. MaxAttempts]
PassRow == [step : {"IDLE", "CLAIMED", "READ", "DONE", "FAILED"}, job : Jobs,
            attempt : 0 .. MaxAttempts, pair : Pairs, batch : SUBSET Items]

-----------------------------------------------------------------------------
(* Operators.                                                              *)

\* What TypeOK says, with the rows named.
LEMMA Typed ==
    ASSUME TypeOK
    PROVE  /\ manifest \in Pairs /\ mount \in [Procs -> Pairs] /\ window.pair \in Pairs
           /\ item \in [Items -> ItemRow] /\ job \in [Jobs -> JobRow]
           /\ pass \in [Procs -> PassRow] /\ faults \in 0 .. MaxFaults
           /\ window \in [phase : {"NONE", "REWRAPPING", "COMPLETE"}, pair : Pairs]
  BY DEF TypeOK, ItemRow, JobRow, PassRow

LEMMA FirstPairTyped ==
    FirstPair \in Pairs /\ Adjacent(FirstPair)
  BY RotationAssumption DEF FirstPair, Pairs, Keys, Adjacent

LEMMA IdleTyped ==
    Idle \in PassRow /\ Adjacent(Idle.pair)
  BY FirstPairTyped, RotationAssumption DEF Idle, PassRow, Jobs

\* Over ends a transaction and forgets what it read.
LEMMA OverTyped ==
    ASSUME TypeOK, NEW p \in Procs, NEW s \in {"DONE", "FAILED"}
    PROVE  /\ Over(p, s) \in PassRow /\ Adjacent(Over(p, s).pair)
           /\ Over(p, s).step # "READ"
  BY Typed, FirstPairTyped DEF Over, PassRow

\* EnqueueInTransaction keeps the budget of a job.
LEMMA EnqueuedTyped ==
    ASSUME TypeOK, JobInv, NEW j \in Jobs, job' = Enqueued(j)
    PROVE  job' \in [Jobs -> JobRow] /\ JobInv'
<1>1. job' \in [Jobs -> JobRow]
  BY Typed DEF Enqueued, JobRow
<1>2. JobInv'
  BY Typed, RotationAssumption DEF Enqueued, JobRow, JobInv
<1> QED BY <1>1, <1>2

\* Within a window every pair of it leaves the same key.
LEMMA SamePrevious ==
    ASSUME IInv, NEW p \in Procs, SamePair(pass[p].pair)
    PROVE  pass[p].pair.previous = window.pair.previous
<1>1. /\ window.pair.previous \in Nat /\ window.pair.active \in Nat
      /\ pass[p].pair.previous \in Nat /\ pass[p].pair.active \in Nat
  BY Typed DEF IInv, PassRow, Pairs, Keys
<1> QED BY <1>1 DEF IInv, KeyInv, Adjacent, SamePair

\* A window is at most one version behind the manifest.
LEMMA WindowBehind ==
    ASSUME IInv
    PROVE  window.pair.active <= manifest.active
<1>1. window.pair.active \in Nat /\ manifest.active \in Nat
  BY Typed DEF IInv, Pairs, Keys
<1> QED BY <1>1 DEF IInv, KeyInv, Opened, Settled

-----------------------------------------------------------------------------
(* Types.                                                                  *)

\* The rows keep their types however windows are opened, and no rotation job
\* is claimed past its budget.
LEMMA TypeNext ==
    ASSUME TypeOK, JobInv, [Next]_vars
    PROVE  TypeOK' /\ JobInv'
<1> USE RotationAssumption
<1>1. /\ manifest \in Pairs /\ mount \in [Procs -> Pairs] /\ window.pair \in Pairs
      /\ item \in [Items -> ItemRow] /\ job \in [Jobs -> JobRow]
      /\ pass \in [Procs -> PassRow] /\ faults \in 0 .. MaxFaults
      /\ window \in [phase : {"NONE", "REWRAPPING", "COMPLETE"}, pair : Pairs]
  BY Typed
<1>2. CASE Operator
  <2>1. CASE StageKey
    <3>1. manifest' \in Pairs
      BY <1>1, <2>1 DEF StageKey, Pairs, Keys
    <3> QED BY <2>1, <3>1 DEF StageKey, TypeOK, JobInv
  <2>2. CASE RetireKey
    <3>1. manifest' \in Pairs
      BY <1>1, <2>2 DEF RetireKey, Pairs
    <3> QED BY <2>2, <3>1 DEF RetireKey, TypeOK, JobInv
  <2>3. CASE Begin
    <3>1. 0 \in Jobs /\ job' = Enqueued(0)
      BY <2>3 DEF Begin, Jobs
    <3>2. job' \in [Jobs -> JobRow] /\ JobInv'
      BY <3>1, EnqueuedTyped
    <3>3. cycle' \in 0 .. MaxCycles
      <4>1. cycle' = cycle \/ (cycle < MaxCycles /\ cycle' = cycle + 1)
        BY <2>3 DEF Begin
      <4> QED BY <4>1 DEF TypeOK
    <3> QED BY <1>1, <2>3, <3>2, <3>3 DEF Begin, TypeOK, JobRow
  <2>4. CASE Complete
    BY <2>4 DEF Complete, TypeOK, JobInv
  <2> QED BY <1>2, <2>1, <2>2, <2>3, <2>4 DEF Operator
<1>3. ASSUME NEW i \in Items, (\E p \in Procs : Write(p, i)) \/ Purge(i)
      PROVE  TypeOK' /\ JobInv'
  <2>1. \A p \in Procs : mount[p].active \in 0 .. MaxKey
    BY <1>1 DEF Pairs, Keys
  <2>2. item' \in [Items -> ItemRow]
    <3>1. ASSUME NEW p \in Procs, Write(p, i)
          PROVE  item' \in [Items -> ItemRow]
      <4>1. Stale(p) \in BOOLEAN
        BY DEF Stale
      <4> QED BY <1>1, <2>1, <3>1, <4>1 DEF Write, ItemRow
    <3>2. CASE Purge(i)
      BY <1>1, <3>2 DEF Purge, ItemRow, Unsealed
    <3> QED BY <1>3, <3>1, <3>2
  <2> QED BY <1>3, <2>2 DEF Write, Purge, TypeOK, ItemRow, JobInv
<1>4. ASSUME NEW p \in Procs, CommitPass(p)
      PROVE  TypeOK' /\ JobInv'
  <2>1. item' \in [Items -> ItemRow]
    <3> DEFINE label == IF domain = "KEK" THEN pass[p].pair.active ELSE mount[p].active
    <3>1. mount[p].active \in 0 .. MaxKey /\ label \in 0 .. MaxKey
      BY <1>1 DEF Pairs, Keys, PassRow
    <3>2. item' = [i \in Items |-> IF i \notin pass[p].batch THEN item[i]
                     ELSE [item[i] EXCEPT !.key = mount[p].active, !.stale = Stale(p),
                                          !.label = label]]
      BY <1>4 DEF CommitPass, Resealed
    <3>3. Stale(p) \in BOOLEAN
      BY DEF Stale
    <3> HIDE DEF label
    <3>4. ASSUME NEW i \in Items
          PROVE  [item[i] EXCEPT !.key = mount[p].active, !.stale = Stale(p), !.label = label]
                   \in ItemRow
      BY <1>1, <3>1, <3>3 DEF ItemRow
    <3> QED BY <1>1, <3>2, <3>4
  <2>2. job' \in [Jobs -> JobRow] /\ JobInv'
    <3>1. CASE Full(p)
      BY <1>4, <3>1, EnqueuedTyped DEF CommitPass
    <3>2. CASE ~Full(p)
      BY <1>1, <1>4, <3>2 DEF CommitPass, JobInv
    <3> QED BY <3>1, <3>2
  <2>3. pass' \in [Procs -> PassRow] /\ UNCHANGED <<domain, manifest, mount, cycle, drains, faults>>
    BY <1>1, <1>4, OverTyped DEF CommitPass
  <2>4. window' \in [phase : {"NONE", "REWRAPPING", "COMPLETE"}, pair : Pairs]
    BY <1>1, <1>4 DEF CommitPass
  <2> QED BY <2>1, <2>2, <2>3, <2>4 DEF TypeOK, ItemRow, JobRow, PassRow
<1>5. ASSUME UNCHANGED <<domain, manifest, window, cycle, item>>, drains' \in BOOLEAN, mount' \in [Procs -> Pairs],
             job' \in [Jobs -> JobRow], JobInv', pass' \in [Procs -> PassRow],
             faults' \in 0 .. MaxFaults
      PROVE  TypeOK' /\ JobInv'
  BY <1>5 DEF TypeOK, JobRow, PassRow
<1>6. drains \in BOOLEAN
  BY DEF TypeOK
<1>7. ASSUME NEW p \in Procs, Restart(p)
      PROVE  TypeOK' /\ JobInv'
  BY <1>1, <1>5, <1>6, <1>7, IdleTyped DEF Restart, JobInv
<1>8. ASSUME NEW p \in Procs, ReadWindow(p)
      PROVE  TypeOK' /\ JobInv'
  <2>1. pass' \in [Procs -> PassRow]
    <3>1. CASE window.phase = "COMPLETE"
      BY <1>1, <1>8, <3>1, OverTyped DEF ReadWindow
    <3>2. CASE window.phase # "COMPLETE"
      <4>1. PICK batch \in SUBSET Remaining(item, window.pair) :
              pass' = [pass EXCEPT ![p].step = "READ", ![p].pair = window.pair, ![p].batch = batch]
        BY <1>8, <3>2 DEF ReadWindow
      <4>2. batch \in SUBSET Items
        BY DEF Remaining
      <4> DEFINE row == [pass[p] EXCEPT !.step = "READ", !.pair = window.pair, !.batch = batch]
      <4>3. row \in PassRow
        BY <1>1, <4>2 DEF PassRow
      <4>4. pass' = [pass EXCEPT ![p] = row]
        BY <1>1, <4>1
      <4> HIDE DEF row
      <4> QED BY <1>1, <4>3, <4>4
    <3> QED BY <3>1, <3>2
  <2> QED BY <1>1, <1>5, <1>6, <1>8, <2>1 DEF ReadWindow, JobInv
<1>9. ASSUME NEW p \in Procs, RollbackPass(p)
      PROVE  TypeOK' /\ JobInv'
  BY <1>1, <1>5, <1>6, <1>9, OverTyped DEF RollbackPass, JobInv
<1>10. ASSUME NEW j \in Jobs, NEW to \in {"SUCCEEDED", AfterLoss(job[j].attempts)},
             job' = [job EXCEPT ![j].status = to]
      PROVE  job' \in [Jobs -> JobRow] /\ JobInv'
  BY <1>1, <1>10 DEF JobInv, JobRow, AfterLoss
<1>11. ASSUME NEW p \in Procs, Return(p)
       PROVE  TypeOK' /\ JobInv'
  <2>1. pass' \in [Procs -> PassRow] /\ pass[p].job \in Jobs
    BY <1>1, <1>11, IdleTyped DEF Return, PassRow
  <2>2. job' \in [Jobs -> JobRow] /\ JobInv'
    <3>1. CASE job' = job
      BY <1>1, <3>1 DEF JobInv
    <3>2. CASE job' # job
      BY <1>10, <1>11, <2>1, <3>2 DEF Return
    <3> QED BY <3>1, <3>2
  <2> QED BY <1>1, <1>5, <1>6, <1>11, <2>1, <2>2 DEF Return
<1>12. ASSUME NEW p \in Procs, NEW j \in Jobs, Claim(p, j)
       PROVE  TypeOK' /\ JobInv'
  <2>1. job[j].attempts + 1 \in 0 .. MaxAttempts
    BY <1>1, <1>12 DEF Claim, JobInv, JobRow
  <2>2. job' \in [Jobs -> JobRow] /\ JobInv'
    BY <1>1, <1>12, <2>1 DEF Claim, JobRow, JobInv
  <2> DEFINE row == [Idle EXCEPT !.step = "CLAIMED", !.job = j, !.attempt = job[j].attempts + 1]
  <2>3. row \in PassRow
    BY <2>1, IdleTyped DEF PassRow
  <2>4. pass' = [pass EXCEPT ![p] = row]
    BY <1>12 DEF Claim
  <2> HIDE DEF row
  <2>5. pass' \in [Procs -> PassRow]
    BY <1>1, <2>3, <2>4
  <2> QED BY <1>1, <1>5, <1>6, <1>12, <2>2, <2>5 DEF Claim
<1>13. ASSUME NEW j \in Jobs, Reclaim(j)
       PROVE  TypeOK' /\ JobInv'
  <2>1. job' \in [Jobs -> JobRow] /\ JobInv'
    BY <1>10, <1>13 DEF Reclaim
  <2> QED BY <1>1, <1>5, <1>6, <1>13, <2>1 DEF Reclaim
<1>14. CASE UNCHANGED vars
  <2>1. UNCHANGED <<domain, manifest, mount, window, cycle, item, job, pass, drains, faults>>
    BY <1>14 DEF vars
  <2>2. TypeOK'
    BY <2>1 DEF TypeOK, Jobs, Keys, Pairs
  <2>3. JobInv'
    BY <2>1 DEF JobInv
  <2> QED BY <2>2, <2>3
<1>15. CASE SetOutbox
  BY <1>1, <1>5, <1>6, <1>15 DEF SetOutbox, JobInv
<1> QED BY <1>2, <1>3, <1>4, <1>7, <1>8, <1>9, <1>11, <1>12, <1>13, <1>14, <1>15
        DEF Next, PassStep

-----------------------------------------------------------------------------
(* Keys.                                                                   *)

\* Nothing happens to jobs and passes before the first window is opened, and
\* no window is taken back.
LEMMA StartInd ==
    ASSUME TypeOK, StartInv, [Next]_vars
    PROVE  StartInv'
<1>1. job \in [Jobs -> JobRow] /\ pass \in [Procs -> PassRow]
  BY Typed
<1>2. CASE window.phase # "NONE"
  <2>1. \/ window' = window \/ window' = [window EXCEPT !.phase = "COMPLETE"]
        \/ window' = [phase |-> "REWRAPPING", pair |-> manifest]
    BY DEF Next, Operator, StageKey, RetireKey, Begin, Complete, SetOutbox, Restart, PassStep,
       ReadWindow, CommitPass, RollbackPass, Return, Write, Purge, Claim, Reclaim, vars
  <2>2. window'.phase # "NONE"
    BY <1>2, <2>1, Typed
  <2> QED BY <2>2 DEF StartInv
<1>3. CASE window.phase = "NONE"
  <2>1. /\ \A j \in Jobs : job[j].status = "NONE"
        /\ \A p \in Procs : pass[p].step = "IDLE"
    BY <1>3 DEF StartInv
  <2>2. ASSUME NEW p \in Procs, PassStep(p) \/ \E j \in Jobs : Claim(p, j)
        PROVE  FALSE
    BY <2>1, <2>2 DEF PassStep, ReadWindow, CommitPass, RollbackPass, Return, Claim
  <2>3. ASSUME NEW j \in Jobs, Reclaim(j)
        PROVE  FALSE
    BY <2>1, <2>3 DEF Reclaim
  <2>4. CASE Begin
    BY <2>4 DEF Begin, StartInv
  <2>5. CASE StageKey \/ RetireKey \/ Complete \/ SetOutbox \/ UNCHANGED vars
    BY <1>3, <2>1, <2>5 DEF StageKey, RetireKey, Complete, SetOutbox, vars, StartInv
  <2>6. ASSUME NEW p \in Procs, Restart(p)
        PROVE  StartInv'
    BY <1>1, <2>1, <2>6 DEF Restart, Idle, StartInv
  <2>7. ASSUME NEW i \in Items, (\E p \in Procs : Write(p, i)) \/ Purge(i)
        PROVE  StartInv'
    BY <2>1, <2>7 DEF Write, Purge, StartInv
  <2> QED BY <2>2, <2>3, <2>4, <2>5, <2>6, <2>7 DEF Next, Operator
<1> QED BY <1>2, <1>3

\* Steps that touch neither items nor keys and leave every pass with a pair.
LEMMA KeysAlone ==
    ASSUME IInv, UNCHANGED <<manifest, window, item>>,
           \A p \in Procs : Adjacent(pass'[p].pair)
    PROVE  KeyInv'
<1>1. Fresh' = Fresh
  BY DEF Fresh, Live
<1> QED BY <1>1 DEF IInv, KeyInv, Settled, Opened, Adjacent

\* No process mounts a key, and no pass reads a window.
LEMMA MountsAlone ==
    ASSUME IInv, manifest.active <= manifest'.active, manifest'.active \in Nat,
           UNCHANGED mount,
           \A p \in Procs : pass'[p].step = "READ" => pass'[p] = pass[p]
    PROVE  MountInv'
<1>1. manifest.active \in Nat /\ \A p \in Procs : mount[p].active \in Nat
  BY Typed DEF IInv, Pairs, Keys
<1> QED BY <1>1 DEF IInv, MountInv

LEMMA StageKeyInd ==
    ASSUME IInv, StageKey
    PROVE  KeyInv' /\ MountInv'
<1>1. manifest \in Pairs /\ window.pair \in Pairs
  BY Typed DEF IInv
<1>2. /\ manifest.active \in Nat /\ window.pair.active \in Nat
      /\ \A i \in Live : item[i].label \in Nat
  BY <1>1, Typed DEF IInv, Pairs, Keys, Live, ItemRow
<1>3. /\ manifest' = [active |-> manifest.active + 1, previous |-> manifest.active]
      /\ UNCHANGED <<mount, window, item, pass>>
      /\ window.phase # "REWRAPPING" /\ manifest.previous = 0
  BY DEF StageKey
<1>4. manifest.active = window.pair.active
  <2>1. manifest.active = window.pair.active + 1 => window.pair.active = 0
    BY <1>3 DEF IInv, KeyInv, Settled
  <2>2. window.pair.active # 0
    BY <1>1 DEF Pairs, Keys
  <2> QED BY <1>3, <2>1, <2>2 DEF IInv, KeyInv, Settled
<1>5. Fresh' = Fresh
  BY <1>3 DEF Fresh, Live
<1>6. Settled'
  BY <1>2, <1>3, <1>4, <1>5 DEF IInv, KeyInv, Settled, Fresh
<1>7. MountInv'
  BY <1>2, <1>3, MountsAlone
<1> QED BY <1>3, <1>5, <1>6, <1>7 DEF IInv, KeyInv, Adjacent

\* The old key goes when the window that left it is closed.
LEMMA RetireKeyInd ==
    ASSUME IInv, RetireKey
    PROVE  KeyInv' /\ MountInv'
<1>1. manifest \in Pairs
  BY Typed DEF IInv
<1>2. /\ manifest' = [manifest EXCEPT !.previous = 0] /\ window.phase = "COMPLETE"
      /\ window.pair = manifest /\ UNCHANGED <<mount, window, item, pass>>
  BY DEF RetireKey
<1>3. manifest'.active = manifest.active /\ manifest'.previous = 0 /\ manifest.active \in Nat
  BY <1>1, <1>2 DEF Pairs, Keys
<1>4. Fresh' = Fresh
  BY <1>2 DEF Fresh, Live
<1>5. MountInv'
  BY <1>2, <1>3, MountsAlone
<1> QED BY <1>2, <1>3, <1>4, <1>5 DEF IInv, KeyInv, Settled, Adjacent

LEMMA RestartInd ==
    ASSUME IInv, NEW p \in Procs, Restart(p)
    PROVE  KeyInv' /\ MountInv'
<1>1. UNCHANGED <<manifest, window, item>> /\ manifest.active \in Nat
  BY Typed DEF IInv, Restart, Pairs, Keys
<1>2. /\ \A q \in Procs : q # p => mount'[q] = mount[q] /\ pass'[q] = pass[q]
      /\ mount'[p] = manifest /\ pass'[p] = Idle
  BY Typed DEF IInv, Restart
<1>3. \A q \in Procs : Adjacent(pass'[q].pair)
  BY <1>2, IdleTyped DEF IInv, KeyInv
<1>4. MountInv'
  BY <1>1, <1>2 DEF IInv, MountInv, Idle
<1> QED BY <1>1, <1>3, <1>4, KeysAlone

\* What is written fresh is sealed under the manifest's active key.
LEMMA ItemInd ==
    ASSUME IInv, NEW i \in Items, (\E p \in Procs : Write(p, i)) \/ Purge(i)
    PROVE  KeyInv' /\ MountInv'
<1>1. UNCHANGED <<manifest, mount, window, pass>> /\ manifest.active \in Nat
  BY Typed DEF IInv, Write, Purge, Pairs, Keys
<1>2. ASSUME NEW k \in Fresh'
      PROVE  \/ k \in Fresh /\ item'[k] = item[k]
             \/ item'[k].key = manifest.active /\ item'[k].label = manifest.active
  <2>1. k \in Items /\ item'[k].state = "LIVE" /\ ~item'[k].stale /\ item \in [Items -> ItemRow]
    BY <1>2, Typed DEF IInv, Fresh, Live
  <2>2. CASE k # i
    BY <2>1, <2>2 DEF Write, Purge, Fresh, Live
  <2>3. CASE k = i
    <3>1. PICK p \in Procs : Write(p, i)
      BY <2>1, <2>3 DEF Purge, Unsealed
    <3>2. item'[k] = [state |-> "LIVE", label |-> mount[p].active, key |-> mount[p].active,
                      stale |-> Stale(p)]
      BY <2>1, <2>3, <3>1 DEF Write
    <3>3. ~Stale(p) /\ item'[k].key = mount[p].active /\ item'[k].label = mount[p].active
      BY <2>1, <3>2
    <3> QED BY <3>3 DEF Stale
  <2> QED BY <2>2, <2>3
<1>3. Settled => Settled'
  BY <1>1, <1>2, WindowBehind, Typed DEF Settled, IInv, Pairs, Keys
<1>4. Opened => Opened'
  BY <1>1, <1>2 DEF Opened
<1>5. MountInv'
  BY <1>1, MountsAlone
<1> QED BY <1>1, <1>2, <1>3, <1>4, <1>5 DEF IInv, KeyInv, Adjacent

\* Begin: what is fresh is under one of the manifest's keys.
LEMMA BeginInd ==
    ASSUME IInv, Begin
    PROVE  KeyInv' /\ MountInv'
<1>1. /\ manifest.previous # 0 /\ window' = [phase |-> "REWRAPPING", pair |-> manifest]
      /\ UNCHANGED <<manifest, mount, item, pass>> /\ manifest.active \in Nat
  BY Typed DEF Begin, IInv, Pairs, Keys
<1>2. \A i \in Fresh : item[i].label \in {manifest.active, manifest.previous}
  <2>1. CASE window.phase = "REWRAPPING"
    BY <2>1 DEF IInv, KeyInv, Opened
  <2>2. CASE window.phase # "REWRAPPING"
    <3>1. /\ manifest.active \in Nat /\ manifest.previous \in Nat /\ window.pair.active \in Nat
          /\ \A i \in Fresh : item[i].label \in Nat
      BY Typed DEF IInv, Pairs, Keys, Fresh, Live, ItemRow
    <3> QED BY <1>1, <2>2, <3>1 DEF IInv, KeyInv, Settled, Adjacent
  <2> QED BY <2>1, <2>2
<1>3. Fresh' = Fresh
  BY <1>1 DEF Fresh, Live
<1>4. MountInv'
  BY <1>1, MountsAlone
<1> QED BY <1>1, <1>2, <1>3, <1>4 DEF IInv, KeyInv, Opened, Adjacent

\* A window is closed when nothing is left; closed again, it stays as it was.
LEMMA CloseInd ==
    ASSUME IInv, UNCHANGED manifest,
           window' = [window EXCEPT !.phase = "COMPLETE"],
           \A p \in Procs : Adjacent(pass'[p].pair),
           \A i \in Fresh' :
              \/ item'[i].key = manifest.active /\ item'[i].label = manifest.active
              \/ i \in Fresh /\ item'[i] = item[i],
           window.phase = "REWRAPPING" => Remaining(item', window.pair) = {}
    PROVE  KeyInv'
<1>1. /\ window'.phase = "COMPLETE" /\ window'.pair = window.pair
      /\ window.pair.active \in Nat /\ manifest.active \in Nat
  BY Typed DEF IInv, Pairs, Keys
<1>2. \A i \in Fresh' : item'[i].key = item'[i].label
  BY DEF IInv, KeyInv
<1>3. CASE window.phase = "REWRAPPING"
  <2>1. Opened
    BY <1>3 DEF IInv, KeyInv
  <2>2. \A i \in Fresh' : item'[i].label = window.pair.active
    <3> TAKE i \in Fresh'
    <3>1. item'[i].label # window.pair.previous
      BY <1>3 DEF Remaining, Fresh, Live
    <3> QED BY <2>1, <3>1 DEF Opened
  <2>3. Settled'
    BY <1>1, <2>1, <2>2 DEF Opened, Settled
  <2> QED BY <1>1, <1>2, <2>3 DEF IInv, KeyInv, Adjacent
<1>4. CASE window.phase # "REWRAPPING"
  <2>1. Settled'
    BY <1>1, <1>4, WindowBehind DEF IInv, KeyInv, Settled
  <2> QED BY <1>1, <1>2, <2>1 DEF IInv, KeyInv, Adjacent
<1> QED BY <1>3, <1>4

\* Coordinator.Complete.
LEMMA CompleteInd ==
    ASSUME IInv, Complete
    PROVE  KeyInv' /\ MountInv'
<1>1. /\ window' = [window EXCEPT !.phase = "COMPLETE"] /\ Remaining(item, window.pair) = {}
      /\ UNCHANGED <<manifest, mount, item, pass>> /\ Fresh' = Fresh /\ manifest.active \in Nat
  BY Typed DEF Complete, MayComplete, Fresh, Live, IInv, Pairs, Keys
<1>2. KeyInv'
  BY <1>1, CloseInd DEF IInv, KeyInv, Remaining
<1>3. MountInv'
  BY <1>1, MountsAlone
<1> QED BY <1>2, <1>3

\* The steps of a pass but its commit.
LEMMA PassInd ==
    ASSUME IInv, NEW p \in Procs, NEW j \in Jobs,
           Claim(p, j) \/ ReadWindow(p) \/ RollbackPass(p) \/ Return(p)
    PROVE  KeyInv' /\ MountInv'
<1>1. /\ UNCHANGED <<manifest, mount, window, item>> /\ pass \in [Procs -> PassRow]
      /\ manifest.active \in Nat
  BY Typed DEF IInv, Claim, ReadWindow, RollbackPass, Return, Pairs, Keys
<1>2. \A q \in Procs : q # p => pass'[q] = pass[q]
  BY <1>1 DEF Claim, ReadWindow, RollbackPass, Return
<1>3. CASE Claim(p, j) \/ Return(p)
  <2>1. pass'[p].pair = Idle.pair /\ pass'[p].step # "READ"
    <3> DEFINE row == [Idle EXCEPT !.step = "CLAIMED", !.job = j,
                                   !.attempt = job[j].attempts + 1]
    <3>1. pass' = [pass EXCEPT ![p] = Idle] \/ pass' = [pass EXCEPT ![p] = row]
      BY <1>3 DEF Claim, Return
    <3>2. /\ row.pair = Idle.pair /\ row.step = "CLAIMED"
          /\ Idle.step = "IDLE"
      BY DEF Idle
    <3> HIDE DEF row
    <3> QED BY <1>1, <3>1, <3>2
  <2>2. \A q \in Procs : Adjacent(pass'[q].pair)
    BY <1>2, <2>1, IdleTyped DEF IInv, KeyInv
  <2> QED BY <1>1, <1>2, <2>1, <2>2, KeysAlone, MountsAlone
<1>4. CASE RollbackPass(p) \/ (ReadWindow(p) /\ window.phase = "COMPLETE")
  <2>1. Adjacent(pass'[p].pair) /\ pass'[p].step # "READ"
    <3>1. \E s \in {"DONE", "FAILED"} : pass' = [pass EXCEPT ![p] = Over(p, s)]
      BY <1>4 DEF RollbackPass, ReadWindow
    <3> QED BY <1>1, <3>1, OverTyped DEF IInv
  <2>2. \A q \in Procs : Adjacent(pass'[q].pair)
    BY <1>2, <2>1 DEF IInv, KeyInv
  <2> QED BY <1>1, <1>2, <2>1, <2>2, KeysAlone, MountsAlone
<1>5. CASE ReadWindow(p) /\ window.phase # "COMPLETE"
  <2>1. pass'[p].pair = window.pair /\ pass[p].step = "CLAIMED"
    BY <1>1, <1>5 DEF ReadWindow, PassRow
  <2>2. window.phase = "REWRAPPING"
    BY <1>5, <2>1, Typed DEF IInv, StartInv
  <2>3. window.pair = manifest
    BY <2>2 DEF IInv, KeyInv, Opened
  <2>4. KeyInv'
    <3>1. \A q \in Procs : Adjacent(pass'[q].pair)
      BY <1>2, <2>1 DEF IInv, KeyInv
    <3> QED BY <1>1, <3>1, KeysAlone
  <2>5. MountInv'
    BY <1>1, <1>2, <2>1, <2>3 DEF IInv, MountInv
  <2> QED BY <2>4, <2>5
<1> QED BY <1>3, <1>4, <1>5

\* The commit of a pass. What it seals fresh, it seals under the manifest's
\* active key, and labels so: it is not ahead of the window it read, nor that
\* window of the manifest. And the pass that closes a window has counted.
LEMMA CommitPassInd ==
    ASSUME IInv, NEW p \in Procs, CommitPass(p)
    PROVE  KeyInv' /\ MountInv'
<1>1. /\ item \in [Items -> ItemRow] /\ pass \in [Procs -> PassRow] /\ pass[p] \in PassRow
      /\ window.pair.active \in Nat /\ manifest.active \in Nat /\ mount[p].active \in 0 .. MaxKey
      /\ pass[p].pair.active \in 0 .. MaxKey
      /\ window \in [phase : {"NONE", "REWRAPPING", "COMPLETE"}, pair : Pairs]
  BY Typed DEF IInv, PassRow, Pairs, Keys
<1>2. /\ MayCommit(p) /\ item' = Resealed(p) /\ pass[p].step = "READ"
      /\ UNCHANGED <<domain, manifest, mount>>
      /\ pass' = [pass EXCEPT ![p] = Over(p, "DONE")]
  BY DEF CommitPass
<1>3. /\ \A q \in Procs : Adjacent(pass'[q].pair)
      /\ \A q \in Procs : pass'[q].step = "READ" => pass'[q] = pass[q]
  <2>1. \A q \in Procs : q # p => pass'[q] = pass[q]
    BY <1>1, <1>2
  <2>2. pass'[p] = Over(p, "DONE")
    BY <1>1, <1>2
  <2>3. TypeOK
    BY DEF IInv
  <2> QED BY <2>1, <2>2, <2>3, OverTyped DEF IInv, KeyInv
<1>4. pass[p].batch # {} /\ ~Stale(p) =>
        /\ mount[p].active = manifest.active
        /\ domain = "KEK" => pass[p].pair.active = manifest.active
  <2> SUFFICES ASSUME pass[p].batch # {}, ~Stale(p)
               PROVE  /\ mount[p].active = manifest.active
                      /\ domain = "KEK" => pass[p].pair.active = manifest.active
    OBVIOUS
  <2>1. MayRewrite(p)
    BY <1>2 DEF MayCommit
  <2>2. mount[p].active = manifest.active
    BY DEF Stale
  <2>3. ASSUME domain = "KEK"
        PROVE  pass[p].pair.active = manifest.active
    <3>1. window.pair = pass[p].pair
      BY <2>1, <2>3 DEF MayRewrite
    <3>2. mount[p].active <= pass[p].pair.active
      BY <1>2 DEF IInv, MountInv
    <3> QED BY <1>1, <2>2, <3>1, <3>2, WindowBehind
  <2> QED BY <2>2, <2>3
<1>5. \A i \in Fresh' :
        \/ item'[i].key = manifest.active /\ item'[i].label = manifest.active
        \/ i \in Fresh /\ item'[i] = item[i]
  <2> TAKE i \in Fresh'
  <2>1. CASE i \notin pass[p].batch
    <3>1. i \in Items /\ item'[i] = item[i]
      BY <1>1, <1>2, <2>1 DEF Resealed, Fresh, Live
    <3> QED BY <3>1 DEF Fresh, Live
  <2>2. CASE i \in pass[p].batch
    <3> DEFINE label == IF domain = "KEK" THEN pass[p].pair.active ELSE mount[p].active
    <3>1. /\ i \in Items
          /\ item'[i] = [item[i] EXCEPT !.key = mount[p].active, !.stale = Stale(p), !.label = label]
      BY <1>2, <2>2 DEF Resealed, Fresh, Live
    <3>2. item[i] \in ItemRow
      BY <1>1, <3>1
    <3> HIDE DEF label
    <3>3. item'[i].stale = Stale(p) /\ item'[i].key = mount[p].active /\ item'[i].label = label
      BY <3>1, <3>2 DEF ItemRow
    <3>4. ~Stale(p)
      BY <3>3 DEF Fresh
    <3> QED BY <1>4, <2>2, <3>3, <3>4 DEF label
  <2> QED BY <2>1, <2>2
<1>6. MountInv'
  BY <1>1, <1>2, <1>3, MountsAlone
<1>7. CASE Full(p)
  <2>1. window' = window
    BY <1>7 DEF CommitPass
  <2>2. Settled => Settled'
    BY <1>1, <1>2, <1>5, <2>1, WindowBehind DEF Settled
  <2>3. Opened => Opened'
    BY <1>2, <1>5, <2>1 DEF Opened
  <2>4. \A i \in Fresh' : item'[i].key = item'[i].label
    BY <1>5 DEF IInv, KeyInv
  <2> QED BY <1>2, <1>3, <1>6, <2>1, <2>2, <2>3, <2>4 DEF IInv, KeyInv, Adjacent
<1>8. CASE ~Full(p)
  <2>1. window' = [window EXCEPT !.phase = "COMPLETE"]
    BY <1>8 DEF CommitPass
  <2>2. window.phase = "REWRAPPING" => Remaining(item', window.pair) = {}
    <3>1. MayComplete(item', pass[p].pair)
      BY <1>2, <1>8 DEF MayCommit
    <3>2. pass[p].pair.previous = window.pair.previous
      BY <3>1, SamePrevious DEF MayComplete
    <3> QED BY <3>1, <3>2 DEF MayComplete, Remaining
  <2> QED BY <1>2, <1>3, <1>5, <1>6, <2>1, <2>2, CloseInd
<1> QED BY <1>7, <1>8

-----------------------------------------------------------------------------
(* The invariant, and what it gives.                                       *)

LEMMA InitInv ==
    Init => IInv
<1> SUFFICES ASSUME Init PROVE IInv
  OBVIOUS
<1>1. FirstPair \in Pairs /\ FirstPair.active = 1 /\ FirstPair.previous = 0
  BY FirstPairTyped DEF FirstPair
<1>2. TypeOK
  <2>1. pass \in [Procs -> PassRow]
    BY IdleTyped DEF Init
  <2>2. item \in [Items -> ItemRow] /\ job \in [Jobs -> JobRow]
    BY RotationAssumption DEF Init, ItemRow, Unsealed, JobRow
  <2>3. window \in [phase : {"NONE", "REWRAPPING", "COMPLETE"}, pair : Pairs]
    BY <1>1 DEF Init
  <2> QED BY <1>1, <2>1, <2>2, <2>3, RotationAssumption DEF Init, TypeOK, ItemRow, JobRow, PassRow
<1>3. Fresh = {}
  BY DEF Init, Fresh, Live, Unsealed
<1>4. window.pair = FirstPair /\ window.phase = "NONE" /\ manifest = FirstPair
  BY DEF Init
<1>5. \A p \in Procs : mount[p] = FirstPair /\ pass[p] = Idle
  BY DEF Init
<1>6. KeyInv /\ MountInv
  BY <1>1, <1>3, <1>4, <1>5, FirstPairTyped, IdleTyped DEF KeyInv, Settled, MountInv, Idle
<1>7. JobInv /\ StartInv
  BY <1>5 DEF Init, JobInv, StartInv, Idle
<1> QED BY <1>2, <1>6, <1>7 DEF IInv

LEMMA NextInv ==
    ASSUME IInv, [Next]_vars
    PROVE  IInv'
<1>1. TypeOK' /\ JobInv' /\ StartInv'
  BY TypeNext, StartInd DEF IInv
<1> SUFFICES KeyInv' /\ MountInv'
  BY <1>1 DEF IInv
<1>2. CASE Operator
  BY <1>2, StageKeyInd, RetireKeyInd, BeginInd, CompleteInd DEF Operator
<1>3. ASSUME NEW p \in Procs, Restart(p) \/ CommitPass(p)
      PROVE  KeyInv' /\ MountInv'
  BY <1>3, RestartInd, CommitPassInd
<1>4. ASSUME NEW p \in Procs, ReadWindow(p) \/ RollbackPass(p) \/ Return(p)
      PROVE  KeyInv' /\ MountInv'
  <2>1. 0 \in Jobs
    BY RotationAssumption DEF Jobs
  <2> QED BY <1>4, <2>1, PassInd
<1>5. ASSUME NEW i \in Items, (\E p \in Procs : Write(p, i)) \/ Purge(i)
      PROVE  KeyInv' /\ MountInv'
  BY <1>5, ItemInd
<1>6. ASSUME NEW p \in Procs, NEW j \in Jobs, Claim(p, j)
      PROVE  KeyInv' /\ MountInv'
  BY <1>6, PassInd
<1>7. CASE SetOutbox \/ (\E j \in Jobs : Reclaim(j)) \/ UNCHANGED vars
  <2>1. UNCHANGED <<manifest, mount, window, item, pass>>
    BY <1>7 DEF SetOutbox, Reclaim, vars
  <2>2. manifest.active \in Nat
    BY Typed DEF IInv, Pairs, Keys
  <2> QED BY <2>1, <2>2, KeysAlone, MountsAlone DEF IInv, KeyInv
<1> QED BY <1>2, <1>3, <1>4, <1>5, <1>6, <1>7 DEF Next, PassStep

\* Every state a rotation can reach, however late its processes restart.
THEOREM Invariance == Spec => []IInv
<1>1. Init => IInv
  BY InitInv
<1>2. IInv /\ [Next]_vars => IInv'
  BY NextInv
<1> QED BY <1>1, <1>2, PTL DEF Spec

\* The rows of the rotation; no rotation job is claimed past its budget.
THEOREM TypeCorrect == Spec => []TypeOK
<1>1. IInv => TypeOK
  BY DEF IInv
<1> QED BY Invariance, <1>1, PTL

\* No artifact and no digest is lost but what a stale process sealed: passes,
\* windows and retired keys lose nothing that was sealed under the active key.
THEOREM LostByStale == Spec => []LostOnlyByStale
<1>1. ASSUME IInv
      PROVE  LostOnlyByStale
  <2>1. ASSUME NEW i \in Fresh
        PROVE  Openable(i)
    <3>1. CASE window.phase = "REWRAPPING"
      BY <1>1, <2>1, <3>1 DEF IInv, KeyInv, Opened, Openable
    <3>2. CASE window.phase # "REWRAPPING"
      <4>1. /\ manifest.active \in Nat /\ window.pair.active \in Nat
            /\ \A k \in Fresh : item[k].label \in Nat
        BY <1>1, Typed DEF IInv, Pairs, Keys, Fresh, Live, ItemRow
      <4> QED BY <1>1, <2>1, <3>2, <4>1 DEF IInv, KeyInv, Settled, Openable
    <3> QED BY <3>1, <3>2
  <2> QED BY <2>1 DEF LostOnlyByStale, Fresh
<1> QED BY Invariance, <1>1, PTL
=============================================================================
